SPECIFICATION FairSpec
CONSTANTS
    Client = {c1}
    Token = {t1}
    Mode = {m1}
    Stage <- TwoStages
    LastStage = 2
    Retriable <- NoStage
    MaxAttempts = 2
    FinishMaxAttempts = 1
    Participants = {c1}
    PartyUpdates = {TRUE}
    MaxLate = 1
    InOrder = FALSE
    MaxStageAttempt = 1
    MaxTriggers = 0
INVARIANTS
    FinishClosesPipeline
    FinishStoresFinalStatus
PROPERTIES
    TerminatedConcludes
