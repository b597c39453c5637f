SPECIFICATION Spec
CONSTANTS
    Client = {c1}
    Token = {t1}
    Mode = {m1}
    Stage <- TwoStages
    LastStage = 2
    Retriable <- NoStage
    MaxAttempts = 0
    FinishMaxAttempts = 1
    Participants = {c1}
    PartyUpdates = {FALSE}
    MaxLate = 1
    InOrder = FALSE
    MaxStageAttempt = 1
    MaxTriggers = 0
INVARIANTS
    SealedAtMostOnce
