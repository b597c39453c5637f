SPECIFICATION FairSpec
CONSTANTS
    Client = {c1, c2}
    Token = {t1}
    Mode = {m1}
    Stage <- ThreeStages
    LastStage = 2
    Retriable <- StageThree
    MaxAttempts = 0
    FinishMaxAttempts = 1
    Participants = {c1}
    PartyUpdates = {TRUE}
    MaxLate = 1
    InOrder = TRUE
    MaxStageAttempt = 2
    MaxTriggers = 0
INVARIANTS
    SealedAtMostOnce
    NoStageLost
    CompletionOpensWindow
    ClientNeverAhead
    NeverStranded
PROPERTIES
    NeverGoesBack
    WindowCloses
    AbandonedConcludes
