SPECIFICATION Spec
CONSTANTS
    Client = {c1}
    Token = {t1, t2}
    Mode = {m1, m2}
    Stage <- OneStage
    LastStage = 1
    Retriable <- NoStage
    MaxAttempts = 2
    FinishMaxAttempts = 2
    Participants = {c1}
    PartyUpdates = {TRUE}
    MaxLate = 1
    InOrder = TRUE
    MaxStageAttempt = 1
    MaxTriggers = 3
INVARIANTS
    TypeOK
PROPERTIES
    SettledByItsOwnAttempt
