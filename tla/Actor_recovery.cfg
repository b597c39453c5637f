SPECIFICATION FairSpec
CONSTANTS
    c1 = c1
    c2 = c2
    t1 = t1
    m1 = m1
    Client = {c1, c2}
    Token = {t1}
    Mode = {m1}
    Stage <- OneStage
    LastStage = 1
    Retriable <- NoStage
    MaxAttempts = 1
    FinishMaxAttempts = 1
    FirstCommand <- Create
    Commands <- StageCommands
    Outcomes <- SomeOutcomes
    MaxInbox = 3
    MaxFaults = 2
INVARIANTS
    TypeOK
    RedeliveryIsHarmless
    RunSeesItsStream
    WaitsPublished
PROPERTIES
    EveryMessageHandled
\* A challenge whose client stays active and silent waits forever.
CHECK_DEADLOCK FALSE
