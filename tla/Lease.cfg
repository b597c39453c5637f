SPECIFICATION FairSpec
CONSTANTS
    Server = {s1, s2}
    NoServer = NoServer
    Surviving = {s2}
    MaxBatch = 2
    StoreAttempts = 2
    LostReplies = TRUE
    Corruptible = TRUE
    MaxJournal = 2
    MaxFaults = 3
INVARIANTS
    TypeOK
    OneHistory
    HolderIsCurrent
    OneTaskPerServer
    FinishIsFinal
PROPERTIES
    ProjectionNeverRegresses
    SingleWriter
    OrphanIsAdopted
    EndedIsDeleted
