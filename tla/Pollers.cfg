SPECIFICATION Spec
CONSTANTS
    i1 = i1
    i2 = i2
    t1 = t1
    t2 = t2
    id = id
    Instance <- TwoInstances
    Task <- TwoTasks
    InstOf <- TwoInstOf
    IdOf <- OwnId
    Id <- TwoTasks
    Expirable <- AllTasks
    Request = {}
    Capacity = 1
    MaxSessions = 1
    MaySignal = TRUE
    MayCount = TRUE
    MayCollect = TRUE
    NoTask = NoTask
    NoId = NoId
    NoToken = NoToken
INVARIANTS
    SlotConservation
    SendNeverBlocks
    TokenIndexSound
PROPERTIES
    LedgerSpec
CHECK_DEADLOCK FALSE
