SPECIFICATION Spec
CONSTANTS
    i1 = i1
    i2 = i2
    t1 = t1
    t2 = t2
    id = id
    Instance <- TwoInstances
    Task <- TwoTasks
    InstOf <- TwoInstOf
    IdOf <- SharedId
    Id <- OneId
    Expirable <- NoTasks
    Request = {r1}
    Capacity = 1
    MaxSessions = 1
    MaySignal = FALSE
    MayCount = TRUE
    MayCollect = FALSE
    NoTask = NoTask
    NoId = NoId
    NoToken = NoToken
INVARIANTS
    SessionRoutesToOwner
CHECK_DEADLOCK FALSE
