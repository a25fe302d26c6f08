SPECIFICATION FairSpec
CONSTANTS
    i1 = i1
    Instance <- OneInstance
    Task = {t1}
    InstOf <- OneInstOf
    IdOf <- OwnId
    Id = {t1}
    Expirable <- AllTasks
    Request = {}
    Capacity = 1
    MaxSessions = 1
    MaySignal = TRUE
    MayCount = TRUE
    MayCollect = TRUE
    NoTask = NoTask
    NoId = NoId
    NoToken = NoToken
PROPERTIES
    StuckPendingReclaimed
CHECK_DEADLOCK FALSE
