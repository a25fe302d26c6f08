SPECIFICATION Spec
CONSTANTS
    i1 = i1
    Instance <- OneInstance
    Task = {t1}
    InstOf <- OneInstOf
    IdOf <- OwnId
    Id = {t1}
    Expirable <- NoTasks
    Request = {r1}
    Capacity = 1
    MaxSessions = 1
    MaySignal = FALSE
    MayCount = TRUE
    MayCollect = FALSE
    NoTask = NoTask
    NoId = NoId
    NoToken = NoToken
PROPERTIES
    TimeoutMeansUnregistered
CHECK_DEADLOCK FALSE
