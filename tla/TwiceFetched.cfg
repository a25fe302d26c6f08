SPECIFICATION JobsSpec
CONSTANTS
    i1 = i1
    i2 = i2
    t1 = t1
    Instance <- OneInstance
    Task <- OneTask
    InstOf <- InstanceOne
    IdOf <- OwnId
    Id <- OneTask
    Expirable <- NoTasks
    Request = {r1}
    JobKind = {"Fetch"}
    MaxRetries = 1
    Capacity = 1
    MaxSessions = 1
    MaySignal = FALSE
    MayCount = TRUE
    MayCollect = FALSE
    NoTask = NoTask
    NoId = NoId
    NoToken = NoToken
    NoJob = NoJob
INVARIANTS
    TaskRunsOnce
CHECK_DEADLOCK FALSE
