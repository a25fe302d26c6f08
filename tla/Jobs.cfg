SPECIFICATION JobsSpec
CONSTANTS
    i1 = i1
    i2 = i2
    t1 = t1
    Instance <- TwoInstances
    Task <- OneTask
    InstOf <- InstanceOne
    IdOf <- OwnId
    Id <- OneTask
    Expirable <- NoTasks
    Request = {r1}
    JobKind = {"Fetch", "Terminal"}
    MaxRetries = 1
    Capacity = 1
    MaxSessions = 1
    MaySignal = TRUE
    MayCount = FALSE
    MayCollect = FALSE
    NoTask = NoTask
    NoId = NoId
    NoToken = NoToken
    NoJob = NoJob
INVARIANTS
    JobsTypeOK
    WorkingJobsAreRouted
    EndedTasksAreNotRouted
CHECK_DEADLOCK FALSE
