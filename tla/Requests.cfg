SPECIFICATION Spec
CONSTANTS
    i1 = i1
    Instance <- OneInstance
    Task = {t1}
    InstOf <- OneInstOf
    IdOf <- OwnId
    Id = {t1}
    Expirable <- NoTasks
    Request = {r1, r2}
    Capacity = 1
    MaxSessions = 2
    MaySignal = FALSE
    MayCount = TRUE
    MayCollect = TRUE
    NoTask = NoTask
    NoId = NoId
    NoToken = NoToken
INVARIANTS
    WaiterHasWaker
    FinishedMeansReported
    NothingLeftBehind
    ExitLeavesNoTask
    OneRegistration
PROPERTIES
    RegisteredTaskStays
    AdmissionSpec
SYMMETRY RequestSymmetry
CHECK_DEADLOCK FALSE
