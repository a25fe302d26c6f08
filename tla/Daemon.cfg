SPECIFICATION Spec
CONSTANTS
    i1 = i1
    Instance <- OneInstance
    Task = {t1}
    InstOf <- OneInstOf
    IdOf <- OwnId
    Id = {t1}
    Expirable <- AllTasks
    Request = {r1}
    Capacity = 1
    MaxSessions = 1
    MaySignal = TRUE
    MayCount = TRUE
    MayCollect = TRUE
    NoTask = NoTask
    NoId = NoId
    NoToken = NoToken
INVARIANTS
    TypeOK
    SlotConservation
    TokenIndexSound
    WaiterHasWaker
    DrainSound
CHECK_DEADLOCK FALSE
