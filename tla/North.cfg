SPECIFICATION NorthFairSpec
CONSTANTS
    Rpc = {c1, c2}
    Free = Free
    MaxRunners = 3
    MaySaveFail = TRUE
    MayLoseAnswer = TRUE
    MayCrash = TRUE
INVARIANTS
    NorthTypeOK
    SavedIsCurrent
PROPERTIES
    RegistersOnlyWhenNeeded
    IdentitySpec
    IdentityRecovered
