SPECIFICATION StartupFairSpec
CONSTANTS
    u1 = u1
    u2 = u2
    Last = 2
    MaxRunners = 3
    Client <- TwoInstances
    Url <- TwoUrls
    UrlOf <- OwnUrl
    Identity <- Numbers
    NoIdentity = 0
    Unlocked = Unlocked
INVARIANTS
    StartupTypeOK
    OrphansExplained
    TasksOnlyWhenReady
PROPERTIES
    StoreSpec
    IdentitySpecs
    SaveReturns
