SPECIFICATION FairSpec
CONSTANTS
    Threads = {t1, t2, t3}
    Drivers = {d1, d2}
    NoOne = NoOne
    Calls = {"init", "deinit", "reserve", "release"}
    ReservedBefore = {FALSE}
    SemMax = 2
INVARIANTS
    TokensMatchDrivers
    JobSemaphores
    ReserveFindsDriver
    BlocksOnlyIfNone
PROPERTIES
    ImplementsPool
    ReserveReturns
    DeinitReturns
