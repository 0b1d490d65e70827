SPECIFICATION FairSpec
CONSTANTS
    Threads = {t1, t2}
    Drivers = {d1}
    NoOne = NoOne
    Calls = {"init", "deinit_any_time", "reserve", "release"}
    ReservedBefore = {FALSE}
    SemMax = 1
PROPERTIES
    DeinitReturns
CHECK_DEADLOCK FALSE
