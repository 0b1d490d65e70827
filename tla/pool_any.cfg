SPECIFICATION Spec
CONSTANTS
    Threads = {t1, t2}
    Drivers = {d1, d2}
    NoOne = NoOne
    Calls = {"init", "deinit_any", "reserve", "release", "hold_many"}
    ReservedBefore = {FALSE, TRUE}
    SemMax = 2
SYMMETRY Symmetry
INVARIANTS
    TypeOK
    OwnershipExclusive
CHECK_DEADLOCK FALSE
