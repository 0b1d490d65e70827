SPECIFICATION Spec
CONSTANTS
    Events = {e1, e2}
    Cycle = cycle
    LowMax = 2
    HighMax = 1
    EventMax = 2
    Preset <- NearCarry
INVARIANTS
    TypeOK
    CountersExact
    EnabledSurvives
    SteadyReadIsReal
