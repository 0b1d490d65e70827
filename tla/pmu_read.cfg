SPECIFICATION Spec
CONSTANTS
    Events = {e1}
    Cycle = cycle
    LowMax = 2
    HighMax = 1
    EventMax = 2
    Preset <- NearCarry
INVARIANTS
    ReadIsReal
