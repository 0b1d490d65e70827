SPECIFICATION Spec
CONSTANTS
    Payloads <- LateFailure
    Calls = {"invoke_async", "wait"}
    HasTimeout = FALSE
    ResetOutcomes = {"ok"}
    SemMax = 2
    MaxPower = 2
    PmuIrq = FALSE
INVARIANTS
    EndAlwaysCalled
