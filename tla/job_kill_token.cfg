SPECIFICATION Spec
CONSTANTS
    Payloads <- StreamOnly
    Calls = {"invoke_async", "wait", "release", "abort"}
    HasTimeout = FALSE
    ResetOutcomes = {"ok"}
    SemMax = 2
    MaxPower = 2
    PmuIrq = FALSE
INVARIANTS
    SuccessMeansFinished
