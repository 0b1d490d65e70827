SPECIFICATION FairSpec
CONSTANTS
    Payloads <- DocumentedPayloads
    Calls = {"invoke_async", "invoke_v3", "poll", "wait", "release", "pmu_enable", "release_power", "soft_reset"}
    HasTimeout = TRUE
    ResetOutcomes = {"ok"}
    SemMax = 2
    MaxPower = 3
    PmuIrq = FALSE
INVARIANTS
    PoweredWhileRunning
    GateFollowsRequests
PROPERTIES
    GatedRunIsReset
    WaitReturns
    InferenceFinishes
