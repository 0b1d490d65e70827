SPECIFICATION ThreadFairSpec
CONSTANTS
    Payloads <- AnyPayloads
    Calls <- AllCalls
    HasTimeout = TRUE
    ResetOutcomes = {"ok", "timeout", "denied"}
    SemMax = 1
    MaxPower = 2
    PmuIrq = TRUE
INVARIANTS
    TypeOK
    DoneHasToken
    NeverBlocksUnasked
    TimeoutSticks
PROPERTIES
    WaitReturns
