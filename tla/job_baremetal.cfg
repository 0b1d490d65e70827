SPECIFICATION BareFairSpec
CONSTANTS
    Payloads <- BarePayloads
    Calls <- BareCalls
    HasTimeout = FALSE
    ResetOutcomes = {"ok", "denied"}
    SemMax = 1
    MaxPower = 2
    PmuIrq = FALSE
PROPERTIES
    ImplementsJob
    WaitReturns
