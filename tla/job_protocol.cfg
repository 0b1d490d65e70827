SPECIFICATION Spec
CONSTANTS
    Payloads <- DocumentedPayloads
    Calls <- Documented
    HasTimeout = TRUE
    ResetOutcomes = {"ok", "timeout", "denied"}
    SemMax = 2
    MaxPower = 2
    PmuIrq = FALSE
INVARIANTS
    SuccessMeansFinished
    TokenAccounting
    RestMeansQuiet
    CallbacksPaired
    PowerAccounting
PROPERTIES
    KeepsContract
