SPECIFICATION InvokeSpec
CONSTANTS
    Products = {"U55", "U65", "U85"}
    WordMod = 128
    Addresses <- SomeAddresses
    ResetOutcomes = {"ok", "timeout", "denied"}
    AddressRemap <- Shifted
    ConfigSelect <- Ports
    LengthMod = 4
    Hw <- TheNpu
    Payloads <- ThePayloads
    Placements = {0}
    BaseAddresses <- Bases
    BaseSizes = {16, 17}
    FastMemory = 48
    FastMemorySize = 16
    MaxPower = 2
INVARIANTS
    TypeOK
    ParserInStep
    RunsThePayload
    HandsBackThePayload
    RunsConfigured
    RunsCompatible
    MemoryCoherent
PROPERTIES
    StartedByRun
    ImplementsDevice
