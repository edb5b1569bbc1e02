SPECIFICATION FairSpec
CONSTANTS
    MaxDiagnostics = 4
    MaxEvidence = 2
    MaxTelemetry = 3
    MaxDiagnosticSize = 1
    MaxPayloadSize = 2
    MaxTelemetrySize = 4
    MaxResultSize = 9
    Budget = 8
    Overhead = 1
    ShedShare = 2
    Emissions <- MCEmissions
    Essentials <- MCEssentials
    MaxUpdateEvidence = 1
    MaxNotes = 1
    MaxOutputs = 3
INVARIANTS
    NothingIsLostUnseen
    EssentialsAreKept
PROPERTIES
    EachPassSheds
    AResultIsReached
CHECK_DEADLOCK FALSE
