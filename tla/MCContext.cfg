\* The parts of a context, each folded with slips.
SPECIFICATION Spec
CONSTANTS
    None = None
    MinTime = 1
    MaxTime = 5
    ObservedLead = 1
    ForecastLead = 2
    HourLead = 1
    HourLength = 2
    MaxProvenance = 1
    MaxMinutes = 2
    MaxStations = 2
    MaxSteps = 2
    MaxModels = 1
    MaxSettles = 1
    MaxSettlements = 2
    MaxConditions = 1
    DefaultModel = 1
    OtherModels = {2}
    Stations = {1}
    Readings = {"v", "w"}
    MaxIndexSeq = 2
    MaxIssues = 2
    MaxMembers = 2
    MaxLeads = 1
    MaxLevels = 2
    MaxArtifacts = 2
    MaxMetars = 2
    Members = {1, 2}
    Strangers = {3}
    Models = {1}
    Reasons = {"NoSnapshot", "Stale"}
    Temperatures = {179996, 180005, 180027}
    ReportTypes = {1, 2}
    Episodes = {1}
    ForecastModels = {1, 2}
    MaxGeneration = 2
    MaxReports = 2
    MaxEpisodes = 2
    MarketIds = {1, 2}
    Prices = {1, 2}
    One = 4
    Quantities = {1, 2}
    Strikes = {32001, 32002}
    CelsiusStrikes = {0}
    MaxBookWindow = 1
    MaxUpdates <- MCMaxUpdates
INVARIANTS
    SummariesTellTheMinutes
    IndexReadsAreWhole
    NowcastFailsClosed
    NowcastReadsAreWhole
    CapturedStaysDeliverable
    AcceptedStaysCurrent
    ShownIsTheOwners
    WindowIsOfTheBook
PROPERTIES
    InputsStayValid
\* The feeds stop.
CHECK_DEADLOCK FALSE
