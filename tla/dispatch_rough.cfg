SPECIFICATION Spec
CONSTANTS
    Runs = {"u"}
    Jobs <- PairRows
    JobIds = {"a", "b"}
    RunOf <- OneRun
    YamlId <- NoMatrix
    Needs <- PairNeeds
    IfOverride = {}
    Stage <- PairStage
    Rank <- PairRank
    PrePlanned = {}
    Runners = {r1, r2}
    Calls = {c1}
    Reports = {"success", "failure"}
    BatchSize = 4
    MaxLeases = 4
    MaxFaults = 1
    MaxLapses = 1
    MaxDeaths = 0
    NoRunner = NoRunner
    NoResult = NoResult
    NoJob = NoJob
SYMMETRY Symmetry
INVARIANT OutcomeWasReported
INVARIANT ReportedResultStored
PROPERTY ImplementsLifecycle
