SPECIFICATION Spec
CONSTANTS
    Runs = {"u"}
    Jobs <- MatrixRows
    JobIds = {"a", "b", "c", "d"}
    RunOf <- OneRun
    YamlId <- MatrixYaml
    Needs <- MatrixNeeds
    IfOverride = {"d"}
    Stage <- MatrixStage
    Rank <- MatrixRank
    PrePlanned = {"u"}
    Runners = {r1}
    Calls = {c1, c2}
    Reports = {"success", "failure"}
    BatchSize = 4
    MaxLeases = 5
    MaxFaults = 0
    MaxLapses = 0
    MaxDeaths = 0
    NoRunner = NoRunner
    NoResult = NoResult
    NoJob = NoJob
SYMMETRY Symmetry
INVARIANT TypeOK
INVARIANT RollUpSound
INVARIANT NeedsSafe
INVARIANT BlockedNeverRuns
PROPERTY ImplementsLifecycle
