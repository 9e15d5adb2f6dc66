SPECIFICATION Spec
CONSTANTS
    Runs = {"u"}
    Jobs <- SoloRows
    JobIds = {"a"}
    RunOf <- OneRun
    YamlId <- NoMatrix
    Needs <- SoloNeeds
    IfOverride = {}
    Stage <- SoloStage
    Rank <- SoloRank
    PrePlanned = {"u"}
    Runners = {r1}
    Calls = {c1, c2}
    Reports = {"success", "failure"}
    BatchSize = 4
    MaxLeases = 2
    MaxFaults = 0
    MaxLapses = 1
    MaxDeaths = 0
    NoRunner = NoRunner
    NoResult = NoResult
    NoJob = NoJob
SYMMETRY Symmetry
INVARIANT OutcomeIsCurrent
