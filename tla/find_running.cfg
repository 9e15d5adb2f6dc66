SPECIFICATION FairSpec
CONSTANTS
    Runs = {"u"}
    Jobs <- SoloRows
    JobIds = {"a"}
    RunOf <- OneRun
    YamlId <- NoMatrix
    Needs <- SoloNeeds
    IfOverride = {}
    Stage <- SoloStage
    Rank <- SoloRank
    PrePlanned = {"u"}
    Runners = {r1, r2}
    Calls = {c1}
    Reports = {"success", "failure"}
    BatchSize = 4
    MaxLeases = 3
    MaxFaults = 0
    MaxLapses = 0
    MaxDeaths = 1
    NoRunner = NoRunner
    NoResult = NoResult
    NoJob = NoJob
PROPERTY RunningSettles
