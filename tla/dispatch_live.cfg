SPECIFICATION FairSpec
CONSTANTS
    Runs = {"u"}
    Jobs <- PairRows
    JobIds = {"a", "b"}
    RunOf <- OneRun
    YamlId <- NoMatrix
    Needs <- PairNeeds
    IfOverride = {}
    Stage <- PairStage
    Rank <- PairRank
    PrePlanned = {"u"}
    Runners = {r1}
    Calls = {c1, c2}
    Reports = {"success", "failure"}
    BatchSize = 2
    MaxLeases = 2
    MaxFaults = 0
    MaxLapses = 0
    MaxDeaths = 1
    NoRunner = NoRunner
    NoResult = NoResult
    NoJob = NoJob
PROPERTY RunFinishes
PROPERTY LeasedSettles
PROPERTY TerminalIsFinal
CHECK_DEADLOCK FALSE
