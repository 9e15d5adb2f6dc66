SPECIFICATION Spec
CONSTANTS
    Runs = {"u"}
    Jobs <- Rows
    JobIds = {"a", "b", "d"}
    RunOf <- OneRun
    YamlId <- Yaml
    Needs <- RowNeeds
    IfOverride = {"d"}
    Stage <- RowStage
    PrePlanned = {}
    Rank <- RowRank
    StepsOf <- OneStep
    Runners = {r1}
    Calls = {c1, c2}
    Reports = {"success", "failure"}
    MaxLeases = 4
    MaxTime = 2
    MaxTroubles = 1
    NoRunner = NoRunner
    NoResult = NoResult
    NoJob = NoJob
SYMMETRY Symmetry
CONSTRAINT FollowFinished
CONSTRAINT FewLeases
INVARIANT TypeOK
INVARIANT RunPageConsistent
INVARIANT JobPageConsistent
INVARIANT CanonicalIsLast
INVARIANT NeedsTold
PROPERTY StepStartKept
CHECK_DEADLOCK FALSE
