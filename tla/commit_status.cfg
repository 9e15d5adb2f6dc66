SPECIFICATION Spec
CONSTANTS
    Deliveries = {d1}
    Requests <- SomeRequests
    Entries <- SomeEntries
    Kind <- EntryKind
    Rank <- EntryRank
    WorkflowPath = NoFile
    On <- TwoFiles
    Shas = {"c1"}
    NoSha = NoSha
    NoBranch = NoBranch
    NoFile = NoFile
    MaxFinals = 2
    MaxFaults = 1
CONSTRAINT FewCalls
INVARIANT FanOut
INVARIANT CheckIsEarned
INVARIANT CheckSettles
CHECK_DEADLOCK FALSE
