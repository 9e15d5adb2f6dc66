SPECIFICATION FairSpec
CONSTANTS
    Posts = {p}
    Rows = {x}
    RowsOf <- AllRows
    Runners = {r1, r2}
    FreeSlots = 2
    Reaper = Reaper
    NoRow = NoRow
    NoRun = NoRun
    MaxPushes = 1
    MaxPolls = 1
    MaxLapses = 1
    MaxDrops = 1
    MaxFaults = 1
CONSTRAINT FewChannels
CONSTRAINT TwoTroubles
INVARIANT TypeOK
INVARIANT ClosedOnce
INVARIANT NoWaiterForgotten
INVARIANT RunMatchesCommit
INVARIANT AnswerIsTrue
PROPERTY QueuedIsServed
CHECK_DEADLOCK FALSE
