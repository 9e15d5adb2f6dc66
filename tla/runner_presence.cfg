SPECIFICATION FairSpec
CONSTANTS
    Runners = {r1}
    Streams = {k1, k2, k3}
    MaxFaults = 2
INVARIANT TypeOK
PROPERTY DeadGoesOffline
PROPERTY PingingSeenOnline
CHECK_DEADLOCK FALSE
