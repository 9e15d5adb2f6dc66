SPECIFICATION FairSpec

CONSTANTS
    Readers = {v1}
    Handlers = {h1}
    Buffer = 1
    MaxChunks = 3
    MaxLeases = 1
    MaxFaults = 1
    MaxCuts = 1

INVARIANT NoGap
INVARIANT EndIsComplete
PROPERTY ReadersEnd
