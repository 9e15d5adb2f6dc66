SPECIFICATION Spec
CONSTANTS
    Readers = {v1}
    Handlers = {h1, h2}
    Buffer = 1
    MaxChunks = 2
    MaxLeases = 2
    MaxFaults = 0
    MaxCuts = 1
SYMMETRY Symmetry
INVARIANT TypeOK
INVARIANT InOrderOnce
