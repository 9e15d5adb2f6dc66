SPECIFICATION FairSpec
CONSTANTS
    Requests = {q1, q2}
    Statements = 2
    Pages = {g}
    Runners = {r1, r2}
INVARIANT TypeOK
INVARIANT PoolOutlivesHandlers
PROPERTY ShutdownEnds
