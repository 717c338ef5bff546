SPECIFICATION FairSpec
CONSTANTS
    Callers = {c1, c2}
    Conns = {k1, k2, k3, k4, k5}
    Limit = 1
    NoConn = NoConn
INVARIANTS
    Exclusive
    PoolBound
    NoCrossTalk
    RetryMasksStale
PROPERTY
    CallTerminates
