SPECIFICATION Spec
CONSTANTS
    g = g
    t = t
    f1 = f1
    f2 = f2
    Group = g
    Threads = {t}
    Fetches = {f1, f2}
    MaxVersion = 3
    MaxTroubles = 4
SYMMETRY Symmetry
INVARIANT TypeOK
INVARIANT EvictedFailsClosed
PROPERTY NotResurrected
CHECK_DEADLOCK FALSE
INVARIANT CacheIsCurrent
