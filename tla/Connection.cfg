SPECIFICATION FairSpec
CONSTANTS
    r1 = r1
    r2 = r2
    r3 = r3
    l1 = l1
    l2 = l2
    l3 = l3
    s1 = s1
    s2 = s2
    s3 = s3
    Reconnects = {r1, r2, r3}
    Loops = {l1, l2, l3}
    Sockets = {s1, s2, s3}
    None = None
    MaxConnects = 3
    MaxDisconnects = 2
    MaxCancels = 1
INVARIANT TypeOK
INVARIANT DisconnectIsFinal
PROPERTY Reconnected
PROPERTY DisconnectEnds
CHECK_DEADLOCK FALSE
INVARIANT NoSelfKick
