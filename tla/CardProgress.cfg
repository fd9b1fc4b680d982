SPECIFICATION FairSpec
CONSTANTS
    t1 = t1
    d1 = d1
    d2 = d2
    Reuse = FALSE
    Turns = {t1}
    Drains = {d1, d2}
    MaxSegment = 1
    MaxStates = 2
    MaxRevision = 2
    MaxCancels = 1
    Attempts = 2
    Exhaustions = 2
INVARIANT TypeOK
PROPERTY EndIsFinal
PROPERTY EndedIsDropped
CHECK_DEADLOCK FALSE
INVARIANT DrainsAgree
INVARIANT CardTellsTheTruth
