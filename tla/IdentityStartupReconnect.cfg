SPECIFICATION Spec
CONSTANTS
    t1 = t1
    t2 = t2
    Tokens = {t1, t2}
    Robots = {A, B}
    Groups = {g}
    Peers = {}
    Configs <- OneThenTwo
    Home <- Silence
    Speaking <- Silence
    Reuse = TRUE
    Nobody = Nobody
    Contested = Contested
    MaxFaults = 0
    MaxCrashes = 0
    MaxMoves = 2
    MaxStarts = 3
    MaxLosses = 0
    MaxListFailures = 0
CHECK_DEADLOCK FALSE
SYMMETRY AnyRobot
INVARIANT OneRuntimePerRobot
