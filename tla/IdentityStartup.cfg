SPECIFICATION Spec
CONSTANTS
    t1 = t1
    t2 = t2
    Tokens = {t1, t2}
    Robots = {A, B}
    Groups = {g}
    Peers = {}
    Configs <- AnyOrder
    Home <- Everybody
    Speaking <- Everybody
    Reuse = FALSE
    Nobody = Nobody
    Contested = Contested
    MaxFaults = 1
    MaxCrashes = 1
    MaxMoves = 2
    MaxStarts = 3
    MaxLosses = 1
    MaxListFailures = 0
CHECK_DEADLOCK FALSE
SYMMETRY AnyRobot
INVARIANT TypeOK
INVARIANT MigrationSound
INVARIANT IdentityKept
