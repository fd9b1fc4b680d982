CONSTANTS
    robotA = robotA
    robotB = robotB
    dm = dm
    group = group
    other = other
    sDm = sDm
    sGroup1 = sGroup1
    sGroup2 = sGroup2
    sOther = sOther
    wireD1 = wireD1
    wireD2 = wireD2
    wireG = wireG
    NoRobot = NoRobot
    NoWire = NoWire
    Robots = {robotA, robotB}
    LegacyRobot = robotA
    Wires = {wireD1, wireG}
    DmTargets = {dm}
    TargetOf <- MCTargetOf
    WiresOf <- MCOneWireOf
    MaxRoutes = 2
    Targets = {dm, group}
    Sessions = {sDm, sGroup1}
    Plans <- MCGroupPlans
    MaxFaults = 1
    MaxCrashes = 1
    MaxCorruptions = 1
SPECIFICATION Spec
INVARIANT TypeOK
INVARIANT IndexMatchesRoutes
INVARIANT DiskNeverAheadOfMemory
PROPERTY ImplementsOwnership
CHECK_DEADLOCK FALSE
