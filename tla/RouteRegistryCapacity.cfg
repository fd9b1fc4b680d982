CONSTANTS
    robotA = robotA
    robotB = robotB
    dm = dm
    group = group
    other = other
    sDm = sDm
    sGroup1 = sGroup1
    sGroup2 = sGroup2
    sOther = sOther
    wireD1 = wireD1
    wireD2 = wireD2
    wireG = wireG
    NoRobot = NoRobot
    NoWire = NoWire
    Robots = {robotA, robotB}
    LegacyRobot = robotA
    Wires = {wireD1, wireD2, wireG}
    DmTargets = {dm}
    TargetOf <- MCTargetOf
    WiresOf <- MCWiresOf
    MaxRoutes = 1
    Targets = {dm, group, other}
    Sessions = {sDm, sGroup1, sGroup2, sOther}
    Plans <- MCNoPlans
    MaxFaults = 2
    MaxCrashes = 0
    MaxCorruptions = 0
SPECIFICATION FairSpec
INVARIANT WithinCapacity
INVARIANT SessionRouteAgreesWithTarget
PROPERTY ConflictBecomesDurable
CHECK_DEADLOCK FALSE
