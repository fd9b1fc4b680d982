SPECIFICATION FairSpec
CONSTANTS
    Robots = {A, B}
    NoRobot = NoRobot
    Offers <- MCOffers
    Reserved = {1}
    OctoNames = {}
    Length <- MCLength
    MaxChars = 11
    FirstOffers <- MCFirst
    MaxChanges = 1
    MaxMoves = 2
    MaxBreaks = 1
CHECK_DEADLOCK FALSE
INVARIANT TypeOK
INVARIANT DigestIsTruth
INVARIANT MenuIsProjection
PROPERTY MenuBecomesCurrent
