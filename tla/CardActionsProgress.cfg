CONSTANTS
    cardA = cardA
    reason = reason
    Cards = {cardA, reason}
    Reasoning = {reason}
    Editable = {}
    MaxEvent = 4
    CardOf <- MixedCards
    KindOf <- MixedKinds
    Limit = 2
    MaxSessions = 1
    MaxAttempts = 2
    MaxFlushFailures = 2
    Unreadable = FALSE
    MaxFaults = 1
    MaxCrashes = 1
    MaxStops = 0
    MaxEdits = 0
    MaxSeq = 12
CHECK_DEADLOCK FALSE
SPECIFICATION FairSpec
INVARIANT TypeOK
PROPERTY EveryPressIsPassed
