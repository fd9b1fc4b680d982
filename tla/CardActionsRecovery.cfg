CONSTANTS
    cardA = cardA
    reason = reason
    Cards = {cardA}
    Reasoning = {}
    Editable = {cardA}
    MaxEvent = 2
    CardOf <- TwoOnOneCard
    KindOf <- BothMatch
    Limit = 2
    MaxSessions = 1
    MaxAttempts = 2
    MaxFlushFailures = 2
    Unreadable = TRUE
    MaxFaults = 2
    MaxCrashes = 1
    MaxStops = 1
    MaxEdits = 1
    MaxSeq = 6
CHECK_DEADLOCK FALSE
SPECIFICATION Spec
INVARIANT OneTurnPerIncarnation
INVARIANT DiskIsAsTold
INVARIANT AckNeverForgotten
