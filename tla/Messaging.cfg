SPECIFICATION Spec
CONSTANTS
    A = A
    B = B
    u = u
    Robots = {A, B}
    Primary = A
    Nobody = Nobody
    People = {u}
    Settings <- MCSettings
    Messages <- MCMessages
    Ping = Ping
    HomeChannel <- MCHome
CHECK_DEADLOCK FALSE
INVARIANT TypeOK
INVARIANT FramesInOrder
INVARIANT BotsNeedMention
INVARIANT AnswerGoesHome
INVARIANT SuccessIsDelivered
INVARIANT OnlyMembersMentioned
