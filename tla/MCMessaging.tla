---------------------------- MODULE MCMessaging ----------------------------
(***************************************************************************)
(* Messaging for TLC: two bots and one person.  Two frames of any kind are  *)
(* received under each configuration, a delivery of any form is made, and a *)
(* delivery follows one message, with a trouble, or two.                    *)
(***************************************************************************)
EXTENDS Messaging

CONSTANTS A, B, u

M(place, from, mention, body) ==
    [place |-> place, from |-> from, mention |-> mention, body |-> body]
MCTalk == {M("group", u, "bot", "text"), M("dm", u, "none", "text"), M("space", u, "none", "text")}
MCMessages ==
    MCTalk \union
    {M("group", u, "none", "text"), M("group", u, "all", "media"), M("group", u, "name", "text"),
     M("group", B, "none", "file"), M("group", u, "bot", "bad"), M("dm", u, "none", "empty")}

\* The routes of a new installation, of a legacy plan and of an earlier process.
Book(o, w) == [owner |-> o, contested |-> {}, wired |-> w]
Unowned == [c \in Chats |-> Nobody]
Fresh == Book(Unowned, {})
Legacy == Book([Unowned EXCEPT ![Group] = B, ![Plain] = A], {Group})
Later == Book([Unowned EXCEPT ![Scoped(B)] = B, ![Space(A)] = A], {Scoped(B), Space(A)})

Set(sole, strict, ignore, books, messages, frames, faults, forms, deliveries) ==
    [sole |-> sole, strict |-> strict, ignore |-> ignore, books |-> books,
     messages |-> messages, frames |-> frames, troubles |-> faults, forms |-> forms,
     deliveries |-> deliveries]
Received(sole, strict, ignore, faults) ==
    Set(sole, strict, ignore, {Fresh}, MCMessages \union {Ping}, 2, faults, {}, 0)
MCSettings ==
    {Received(FALSE, FALSE, FALSE, 1), Received(FALSE, TRUE, TRUE, 0),
     Received(TRUE, FALSE, TRUE, 0)}
    \union {Set(sole, FALSE, FALSE, {Fresh, Legacy, Later}, {}, 0, 1,
                {"short", "long", "picture", "media"}, 1) : sole \in BOOLEAN}
    \union {Set(FALSE, TRUE, FALSE, {Legacy, Later}, MCTalk, 1, 1, {"short"}, 1),
            Set(FALSE, TRUE, FALSE, {Fresh}, {m \in MCTalk : m.place # "space"},
                2, 0, {"short"}, 1)}
MCHome == Group
=============================================================================
