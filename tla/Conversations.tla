--------------------------- MODULE Conversations ---------------------------
(***************************************************************************)
(* What receiving and sending share (src/hermes_octo_plugin/adapter.py): the *)
(* names of conversations, what a runtime remembers of them, and the routes *)
(* that say which bot serves one.  The registry of routes is modelled in    *)
(* RouteRegistry; here a route is its owner.                                *)
(*                                                                         *)
(* There is a group, a person who talks to every bot, and a chat of that    *)
(* person with each bot inside a Space.                                     *)
(***************************************************************************)
EXTENDS SequencesExt, Integers

CONSTANTS
    Robots, Primary,  \* the bots, and the legacy primary
    Nobody,           \* no bot, no user
    People,           \* users of the group that are no bots
    Settings          \* sole, strict, ignore: _sole_identity_mode, _require_mention,
                      \* _ignore_mention_all; books, the routes that a snapshot may
                      \* give; and the bounds of what happens then: troubles, what
                      \* people, the network and time do besides

Users == People \union Robots

\* The chat ids of Hermes: a group, a person's uid for the legacy primary, an
\* opaque id for another bot, and the channel of a Space.
Group == <<"group">>
Plain == <<"plain">>
Scoped(r) == <<"scoped", r>>
Space(r) == <<"space", r>>
Chats == {Group, Plain} \union {Scoped(r) : r \in Robots \ {Primary}}
                        \union {Space(r) : r \in Robots}

\* Where a message for a chat has to go: to the group, or to the person's uid.
\* The other places are what a wrong guess makes of a chat id.
GroupPlace == [kind |-> "group", id |-> "own"]
DmPlace == [kind |-> "dm", id |-> "peer"]
HomeOf(c) == IF c = Group THEN GroupPlace ELSE DmPlace
Places == [kind : {"group", "dm"}, id : {"own", "peer"}]

Owners == [Chats -> Robots \union {Nobody}]
Books == [owner : Owners, contested : SUBSET Chats, wired : SUBSET Chats]

ASSUME ConversationsAssumption ==
    /\ Primary \in Robots /\ Nobody \notin Users
    /\ \A s \in Settings : {s.sole, s.strict, s.ignore} \subseteq BOOLEAN /\ s.troubles \in Nat
    /\ \A s \in Settings : s.books \subseteq Books

VARIABLES
    setting,    \* the configuration
    members,    \* the server: who is in the group
    life,       \* connection of a runtime: down, opening, open, or lost unnoticed
    kinds,      \* chats in _chat_kind
    targets,    \* chats in _space_dm_targets
    owner,      \* the bot that a conversation is routed to
    contested,  \* conversations that two bots have claimed
    wired,      \* routes that have a wire_chat_id
    disk,       \* the snapshot of these three
    troubles    \* troubles so far

routes == <<owner, contested, wired, disk>>
memory == <<kinds, targets>>
conversations == <<setting, members, life, memory, routes, troubles>>

Trouble == troubles < setting.troubles /\ troubles' = troubles + 1

ConversationsTypeOK ==
    /\ setting \in Settings /\ members \subseteq Users /\ troubles \in 0..setting.troubles
    /\ life \in [Robots -> {"down", "opening", "open", "lost"}]
    /\ {kinds, targets} \subseteq [Robots -> SUBSET Chats]
    /\ owner \in Owners /\ {contested, wired} \subseteq SUBSET Chats
    /\ disk \in Books

Routes == [owner |-> owner, contested |-> contested, wired |-> wired]

\* The snapshot is read at startup; without several identities there is none.  A
\* route of a legacy plan has no wire id for a DM before the next message.
ConversationsInit ==
    /\ setting \in Settings /\ members = Users /\ troubles = 0
    /\ life = [r \in Robots |-> "down"]
    /\ kinds = [r \in Robots |-> {}] /\ targets = [r \in Robots |-> {}]
    /\ disk \in setting.books /\ (setting.sole => \A c \in Chats : disk.owner[c] = Nobody)
    /\ owner = disk.owner /\ contested = disk.contested /\ wired = disk.wired

-----------------------------------------------------------------------------
\* is_runtime_connected.
Connected(r) == life[r] \in {"open", "lost"}

\* lookup_chat_id and chat_id_has_state.
LookedUp(b, c) == b.owner[c] # Nobody /\ c \notin b.contested /\ c \in b.wired
HasState(b, c) == b.owner[c] # Nobody \/ c \in b.contested

\* bind_inbound_route: whether c is r's, what a claim leaves, and a later one.
Granted(r, c) == setting.sole \/ (c \notin contested /\ owner[c] \in {Nobody, r})
Binds(r, c) ==
    IF setting.sole \/ c \in contested THEN UNCHANGED <<owner, contested, wired>>
    ELSE IF Granted(r, c)
    THEN /\ owner' = [owner EXCEPT ![c] = r] /\ wired' = wired \union {c}
         /\ UNCHANGED contested
    ELSE contested' = contested \union {c} /\ UNCHANGED <<owner, wired>>

\* The write that a change of the routes has scheduled.
Flush ==
    /\ disk # Routes
    /\ disk' = Routes
    /\ UNCHANGED <<setting, members, life, memory, owner, contested, wired, troubles>>

\* /octo-route-forget: durable, and refused for a contested route.
Forget(r, c) ==
    /\ Trouble
    /\ owner[c] = r /\ c \notin contested
    /\ owner' = [owner EXCEPT ![c] = Nobody] /\ wired' = wired \ {c}
    /\ disk' = [owner |-> owner', contested |-> contested, wired |-> wired']
    /\ UNCHANGED <<setting, members, life, memory, contested>>
=============================================================================
