----------------------------- MODULE Ownership -----------------------------
(***************************************************************************)
(* What the identity registry promises, whatever sessions, wire ids, plans, *)
(* snapshots and threads it is made of: a conversation has one owner at     *)
(* most, which no other bot takes over; two bots that claim it lose it for  *)
(* good; and a restart brings back what was saved.                          *)
(***************************************************************************)
CONSTANTS Robots, Nobody, Conversations

VARIABLES
    owner,      \* the bot that serves a conversation
    contested,  \* the conversations that nobody serves any more
    saved,      \* what a restart would restore of these two
    up          \* whether a process runs

vars == <<owner, contested, saved, up>>

Owners == [Conversations -> Robots \union {Nobody}]
Books == [owner : Owners, contested : SUBSET Conversations]
Unowned == [c \in Conversations |-> Nobody]

Init ==
    /\ owner = Unowned /\ contested = {}
    /\ saved = [owner |-> Unowned, contested |-> {}]
    /\ up = FALSE

\* Also how a release that could not be saved is taken back.
Claim(c, r) ==
    /\ up /\ c \notin contested /\ owner[c] = Nobody
    /\ owner' = [owner EXCEPT ![c] = r]
    /\ UNCHANGED <<contested, saved, up>>

\* Another bot, or the same bot in another place, claims c too.
Contest(c) ==
    /\ up /\ owner[c] # Nobody
    /\ contested' = contested \union {c}
    /\ UNCHANGED <<owner, saved, up>>

\* What is contested is never released.
Release(C) ==
    /\ up /\ C \intersect contested = {}
    /\ owner' = [c \in Conversations |-> IF c \in C THEN Nobody ELSE owner[c]]
    /\ UNCHANGED <<contested, saved, up>>

\* A snapshot of the present, or of a past in which less was claimed, replaces
\* one in which no more was contested, and takes back no claim that still holds.
Save ==
    /\ up
    /\ saved' \in Books
    /\ \A c \in Conversations :
          /\ saved'.owner[c] \in {owner[c], Nobody}
          /\ owner[c] \in Robots /\ saved.owner[c] = owner[c]
                => saved'.owner[c] = owner[c]
    /\ saved.contested \subseteq saved'.contested
    /\ saved'.contested \subseteq contested
    /\ UNCHANGED <<owner, contested, up>>

Crash ==
    /\ up /\ up' = FALSE
    /\ owner' = Unowned /\ contested' = {}
    /\ UNCHANGED saved

\* The books are read again, also by a process that has closed them.
Reload ==
    /\ up' = TRUE
    /\ \/ owner' = saved.owner /\ contested' = saved.contested
       \/ saved.owner = Unowned /\ saved.contested = {} /\ UNCHANGED <<owner, contested>>
    /\ UNCHANGED saved

\* A file is damaged from outside, and an older one is left, or none.
Damage ==
    /\ ~up /\ saved' \in Books
    /\ UNCHANGED <<owner, contested, up>>

Next ==
    \/ \E c \in Conversations, r \in Robots : Claim(c, r)
    \/ \E c \in Conversations : Contest(c)
    \/ \E C \in SUBSET Conversations : Release(C)
    \/ Save
    \/ Crash
    \/ Reload
    \/ Damage

Spec == Init /\ [][Next]_vars
=============================================================================
