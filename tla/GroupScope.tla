----------------------------- MODULE GroupScope -----------------------------
(***************************************************************************)
(* What one bot caches of one parent group and its threads (adapter.py):   *)
(* GROUP.md and THREAD.md, the member roster, and that the group is known. *)
(* Tasks of the gateway loop fill the caches from the server; between a    *)
(* request and its return the loop handles events and messages, a prefetch *)
(* evicts the group, a sweep cleans it up, or the identity changes.  The   *)
(* group's generation is what tells a task that it is late.                *)
(*                                                                         *)
(* Documents are known by the server's version of them.  Messages and      *)
(* events reach the bot in order, and may be lost with the connection.     *)
(* The copies on disk are left out, for nothing reads them.                *)
(***************************************************************************)
EXTENDS Integers, Sequences, FiniteSets

CONSTANTS
    Group, Threads,
    Fetches,      \* bound: document requests at a time
    MaxVersion,   \* bound: writes and deletions of a document
    MaxTroubles   \* bound: what people, the network and time do besides

ASSUME ScopeAssumption ==
    /\ Group \notin Threads /\ "people" \notin {Group} \union Threads
    /\ MaxVersion \in Nat \ {0} /\ MaxTroubles \in Nat

Keys == {Group} \union Threads

VARIABLES
    doc,        \* the server: version of each document, and whether it is there
    member,     \* the server: the bot is in the group
    wire,       \* messages and events on their way to the bot
    gen,        \* _group_scope_generations
    known,      \* the group is in _known_group_ids
    cached,     \* keys of _group_md_cache
    checked,    \* _group_md_checked
    active,     \* keys of _cache_activity
    roster,     \* _group_member_rosters, _user_group_index have the group
    robots,     \* _group_robot_map has it
    stamped,    \* _group_cache_timestamps is recent
    inbound,    \* the message that _handle_recv is at
    fetches,    \* ensure, refresh and edit tasks
    members,    \* roster requests of an inbound message and of an outbound mention
    prefetch,   \* the prefetch of a connect and of /octo_refresh
    basis,      \* history: the server's version behind cached and checked
    heard,      \* history: version of the last event that arrived
    gone,       \* history: version of the last deletion that arrived
    shut,       \* history: evicted, and not a member since
    excused,    \* history: entries that a known flaw made
    used        \* troubles so far

server == <<doc, member>>
docs == <<cached, checked, basis, excused>>
people == <<roster, robots, stamped>>
tasks == <<inbound, fetches, members, prefetch>>
history == <<heard, gone, shut>>
vars == <<doc, member, wire, gen, known, cached, checked, active, roster, robots, stamped,
          inbound, fetches, members, prefetch, basis, heard, gone, shut, excused, used>>

-----------------------------------------------------------------------------
Kinds == {"message", "updated", "deleted"}
Frame(kind, k, v) == [kind |-> kind, key |-> k, ver |-> v]

Off == [pc |-> "off"]
Fetch(what, k, g) == [pc |-> "new", what |-> what, key |-> k, gen |-> g,
                      ver |-> 0, there |-> FALSE, old |-> FALSE]
Free == {f \in Fetches : fetches[f] = Off}
Callers == {"inbound", "mention"}
Origins == {"connect", "command"}

Trouble == used < MaxTroubles /\ used' = used + 1

Versions == 0..MaxVersion

Requests == [pc : {"new", "asked", "answered"}, what : {"ensure", "refresh", "edit"}, key : Keys,
             gen : Nat, ver : Versions, there : BOOLEAN, old : BOOLEAN]
RosterRequests == [pc : {"asked", "listed", "empty"}, gen : Nat, old : BOOLEAN]
Prefetches == [pc : {"asked", "listed"}, gen : Nat, lists : BOOLEAN, evicted : BOOLEAN,
               old : BOOLEAN]

ServerTyped ==
    /\ doc \in [Keys -> [ver : Versions, there : BOOLEAN]] /\ member \in BOOLEAN
    /\ wire \in Seq([kind : Kinds, key : Keys, ver : Versions])

\* A robot flag comes with its roster.
CachesTyped ==
    /\ gen \in Nat /\ {known, roster, robots, stamped} \subseteq BOOLEAN
    /\ cached \subseteq Keys /\ checked \subseteq Keys /\ active \subseteq Keys
    /\ robots => roster

TasksTyped ==
    /\ inbound \in {Off} \union [pc : {"roster", "turn"}, key : Keys]
    /\ fetches \in [Fetches -> {Off} \union Requests]
    /\ members \in [Callers -> {Off} \union RosterRequests]
    /\ prefetch \in [Origins -> {Off} \union Prefetches]
    /\ used \in 0..MaxTroubles

\* Nothing is newer than the server's document.
HistoryTyped ==
    /\ {basis, heard, gone} \subseteq [Keys -> Versions]
    /\ shut \in BOOLEAN /\ excused \subseteq Keys \union {"people"}
    /\ \A k \in Keys : basis[k] <= doc[k].ver /\ gone[k] <= heard[k] /\ heard[k] <= doc[k].ver

TypeOK == ServerTyped /\ CachesTyped /\ TasksTyped /\ HistoryTyped

Init ==
    /\ doc = [k \in Keys |-> [ver |-> 1, there |-> TRUE]] /\ member = TRUE
    /\ wire = <<>> /\ gen = 0
    /\ known = FALSE /\ cached = {} /\ checked = {} /\ active = {}
    /\ roster = FALSE /\ robots = FALSE /\ stamped = FALSE
    /\ inbound = Off /\ fetches = [f \in Fetches |-> Off]
    /\ members = [c \in Callers |-> Off] /\ prefetch = [p \in Origins |-> Off]
    /\ basis = [k \in Keys |-> 0] /\ heard = [k \in Keys |-> 0] /\ gone = [k \in Keys |-> 0]
    /\ shut = FALSE /\ excused = {}
    /\ used = 0

-----------------------------------------------------------------------------
(* The server and the wire.                                                *)

\* A document is written, or deleted; the group's members hear of it.
ServerWrites(k, there) ==
    /\ doc[k].ver < MaxVersion /\ (there \/ doc[k].there)
    /\ doc' = [doc EXCEPT ![k] = [ver |-> @.ver + 1, there |-> there]]
    /\ wire' = IF member
               THEN Append(wire, Frame(IF there THEN "updated" ELSE "deleted", k, doc[k].ver + 1))
               ELSE wire

ServerChanges(k) ==
    /\ Trouble /\ \E there \in BOOLEAN : ServerWrites(k, there)
    /\ UNCHANGED <<member, gen, known, docs, active, people, tasks, history>>

MemberMoves ==
    /\ Trouble /\ member' = ~member
    /\ shut' = FALSE
    /\ UNCHANGED <<doc, wire, gen, known, docs, active, people, tasks, heard, gone>>

SomeoneWrites(k) ==
    /\ member /\ Trouble /\ wire' = Append(wire, Frame("message", k, 0))
    /\ UNCHANGED <<server, gen, known, docs, active, people, tasks, history>>

\* The connection breaks, and what was on its way is lost.
Loses ==
    /\ wire # <<>> /\ Trouble /\ wire' = <<>>
    /\ UNCHANGED <<server, gen, known, docs, active, people, tasks, history>>

-----------------------------------------------------------------------------
(* What the caches become.                                                 *)

\* cached and checked are C and K; the history says from which versions, and
\* which of the entries X are there by a known flaw.
Docs(C, K, b, X) ==
    /\ cached' = C /\ checked' = K
    /\ basis' = [k \in Keys |-> IF k \in C \union K THEN b[k] ELSE 0]
    /\ excused' = X \intersect (C \union K \union {"people"})

KeptRobots ==  \* mutant: an evicted group keeps its robot flags
    known' = FALSE /\ roster' = FALSE /\ stamped' = FALSE /\ UNCHANGED robots

\* _evict_group_membership_cache.
EvictMembers == known' = FALSE /\ roster' = FALSE /\ robots' = FALSE /\ stamped' = FALSE

EvictQuietly ==  \* mutant: an evicted group keeps its generation
    /\ EvictMembers /\ Docs({}, {}, basis, {}) /\ active' = {} /\ UNCHANGED gen

\* _evict_group_scope: nothing of the group stays, and its generation is over.
EvictScope ==
    /\ gen' = gen + 1
    /\ EvictMembers /\ Docs({}, {}, basis, {}) /\ active' = {}

-----------------------------------------------------------------------------
(* Inbound frames, one at a time.                                          *)

Arrived(kind) == inbound = Off /\ wire # <<>> /\ wire[1].kind = kind /\ wire' = Tail(wire)

DeletedQuietly(k) ==  \* mutant: a deletion leaves requests on their way valid
    Docs(cached \ {k}, checked \ {k}, basis, excused) /\ UNCHANGED gen

\* _handle_group_md_event.
Deleted(k) ==
    gen' = gen + 1 /\ Docs(cached \ {k}, checked \ {k}, basis, excused)

StaysChecked(k) == gen' = gen + 1 /\ UNCHANGED docs  \* mutant: an update is not marked

Updated(k) ==
    gen' = gen + 1 /\ Docs(cached, checked \ {k}, basis, excused)

\* An update is marked and its refresh scheduled, with the generation of now.
UpdateArrives ==
    /\ Arrived("updated")
    /\ LET k == wire[1].key
       IN  /\ Updated(k)
           /\ \E f \in Free : fetches' = [fetches EXCEPT ![f] = Fetch("refresh", k, gen + 1)]
           /\ heard' = [heard EXCEPT ![k] = wire[1].ver]
    /\ UNCHANGED <<server, known, active, people, inbound, members, prefetch, gone, shut, used>>

DeletionArrives ==
    /\ Arrived("deleted")
    /\ LET k == wire[1].key
       IN  /\ Deleted(k)
           /\ heard' = [heard EXCEPT ![k] = wire[1].ver]
           /\ gone' = [gone EXCEPT ![k] = wire[1].ver]
    /\ UNCHANGED <<server, known, active, people, tasks, shut, used>>

\* A message makes the group known, touches the caches and looks at the roster.
MessageArrives ==
    /\ Arrived("message")
    /\ known' = TRUE /\ active' = active \union {Group, wire[1].key}
    /\ inbound' = [pc |-> "roster", key |-> wire[1].key]
    /\ UNCHANGED <<server, gen, docs, people, fetches, members, prefetch, history, used>>

\* The gate drops the message, or a turn begins and makes sure of the documents.
TurnStarts ==
    /\ inbound.pc = "turn" /\ inbound' = Off
    /\ \/ UNCHANGED fetches
       \/ \E f, t \in Free :
             /\ (f = t) <=> (inbound.key = Group)
             /\ fetches' = [fetches EXCEPT ![f] = Fetch("ensure", Group, 0),
                                           ![t] = Fetch("ensure", inbound.key, 0)]
    /\ UNCHANGED <<server, wire, gen, known, docs, active, people, members, prefetch, history, used>>

-----------------------------------------------------------------------------
(* _refresh_group_member_cache, for a message and for an outbound mention. *)

\* Who asked goes on.
Continues(c) ==
    inbound' = IF c = "inbound" THEN [inbound EXCEPT !.pc = "turn"] ELSE inbound

AsksMembers(c) ==
    /\ members[c] = Off /\ (c = "inbound" => inbound.pc = "roster")
    /\ IF c = "inbound" THEN UNCHANGED used ELSE Trouble
    /\ IF stamped THEN c = "inbound" /\ Continues(c) /\ UNCHANGED members
       ELSE /\ members' = [members EXCEPT ![c] = [pc |-> "asked", gen |-> gen, old |-> FALSE]]
            /\ UNCHANGED inbound
    /\ UNCHANGED <<server, wire, gen, known, docs, active, people, fetches, prefetch, history>>

\* Nobody is listed to a bot that is not a member.
ServerListsMembers(c) ==
    /\ members[c].pc = "asked"
    /\ members' = [members EXCEPT ![c].pc = IF member THEN "listed" ELSE "empty"]
    /\ UNCHANGED <<server, wire, gen, known, docs, active, people,
                   inbound, fetches, prefetch, history, used>>

\* The request fails, or the roster comes.
MembersReturn(c) ==
    /\ \/ members[c].pc \in {"listed", "empty"} /\ UNCHANGED used
       \/ members[c].pc = "asked" /\ Trouble
    /\ members' = [members EXCEPT ![c] = Off] /\ Continues(c)
    /\ IF members[c].gen # gen THEN UNCHANGED <<people, excused>>
       ELSE /\ roster' = (roster \/ members[c].pc = "listed")
            /\ robots' = (members[c].pc = "listed") /\ stamped' = TRUE
            /\ excused' = CASE members[c].pc # "listed" -> excused
                          [] members[c].pc = "listed" /\ members[c].old -> excused \union {"people"}
                          [] OTHER -> excused \ {"people"}
    /\ UNCHANGED <<server, wire, gen, known, cached, checked, basis, active,
                   fetches, prefetch, history>>

\* An hour goes by, or thirty seconds after a failure.
StampExpires ==
    /\ stamped /\ Trouble /\ stamped' = FALSE
    /\ UNCHANGED <<server, wire, gen, known, docs, active, roster, robots, tasks, history>>

-----------------------------------------------------------------------------
(* _ensure_group_md, _ensure_thread_md, _refresh_group_md_at_generation    *)
(* and the tool's edits.                                                   *)

Becomes(f, s) == fetches' = [fetches EXCEPT ![f] = s]

\* An ensure looks at what is checked and takes its generation; a refresh compares its own.
Needed(s) ==
    CASE s.what = "ensure" -> s.key \notin checked /\ (gen = 0 \/ known)
      [] s.what = "refresh" -> s.gen = gen

Starts(f) ==
    /\ fetches[f].pc = "new"
    /\ Becomes(f, IF Needed(fetches[f]) THEN [fetches[f] EXCEPT !.pc = "asked", !.gen = gen] ELSE Off)
    /\ UNCHANGED <<server, wire, gen, known, docs, active, people,
                   inbound, members, prefetch, history, used>>

\* The owner has the agent edit a document.
EditStarts(f, k) ==
    /\ f \in Free /\ Trouble
    /\ Becomes(f, [Fetch("edit", k, gen) EXCEPT !.pc = "asked"])
    /\ UNCHANGED <<server, wire, gen, known, docs, active, people, inbound, members, prefetch, history>>

ServerAnswers(f) ==
    LET k == fetches[f].key
    IN  /\ fetches[f].pc = "asked" /\ member
        /\ IF fetches[f].what = "edit" THEN ServerWrites(k, TRUE) ELSE UNCHANGED <<doc, wire>>
        /\ Becomes(f, [fetches[f] EXCEPT !.pc = "answered", !.ver = doc'[k].ver,
                                         !.there = doc'[k].there])
        /\ UNCHANGED <<member, gen, known, docs, active, people,
                       inbound, members, prefetch, history, used>>

\* The request fails, or the server refuses one who is not a member.
Fails(f) ==
    /\ fetches[f].pc = "asked"
    /\ IF member THEN Trouble ELSE UNCHANGED used
    /\ Becomes(f, Off)
    /\ UNCHANGED <<server, wire, gen, known, docs, active, people, inbound, members, prefetch, history>>

AnyTime(s) == TRUE  \* mutant: an answer is taken whatever came in between

InTime(s) == s.gen = gen

\* The history of an entry that s writes: an answer to a former identity is flawed.
Taken(s) == IF s.old THEN excused \union {s.key} ELSE excused \ {s.key}
From(s) == [basis EXCEPT ![s.key] = s.ver]

\* An ensure without a document marks it checked and keeps what was cached.
EnsureReturns(s) ==
    IF s.there THEN Docs(cached \union {s.key}, checked \union {s.key}, From(s), Taken(s))
    ELSE IF s.key \in cached
         THEN Docs(cached, checked \union {s.key}, basis, excused \union {s.key})
         ELSE Docs(cached, checked \union {s.key}, From(s), Taken(s))

\* A refresh leaves checked to the next turn.
RefreshReturns(s) ==
    Docs(IF s.there THEN cached \union {s.key} ELSE cached \ {s.key}, checked, From(s), Taken(s))

\* An edit is cached whatever the generation: flawed if it is late.
EditReturns(s) ==
    Docs(cached \union {s.key}, checked \union {s.key}, From(s),
         IF s.old \/ shut \/ s.ver < heard[s.key] THEN excused \union {s.key} ELSE excused \ {s.key})

Returns(f) ==
    LET s == fetches[f]
    IN  /\ s.pc = "answered" /\ Becomes(f, Off)
        /\ CASE s.what = "edit" -> EditReturns(s)
             [] ~InTime(s) /\ s.what # "edit" -> UNCHANGED docs
             [] InTime(s) /\ s.what = "ensure" -> EnsureReturns(s)
             [] InTime(s) /\ s.what = "refresh" -> RefreshReturns(s)
        /\ UNCHANGED <<server, wire, gen, known, active, people,
                       inbound, members, prefetch, history, used>>

-----------------------------------------------------------------------------
(* _prefetch_groups_and_members.                                           *)

\* /octo_refresh has documents and rosters asked for again.
PrefetchStarts(p) ==
    /\ prefetch[p] = Off /\ Trouble
    /\ prefetch' = [prefetch EXCEPT ![p] =
          [pc |-> "asked", gen |-> gen, lists |-> FALSE, evicted |-> FALSE, old |-> FALSE]]
    /\ IF p = "command" THEN Docs(cached, {}, basis, excused) /\ stamped' = FALSE
       ELSE UNCHANGED <<docs, stamped>>
    /\ UNCHANGED <<server, wire, gen, known, active, roster, robots,
                   inbound, fetches, members, history>>

ServerListsGroups(p) ==
    /\ prefetch[p].pc = "asked"
    /\ prefetch' = [prefetch EXCEPT ![p].pc = "listed", ![p].lists = member]
    /\ UNCHANGED <<server, wire, gen, known, docs, active, people,
                   inbound, fetches, members, history, used>>

PrefetchFails(p) ==
    /\ prefetch[p] # Off /\ Trouble /\ prefetch' = [prefetch EXCEPT ![p] = Off]
    /\ UNCHANGED <<server, wire, gen, known, docs, active, people, inbound, fetches, members, history>>

IndexesAll(p) == prefetch[p].lists  \* mutant: whatever came in between

\* A listed group becomes known, unless something invalidated it meanwhile.
Indexes(p) == prefetch[p].lists /\ prefetch[p].gen = gen

PrefetchReturns(p) ==
    /\ prefetch[p].pc = "listed"
    /\ \/ /\ known /\ ~prefetch[p].lists
          /\ EvictScope /\ shut' = ~member
          /\ prefetch' = [q \in Origins |->
                IF q = p THEN Off
                ELSE IF prefetch[q] = Off THEN Off ELSE [prefetch[q] EXCEPT !.evicted = TRUE]]
       \/ /\ known => prefetch[p].lists
          /\ known' = (known \/ Indexes(p))
          /\ active' = IF Indexes(p) THEN active \union {Group} ELSE active
          /\ prefetch' = [prefetch EXCEPT ![p] = Off]
          /\ UNCHANGED <<gen, docs, people, shut>>
    /\ UNCHANGED <<server, wire, inbound, fetches, members, heard, gone, used>>

-----------------------------------------------------------------------------
(* _cleanup_caches and _reset_identity_scoped_state.                       *)

\* A key untouched for four hours: no message of it can be under way.
Idle(k) ==
    /\ inbound # Off => k \notin {Group, inbound.key}
    /\ \A f \in Fetches : fetches[f] # Off /\ fetches[f].what = "ensure" => fetches[f].key # k

Cleanup(k) ==
    /\ k \in active /\ Idle(k) /\ Trouble
    /\ Docs(cached \ {k}, checked \ {k}, basis, excused)
    /\ active' = active \ {k}
    /\ IF k = Group THEN EvictMembers ELSE UNCHANGED <<known, people>>
    /\ UNCHANGED <<server, wire, gen, tasks, history>>

Older(s) == IF s = Off THEN Off ELSE [s EXCEPT !.old = TRUE]

\* The token has become another bot's.  Only the prefetch of the connect is
\* cancelled; the message at hand ended with its connection.
ResetIdentity ==
    /\ Trouble /\ inbound = Off
    /\ EvictMembers /\ Docs({}, {}, basis, {}) /\ active' = {} /\ gen' = 0
    /\ fetches' = [f \in Fetches |-> Older(fetches[f])]
    /\ members' = [c \in Callers |-> Older(members[c])]
    /\ prefetch' = [p \in Origins |-> IF p = "connect" THEN Off ELSE Older(prefetch[p])]
    /\ shut' = FALSE /\ wire' = <<>>
    /\ UNCHANGED <<server, inbound, heard, gone>>

-----------------------------------------------------------------------------
Next ==
    \/ \E k \in Keys : ServerChanges(k) \/ SomeoneWrites(k) \/ Cleanup(k)
    \/ MemberMoves \/ Loses \/ ResetIdentity \/ StampExpires
    \/ UpdateArrives \/ DeletionArrives \/ MessageArrives \/ TurnStarts
    \/ \E c \in Callers : AsksMembers(c) \/ ServerListsMembers(c) \/ MembersReturn(c)
    \/ \E f \in Fetches : Starts(f) \/ ServerAnswers(f) \/ Fails(f) \/ Returns(f)
    \/ \E f \in Fetches, k \in Keys : EditStarts(f, k)
    \/ \E p \in Origins :
          PrefetchStarts(p) \/ ServerListsGroups(p) \/ PrefetchFails(p) \/ PrefetchReturns(p)

Spec == Init /\ [][Next]_vars

-----------------------------------------------------------------------------
(* What the generations are for.                                           *)

\* A document that counts as checked is at least as new as the last event of
\* it that arrived: no answer that was on its way when the event came is taken
\* after it, and an update that failed to be fetched is fetched by a turn.
CheckedIsFresh == \A k \in checked \ excused : basis[k] >= heard[k]

\* A document whose deletion arrived does not come back with an answer from
\* before the deletion (_handle_group_md_event).
DeletedStaysDeleted == \A k \in cached \ excused : basis[k] > gone[k]

CacheIsCurrent == CheckedIsFresh /\ DeletedStaysDeleted

\* After a prefetch found the bot out of the group, nothing of the group is
\* cached until it is a member again ("Fail closed after a parent group
\* disappears from membership"): neither documents nor members.
EvictedFailsClosed ==
    shut => /\ cached \subseteq excused /\ checked \subseteq excused
            /\ roster \/ robots => "people" \in excused

\* "A group evicted while the server snapshot was awaiting I/O must not be
\* resurrected by this older prefetch."
NotResurrected ==
    [][\A p \in Origins :
          /\ prefetch[p].pc = "listed" /\ prefetch'[p] = Off
          /\ prefetch[p].evicted /\ ~prefetch[p].old
          => (known' => known)]_vars
=============================================================================
