---------------------------- MODULE CardActions ----------------------------
(***************************************************************************)
(* Interactive cards of one bot: CardSessionRegistry (card_sessions.py),   *)
(* its durable shard CardBindingStore (identity.py), the event poller with *)
(* its cursor file and handle_card_action (card_events.py), and the tool   *)
(* that edits a card (octo_edit_card_handler, message_tools.py).           *)
(*                                                                         *)
(* A user presses a control of a card; the server queues an event.  The    *)
(* poller fetches it, claims the card, dispatches a turn to Hermes, records*)
(* the outcome in the registry, saves its cursor and acknowledges the      *)
(* event, in this order; every one of these steps awaits, may fail, may be *)
(* cancelled by a stop of the poller, and may be the last before a crash.  *)
(* Meanwhile the edit tool claims the same cards.                          *)
(***************************************************************************)
EXTENDS Integers, FiniteSets, FiniteSetsExt

CONSTANTS
    Cards,              \* message ids
    Reasoning,          \* cards of kind "reasoning": never persisted
    Editable,           \* cards the edit tool is used on
    MaxEvent,           \* bound: events the server queues, 1..MaxEvent
    CardOf,             \* the card of an event
    KindOf,             \* action, mismatch (not the bound user or control),
                        \* malformed (parse_card_action answers None)
    Limit,              \* events per fetch
    MaxSessions,        \* _max_sessions
    MaxAttempts,        \* max_dispatch_attempts
    MaxFlushFailures,   \* _MAX_PENDING_ACK_FLUSH_FAILURES
    Unreadable,         \* whether the cursor file may also fail to be read
    MaxFaults,          \* bound: failed writes of either file, and failed reads
    MaxCrashes,         \* bound: crashes
    MaxStops,           \* bound: stops of the poller (disconnect, reconnect)
    MaxEdits,           \* bound: edits that were claimed
    MaxSeq              \* bound: the sequence up to which a card is claimed, which
                        \* an event that is fetched for ever would raise for ever

Events == 1..MaxEvent

ASSUME CardAssumption ==
    /\ Reasoning \subseteq Cards /\ Editable \subseteq Cards
    /\ MaxEvent \in Nat
    /\ CardOf \in [Events -> Cards]
    /\ Unreadable \in BOOLEAN
    /\ KindOf \in [Events -> {"action", "mismatch", "malformed"}]
    /\ {Limit, MaxSessions, MaxAttempts, MaxFlushFailures} \subseteq Nat \ {0}
    /\ {MaxFaults, MaxCrashes, MaxStops, MaxEdits, MaxSeq} \subseteq Nat

VARIABLES
    mem,        \* _entries
    file,       \* card-sessions.json
    known,      \* cards that were ever sent
    up,         \* the process runs
    posted,     \* events 1..posted were queued by the server
    acked,      \* events the server has dropped
    disk,       \* events.cursor.json: event_id and pending_ack_event_id
    orphans,    \* cursor writes of cancelled pollers whose threads still run
    pc,         \* where the poller is
    cursor, pending, failures,  \* _cursor, _pending_ack_event_id, and its count
    batch,      \* fetched events that were not handled yet
    verdict,    \* what handle_card_action answers for the current event
    injected,   \* the current dispatch has handed its turn to Hermes
    edit,       \* the sequence of a card's edit in flight, 0 for none
    sent,       \* history: highest card_seq sent for a card
    outcome,    \* history: the verdict an event was passed with
    turns,      \* history: turns injected for a card
    abandoned,  \* history: acks given up
    lapsed,     \* history: acks whose record on disk a late write replaced, or a
                \*          poller could not read
    faults, crashes, stops, edits

registry == <<mem, file, known>>
server   == <<posted, acked>>
poller   == <<pc, cursor, pending, failures, batch, verdict, injected>>
history  == <<outcome, turns, abandoned, lapsed>>
bounds   == <<crashes, stops, edits>>
vars == <<registry, up, server, disk, orphans, poller, edit, sent, history,
          faults, bounds>>

-----------------------------------------------------------------------------
(* Registry entries.  "by" is claimed_event_id: an event, or minus the      *)
(* sequence of an edit.                                                     *)

Entry == [state : {"absent", "pending", "processing", "completed"}, by : Int,
          attemptEvent : Nat, attempts : Nat, seq : Nat]
Absent == [state |-> "absent", by |-> 0, attemptEvent |-> 0, attempts |-> 0, seq |-> 0]
NewEntry == [Absent EXCEPT !.state = "pending"]

Live(m) == {c \in Cards : m[c].state # "absent"}
HeldBy(x, by) == x.state = "processing" /\ x.by = by

Claimed(x, e) ==
    [x EXCEPT !.state = "processing", !.by = e, !.attemptEvent = e,
              !.attempts = IF x.attemptEvent = e THEN @ + 1 ELSE 1]

EditClaimed(x) ==
    [x EXCEPT !.state = "processing", !.seq = @ + 1, !.by = -(x.seq + 1)]

Released(x, by) ==
    IF HeldBy(x, by) THEN [x EXCEPT !.state = "pending", !.by = 0] ELSE x

CompletedReleases(x, by) == Released(x, by)  \* mutant: the card stays open

Completed(x, by) ==
    IF HeldBy(x, by) THEN [x EXCEPT !.state = "completed"] ELSE x

NextSeq(x) == IF x.state = "absent" THEN x ELSE [x EXCEPT !.seq = @ + 1]

\* _entry_to_record: reasoning cards are not durable.
Records(m) == [c \in Cards |-> IF c \in Reasoning THEN Absent ELSE m[c]]

\* _entry_from_record: an interrupted claim may be taken again.
Restored(f) ==
    [c \in Cards |->
        [f[c] EXCEPT !.state = IF @ = "processing" THEN "pending" ELSE @, !.by = 0]]

\* _persist writes every entry, or raises and leaves the file as it was.
Persist(m) ==
    \/ file' = Records(m) /\ UNCHANGED faults
    \/ faults < MaxFaults /\ faults' = faults + 1 /\ UNCHANGED file
Durable == faults' = faults

-----------------------------------------------------------------------------

Statuses == {"none", "missing", "ignored", "duplicate", "completed", "failed",
             "dead_letter", "unsupported", "malformed"}
ShouldAck(v) == v \in {"completed", "failed", "dead_letter", "duplicate", "unsupported"}

CursorFile == [event : {0} \union Events, pending : {0} \union Events]

\* The cursor write that the n-th stop left in its thread: before or after
\* _save_sync compared the file.
OrphanWrite == [stop : 1..MaxStops, stage : {"check", "replace"},
                event : {0} \union Events, pending : {0} \union Events]

TypeOK ==
    /\ mem \in [Cards -> Entry] /\ file \in [Cards -> Entry]
    /\ known \subseteq Cards
    /\ up \in BOOLEAN
    /\ posted \in 0..MaxEvent /\ acked \subseteq Events
    /\ disk \in CursorFile /\ orphans \subseteq OrphanWrite
    /\ pc \in {"off", "top", "fetch", "next", "status", "dispatch", "final",
               "save", "ack", "clear"}
    /\ cursor \in {0} \union Events /\ pending \in {0} \union Events
    /\ failures \in Nat
    /\ batch \subseteq Events
    /\ verdict \in Statuses
    /\ injected \in BOOLEAN
    /\ edit \in [Cards -> Nat] /\ sent \in [Cards -> Nat]
    /\ outcome \in [Events -> Statuses]
    /\ turns \in [Cards -> Nat]
    /\ abandoned \subseteq Events /\ lapsed \subseteq Events
    /\ faults \in 0..MaxFaults /\ crashes \in 0..MaxCrashes
    /\ stops \in 0..MaxStops /\ edits \in 0..MaxEdits
    /\ Cardinality(Live(mem)) <= MaxSessions

Init ==
    /\ mem = [c \in Cards |-> Absent] /\ file = [c \in Cards |-> Absent]
    /\ known = {} /\ up = FALSE
    /\ posted = 0 /\ acked = {}
    /\ disk = [event |-> 0, pending |-> 0] /\ orphans = {}
    /\ pc = "off" /\ cursor = 0 /\ pending = 0 /\ failures = 0
    /\ batch = {} /\ verdict = "none" /\ injected = FALSE
    /\ edit = [c \in Cards |-> 0] /\ sent = [c \in Cards |-> 0]
    /\ outcome = [e \in Events |-> "none"]
    /\ turns = [c \in Cards |-> 0]
    /\ abandoned = {} /\ lapsed = {}
    /\ faults = 0 /\ crashes = 0 /\ stops = 0 /\ edits = 0

Current == Min(batch)
Card == CardOf[Current]

-----------------------------------------------------------------------------
(* The process, the server and the users.                                  *)

\* A gateway starts; attach_persistence restores the bindings of its bot.
Boot ==
    /\ ~up /\ up' = TRUE
    /\ mem' = Restored(file)
    /\ UNCHANGED <<file, known, server, disk, orphans, poller, edit, sent, history,
                   faults, bounds>>

Crash ==
    /\ up /\ crashes < MaxCrashes
    /\ crashes' = crashes + 1
    /\ up' = FALSE
    /\ mem' = [c \in Cards |-> Absent]
    /\ pc' = "off" /\ cursor' = 0 /\ pending' = 0 /\ failures' = 0
    /\ batch' = {} /\ verdict' = "none" /\ injected' = FALSE
    /\ orphans' = {}
    /\ edit' = [c \in Cards |-> 0]
    /\ UNCHANGED <<file, known, server, disk, sent, history, faults, stops, edits>>

RegisterAlways(c) ==  \* mutant
    /\ up /\ c \notin known
    /\ known' = known \union {c}
    /\ mem' = [mem EXCEPT ![c] = NewEntry] /\ Persist(mem')
    /\ UNCHANGED <<up, server, disk, orphans, poller, edit, sent, history, bounds>>

\* register: a full registry makes room by dropping a completed card, and
\* refuses the new one when there is none.
Register(c) ==
    /\ up /\ c \notin known
    /\ known' = known \union {c}
    /\ LET done == {d \in Cards : mem[d].state = "completed"}
           full == Cardinality(Live(mem)) >= MaxSessions
       IN  \/ ~full /\ mem' = [mem EXCEPT ![c] = NewEntry] /\ Persist(mem')
           \/ /\ full
              /\ \E d \in done : mem' = [mem EXCEPT ![d] = Absent, ![c] = NewEntry]
              /\ Persist(mem')
           \/ full /\ done = {} /\ UNCHANGED <<mem, file, faults>>
    /\ UNCHANGED <<up, server, disk, orphans, poller, edit, sent, history, bounds>>

\* The time to live of a card ends: its entry is pruned and its record ignored.
Expire(c) ==
    /\ up /\ (mem[c].state # "absent" \/ file[c].state # "absent")
    /\ mem' = [mem EXCEPT ![c] = Absent]
    /\ file' = [file EXCEPT ![c] = Absent]
    /\ UNCHANGED <<known, up, server, disk, orphans, poller, edit, sent, history,
                   faults, bounds>>

\* A user presses a control of a card that was sent.
Press ==
    /\ posted < MaxEvent /\ CardOf[posted + 1] \in known
    /\ posted' = posted + 1
    /\ UNCHANGED <<registry, up, acked, disk, orphans, poller, edit, sent, history,
                   faults, bounds>>

-----------------------------------------------------------------------------
(* The poller.                                                             *)

\* Where an exception or a failed ack leaves poll_once.
BackToTop ==
    /\ pc' = "top" /\ batch' = {} /\ verdict' = "none" /\ injected' = FALSE
    /\ UNCHANGED <<cursor, pending, failures>>

Goto(where) ==
    /\ pc' = where
    /\ UNCHANGED <<cursor, pending, failures, batch, verdict, injected>>

\* _read_state_unlocked: a file that cannot be read looks like none.
FailsToRead == Unreadable /\ faults < MaxFaults /\ faults' = faults + 1

\* _save_sync compares the event with what it reads of the file.
Advances(e) == (e >= disk.event /\ UNCHANGED faults) \/ (e < disk.event /\ FailsToRead)

PendingUnread ==  \* mutant: the owed ack is not loaded
    /\ up /\ pc = "off"
    /\ pc' = "top" /\ cursor' = disk.event /\ pending' = 0 /\ failures' = 0
    /\ UNCHANGED <<batch, verdict, injected, registry, up, server, disk, orphans,
                   edit, sent, history, faults, bounds>>

\* EventPoller.initialize reads the file twice, for the cursor and for the owed ack.
StartPoller ==
    /\ up /\ pc = "off"
    /\ pc' = "top" /\ failures' = 0
    /\ \/ /\ cursor' = disk.event
          /\ pending' = IF disk.pending <= disk.event THEN disk.pending ELSE 0
          /\ UNCHANGED <<lapsed, faults>>
       \/ /\ FailsToRead
          /\ cursor' \in {0, disk.event} /\ pending' = 0
          /\ lapsed' = lapsed \union ({disk.pending} \ {0})
    /\ UNCHANGED <<batch, verdict, injected, registry, up, server, disk, orphans,
                   edit, sent, outcome, turns, abandoned, bounds>>

\* poll_once begins with the ack that is owed.
Poll ==
    /\ pc = "top"
    /\ Goto(IF pending = 0 THEN "fetch" ELSE "ack")
    /\ UNCHANGED <<registry, up, server, disk, orphans, edit, sent, history, faults, bounds>>

\* fetch_bot_events: what the server still holds above the cursor, oldest first.
Fetch ==
    LET held == {e \in 1..posted : e \notin acked /\ e > cursor}
        got == {e \in held : Cardinality({x \in held : x < e}) < Limit}
    IN  /\ pc = "fetch" /\ got # {}
        /\ pc' = "next" /\ batch' = got
        /\ UNCHANGED <<cursor, pending, failures, verdict, injected, registry, up,
                       server, disk, orphans, edit, sent, history, faults, bounds>>

\* The event is answered without a dispatch.
Answer(v) ==
    /\ pc' = "save" /\ verdict' = v
    /\ UNCHANGED <<cursor, pending, failures, batch, injected>>

HandleMalformed ==
    /\ pc = "next" /\ KindOf[Current] = "malformed"
    /\ Answer("malformed")
    /\ UNCHANGED <<registry, up, server, disk, orphans, edit, sent, history, faults, bounds>>

HandleMissing ==
    /\ pc = "next" /\ KindOf[Current] # "malformed"
    /\ mem[Card].state = "absent"
    /\ Answer("missing")
    /\ UNCHANGED <<registry, up, server, disk, orphans, edit, sent, history, faults, bounds>>

\* claim() of a card that is taken: its state is saved again before the answer.
HandleDuplicate ==
    /\ pc = "next" /\ KindOf[Current] # "malformed"
    /\ mem[Card].state \in {"processing", "completed"}
    /\ Persist(mem)
    /\ IF Durable THEN Answer(IF KindOf[Current] = "action" THEN "duplicate"
                              ELSE "ignored")
       ELSE BackToTop
    /\ UNCHANGED <<mem, known, up, server, disk, orphans, edit, sent, history, bounds>>

ClaimEvent == [mem EXCEPT ![Card] = Claimed(@, Current)]

\* claim() of a pending card for its own user's event.  A claim that cannot be
\* saved is taken back.
HandleClaim ==
    /\ pc = "next" /\ KindOf[Current] = "action" /\ Card \notin Reasoning
    /\ mem[Card].state = "pending" /\ mem[Card].seq < MaxSeq
    /\ Persist(ClaimEvent)
    /\ IF Durable THEN mem' = ClaimEvent /\ Goto("status")
       ELSE UNCHANGED mem /\ BackToTop
    /\ UNCHANGED <<known, up, server, disk, orphans, edit, sent, history, bounds>>

\* An event that does not match the binding: claimed, refused, released.
HandleMismatch ==
    LET released == [ClaimEvent EXCEPT ![Card] = Released(@, Current)]
    IN  /\ pc = "next" /\ KindOf[Current] = "mismatch"
        /\ mem[Card].state = "pending"
        /\ \/ faults < MaxFaults /\ faults' = faults + 1
              /\ \/ UNCHANGED <<mem, file>>                     \* the claim fails
                 \/ mem' = released /\ file' = Records(ClaimEvent) \* the release
              /\ BackToTop
           \/ /\ mem' = released /\ file' = Records(released) /\ UNCHANGED faults
              /\ Answer("ignored")
        /\ UNCHANGED <<known, up, server, disk, orphans, edit, sent, history, bounds>>

\* handle_reasoning_card_action: claimed and completed without a turn.
HandleReasoning ==
    LET completed == [ClaimEvent EXCEPT ![Card] = Completed(@, Current)]
    IN  /\ pc = "next" /\ KindOf[Current] = "action" /\ Card \in Reasoning
        /\ mem[Card].state = "pending"
        /\ \/ faults < MaxFaults /\ faults' = faults + 1
              /\ mem' \in {mem, completed} /\ UNCHANGED file
              /\ BackToTop
           \/ /\ mem' = completed /\ file' = Records(completed) /\ UNCHANGED faults
              /\ Answer("unsupported")
        /\ UNCHANGED <<known, up, server, disk, orphans, edit, sent, history, bounds>>

\* update_status shows the card's progress under the next sequence, or not at
\* all; none of its failures reaches the caller.
Status ==
    LET counted == [mem EXCEPT ![Card] = NextSeq(@)]
    IN  /\ pc \in {"status", "final"}
        /\ mem' = counted
        /\ IF mem[Card].state = "absent" THEN UNCHANGED <<file, faults>>
           ELSE Persist(counted)
        /\ sent' = IF mem[Card].state # "absent" /\ Durable
                   THEN [sent EXCEPT ![Card] = counted[Card].seq] ELSE sent
        /\ Goto(IF pc = "status" THEN "dispatch" ELSE "save")
        /\ UNCHANGED <<known, up, server, disk, orphans, edit, history, bounds>>

\* dispatch_card_session_action hands a turn to Hermes, and has not returned.
Inject ==
    /\ pc = "dispatch" /\ ~injected
    /\ injected' = TRUE
    /\ turns' = [turns EXCEPT ![Card] = @ + 1]
    /\ UNCHANGED <<registry, up, server, disk, orphans, pc, cursor, pending, failures,
                   batch, verdict, edit, sent, outcome, abandoned, lapsed,
                   faults, bounds>>

SettleRegardless(m, v) ==  \* mutant: a completion that was not saved is acknowledged
    /\ mem' = m
    /\ Persist(m)
    /\ pc' = "final" /\ verdict' = v /\ injected' = FALSE
    /\ UNCHANGED <<cursor, pending, failures, batch>>
    /\ UNCHANGED <<known, up, server, disk, orphans, edit, sent, history, bounds>>

\* What the end of a dispatch leaves in the registry decides the answer; when
\* that cannot be saved the event is fetched again.
Settle(m, v) ==
    /\ mem' = m
    /\ Persist(m)
    /\ IF Durable
       THEN /\ pc' = "final" /\ verdict' = v /\ injected' = FALSE
            /\ UNCHANGED <<cursor, pending, failures, batch>>
       ELSE BackToTop
    /\ UNCHANGED <<known, up, server, disk, orphans, edit, sent, history, bounds>>

\* The dispatch returns: True, "failed" (the route is refused or the session
\* moved), or False, which releases the card.
DispatchReturns ==
    /\ pc = "dispatch"
    /\ \/ injected /\ Settle([mem EXCEPT ![Card] = Completed(@, Current)], "completed")
       \/ ~injected /\ Settle([mem EXCEPT ![Card] = Completed(@, Current)], "failed")
       \/ ~injected /\ Settle([mem EXCEPT ![Card] = Released(@, Current)], "ignored")

\* It raises: retried until max_dispatch_attempts, then a dead letter.  Without
\* an entry there is nothing to complete or to release.
DispatchRaises(exhausted) ==
    /\ pc = "dispatch" /\ ~injected
    /\ mem[Card].state # "absent" => exhausted = (mem[Card].attempts >= MaxAttempts)
    /\ \/ /\ exhausted
          /\ Settle([mem EXCEPT ![Card] = Completed(@, Current)], "dead_letter")
       \/ /\ ~exhausted
          /\ mem' = [mem EXCEPT ![Card] = Released(@, Current)]
          /\ Persist(mem')
          /\ BackToTop
          /\ UNCHANGED <<known, up, server, disk, orphans, edit, sent, history, bounds>>

SaveWithoutAck ==  \* mutant: the ack that is owed is not written down
    LET e == Current
    IN  /\ pc = "save"
        /\ disk' = [event |-> e, pending |-> 0]
        /\ cursor' = e /\ pending' = IF ShouldAck(verdict) THEN e ELSE 0
        /\ batch' = batch \ {e}
        /\ verdict' = "none" /\ injected' = FALSE
        /\ pc' = IF ShouldAck(verdict) THEN "ack"
                 ELSE IF batch' = {} THEN "top" ELSE "next"
        /\ outcome' = [outcome EXCEPT ![e] = verdict]
        /\ UNCHANGED <<failures, registry, up, server, orphans, edit, sent,
                       turns, abandoned, lapsed, faults, bounds>>

\* The cursor passes the event, and the ack it owes is written with it.
Save ==
    LET e == Current
        owed == IF ShouldAck(verdict) THEN e ELSE 0
    IN  /\ pc = "save" /\ Advances(e)
        /\ disk' = [event |-> e, pending |-> owed]
        /\ cursor' = e /\ pending' = owed
        /\ batch' = batch \ {e}
        /\ verdict' = "none" /\ injected' = FALSE
        /\ pc' = IF owed # 0 THEN "ack" ELSE IF batch' = {} THEN "top" ELSE "next"
        /\ outcome' = [outcome EXCEPT ![e] = verdict]
        /\ UNCHANGED <<failures, registry, up, server, orphans, edit, sent,
                       turns, abandoned, lapsed, bounds>>

\* A write of the cursor fails, or would move it backwards.
SaveFails ==
    /\ pc = "save" /\ BackToTop
    /\ \/ faults < MaxFaults /\ faults' = faults + 1
       \/ Current < disk.event /\ UNCHANGED faults
    /\ UNCHANGED <<registry, up, server, disk, orphans, edit, sent, history, bounds>>

\* _flush_pending_ack: the server drops the event; its answer may be lost.
AckSucceeds ==
    /\ pc = "ack"
    /\ acked' = acked \union {pending}
    /\ Goto("clear")
    /\ UNCHANGED <<registry, up, posted, disk, orphans, edit, sent, history, faults, bounds>>

AckFailsForEver(reached) ==  \* mutant: no bound on the rounds
    /\ pc = "ack"
    /\ acked' = IF reached THEN acked \union {pending} ELSE acked
    /\ pc' = "top" /\ batch' = {}
    /\ UNCHANGED <<failures, abandoned, cursor, pending, verdict, injected, registry,
                   up, posted, disk, orphans, edit, sent, outcome, turns, lapsed,
                   faults, bounds>>

AckFails(reached) ==
    /\ pc = "ack"
    /\ acked' = IF reached THEN acked \union {pending} ELSE acked
    /\ failures' = IF failures < MaxFlushFailures THEN failures + 1 ELSE failures
    /\ IF failures + 1 < MaxFlushFailures
       THEN pc' = "top" /\ batch' = {} /\ UNCHANGED abandoned
       ELSE /\ pc' = "clear" /\ UNCHANGED batch
            /\ abandoned' = abandoned \union {pending}
    /\ UNCHANGED <<cursor, pending, verdict, injected, registry, up, posted, disk,
                   orphans, edit, sent, outcome, turns, lapsed, faults, bounds>>

ClearPending ==
    /\ pc = "clear" /\ Advances(cursor)
    /\ disk' = [event |-> cursor, pending |-> 0]
    /\ pending' = 0 /\ failures' = 0
    /\ pc' = IF batch = {} THEN "fetch" ELSE "next"
    /\ UNCHANGED <<cursor, batch, verdict, injected, registry, up, server, orphans,
                   edit, sent, history, bounds>>

ClearFails ==
    /\ pc = "clear" /\ BackToTop
    /\ \/ faults < MaxFaults /\ faults' = faults + 1
       \/ cursor < disk.event /\ UNCHANGED faults
    /\ UNCHANGED <<registry, up, server, disk, orphans, edit, sent, history, bounds>>

\* The poller is cancelled.  A dispatch releases its claim on the way out; the
\* thread of a cursor write is not stopped and finishes on its own.
StopPoller ==
    /\ up /\ pc # "off" /\ stops < MaxStops
    /\ stops' = stops + 1
    /\ IF pc \in {"status", "dispatch"}
       THEN mem' = [mem EXCEPT ![Card] = Released(@, Current)] /\ Persist(mem')
       ELSE UNCHANGED <<mem, file, faults>>
    /\ \E stage \in {"check", "replace"} :
         LET Left(e, owed) == {[stop |-> stops + 1, stage |-> stage,
                                event |-> e, pending |-> owed]}
         IN  orphans' = orphans \union
                 CASE pc = "save" -> Left(Current, IF ShouldAck(verdict) THEN Current ELSE 0)
                   [] pc = "clear" -> Left(cursor, 0)
                   [] OTHER -> {}
    /\ pc' = "off" /\ batch' = {} /\ verdict' = "none" /\ injected' = FALSE
    /\ cursor' = 0 /\ pending' = 0 /\ failures' = 0
    /\ UNCHANGED <<known, up, server, disk, edit, sent, history, crashes, edits>>

\* Each poller has a FileEventCursorStore, and a lock, of its own: the thread's
\* comparison and its replacement of the file are separate steps here.
OrphanChecks(w) ==
    /\ w.stage = "check"
    /\ \/ orphans' = (orphans \ {w}) \union {[w EXCEPT !.stage = "replace"]} /\ Advances(w.event)
       \/ orphans' = orphans \ {w} /\ w.event < disk.event /\ UNCHANGED faults
    /\ UNCHANGED <<registry, up, server, disk, poller, edit, sent, history, bounds>>

OrphanReplaces(w) ==
    /\ w.stage = "replace"
    /\ orphans' = orphans \ {w}
    /\ disk' = [event |-> w.event, pending |-> w.pending]
    /\ lapsed' = lapsed \union ({disk.pending} \ {0, w.pending})
    /\ UNCHANGED <<registry, up, server, poller, edit, sent, outcome, turns, abandoned,
                   faults, bounds>>

-----------------------------------------------------------------------------
(* octo_edit_card_handler.                                                 *)

EditUnsaved(c) ==  \* mutant: an edit without its sequence on disk
    /\ up /\ edit[c] = 0 /\ edits < MaxEdits
    /\ c \notin Reasoning /\ mem[c].state = "pending"
    /\ edits' = edits + 1
    /\ mem' = [mem EXCEPT ![c] = EditClaimed(@)]
    /\ edit' = [edit EXCEPT ![c] = mem'[c].seq]
    /\ UNCHANGED <<file, known, up, server, disk, orphans, poller, sent, history,
                   faults, crashes, stops>>

\* claim_edit.
EditClaim(c) ==
    LET claimed == [mem EXCEPT ![c] = EditClaimed(@)]
    IN  /\ up /\ edit[c] = 0 /\ edits < MaxEdits
        /\ c \notin Reasoning /\ mem[c].state = "pending"
        /\ edits' = edits + 1
        /\ Persist(claimed)
        /\ IF Durable THEN mem' = claimed /\ edit' = [edit EXCEPT ![c] = claimed[c].seq]
           ELSE UNCHANGED <<mem, edit>>
        /\ UNCHANGED <<known, up, server, disk, orphans, poller, sent, history,
                       crashes, stops>>

EditSends(c) ==
    /\ edit[c] > sent[c]
    /\ sent' = [sent EXCEPT ![c] = edit[c]]
    /\ UNCHANGED <<registry, up, server, disk, orphans, poller, edit, history,
                   faults, bounds>>

\* The edit was accepted: a final one completes the card; another one, and any
\* that failed, releases it.
EditEnds(c, final) ==
    /\ edit[c] # 0
    /\ final => sent[c] >= edit[c]
    /\ mem' = [mem EXCEPT ![c] = IF final THEN Completed(@, -edit[c])
                                 ELSE Released(@, -edit[c])]
    /\ Persist(mem')
    /\ edit' = [edit EXCEPT ![c] = 0]
    /\ UNCHANGED <<known, up, server, disk, orphans, poller, sent, history, bounds>>

\* The turn is cancelled during an edit: CancelledError is no Exception, so
\* nothing releases the card.
EditCancelled(c) ==
    /\ edit[c] # 0
    /\ edit' = [edit EXCEPT ![c] = 0]
    /\ UNCHANGED <<registry, up, server, disk, orphans, poller, sent, history,
                   faults, bounds>>

-----------------------------------------------------------------------------

Deliver ==
    \/ Boot \/ StartPoller \/ Poll \/ Fetch
    \/ HandleMalformed \/ HandleMissing \/ HandleDuplicate
    \/ HandleClaim \/ HandleMismatch \/ HandleReasoning
    \/ Status \/ Inject \/ DispatchReturns
    \/ \E exhausted \in BOOLEAN : DispatchRaises(exhausted)
    \/ Save \/ SaveFails
    \/ AckSucceeds \/ \E reached \in BOOLEAN : AckFails(reached)
    \/ ClearPending \/ ClearFails

Next ==
    \/ Deliver
    \/ StopPoller \/ Crash \/ Press
    \/ \E w \in orphans : OrphanChecks(w) \/ OrphanReplaces(w)
    \/ \E c \in Cards : Register(c) \/ Expire(c)
    \/ \E c \in Editable :
          \/ EditClaim(c) \/ EditSends(c) \/ EditCancelled(c)
          \/ \E final \in BOOLEAN : EditEnds(c, final)

Spec == Init /\ [][Next]_vars

\* The loop runs the poller's next step, a supervisor restarts the gateway;
\* users, edits and faults are under no obligation.
FairSpec == Spec /\ WF_vars(Deliver)

-----------------------------------------------------------------------------
(* Properties.                                                             *)

\* A card gets one turn, and at most one more for each crash and each stop of the
\* poller: no failing write, unread cursor, failing ack, late duplicate or edit makes
\* it run again (claim, complete and the duplicate answer).
OneTurnPerIncarnation ==
    \A c \in Cards : turns[c] <= 1 + crashes + stops

\* What the server was told is done is done for good: a card that ran or was
\* given up is on disk as completed before its event is acknowledged, so that no
\* restart takes it up again.
AckedIsSettled ==
    \A e \in acked :
        outcome[e] \in {"completed", "failed", "dead_letter"}
            => file[CardOf[e]].state \in {"completed", "absent"}

\* An event that owes an ack keeps owing it across crashes and stops, until the
\* server has it or _flush_pending_ack gave it up.  Two things may take its record
\* off the disk before: the write of a cancelled poller that lands late (_save_sync
\* compares under a lock that the next poller does not share), and a poller that
\* could not read the record when it started (initialize).
AckNeverForgotten ==
    \A e \in Events :
        ShouldAck(outcome[e])
            => e \in acked \union abandoned \union lapsed \union {disk.pending}

\* No sequence number is sent for a card before it is on disk, so that no edit
\* after a restart reuses one and is taken for an old edit.
SentSequenceIsDurable ==
    \A c \in Cards \ Reasoning :
        file[c].state # "absent" => sent[c] <= file[c].seq

\* Whatever a restart finds on disk is no older than what the server was told.
DiskIsAsTold == AckedIsSettled /\ SentSequenceIsDurable

\* While the cursor file can be read, every press is passed by the durable cursor
\* sooner or later: a dispatch that keeps raising becomes a dead letter and an ack
\* that keeps failing is given up.
EveryPressIsPassed ==
    \A e \in Events : (posted >= e) ~> (disk.event >= e)
=============================================================================
