---------------------------- MODULE CardProgress ----------------------------
(***************************************************************************)
(* The progress cards of one bot (card_progress.py): hooks of the agent's  *)
(* threads change the state of a turn under the controller's lock, and a   *)
(* drain on the gateway loop sends the turn's card and edits it until what *)
(* was shown is what there is.                                             *)
(*                                                                         *)
(* A turn has a state per segment; an inbound message stops the segment    *)
(* and starts the next.  States and drains meet by key only, while a state *)
(* whose key was dropped may be followed by another under the same key.    *)
(*                                                                         *)
(* One session in one chat.  Of the steps of a turn only this is kept:     *)
(* whether there is one (tools: none, thinking, real); the last 32 are     *)
(* taken to hold a real tool if there is one.  The server keeps what it is *)
(* told last; a request that fails was handled before it failed, or never. *)
(* The barrier that waits 5 seconds for the first send is left out.        *)
(***************************************************************************)
EXTENDS Integers, FiniteSets, Functions

CONSTANTS
    Turns,
    Reuse,        \* a turn that has begun before may begin again
    Drains,       \* bound: drain tasks at a time
    MaxSegment,   \* bound: segments of a turn
    MaxStates,    \* bound: states made
    MaxRevision,  \* bound: revisions of a state before the final one
    MaxCancels,   \* bound: sessions cancelled, connections taken down, identities changed
    Attempts,     \* tries of an edit
    Exhaustions   \* _MAX_PROGRESS_EDIT_EXHAUSTIONS

ASSUME ProgressAssumption ==
    /\ Reuse \in BOOLEAN
    /\ {MaxSegment, MaxStates, MaxRevision, MaxCancels} \subseteq Nat
    /\ {Attempts, Exhaustions} \subseteq Nat \ {0}

VARIABLES
    states,    \* _states
    drains,    \* where each drain is, its key and what it has read
    adapter,   \* up, closing (_disconnecting), down
    controls,  \* the action registered for the card of each state
    shown,     \* the card of each state as the server has it
    made,      \* states made so far
    lost,      \* history: states that were given up
    begun,     \* history: turns that began
    cancels    \* cancellations so far

vars == <<states, drains, adapter, controls, shown, made, lost, begun, cancels>>

-----------------------------------------------------------------------------
Keys == Turns \X (0..MaxSegment)
Ids == 1..MaxStates

Phases == {"active", "result", "error"}
Tools == {"none", "thinking", "real"}
Modes == {"none", "card", "registry"}

Turn == [id : Ids, tools : Tools, rev : Nat, due : Nat, phase : Phases, scheduled : BOOLEAN,
         sending : BOOLEAN, msg : BOOLEAN, seq : Nat, mode : Modes, stop : BOOLEAN, keep : BOOLEAN]

SharedTurn(i) ==  \* mutant: the segments of a turn share their client_msg_no
    [id |-> 1, tools |-> "none", rev |-> 0, due |-> 0, phase |-> "active", scheduled |-> FALSE,
     sending |-> FALSE, msg |-> FALSE, seq |-> 0, mode |-> "none", stop |-> FALSE, keep |-> FALSE]

NewTurn(i) ==
    [id |-> i, tools |-> "none", rev |-> 0, due |-> 0, phase |-> "active", scheduled |-> FALSE,
     sending |-> FALSE, msg |-> FALSE, seq |-> 0, mode |-> "none", stop |-> FALSE, keep |-> FALSE]

Unsent == [seq |-> -1, rev |-> 0, phase |-> "active"]

Off == [pc |-> "off"]
Working == {"read", "act", "profile", "send", "sent", "edit", "edited"}
Drain(pc, k) == [pc |-> pc, key |-> k]

Live(k) == k \in DOMAIN states
Final(k) == states[k].phase # "active"
Active(d) == drains[d].pc \in Working

TypeOK ==
    /\ DOMAIN states \subseteq Keys /\ Range(states) \subseteq Turn
    /\ \A d \in Drains :
          \/ drains[d] = Off
          \/ drains[d].pc \in Working \union {"queued"} /\ drains[d].key \in Keys
    /\ adapter \in {"up", "closing", "down"}
    /\ controls \in [Ids -> {"none", "stop", "retry"}]
    /\ \A i \in Ids : shown[i] \in [seq : Nat \union {-1}, rev : Nat, phase : Phases]
    /\ made \in 0..MaxStates /\ lost \subseteq Ids /\ begun \subseteq Turns
    /\ cancels \in 0..MaxCancels
    /\ \A k, j \in DOMAIN states : states[k].id = states[j].id => k = j
    /\ \A k \in DOMAIN states : states[k].id <= made

Init ==
    /\ states = [k \in {} |-> NewTurn(1)] /\ drains = [d \in Drains |-> Off]
    /\ adapter = "up" /\ controls = [i \in Ids |-> "none"]
    /\ shown = [i \in Ids |-> Unsent]
    /\ made = 0 /\ lost = {} /\ begun = {} /\ cancels = 0

-----------------------------------------------------------------------------
(* Dropping and scheduling, when f is what the lock's holder made of the   *)
(* states.                                                                 *)

\* _drop_state_locked for the keys K; the history takes down those given up.
Drop(f, K, givenUp) ==
    LET gone == {f[k] : k \in K \intersect DOMAIN f}
    IN  /\ states' = Restrict(f, DOMAIN f \ K)
        /\ controls' = [i \in Ids |->
              IF \E s \in gone : s.id = i /\ s.mode = "registry" /\ s.msg /\ ~s.keep
              THEN "none" ELSE controls[i]]
        /\ lost' = IF givenUp THEN lost \union {s.id : s \in gone} ELSE lost

Becomes(f) == states' = f /\ UNCHANGED <<controls, lost>>

ScheduleAgain(f, k) ==  \* mutant: the scheduled flag is not looked at
    IF f[k].tools = "real" /\ adapter = "up"
    THEN /\ \E d \in Drains :
               /\ drains[d] = Off /\ d = CHOOSE e \in Drains : drains[e] = Off
               /\ drains' = [drains EXCEPT ![d] = Drain("queued", k)]
         /\ Becomes([f EXCEPT ![k].scheduled = TRUE])
    ELSE Becomes(f) /\ UNCHANGED drains

\* _schedule_locked: one drain at a time for a state, and none without a tool.
Schedule(f, k) ==
    \/ f[k].scheduled /\ Becomes(f) /\ UNCHANGED drains
    \/ /\ ~f[k].scheduled /\ f[k].tools # "real"
       /\ IF f[k].phase # "active" THEN Drop(f, {k}, FALSE) ELSE Becomes(f)
       /\ UNCHANGED drains
    \/ /\ ~f[k].scheduled /\ f[k].tools = "real" /\ adapter # "up"
       /\ Drop(f, {k}, TRUE) /\ UNCHANGED drains
    \/ /\ ~f[k].scheduled /\ f[k].tools = "real" /\ adapter = "up"
       /\ \E d \in Drains :
             /\ drains[d] = Off /\ d = CHOOSE e \in Drains : drains[e] = Off
             /\ drains' = [drains EXCEPT ![d] = Drain("queued", k)]
       /\ Becomes([f EXCEPT ![k].scheduled = TRUE])

\* A hook of the agent leaves a new revision of the state, to be shown.
Shows(k, s) ==
    Schedule([states EXCEPT ![k] = [s EXCEPT !.rev = @ + 1, !.due = s.rev + 1]], k)

-----------------------------------------------------------------------------
(* The hooks.                                                              *)

FoundEnded(t) ==  \* mutant: hooks find segments that are at their end
    LET pool == {k \in DOMAIN states : k[1] = t}
    IN  {k \in pool : \A j \in pool : j[2] <= k[2]}

\* _find_key_locked: the last segment of the turn, or of the only turn there is.
Found(t) ==
    LET live == {k \in DOMAIN states : ~Final(k)}
        exact == {k \in live : k[1] = t}
        pool == IF exact # {} THEN exact
                ELSE IF Cardinality({k[1] : k \in live}) = 1 THEN live ELSE {}
    IN  {k \in pool : \A j \in pool : j[2] <= k[2]}

Hook == UNCHANGED <<adapter, shown, made, begun, cancels>>

Begin(t) ==
    LET mine == {k \in DOMAIN states : k[1] = t}
        last == IF mine = {} THEN -1 ELSE CHOOSE n \in {k[2] : k \in mine} :
                                            \A k \in mine : k[2] <= n
    IN  /\ \A k \in mine : Final(k)
        /\ Reuse \/ t \notin begun
        /\ last < MaxSegment /\ made < MaxStates
        /\ states' = [k \in DOMAIN states \union {<<t, last + 1>>} |->
                        IF Live(k) THEN states[k] ELSE NewTurn(made + 1)]
        /\ made' = made + 1 /\ begun' = begun \union {t}
        /\ UNCHANGED <<drains, adapter, controls, shown, lost, cancels>>

\* Nothing is shown before the model has finished.
ModelStarted(t) ==
    /\ \E k \in Found(t) :
          /\ states[k].rev < MaxRevision
          /\ Becomes([states EXCEPT ![k].rev = @ + 1,
                                    ![k].tools = IF @ = "none" THEN "thinking" ELSE @])
    /\ Hook /\ UNCHANGED drains

ModelFinished(t) ==
    /\ \E k \in Found(t) :
          /\ states[k].rev < MaxRevision /\ states[k].tools # "none"
          /\ Shows(k, states[k])
    /\ Hook

ToolStarted(t) ==
    /\ \E k \in Found(t) :
          /\ states[k].rev < MaxRevision
          /\ Shows(k, [states[k] EXCEPT !.tools = "real"])
    /\ Hook

\* A tool that sends a card of its own is no step; without a real tool the
\* thinking steps go as well.
AuthoringToolStarted(t) ==
    /\ \E k \in Found(t) :
          /\ states[k].rev < MaxRevision
          /\ Becomes([states EXCEPT ![k].rev = @ + 1,
                                    ![k].tools = IF @ = "real" THEN @ ELSE "none"])
    /\ Hook /\ UNCHANGED drains

ToolFinished(t) ==
    /\ \E k \in Found(t) :
          /\ states[k].rev < MaxRevision /\ states[k].tools = "real"
          /\ Shows(k, states[k])
    /\ Hook

Complete(t) ==
    /\ \E k \in Found(t), p \in {"result", "error"} : Shows(k, [states[k] EXCEPT !.phase = p])
    /\ Hook

RolloverDropsUnsent ==  \* mutant: a send that is on its way is not minded
    LET live == {k \in DOMAIN states : ~Final(k)}
    IN  /\ made < MaxStates
        /\ \E k \in live :
              /\ live = {k} /\ k[2] < MaxSegment
              /\ states[k].tools = "real" /\ ~states[k].msg
              /\ LET new == <<k[1], k[2] + 1>>
                 IN  Drop([j \in DOMAIN states \union {new} |->
                             IF j = new THEN NewTurn(made + 1) ELSE states[j]], {k}, FALSE)
        /\ made' = made + 1
        /\ UNCHANGED <<drains, adapter, shown, begun, cancels>>

\* rollover_for_inbound: a message of the requester stops the segment, or drops it
\* when its card was not sent; the next has a card of its own.
RolloverForInbound ==
    LET live == {k \in DOMAIN states : ~Final(k)}
    IN  /\ made < MaxStates
        /\ \E k \in live :
              /\ live = {k} /\ k[2] < MaxSegment
              /\ states[k].tools = "real" \/ states[k].msg
              /\ LET new == <<k[1], k[2] + 1>>
                     next == [NewTurn(made + 1) EXCEPT !.mode = states[k].mode]
                     f == [j \in DOMAIN states \union {new} |->
                             IF j = new THEN next ELSE states[j]]
                     stopped == [states[k] EXCEPT !.phase = "result", !.rev = @ + 1,
                                                  !.due = states[k].rev + 1]
                 IN  IF ~states[k].msg /\ ~states[k].sending
                     THEN Drop(f, {k}, FALSE) /\ UNCHANGED drains
                     ELSE Schedule([f EXCEPT ![k] = stopped], k)
        /\ made' = made + 1
        /\ UNCHANGED <<adapter, shown, begun, cancels>>

\* A session that ends without a turn.
CancelSession ==
    /\ DOMAIN states # {} /\ cancels < MaxCancels
    /\ Drop(states, DOMAIN states, TRUE)
    /\ cancels' = cancels + 1
    /\ UNCHANGED <<drains, adapter, shown, made, begun>>

-----------------------------------------------------------------------------
(* The adapter.                                                            *)

\* cancel_adapter, and every drain whose task exists is cancelled.
CancelAll ==
    /\ Drop(states, DOMAIN states, TRUE)
    /\ drains' = [d \in Drains |-> IF Active(d) THEN Off ELSE drains[d]]

Disconnect ==
    /\ adapter = "up" /\ cancels < MaxCancels
    /\ adapter' = "closing" /\ cancels' = cancels + 1
    /\ UNCHANGED <<states, drains, controls, shown, made, lost, begun>>

TakenDown ==
    /\ adapter = "closing" /\ adapter' = "down"
    /\ CancelAll
    /\ UNCHANGED <<shown, made, begun, cancels>>

ConnectAgain ==
    /\ adapter = "down" /\ adapter' = "up"
    /\ UNCHANGED <<states, drains, controls, shown, made, lost, begun, cancels>>

\* _reset_identity_scoped_state: the registered actions of the old robot go too.
ResetIdentity ==
    /\ adapter = "up" /\ cancels < MaxCancels
    /\ states' = Restrict(states, {}) /\ controls' = [i \in Ids |-> "none"]
    /\ lost' = lost \union {s.id : s \in Range(states)}
    /\ drains' = [d \in Drains |-> IF Active(d) THEN Off ELSE drains[d]]
    /\ cancels' = cancels + 1
    /\ UNCHANGED <<adapter, shown, made, begun>>

-----------------------------------------------------------------------------
(* A drain: each step is what happens under one lock or between two awaits.*)

Now(d) == drains[d].key
Same(d) == Live(Now(d)) /\ states[Now(d)].id = drains[d].saw.id
Goes(d, pc) == drains' = [drains EXCEPT ![d].pc = pc]
Ends(d) == drains' = [drains EXCEPT ![d] = Off]

Drained == UNCHANGED <<adapter, made, begun, cancels>>
Leaves == UNCHANGED <<states, controls, lost>>

\* Whatever state has the drain's key by now is dropped.
GivesUp(d) == Drop(states, {Now(d)}, TRUE) /\ Ends(d)

\* The task is created, unless the adapter disconnects.
Spawned(d) ==
    /\ drains[d].pc = "queued"
    /\ IF adapter = "up"
       THEN drains' = [drains EXCEPT ![d] = [pc |-> "read", key |-> Now(d), exhausted |-> 0]]
       ELSE Ends(d)
    /\ Leaves /\ Drained /\ UNCHANGED shown

Reads(d) ==
    /\ drains[d].pc = "read"
    /\ \/ ~Live(Now(d)) /\ Ends(d) /\ Leaves
       \/ Live(Now(d)) /\ adapter # "up" /\ GivesUp(d)
       \/ /\ Live(Now(d)) /\ adapter = "up" /\ Leaves
          /\ drains' = [drains EXCEPT ![d] =
                [pc |-> "act", key |-> Now(d), saw |-> states[Now(d)],
                 tries |-> 0, exhausted |-> drains[d].exhausted]]
    /\ Drained /\ UNCHANGED shown

\* Nothing the renderer could show.
Blank(s) == s.tools = "none" \/ (s.mode = "registry" /\ s.tools # "real")

Acts(d) ==
    LET saw == drains[d].saw
        k == Now(d)
    IN  /\ drains[d].pc = "act"
        /\ \/ saw.mode = "none" /\ Goes(d, "profile") /\ Leaves
           \/ saw.mode # "none" /\ ~Blank(saw) /\ saw.msg /\ Goes(d, "edit") /\ Leaves
           \/ /\ saw.mode # "none" /\ (Blank(saw) \/ ~saw.msg)
              /\ IF ~Same(d) THEN Ends(d) /\ Leaves
                 ELSE IF ~Blank(saw)
                 THEN Goes(d, "send") /\ Becomes([states EXCEPT ![k].sending = TRUE])
                 ELSE /\ Ends(d)
                      /\ IF Final(k) THEN Drop(states, {k}, TRUE)
                         ELSE Becomes([states EXCEPT ![k].scheduled = FALSE])
        /\ Drained /\ UNCHANGED shown

\* The card profile decides how the card is rendered, or that there is none.
ProfileAnswers(d) ==
    /\ drains[d].pc = "profile"
    /\ \/ GivesUp(d)
       \/ ~Same(d) /\ Ends(d) /\ Leaves
       \/ /\ Same(d)
          /\ \E m \in {"card", "registry"} :
                Becomes([states EXCEPT ![Now(d)].mode = m, ![Now(d)].stop = (m = "registry")])
          /\ Goes(d, "read")
    /\ Drained /\ UNCHANGED shown

\* The server has the card or the edit.
ServerTakes(d) ==
    LET saw == drains[d].saw
        seq == IF drains[d].pc = "send" THEN 0 ELSE saw.seq + 1
    IN  /\ drains[d].pc \in {"send", "edit"}
        /\ shown' = IF seq < shown[saw.id].seq THEN shown
                    ELSE [shown EXCEPT ![saw.id] = [seq |-> seq, rev |-> saw.rev, phase |-> saw.phase]]
        /\ Goes(d, IF drains[d].pc = "send" THEN "sent" ELSE "edited")
        /\ Leaves /\ Drained

ControlStays(s, phase) ==  \* mutant: Stop is not taken off a card at its end
    IF s.stop THEN "stop" ELSE "none"

\* _sync_reasoning_card_session: the actions of the view that was sent.
Control(s, phase) ==
    CASE ~s.stop -> "none"
      [] phase = "active" -> "stop"
      [] phase = "error" -> "retry"
      [] OTHER -> "none"

\* What a registration leaves: the action and whether it outlives the state.  A
\* registry that refuses the card changes nothing.
Synced(s, phase) ==
    LET c == Control(s, phase)
    IN  {<<c, c # "none" /\ s.phase # "active">>}
          \union (IF c = "none" THEN {} ELSE {<<controls[s.id], FALSE>>})

ShownOnce(d, s, registers, e) ==  \* mutant: the revision is not compared
    /\ states' = IF s.phase # "active" THEN Restrict(states, DOMAIN states \ {Now(d)})
                 ELSE [states EXCEPT ![Now(d)] = [s EXCEPT !.scheduled = FALSE]]
    /\ drains' = [drains EXCEPT ![d] = Off]
    /\ UNCHANGED <<controls, lost>>

\* The state s is shown as the drain saw it: the drain goes on if there is more to
\* show, and drops what is final.
Shown(d, s, registers, e) ==
    LET k == Now(d)
        same == s.rev = drains[d].saw.rev
    IN  \E r \in (IF registers THEN Synced(s, drains[d].saw.phase)
                   ELSE {<<controls[s.id], s.keep>>}) :
          LET next == [s EXCEPT !.keep = r[2], !.scheduled = ~same]
          IN  /\ IF same /\ s.phase # "active"
                 THEN /\ states' = Restrict(states, DOMAIN states \ {k})
                      /\ controls' = [controls EXCEPT ![s.id] =
                                        IF s.mode = "registry" /\ ~next.keep THEN "none" ELSE r[1]]
                 ELSE /\ states' = [states EXCEPT ![k] = next]
                      /\ controls' = [controls EXCEPT ![s.id] = r[1]]
              /\ drains' = [drains EXCEPT ![d] = IF same THEN Off
                                                 ELSE [pc |-> "read", key |-> k, exhausted |-> e]]
              /\ UNCHANGED lost

SendReturns(d) ==
    /\ drains[d].pc = "sent"
    /\ IF ~Same(d) THEN Ends(d) /\ Leaves
       ELSE LET s == [states[Now(d)] EXCEPT !.sending = FALSE, !.msg = TRUE]
            IN  Shown(d, s, s.mode = "registry", drains[d].exhausted)
    /\ Drained /\ UNCHANGED shown

EditReturns(d) ==
    /\ drains[d].pc = "edited"
    /\ IF ~Same(d) THEN Ends(d) /\ Leaves
       ELSE LET s == [states[Now(d)] EXCEPT !.seq = drains[d].saw.seq + 1]
            IN  Shown(d, s, s.mode = "registry" /\ Final(Now(d)), 0)
    /\ Drained /\ UNCHANGED shown

SendFails(d) ==
    /\ drains[d].pc \in {"send", "sent"}
    /\ GivesUp(d)
    /\ Drained /\ UNCHANGED shown

EditRetriedForEver(d) ==  \* mutant: exhausted retries are not counted
    LET w == drains[d]
    IN  /\ w.pc \in {"edit", "edited"}
        /\ \/ w.tries + 1 < Attempts
              /\ drains' = [drains EXCEPT ![d].pc = "edit", ![d].tries = @ + 1]
           \/ w.tries + 1 = Attempts
              /\ drains' = [drains EXCEPT ![d] = [pc |-> "read", key |-> w.key, exhausted |-> 0]]
        /\ Leaves /\ Drained /\ UNCHANGED shown

\* An edit is tried again with what was seen; when that does not help it is tried
\* once more, under the same sequence, with what there is by then.
EditFails(d) ==
    LET w == drains[d]
    IN  /\ w.pc \in {"edit", "edited"}
        /\ \/ GivesUp(d)
           \/ /\ w.tries + 1 < Attempts /\ Leaves
              /\ drains' = [drains EXCEPT ![d].pc = "edit", ![d].tries = @ + 1]
           \/ /\ w.tries + 1 = Attempts /\ w.exhausted + 1 < Exhaustions /\ Leaves
              /\ drains' = [drains EXCEPT ![d] =
                    [pc |-> "read", key |-> w.key, exhausted |-> w.exhausted + 1]]
        /\ Drained /\ UNCHANGED shown

-----------------------------------------------------------------------------
Answers(d) ==
    ProfileAnswers(d) \/ SendReturns(d) \/ SendFails(d) \/ EditReturns(d) \/ EditFails(d)

Runs(d) == Spawned(d) \/ Reads(d) \/ Acts(d)

Next ==
    \/ \E t \in Turns :
          \/ Begin(t) \/ ModelStarted(t) \/ ModelFinished(t) \/ ToolStarted(t)
          \/ AuthoringToolStarted(t) \/ ToolFinished(t) \/ Complete(t)
    \/ RolloverForInbound \/ CancelSession
    \/ Disconnect \/ TakenDown \/ ConnectAgain \/ ResetIdentity
    \/ \E d \in Drains : Runs(d) \/ Answers(d) \/ ServerTakes(d)

Spec == Init /\ [][Next]_vars

\* The gateway loop runs its tasks, every request is answered or fails, and
\* disconnect() goes on to the end.
Fairness ==
    /\ \A d \in Drains : WF_vars(Runs(d)) /\ WF_vars(Answers(d))
    /\ WF_vars(TakenDown)

FairSpec == Spec /\ Fairness

-----------------------------------------------------------------------------
(* Properties.                                                             *)

\* "serialized network drains": no two drains work on the same state.
OneDrain ==
    \A d, e \in Drains :
        d # e /\ drains[d].pc \in Working \ {"read"} /\ drains[e].pc \in Working \ {"read"}
          => drains[d].saw.id # drains[e].saw.id

\* No update is lost: what a hook wanted shown has been shown, or a drain of the
\* state is still to look at it, unless the adapter is about to drop everything.
NothingForgotten ==
    \A k \in DOMAIN states :
        LET s == states[k]
        IN  IF s.scheduled
            THEN adapter = "closing" \/ \E d \in Drains : drains[d] # Off /\ drains[d].key = k
            ELSE s.phase = "active" /\ (s.tools = "real" => s.due <= shown[s.id].rev)

\* What hooks and drains, which run on several threads, leave of each other's work.
DrainsAgree == OneDrain /\ NothingForgotten

\* A card that was sent shows how its turn ended when the controller has dropped
\* its state, unless the state was given up.
EndIsShown ==
    \A i \in 1..made : i \notin lost /\ shown[i].seq >= 0
                          => shown[i].phase # "active" \/ \E s \in Range(states) : s.id = i

\* A card that shows the end of its turn never shows anything else again.
EndIsFinal == [][\A i \in Ids : shown[i].phase # "active" => shown'[i].phase = shown[i].phase]_vars

\* An action is registered for as long as the card offers it: Stop while the turn
\* has its state, Retry on a card that shows an error.
ControlIsOffered ==
    \A i \in 1..made :
        i \notin lost /\ (\A s \in Range(states) : s.id # i)
          => controls[i] = "none" \/ (controls[i] = "retry" /\ shown[i].phase = "error")

\* What the user is left with: the end of the turn, and no button without a turn.
CardTellsTheTruth == EndIsShown /\ ControlIsOffered

\* A state whose turn has ended does not stay for ever.
EndedIsDropped ==
    \A i \in Ids :
        (\E s \in Range(states) : s.id = i /\ s.phase # "active")
          ~> (\A s \in Range(states) : s.id # i)
=============================================================================
