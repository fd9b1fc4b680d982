--------------------------- MODULE RouteRegistry ---------------------------
(***************************************************************************)
(* IdentityRouteRegistry (src/hermes_octo_plugin/identity.py): which Octo  *)
(* bot identity (robot) owns which conversation, in memory and on disk.    *)
(*                                                                         *)
(* Several threads use the registry.  The event loop binds routes from     *)
(* inbound traffic; a worker thread persists snapshots, in three steps     *)
(* (capture the body, rotate current to backup, write current); another    *)
(* worker applies the frozen legacy plan or forgets a route on an owner's  *)
(* command.  The process may crash between any two steps, writes may fail, *)
(* and a file may be found corrupt at the next start.                      *)
(*                                                                         *)
(* A session key is derived from its chat (derive_session_key), so the     *)
(* chat of a session is a constant function, TargetOf.                     *)
(***************************************************************************)
EXTENDS Integers, FiniteSets

CONSTANTS
    Robots,         \* stable bot identities
    Targets,        \* (chat_type, chat_id) pairs
    Sessions,       \* Hermes session keys
    Wires,          \* wire chat ids
    TargetOf,       \* the target a session key is derived from
    WiresOf,        \* the wire ids the transport reports for a target
    DmTargets,      \* the targets whose chat_type is dm
    LegacyRobot,    \* the robot legacy plans are bound to
    Plans,          \* the sets of sessions a legacy plan may have frozen
    NoRobot, NoWire,
    MaxRoutes,      \* MAX_PERSISTED_ROUTES
    MaxFaults,      \* bound: failed file operations
    MaxCrashes,     \* bound: crashes
    MaxCorruptions  \* bound: files found corrupt at a start

ASSUME TopologyAssumption ==
    /\ TargetOf \in [Sessions -> Targets]
    /\ WiresOf \in [Targets -> SUBSET Wires]
    /\ DmTargets \subseteq Targets
    /\ Plans \subseteq SUBSET Sessions

ASSUME NullAssumption ==
    /\ NoRobot \notin Robots
    /\ NoWire \notin Wires
    /\ LegacyRobot \in Robots

ASSUME BoundAssumption ==
    /\ MaxRoutes \in Nat \ {0}
    /\ MaxFaults \in Nat
    /\ MaxCrashes \in Nat
    /\ MaxCorruptions \in Nat

VARIABLES
    reg,        \* the maps a snapshot holds
    holders,    \* _chat_index, as (target, robot) entries
    dirty,      \* _dirty
    path,       \* identity-routes.json
    backup,     \* identity-routes.json.bak
    restored,   \* restored_from_backup
    corrupt,    \* snapshot_corrupt
    scheduled,  \* _route_flush_tasks is not empty
    job,        \* the holder of _flush_lock and how far its write has come
    plan,       \* the frozen plan being applied, which holds _lock in "bind"
    life,       \* down (no process), open, closing, closed
    faults, crashes, corruptions

memory == <<reg, holders, dirty, restored, corrupt>>
files  == <<path, backup>>
bounds == <<faults, crashes, corruptions>>
vars   == <<memory, files, scheduled, job, plan, life, bounds>>

-----------------------------------------------------------------------------
(* The registry's maps.                                                    *)

MaybeRobot == Robots \union {NoRobot}
MaybeWire  == Wires \union {NoWire}

Registry ==
    [sroute : [Sessions -> MaybeRobot],        \* _session_routes
     before : SUBSET (Sessions \X Sessions),   \* its insertion order
     linked : SUBSET Sessions,                 \* members of _target_sessions
     troute : [Targets -> MaybeRobot],         \* _target_routes
     wires  : [Targets -> MaybeWire],          \* _target_wire_ids
     sconf  : SUBSET Sessions,                 \* _session_conflicts
     tconf  : SUBSET Targets]                  \* _target_conflicts

EmptyRegistry ==
    [sroute |-> [s \in Sessions |-> NoRobot], before |-> {}, linked |-> {},
     troute |-> [t \in Targets |-> NoRobot], wires |-> [t \in Targets |-> NoWire],
     sconf |-> {}, tconf |-> {}]

Routed(g) == {s \in Sessions : g.sroute[s] # NoRobot}
Owned(g)  == {t \in Targets : g.troute[t] # NoRobot}
LinkedTo(g, t) == {s \in g.linked : TargetOf[s] = t}

\* _body_locked: a link is saved with its session's route, a wire id with its
\* target's, so what has no route is not in a snapshot.
Body(g) ==
    [g EXCEPT !.linked = @ \intersect Routed(g),
              !.wires = [t \in Targets |-> IF t \in Owned(g) THEN @[t] ELSE NoWire]]

\* What _apply_body rebuilds from a snapshot's targets.
IndexOf(g) == {e \in Targets \X Robots : g.troute[e[1]] = e[2]}

-----------------------------------------------------------------------------
(* Binding: the decision of bind() and the maps it leaves.                 *)

Refused(g, s) == s \in g.sconf \/ TargetOf[s] \in g.tconf

SessionTaken(g, r, s) == g.sroute[s] \notin {NoRobot, r}
TargetTaken(g, r, s)  == g.troute[TargetOf[s]] \notin {NoRobot, r}
WireClash(g, s, w) ==
    /\ g.troute[TargetOf[s]] # NoRobot
    /\ {w, g.wires[TargetOf[s]]} \subseteq Wires
    /\ w # g.wires[TargetOf[s]]

Known(g, s) == g.troute[TargetOf[s]] # NoRobot /\ g.sroute[s] # NoRobot
Fills(g, s, w) == w # NoWire /\ g.wires[TargetOf[s]] = NoWire
Full(g, s) == /\ g.troute[TargetOf[s]] = NoRobot
              /\ Cardinality(Owned(g)) >= MaxRoutes

BindResult(g, r, s, w) ==
    CASE Refused(g, s) -> "refused"
      [] ~Refused(g, s) /\ (SessionTaken(g, r, s) \/ TargetTaken(g, r, s)
                            \/ WireClash(g, s, w)) -> "conflict"
      [] ~Refused(g, s) /\ ~SessionTaken(g, r, s) /\ ~TargetTaken(g, r, s)
         /\ ~WireClash(g, s, w) ->
            IF Known(g, s) THEN IF Fills(g, s, w) THEN "filled" ELSE "idempotent"
            ELSE IF Full(g, s) THEN "capacity" ELSE "bound"

\* A second claimant leaves tombstones: on the session it contested, and on a
\* contested target together with every session linked to that target.
ContestedTargetOnly(g, r, s, w) ==  \* mutant: the linked sessions stay served
    [g EXCEPT !.tconf = @ \union {TargetOf[s]},
              !.sconf = @ \union (IF SessionTaken(g, r, s) THEN {s} ELSE {})]

Contested(g, r, s, w) ==
    LET t == TargetOf[s]
        targetLost == TargetTaken(g, r, s)
                      \/ (~SessionTaken(g, r, s) /\ WireClash(g, s, w))
    IN  [g EXCEPT
          !.tconf = @ \union (IF targetLost THEN {t} ELSE {}),
          !.sconf = @ \union (IF SessionTaken(g, r, s) THEN {s} ELSE {})
                      \union (IF targetLost THEN LinkedTo(g, t) ELSE {})]

FillWire(g, s, w) ==
    IF w = NoWire THEN g ELSE [g EXCEPT !.wires[TargetOf[s]] = w]

Oldest(g) == CHOOSE s \in Routed(g) : \A x \in Routed(g) : <<x, s>> \notin g.before

NothingEvicted(g) == g  \* mutant

\* _evict_oldest_session_locked, when the session map is full.
Evicted(g) ==
    IF Cardinality(Routed(g)) < MaxRoutes THEN g
    ELSE [g EXCEPT !.sroute[Oldest(g)] = NoRobot,
                   !.before = {p \in @ : Oldest(g) \notin {p[1], p[2]}},
                   !.linked = @ \ {Oldest(g)}]

Established(g0, r, s, w) ==
    LET t == TargetOf[s]
        g == Evicted(FillWire([g0 EXCEPT !.troute[t] = r], s, w))
    IN  [g EXCEPT !.sroute[s] = r,
                  !.before = @ \union
                      (IF g.sroute[s] = NoRobot THEN Routed(g) \X {s} ELSE {}),
                  !.linked = @ \union {s}]

AfterBind(g, r, s, w) ==
    LET result == BindResult(g, r, s, w)
    IN  CASE result = "conflict" -> Contested(g, r, s, w)
          [] result = "filled"   -> FillWire(g, s, w)
          [] result = "bound"    -> Established(g, r, s, w)
          [] result \in {"refused", "idempotent", "capacity"} -> g

IndexAfterBind(g, idx, r, s, w) ==
    IF BindResult(g, r, s, w) = "bound" THEN idx \union {<<TargetOf[s], r>>}
    ELSE idx

Dirties == {"conflict", "filled", "bound"}

-----------------------------------------------------------------------------
(* Forgetting: the maps without one target.                                *)

MayForget(g, r, t) ==
    /\ t \notin g.tconf
    /\ g.troute[t] = r
    /\ LinkedTo(g, t) \intersect g.sconf = {}

WithoutRouteOnly(g, t) ==  \* mutant: the wire id outlives its route
    LET gone == LinkedTo(g, t)
    IN  [g EXCEPT !.troute[t] = NoRobot,
                  !.linked = @ \ gone,
                  !.sroute = [s \in Sessions |->
                                 IF s \in gone THEN NoRobot ELSE @[s]],
                  !.before = {p \in @ : {p[1], p[2]} \intersect gone = {}}]

Without(g, t) ==
    LET gone == LinkedTo(g, t)
    IN  [g EXCEPT !.troute[t] = NoRobot,
                  !.wires[t] = NoWire,
                  !.linked = @ \ gone,
                  !.sroute = [s \in Sessions |->
                                 IF s \in gone THEN NoRobot ELSE @[s]],
                  !.before = {p \in @ : {p[1], p[2]} \intersect gone = {}}]

-----------------------------------------------------------------------------
(* Files.                                                                  *)

File == [status : {"ok", "missing", "corrupt"}, body : Registry]
Missing == [status |-> "missing", body |-> EmptyRegistry]
Corrupted == [status |-> "corrupt", body |-> EmptyRegistry]
Snapshot(g) == [status |-> "ok", body |-> g]

\* What the next load would restore.
OnDisk == IF path.status = "ok" THEN path.body
          ELSE IF backup.status = "ok" THEN backup.body
          ELSE EmptyRegistry

Job == [kind : {"none", "flush", "planflush", "closeflush", "forget"},
        pc : {"rotate", "write"}, body : Registry,
        prev : Registry, prevDirty : BOOLEAN]
NoJob == [kind |-> "none", pc |-> "rotate", body |-> EmptyRegistry,
          prev |-> EmptyRegistry, prevDirty |-> FALSE]

Plan == [pc : {"none", "bind", "flush"}, todo : SUBSET Sessions,
         prev : Registry, prevDirty : BOOLEAN]
NoPlan == [pc |-> "none", todo |-> {}, prev |-> EmptyRegistry, prevDirty |-> FALSE]

\* The maps of a registry are keyed by what is routed.
WellKeyed(g) ==
    /\ g.linked = Routed(g)
    /\ \A t \in Targets : g.wires[t] # NoWire => t \in Owned(g)
    /\ g.before \subseteq Routed(g) \X Routed(g)

\* Every variable has its type, and the maps of the registry list no session or
\* wire id whose route is gone (_target_sessions and _target_wire_ids are popped
\* together with the route they belong to).
TypeOK ==
    /\ reg \in Registry /\ WellKeyed(reg)
    /\ holders \subseteq Targets \X Robots
    /\ dirty \in BOOLEAN /\ restored \in BOOLEAN /\ corrupt \in BOOLEAN
    /\ path \in File /\ backup \in File
    /\ scheduled \in BOOLEAN
    /\ job \in Job
    /\ plan \in Plan
    /\ life \in {"down", "open", "closing", "closed"}
    /\ faults \in 0..MaxFaults
    /\ crashes \in 0..MaxCrashes
    /\ corruptions \in 0..MaxCorruptions

Init ==
    /\ reg = EmptyRegistry /\ holders = {} /\ dirty = FALSE
    /\ restored = FALSE /\ corrupt = FALSE
    /\ path = Missing /\ backup = Missing
    /\ scheduled = FALSE
    /\ job = NoJob
    /\ plan = NoPlan
    /\ life = "down"
    /\ faults = 0 /\ crashes = 0 /\ corruptions = 0

\* _lock is held throughout a plan's binds and throughout a forget.
LockFreeDuringPlan == job.kind # "forget"  \* mutant: bind_plan without _lock

LockFree == plan.pc # "bind" /\ job.kind # "forget"

-----------------------------------------------------------------------------
(* Actions.                                                                *)

\* bind_inbound_route on the event loop.
Bind(r, s, w) ==
    /\ life = "open" /\ LockFree
    /\ reg' = AfterBind(reg, r, s, w)
    /\ holders' = IndexAfterBind(reg, holders, r, s, w)
    /\ dirty' = (dirty \/ BindResult(reg, r, s, w) \in Dirties)
    /\ scheduled' = (scheduled \/
                     BindResult(reg, r, s, w) \in Dirties \union {"refused"})
    /\ UNCHANGED <<files, restored, corrupt, job, plan, life, bounds>>

\* bind_plan: the legacy plan S is bound one route after the other under _lock.
PlanStart(S) ==
    /\ life = "open" /\ LockFree /\ plan.pc = "none"
    /\ plan' = [pc |-> IF S = {} THEN "flush" ELSE "bind", todo |-> S, prev |-> Body(reg), prevDirty |-> dirty]
    /\ UNCHANGED <<memory, files, scheduled, job, life, bounds>>

PlanWires(s) == IF TargetOf[s] \in DmTargets THEN {NoWire} ELSE WiresOf[TargetOf[s]]

PlanBind(s, w) ==
    /\ plan.pc = "bind" /\ s \in plan.todo /\ w \in PlanWires(s)
    /\ BindResult(reg, LegacyRobot, s, w) \in {"filled", "idempotent", "bound"}
    /\ reg' = AfterBind(reg, LegacyRobot, s, w)
    /\ holders' = IndexAfterBind(reg, holders, LegacyRobot, s, w)
    /\ dirty' = (dirty \/ BindResult(reg, LegacyRobot, s, w) \in Dirties)
    /\ plan' = [plan EXCEPT !.todo = @ \ {s},
                            !.pc = IF plan.todo = {s} THEN "flush" ELSE "bind"]
    /\ UNCHANGED <<files, restored, corrupt, scheduled, job, life, bounds>>

PlanRollbackKeepsIndex(s, w) ==  \* mutant
    /\ plan.pc = "bind" /\ s \in plan.todo /\ w \in PlanWires(s)
    /\ BindResult(reg, LegacyRobot, s, w) \in {"refused", "conflict", "capacity"}
    /\ reg' = plan.prev
    /\ dirty' = plan.prevDirty
    /\ plan' = NoPlan
    /\ UNCHANGED <<files, holders, restored, corrupt, scheduled, job, life, bounds>>

\* One route of the plan is contested or does not fit: everything is undone.
PlanRollback(s, w) ==
    /\ plan.pc = "bind" /\ s \in plan.todo /\ w \in PlanWires(s)
    /\ BindResult(reg, LegacyRobot, s, w) \in {"refused", "conflict", "capacity"}
    /\ reg' = plan.prev
    /\ holders' = IndexOf(plan.prev)
    /\ dirty' = plan.prevDirty
    /\ plan' = NoPlan
    /\ UNCHANGED <<files, restored, corrupt, scheduled, job, life, bounds>>

\* forget_target takes _flush_lock, then _lock, and keeps both for its write.
ForgetStart(r, t) ==
    /\ life = "open" /\ LockFree /\ job.kind = "none"
    /\ MayForget(reg, r, t)
    /\ reg' = Without(reg, t)
    /\ holders' = holders \ {<<t, r>>}
    /\ job' = [kind |-> "forget", pc |-> "rotate", body |-> Body(Without(reg, t)),
               prev |-> Body(reg), prevDirty |-> dirty]
    /\ UNCHANGED <<dirty, restored, corrupt, files, scheduled, plan, life, bounds>>

\* flush(): who asks for it, and when.
FlushWanted(kind) ==
    \/ kind = "flush" /\ life \in {"open", "closing"} /\ scheduled /\ dirty
    \/ kind = "planflush" /\ plan.pc = "flush"
    \/ kind = "closeflush" /\ life = "closing" /\ ~scheduled /\ dirty

FlushStart(kind) ==
    /\ LockFree /\ job.kind = "none"
    /\ FlushWanted(kind)
    /\ job' = [kind |-> kind, pc |-> "rotate", body |-> Body(reg),
               prev |-> EmptyRegistry, prevDirty |-> FALSE]
    /\ dirty' = FALSE
    /\ UNCHANGED <<reg, holders, restored, corrupt, files, scheduled, plan, life, bounds>>

\* A flush task that finds nothing to write ends at once.
FlushIdle ==
    /\ life \in {"open", "closing"} /\ LockFree /\ job.kind = "none"
    /\ scheduled /\ ~dirty
    /\ scheduled' = FALSE
    /\ UNCHANGED <<memory, files, job, plan, life, bounds>>

RotateAlways ==  \* mutant: a damaged current replaces the good backup
    /\ job.kind # "none" /\ job.pc = "rotate"
    /\ IF path.status # "missing"
       THEN backup' = path /\ path' = Missing
       ELSE UNCHANGED files
    /\ job' = [job EXCEPT !.pc = "write"]
    /\ UNCHANGED <<memory, scheduled, plan, life, bounds>>

\* _write_snapshot: current becomes the backup, unless current was unusable.
Rotate ==
    /\ job.kind # "none" /\ job.pc = "rotate"
    /\ IF path.status # "missing" /\ ~restored /\ ~corrupt
       THEN backup' = path /\ path' = Missing
       ELSE UNCHANGED files
    /\ job' = [job EXCEPT !.pc = "write"]
    /\ UNCHANGED <<memory, scheduled, plan, life, bounds>>

\* What follows a write: the done callback of a flush task schedules another
\* one while the registry is dirty; the other writers report to their caller.
AfterWriteForgets(stillDirty) ==  \* mutant: no other flush task for later binds
    /\ job' = NoJob
    /\ scheduled' = IF job.kind = "flush" THEN FALSE ELSE scheduled
    /\ plan' = IF job.kind = "planflush" THEN NoPlan ELSE plan
    /\ life' = IF job.kind = "closeflush" THEN "closed" ELSE life

AfterWrite(stillDirty) ==
    /\ job' = NoJob
    /\ scheduled' = IF job.kind = "flush" THEN life = "open" /\ stillDirty
                    ELSE scheduled
    /\ plan' = IF job.kind = "planflush" THEN NoPlan ELSE plan
    /\ life' = IF job.kind = "closeflush" THEN "closed" ELSE life

Write ==
    /\ job.kind # "none" /\ job.pc = "write"
    /\ path' = Snapshot(job.body)
    /\ restored' = FALSE /\ corrupt' = FALSE
    /\ dirty' = IF job.kind = "forget" THEN FALSE ELSE dirty
    /\ AfterWrite(dirty')
    /\ UNCHANGED <<reg, holders, backup, bounds>>

\* The rotation or the write fails: a flush is dirty again, a forget is undone.
WriteFails ==
    /\ job.kind # "none" /\ faults < MaxFaults
    /\ plan.pc # "bind"
    /\ faults' = faults + 1
    /\ IF job.kind = "forget"
       THEN /\ reg' = job.prev
            /\ holders' = IndexOf(job.prev)
            /\ dirty' = job.prevDirty
       ELSE /\ dirty' = TRUE
            /\ UNCHANGED <<reg, holders>>
    /\ AfterWrite(dirty')
    /\ UNCHANGED <<restored, corrupt, files, crashes, corruptions>>

\* OctoAdapter.disconnect: the flush task is drained, then one last flush runs.
\* The worker of a plan or of a forget is not waited for.
Disconnect ==
    /\ life = "open"
    /\ life' = "closing"
    /\ UNCHANGED <<memory, files, scheduled, job, plan, bounds>>

Disconnected ==
    /\ life = "closing" /\ LockFree /\ job.kind = "none"
    /\ ~scheduled /\ ~dirty
    /\ life' = "closed"
    /\ UNCHANGED <<memory, files, scheduled, job, plan, bounds>>

\* load(), at process start or when a disconnected adapter connects again.
Load ==
    /\ life \in {"down", "closed"} /\ job.kind = "none" /\ plan.pc = "none"
    /\ life' = "open"
    /\ IF path.status = "ok" \/ backup.status = "ok"
       THEN /\ reg' = OnDisk
            /\ holders' = IndexOf(OnDisk)
            /\ dirty' = FALSE
            /\ restored' = (restored \/ path.status # "ok")
            /\ UNCHANGED corrupt
       ELSE /\ corrupt' = (corrupt \/ {path.status, backup.status} # {"missing"})
            /\ UNCHANGED <<reg, holders, dirty, restored>>
    /\ UNCHANGED <<files, scheduled, job, plan, bounds>>

Crash ==
    /\ life # "down" /\ crashes < MaxCrashes
    /\ crashes' = crashes + 1
    /\ life' = "down"
    /\ reg' = EmptyRegistry /\ holders' = {} /\ dirty' = FALSE
    /\ restored' = FALSE /\ corrupt' = FALSE
    /\ scheduled' = FALSE
    /\ job' = NoJob
    /\ plan' = NoPlan
    /\ UNCHANGED <<files, faults, corruptions>>

\* A snapshot is found unusable (checksum, schema or I/O) by the next start.
CorruptFile ==
    /\ life = "down" /\ corruptions < MaxCorruptions
    /\ corruptions' = corruptions + 1
    /\ \/ path.status = "ok" /\ path' = Corrupted /\ UNCHANGED backup
       \/ backup.status = "ok" /\ backup' = Corrupted /\ UNCHANGED path
    /\ UNCHANGED <<memory, scheduled, job, plan, life, faults, crashes>>

PlanStep ==
    \E s \in Sessions, w \in MaybeWire : PlanBind(s, w) \/ PlanRollback(s, w)

FlushKinds == {"flush", "planflush", "closeflush"}

Next ==
    \/ \E r \in Robots, s \in Sessions : \E w \in WiresOf[TargetOf[s]] : Bind(r, s, w)
    \/ \E S \in Plans : PlanStart(S)
    \/ PlanStep
    \/ \E r \in Robots, t \in Targets : ForgetStart(r, t)
    \/ \E k \in FlushKinds : FlushStart(k)
    \/ FlushIdle
    \/ Rotate
    \/ Write
    \/ WriteFails
    \/ Disconnect
    \/ Disconnected
    \/ Load
    \/ Crash
    \/ CorruptFile

Spec == Init /\ [][Next]_vars

\* Worker threads and the loop's flush task run when they can; nothing obliges
\* a peer to write, an owner to forget, a disk to fail or a process to crash.  A
\* flush gets its lock between the forgets of an operator (strong fairness).
Fairness ==
    /\ SF_vars(\E k \in FlushKinds : FlushStart(k))
    /\ WF_vars(Rotate)
    /\ WF_vars(Write)
    /\ WF_vars(PlanStep)

FairSpec == Spec /\ Fairness

-----------------------------------------------------------------------------
(* Properties.                                                             *)

\* A session that may be served is served by the owner of its chat: whatever
\* was bound, contested, evicted, forgotten, rolled back or reloaded, robot_id_
\* for_session never answers another robot than robot_id_for_target does.
SessionRouteAgreesWithTarget ==
    \A s \in Routed(reg) \ reg.sconf :
        /\ TargetOf[s] \notin reg.tconf
        /\ reg.troute[TargetOf[s]] = reg.sroute[s]

\* The reverse index that resolves a chat-id-only send (_chat_index) lists
\* exactly the targets that are routed, and their owners.
IndexMatchesRoutes == holders = IndexOf(reg)

\* Neither map outgrows MAX_PERSISTED_ROUTES, and the eviction that keeps the
\* session map within it never takes an established target with it.
WithinCapacity ==
    /\ Cardinality(Owned(reg)) <= MaxRoutes
    /\ Cardinality(Routed(reg)) <= MaxRoutes

\* The targets whose release on disk a forget is busy with.
Releasing == IF job.kind = "forget" THEN Owned(job.prev) \ Owned(job.body) ELSE {}

\* All of h's owners and tombstones are g's too, but for those being released.
Covers(g, h) ==
    /\ \A t \in Owned(h) \ Releasing : g.troute[t] = h.troute[t]
    /\ h.tconf \subseteq g.tconf
    /\ h.sconf \subseteq g.sconf

\* While a process runs, a restart would restore no owner and no tombstone that
\* the process does not hold: no plan that was rolled back and no route that was
\* forgotten comes back from disk.
DiskNeverAheadOfMemory == life # "down" => Covers(reg, OnDisk)

\* The promise (Ownership): no robot takes over a chat, a contested chat stays
\* contested, releases are whole, a restart restores what was saved, and no
\* failed write or older snapshot written late takes a saved owner or a saved
\* tombstone back, which only a release or a damaged file does.
Promise == INSTANCE Ownership WITH
    Nobody <- NoRobot, Conversations <- Targets,
    owner <- reg.troute, contested <- reg.tconf,
    saved <- [owner |-> OnDisk.troute, contested |-> OnDisk.tconf],
    up <- life # "down"
ImplementsOwnership == Promise!Spec

\* A tombstone that is laid while a flush task exists (every contested bind
\* schedules one) reaches the disk, although binds, failing writes and other
\* writers interleave with that flush, unless the process stops first.
ConflictBecomesDurable ==
    \A t \in Targets :
        (life = "open" /\ scheduled /\ t \in reg.tconf)
            ~> (t \in OnDisk.tconf \/ life # "open")
=============================================================================
