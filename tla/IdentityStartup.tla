-------------------------- MODULE IdentityStartup --------------------------
(***************************************************************************)
(* The identity state machine of OctoAdapter and IdentityStateStore: how a *)
(* profile that ran one bot token becomes one that runs several, without   *)
(* any conversation changing the bot that answers it.                      *)
(*                                                                         *)
(* Three documents survive a restart: the metadata sentinel (phase and     *)
(* legacy robot), the frozen migration plan, and the route snapshot.  The  *)
(* writes that take the profile from one phase to the next are separate    *)
(* steps of a worker thread; each may fail, and the process may crash      *)
(* between any two.  Tokens are reordered, added and removed between       *)
(* starts, and the server may give a token to another bot at any time.     *)
(*                                                                         *)
(* The route registry is its own module (RouteRegistry); here a            *)
(* conversation has an owner, nobody, or a tombstone, and a snapshot is    *)
(* written in one step.  A conversation is a group, or a direct chat with  *)
(* a peer: its plain key is shared by the legacy robot and the single      *)
(* runtime, any other robot has a scoped key of its own.                   *)
(***************************************************************************)
EXTENDS Integers, Sequences, FiniteSets

CONSTANTS
    Tokens,         \* the tokens an operator may configure
    Robots,         \* the bots they may register as
    Groups, Peers,  \* group chats, and users who write to bots
    Configs,        \* the values OCTO_BOT_TOKEN takes, as sequences of tokens
    Nobody,         \* no robot, no token, no owner
    Contested,      \* the owner of a tombstoned conversation
    Reuse,          \* whether a disconnected adapter object is connected again
    Home,           \* the conversation OCTO_HOME_CHANNEL names, as a set
    Speaking,       \* bound: the conversations the gateway sends to
    MaxFaults,      \* bound: failed writes
    MaxCrashes,     \* bound: crashes
    MaxMoves,       \* bound: tokens given to another bot
    MaxStarts,      \* bound: starts of the adapter
    MaxLosses,      \* bound: sentinels removed from outside
    MaxListFailures \* bound: session stores that cannot be listed

ASSUME NamesAssumption ==
    /\ Nobody \notin Robots \union Tokens
    /\ Contested \notin Robots \union {Nobody}
    /\ Configs \subseteq Seq(Tokens)
    /\ Reuse \in BOOLEAN
    /\ Configs # {} /\ \A c \in Configs : Len(c) > 0

ASSUME BoundsAssumption ==
    {MaxFaults, MaxCrashes, MaxMoves, MaxStarts, MaxLosses, MaxListFailures} \subseteq Nat

VARIABLES
    meta,      \* identity-routing.json: phase, legacy robot, plan size
    planFile,  \* identity-migration-plan.json
    disk,      \* identity-routes.json, as owners; snapshot says it exists
    snapshot,
    mem,       \* the registry in memory
    store,     \* conversations in the Hermes session store
    bot,       \* which bot the server takes a token for
    config,    \* the tokens of this start
    life,      \* down, starting, up
    startup,   \* _startup: phase, legacy robot, plan, sole identity mode
    rt,        \* per token: how far its runtime is, and _robot_id
    byRobot,   \* _runtimes_by_robot_id
    tried,     \* the first runtime's first connect has ended
    worker,    \* the thread that advances the durable state
    served,    \* history: the robots that served a conversation, and whether
               \*          in sole identity mode
    sent,      \* history: the robots that sent to it once it was served, and
               \*          in which mode
    lost,      \* history: conversations whose route was lost by a stop
    spent      \* the bounds used up

documents == <<meta, planFile, disk, snapshot>>
adapter   == <<life, config, startup, rt, byRobot, tried>>
history   == <<served, sent, lost>>
vars == <<documents, mem, store, bot, adapter, worker, history, spent>>

-----------------------------------------------------------------------------
(* Conversations and owners.                                               *)

MaybeRobot == Robots \union {Nobody}
Plain(p) == <<p, Nobody>>
Conversations == {<<g, Nobody>> : g \in Groups} \union (Peers \X MaybeRobot)
Owners == Robots \union {Nobody, Contested}
Unowned == [c \in Conversations |-> Nobody]

\* The conversation a message reaches: a non-primary robot's direct chats are
\* scoped by the robot, all others keep the key they always had.
DmKey(r, p) == IF startup.sole \/ r = startup.legacy THEN Plain(p) ELSE <<p, r>>
Reaches(r) == {<<g, Nobody>> : g \in Groups} \union {DmKey(r, p) : p \in Peers}

-----------------------------------------------------------------------------
(* The durable documents and the worker.                                   *)

Phases == {"missing", "single", "pending", "migrated"}
Metadata(p, r, n) == [phase |-> p, legacy |-> r, size |-> n]
NoPlanFile == [exists |-> FALSE, plan |-> {}]

Startup(p, r, plan, sole) == [phase |-> p, legacy |-> r, plan |-> plan, sole |-> sole]
NotStarted == Startup("single", Nobody, {}, FALSE)

Idle == [job |-> "none", pc |-> "none", token |-> Nobody, plan |-> {}]
Jobs == {"none", "begin", "record", "protect", "apply"}
Steps == {"none", "load", "sentinel", "saveplan", "savepending", "record",
          "bind", "flush", "savemigrated", "clearplan"}

NoEvidence == FALSE  \* mutant: a lost sentinel passes for a first run

\* has_routing_evidence, without its look at card bindings.
Evidence == snapshot \/ planFile.exists

Off == [pc |-> "off", robot |-> Nobody]

Configured == {config[k] : k \in DOMAIN config}
Primary == config[1]

\* How a bot came to speak: as the only one; in a turn of its own, but where a plan
\* waits for another bot; or otherwise.
Modes == {"sole", "frozen", "routed"}

Budgets == {"faults", "crashes", "moves", "starts", "losses", "lists"}

TypeOK ==
    /\ meta \in [phase : Phases, legacy : MaybeRobot, size : Nat]
    /\ planFile \in [exists : BOOLEAN, plan : SUBSET Conversations]
    /\ disk \in [Conversations -> Owners] /\ mem \in [Conversations -> Owners]
    /\ snapshot \in BOOLEAN /\ tried \in BOOLEAN
    /\ store \subseteq Conversations /\ lost \subseteq Conversations
    /\ bot \in [Tokens -> Robots]
    /\ config \in Configs
    /\ life \in {"down", "starting", "up"}
    /\ startup \in [phase : Phases, legacy : MaybeRobot,
                    plan : SUBSET Conversations, sole : BOOLEAN]
    /\ rt \in [Tokens -> [pc : {"off", "registering", "ready", "up", "stuck"},
                          robot : MaybeRobot]]
    /\ byRobot \in [Robots -> Tokens \union {Nobody}]
    /\ worker \in [job : Jobs, pc : Steps, token : Tokens \union {Nobody},
                   plan : SUBSET Conversations]
    /\ served \in [Conversations -> SUBSET (Robots \X BOOLEAN)]
    /\ sent \in [Conversations -> SUBSET (Robots \X Modes)]
    /\ spent \in [Budgets -> Nat]

Init ==
    /\ meta = Metadata("missing", Nobody, 0)
    /\ planFile = NoPlanFile
    /\ disk = Unowned /\ mem = Unowned /\ snapshot = FALSE
    /\ store = {}
    /\ bot \in [Tokens -> Robots]
    /\ config = CHOOSE c \in Configs : TRUE
    /\ life = "down"
    /\ startup = NotStarted
    /\ rt = [t \in Tokens |-> Off]
    /\ byRobot = [r \in Robots |-> Nobody]
    /\ tried = FALSE
    /\ worker = Idle
    /\ served = [c \in Conversations |-> {}]
    /\ sent = [c \in Conversations |-> {}]
    /\ lost = {}
    /\ spent = [b \in Budgets |-> 0]

Spends(b, max) == spent[b] < max /\ spent' = [spent EXCEPT ![b] = @ + 1]

-----------------------------------------------------------------------------
(* OctoAdapter.connect: the state machine advances before anybody listens. *)

By(log, c, mode) == {r \in Robots : <<r, mode>> \in log[c]}
Servers(c) == By(served, c, TRUE) \union By(served, c, FALSE)

\* The conversations that were served before identities were routed.
Legacy == {c \in Conversations : By(served, c, TRUE) # {}}

\* The registry takes over new maps; a new conversation's route that only memory
\* knew is lost.
Replace(new) ==
    /\ mem' = new
    /\ lost' = lost \union
          {c \in Conversations \ Legacy :
              mem[c] # Nobody /\ new[c] = Nobody /\ disk[c] = Nobody}

\* A new process or adapter, or the same adapter object connected again.
Start(c) ==
    /\ life = "down" /\ Spends("starts", MaxStarts)
    /\ life' = "starting" /\ config' = c
    /\ worker' = [Idle EXCEPT !.job = "begin", !.pc = "load"]
    /\ \/ rt' = [t \in Tokens |-> Off] /\ Replace(Unowned)
       \/ Reuse /\ c = config /\ UNCHANGED <<rt, mem, lost>>
    /\ UNCHANGED <<documents, store, bot, startup, byRobot, tried, served, sent>>

\* begin() raised: connect() returns False and nothing listens.
NotUp ==
    /\ life' = "down" /\ worker' = Idle
    /\ UNCHANGED <<documents, store, bot, config, startup, rt, byRobot, tried, served, sent>>

Up(s) ==
    /\ life' = "up" /\ worker' = Idle /\ startup' = s
    /\ tried' = (s.phase # "pending")

Loading == worker.pc = "load"
LoadsNothing == Replace(mem)  \* mutant: the snapshot is not read back
Loaded == Replace(IF snapshot THEN disk ELSE mem)
Multi == Len(config) > 1

PlanUsable == meta.phase = "pending" =>
    planFile.exists /\ Cardinality(planFile.plan) = meta.size

BeginRefused ==
    /\ Loading
    /\ \/ meta.phase = "missing" /\ Evidence
       \/ Multi /\ meta.legacy = Nobody
       \/ ~PlanUsable
    /\ Loaded
    /\ NotUp /\ UNCHANGED spent

\* A profile whose phase needs no write: the snapshot is loaded and obeyed.
BeginKnown ==
    /\ Loading /\ PlanUsable
    /\ meta.phase \in (IF Multi THEN {"pending", "migrated"}
                       ELSE {"single", "pending", "migrated"})
    /\ Loaded
    /\ Up(Startup(meta.phase, meta.legacy,
                  IF meta.phase = "pending" THEN planFile.plan ELSE {},
                  meta.phase = "single"))
    /\ UNCHANGED <<documents, store, bot, config, rt, byRobot, served, sent, spent>>

\* First run with one token: the sentinel is written before anybody listens.
BeginSentinel ==
    /\ Loading /\ ~Multi
    /\ meta.phase = "missing" /\ ~Evidence
    /\ Loaded
    /\ worker' = [worker EXCEPT !.pc = "sentinel"]
    /\ UNCHANGED <<documents, store, bot, adapter, served, sent, spent>>

SaveSentinel ==
    /\ worker.pc = "sentinel"
    /\ meta' = Metadata("single", Nobody, 0)
    /\ Up(Startup("single", Nobody, {}, TRUE))
    /\ UNCHANGED <<planFile, disk, snapshot, mem, store, bot, config, rt, byRobot,
                   history, spent>>

\* _enumerate_legacy_octo_sessions: a store that cannot be listed looks empty.
Enumerated(plan) ==
    \/ plan = store /\ UNCHANGED spent
    \/ plan = {} /\ store # {} /\ Spends("lists", MaxListFailures)

\* First start with several tokens: the sessions that exist now are frozen.
BeginFreeze ==
    /\ Loading /\ Multi
    /\ meta.phase = "single" /\ meta.legacy # Nobody
    /\ \E plan \in SUBSET store :
          /\ Enumerated(plan)
          /\ worker' = [worker EXCEPT !.pc = "saveplan", !.plan = plan]
    /\ Loaded
    /\ UNCHANGED <<documents, store, bot, adapter, served, sent>>

PendingBeforePlan ==  \* mutant: the metadata before the plan it counts
    /\ worker.pc = "saveplan"
    /\ meta' = Metadata("pending", meta.legacy, Cardinality(worker.plan))
    /\ worker' = [worker EXCEPT !.pc = "savepending"]
    /\ UNCHANGED <<planFile, disk, snapshot, mem, store, bot, adapter, history, spent>>

SavePlan ==
    /\ worker.pc = "saveplan"
    /\ planFile' = [exists |-> TRUE, plan |-> worker.plan]
    /\ worker' = [worker EXCEPT !.pc = "savepending"]
    /\ UNCHANGED <<meta, disk, snapshot, mem, store, bot, adapter, history, spent>>

PendingMiscounted ==  \* mutant
    /\ worker.pc = "savepending"
    /\ meta' = Metadata("pending", meta.legacy, Cardinality(worker.plan) - 1)
    /\ Up(Startup("pending", meta.legacy, worker.plan, FALSE))
    /\ UNCHANGED <<planFile, disk, snapshot, mem, store, bot, config, rt, byRobot,
                   history, spent>>

SavePending ==
    /\ worker.pc = "savepending"
    /\ meta' = Metadata("pending", meta.legacy, Cardinality(worker.plan))
    /\ Up(Startup("pending", meta.legacy, worker.plan, FALSE))
    /\ UNCHANGED <<planFile, disk, snapshot, mem, store, bot, config, rt, byRobot,
                   history, spent>>

\* A write of begin() fails.
BeginFails ==
    /\ worker.pc \in {"sentinel", "saveplan", "savepending"}
    /\ Spends("faults", MaxFaults)
    /\ NotUp /\ UNCHANGED <<mem, lost>>

-----------------------------------------------------------------------------
(* A runtime registers: it claims its robot, then the durable state follows *)
(* before the runtime may listen.                                          *)

MayRegister(t) ==
    /\ life = "up" /\ t \in Configured
    /\ rt[t].pc = "off"
    /\ t = Primary \/ tried

ClaimUnchecked(t, r) ==  \* mutant: two tokens of one bot
    /\ byRobot' = [x \in Robots |-> IF x = r THEN t
                                   ELSE IF x = rt[t].robot THEN Nobody
                                   ELSE byRobot[x]]
    /\ rt' = [rt EXCEPT ![t] = [pc |-> "registering", robot |-> r]]

ClaimKeepsPrevious(t, r) ==  \* mutant: the old robot still resolves to the runtime
    IF byRobot[r] \notin {Nobody, t}
    THEN rt' = [rt EXCEPT ![t].pc = "stuck"] /\ UNCHANGED byRobot
    ELSE /\ byRobot' = [byRobot EXCEPT ![r] = t]
         /\ rt' = [rt EXCEPT ![t] = [pc |-> "registering", robot |-> r]]

\* _claim_identity; a duplicate is never retried.
Claim(t, r) ==
    IF byRobot[r] \notin {Nobody, t}
    THEN rt' = [rt EXCEPT ![t].pc = "stuck"] /\ UNCHANGED byRobot
    ELSE /\ byRobot' = [x \in Robots |-> IF x = r THEN t
                                       ELSE IF x = rt[t].robot THEN Nobody
                                       ELSE byRobot[x]]
         /\ rt' = [rt EXCEPT ![t] = [pc |-> "registering", robot |-> r]]

Work(job, pc, t) == [job |-> job, pc |-> pc, token |-> t, plan |-> {}]

Register(t) ==
    /\ MayRegister(t)
    /\ Claim(t, bot[t])
    /\ tried' = (tried \/ rt'[t].pc = "stuck")
    /\ UNCHANGED <<documents, mem, store, bot, life, config, startup, worker, history, spent>>

\* _on_runtime_registered: which durable step the registration calls for.
Advance(t) ==
    /\ rt[t].pc = "registering" /\ worker = Idle
    /\ LET r == rt[t].robot
           job == IF startup.sole
                  THEN IF startup.legacy \in {Nobody, r} THEN "record" ELSE "protect"
                  ELSE IF startup.phase = "pending" /\ t = Primary /\ startup.legacy = r
                       THEN "apply" ELSE "none"
       IN  IF job = "none"
           THEN rt' = [rt EXCEPT ![t].pc = "ready"] /\ UNCHANGED worker
           ELSE /\ worker' = Work(job, IF job = "record" THEN "record" ELSE "bind", t)
                /\ UNCHANGED rt
    /\ UNCHANGED <<documents, mem, store, bot, life, config, startup, byRobot, tried,
                   history, spent>>

\* The worker is done, or raised: the runtime goes on, or tries again later.
Registered == /\ rt' = [rt EXCEPT ![worker.token].pc = "ready"]
              /\ worker' = Idle
              /\ UNCHANGED tried
Raised == /\ rt' = [rt EXCEPT ![worker.token].pc = "off"]
          /\ worker' = Idle
          /\ tried' = TRUE

\* record_single_identity.
RecordSingle ==
    /\ worker.pc = "record"
    /\ \/ /\ meta.phase = "single" /\ meta.legacy = Nobody
          /\ meta' = Metadata("single", rt[worker.token].robot, 0)
          /\ Registered
       \/ /\ meta.phase # "single" \/ meta.legacy = rt[worker.token].robot
          /\ Registered /\ UNCHANGED meta
       \/ /\ meta.phase = "single" /\ meta.legacy \notin {Nobody, rt[worker.token].robot}
          /\ Raised /\ UNCHANGED meta
    /\ UNCHANGED <<planFile, disk, snapshot, mem, store, bot, life, config, startup,
                   byRobot, history, spent>>

\* What the worker binds, and for whom.
PlanRobot == startup.legacy
Binds(plan) == [c \in Conversations |-> IF c \in plan THEN PlanRobot ELSE mem[c]]
Fits(plan) == \A c \in plan : mem[c] \in {Nobody, PlanRobot}

WorkPlan(plan) ==
    \/ worker.job = "protect" /\ Enumerated(plan)
    \/ worker.job = "apply" /\ plan = startup.plan /\ UNCHANGED spent

\* protect_replaced_single_identity and apply_legacy_plan bind, then flush ...
BindLegacy ==
    /\ worker.pc = "bind"
    /\ worker.job = "protect" => meta.phase = "single" /\ meta.legacy = PlanRobot
    /\ \E plan \in SUBSET Conversations :
          /\ WorkPlan(plan) /\ Fits(plan)
          /\ mem' = Binds(plan)
          /\ worker' = [worker EXCEPT !.pc = "flush", !.plan = plan]
    /\ UNCHANGED <<documents, store, bot, adapter, history>>

FlushLater ==  \* mutant: the phase is left without waiting for the snapshot
    /\ worker.pc = "flush"
    /\ worker' = [worker EXCEPT !.pc = "savemigrated"]
    /\ UNCHANGED <<documents, mem, store, bot, adapter, history, spent>>

FlushLegacy ==
    /\ worker.pc = "flush"
    /\ disk' = mem /\ snapshot' = TRUE
    /\ worker' = [worker EXCEPT !.pc = "savemigrated"]
    /\ UNCHANGED <<meta, planFile, mem, store, bot, adapter, history, spent>>

\* ... and only then leave the phase behind.
SaveMigrated ==
    /\ worker.pc = "savemigrated"
    /\ meta' = Metadata("migrated", PlanRobot, Cardinality(worker.plan))
    /\ IF worker.job = "apply"
       THEN worker' = [worker EXCEPT !.pc = "clearplan"] /\ UNCHANGED <<rt, startup, tried>>
       ELSE startup' = Startup("migrated", PlanRobot, {}, FALSE) /\ Registered
    /\ UNCHANGED <<planFile, disk, snapshot, mem, store, bot, life, config, byRobot,
                   history, spent>>

\* A plan that cannot be removed is left behind.
ClearPlan ==
    /\ worker.pc = "clearplan"
    /\ \/ planFile' = NoPlanFile /\ UNCHANGED spent
       \/ Spends("faults", MaxFaults) /\ UNCHANGED planFile
    /\ startup' = Startup("migrated", PlanRobot, {}, FALSE)
    /\ Registered
    /\ UNCHANGED <<meta, disk, snapshot, mem, store, bot, life, config, byRobot, history>>

\* A failed write or an unbindable plan: a protection raises and is retried, a
\* migration stays pending and the runtime listens all the same.
LegacyFails ==
    /\ \/ /\ worker.pc \in {"record", "flush", "savemigrated"}
          /\ worker.pc = "record" => meta.phase = "single" /\ meta.legacy = Nobody
          /\ Spends("faults", MaxFaults)
       \/ /\ worker.pc = "bind" /\ UNCHANGED spent
          /\ \/ worker.job = "protect" /\ ~(meta.phase = "single" /\ meta.legacy = PlanRobot)
             \/ \E plan \in {store, startup.plan} :
                   /\ plan = IF worker.job = "protect" THEN store ELSE startup.plan
                   /\ ~Fits(plan)
    /\ IF worker.job = "apply" THEN Registered ELSE Raised
    /\ UNCHANGED <<documents, mem, store, bot, life, config, startup, byRobot, history>>

\* The handshake that follows succeeds or fails; either way the first connect
\* of the primary has ended.
Handshake(t) ==
    /\ rt[t].pc = "ready"
    /\ \E pc \in {"up", "off"} : rt' = [rt EXCEPT ![t].pc = pc]
    /\ tried' = TRUE
    /\ UNCHANGED <<documents, mem, store, bot, life, config, startup, byRobot, worker,
                   history, spent>>

\* Registration itself fails.
RegisterFails(t) ==
    /\ MayRegister(t) /\ ~tried
    /\ tried' = TRUE
    /\ UNCHANGED <<documents, mem, store, bot, life, config, startup, rt, byRobot,
                   worker, history, spent>>

Drop(t) ==
    /\ rt[t].pc = "up"
    /\ rt' = [rt EXCEPT ![t].pc = "off"]
    /\ UNCHANGED <<documents, mem, store, bot, life, config, startup, byRobot, tried,
                   worker, history, spent>>

-----------------------------------------------------------------------------
(* Traffic.                                                                *)

NeverFrozen(r, c) == FALSE  \* mutant: inbound ignores the plan it waits for

\* A frozen target is refused to every other bot while the migration is pending.
Frozen(r, c) == startup.phase = "pending" /\ c \in startup.plan /\ r # startup.legacy

Serve(c, r) ==
    /\ served' = [served EXCEPT ![c] = @ \union {<<r, startup.sole>>}]
    /\ store' = store \union {c}

\* bind: the owner stays, and a second one leaves a tombstone.
Bind(c, r) == IF mem[c] \in {Nobody, r} THEN r ELSE Contested

\* A message reaches a listening runtime, and bind_inbound_route decides.
Inbound(t, c) ==
    /\ rt[t].pc = "up"
    /\ c \in Reaches(rt[t].robot)
    /\ LET r == rt[t].robot IN
          \/ startup.sole /\ Serve(c, r) /\ UNCHANGED mem
          \/ /\ ~startup.sole /\ ~Frozen(r, c)
             /\ mem' = [mem EXCEPT ![c] = Bind(c, r)]
             /\ IF Bind(c, r) = r THEN Serve(c, r) ELSE UNCHANGED <<served, store>>
    /\ UNCHANGED <<documents, bot, adapter, worker, sent, lost, spent>>

Connected(r) == byRobot[r] # Nobody /\ rt[byRobot[r]].pc = "up"

Says(c, r, mode) == sent' = [sent EXCEPT ![c] = @ \union {<<r, mode>>}]

HomeIsPrimary(x, c, r) ==  \* mutant: the home channel speaks as the first token's bot
    \/ r = x /\ mem[c] \in {x, Nobody}
    \/ x = Nobody /\ mem[c] = r
    \/ x = Nobody /\ mem[c] = Nobody /\ c \in Home /\ r = rt[Primary].robot

NoTombstone(x, c, r) ==  \* mutant: a tombstone is taken for an unknown conversation
    \/ r = x /\ mem[c] \in {x, Nobody, Contested}
    \/ x = Nobody /\ mem[c] = r
    \/ x = Nobody /\ mem[c] = Nobody /\ c \in Home /\ r = startup.legacy

\* Whom a delivery to c goes through, in a turn or a session of bot x, or in none: x
\* itself, where c has no other owner and no tombstone; the owner of c; the legacy
\* bot, for a home channel that has neither.
Resolves(x, c, r) ==
    \/ r = x /\ mem[c] \in {x, Nobody}
    \/ x = Nobody /\ mem[c] = r
    \/ x = Nobody /\ mem[c] = Nobody /\ c \in Home /\ r = startup.legacy

\* resolve_outbound, for a turn or a session of any bot, in c or elsewhere, and for
\* callers that know the conversation only.  It does not look at the plan.
Send(x, c) ==
    /\ life = "up" /\ c \in store \intersect Speaking
    /\ \E r \in Robots :
          \/ startup.sole /\ r = rt[Primary].robot /\ Says(c, r, "sole")
          \/ /\ ~startup.sole /\ Resolves(x, c, r) /\ Connected(r)
             /\ Says(c, rt[byRobot[r]].robot,
                     IF x # Nobody /\ Frozen(x, c) THEN "frozen" ELSE "routed")
    /\ UNCHANGED <<documents, mem, store, bot, adapter, worker, served, lost, spent>>

FlushRoutes ==
    /\ life = "up" /\ ~startup.sole /\ disk # mem
    /\ disk' = mem /\ snapshot' = TRUE
    /\ UNCHANGED <<meta, planFile, mem, store, bot, adapter, worker, history, spent>>

-----------------------------------------------------------------------------
(* Stops, crashes and the outside world.                                   *)

Closed ==
    /\ life' = "down"
    /\ byRobot' = [r \in Robots |-> Nobody]
    /\ tried' = FALSE

\* disconnect() drains the runtimes and writes a last snapshot.
Stop ==
    /\ life = "up" /\ worker = Idle
    /\ Closed
    /\ rt' = [t \in Tokens |-> [rt[t] EXCEPT !.pc = "off"]]
    /\ \/ /\ ~startup.sole /\ disk' = mem /\ UNCHANGED spent
          /\ snapshot' = (snapshot \/ mem # disk)
       \/ ~startup.sole /\ Spends("faults", MaxFaults) /\ UNCHANGED <<disk, snapshot>>
       \/ startup.sole /\ UNCHANGED <<disk, snapshot, spent>>
    /\ UNCHANGED <<meta, planFile, mem, store, bot, config, startup, worker, history>>

Crash ==
    /\ life # "down" /\ Spends("crashes", MaxCrashes)
    /\ Closed
    /\ rt' = [t \in Tokens |-> Off]
    /\ worker' = Idle
    /\ Replace(Unowned)
    /\ UNCHANGED <<documents, store, bot, config, startup, served, sent>>

\* The server takes a token for another bot; its connection is gone by then.
TokenMoves(t, r) ==
    /\ rt[t].pc \in {"off", "stuck"} /\ bot[t] # r /\ Spends("moves", MaxMoves)
    /\ bot' = [bot EXCEPT ![t] = r]
    /\ UNCHANGED <<documents, mem, store, adapter, worker, history>>

\* Somebody removes the sentinel of a profile that has routes.
SentinelLost ==
    /\ life = "down" /\ snapshot /\ meta.phase # "missing"
    /\ Spends("losses", MaxLosses)
    /\ meta' = Metadata("missing", Nobody, 0)
    /\ UNCHANGED <<planFile, disk, snapshot, mem, store, bot, adapter, worker, history>>

Begin == BeginRefused \/ BeginKnown \/ BeginSentinel \/ SaveSentinel \/ BeginFreeze
         \/ SavePlan \/ SavePending \/ BeginFails

LegacyWork == RecordSingle \/ BindLegacy \/ FlushLegacy \/ SaveMigrated \/ ClearPlan
         \/ LegacyFails

Next ==
    \/ \E c \in Configs : Start(c)
    \/ Begin
    \/ \E t \in Tokens : Register(t) \/ RegisterFails(t) \/ Advance(t) \/ Handshake(t) \/ Drop(t)
    \/ LegacyWork
    \/ \E t \in Tokens, c \in Conversations : Inbound(t, c)
    \/ \E x \in MaybeRobot, c \in Conversations : Send(x, c)
    \/ FlushRoutes
    \/ Stop
    \/ Crash
    \/ \E t \in Tokens, r \in Robots : TokenMoves(t, r)
    \/ SentinelLost

Spec == Init /\ [][Next]_vars
-----------------------------------------------------------------------------
(* Properties.                                                             *)

\* A conversation is answered by one bot only, through first runs, migrations,
\* replaced tokens, crashes in the middle of any of them and reordered tokens,
\* unless a stop lost the route before its first snapshot.
OneIdentityPerConversation ==
    \A c \in Conversations \ lost : Cardinality(Servers(c)) <= 1

\* Once the metadata says migrated, the snapshot on disk has an owner or a
\* tombstone for every conversation of the single-token days: no crash can
\* leave a finished migration with routes that were never written.
MigratedIsBound ==
    meta.phase = "migrated" => \A c \in Legacy : disk[c] # Nobody

\* While a plan waits for the legacy bot, nothing that other bots receive makes
\* it unbindable.
PlanStaysApplicable ==
    life = "up" /\ startup.phase = "pending" => Fits(startup.plan)

\* Whatever step a start stopped in, the next one finds the plan that its
\* metadata counts and does not refuse to start over it.
PendingIsStartable == life = "down" => PlanUsable

\* The migration as a whole, wherever a start was cut off: it can be finished, it
\* cannot be spoilt while it waits, and what is finished is complete.
MigrationSound == MigratedIsBound /\ PlanStaysApplicable /\ PendingIsStartable

\* A runtime that has claimed its bot is the one the bot's routes resolve to: no
\* two runtimes listen as one bot, and none listens that replies cannot reach.
OneRuntimePerRobot ==
    \A t \in Tokens :
        rt[t].pc \in {"registering", "ready", "up"} => byRobot[rt[t].robot] = t

\* In a conversation that has been served, only a bot that served it speaks, whichever
\* bot's turn or session the delivery comes from, and where it comes from none, also
\* when the home channel stands in for a route.  One case is left out, because the
\* code does not prevent it: while a plan waits, its conversations have no route, and
\* another bot may speak in them from a turn of its own (sent as "frozen").
OnlyServersSpeak ==
    \A c \in Conversations \ lost : By(sent, c, "routed") \subseteq Servers(c)

\* Who speaks to whom, across all starts of a profile.
IdentityKept == OneIdentityPerConversation /\ OneRuntimePerRobot /\ OnlyServersSpeak
=============================================================================
