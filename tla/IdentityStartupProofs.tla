----------------------- MODULE IdentityStartupProofs -----------------------
(***************************************************************************)
(* Proofs about IdentityStartup, for any tokens, bots, conversations and   *)
(* configurations, and any number of starts, crashes, failed writes, moved *)
(* tokens and lost sentinels.                                              *)
(*                                                                         *)
(* Until the first plan there is one bot, the recorded one, and whatever   *)
(* was served waits for it.  The plan takes over all of that, and a        *)
(* conversation of the plan goes on waiting until it has a route on disk.  *)
(* From then on a conversation has a route or a tombstone in memory as     *)
(* long as anybody listens, and on disk unless a stop lost its first one.  *)
(***************************************************************************)
EXTENDS IdentityStartup, FiniteSetTheorems, TLAPS

-----------------------------------------------------------------------------
(* The inductive invariant: the type invariant by variables, ...           *)
Maps == [Conversations -> Owners]
Log == [Conversations -> SUBSET (Robots \X BOOLEAN)]
SentLog == [Conversations -> SUBSET (Robots \X Modes)]
MetaTyped == meta \in [phase : Phases, legacy : MaybeRobot, size : Nat]
PlanTyped ==
    planFile \in [exists : BOOLEAN, plan : SUBSET Conversations] /\ IsFiniteSet(planFile.plan)
MapsTyped == disk \in Maps /\ mem \in Maps /\ snapshot \in BOOLEAN
StoreTyped == store \subseteq Conversations /\ IsFiniteSet(store) /\ lost \subseteq Conversations
LifeTyped ==
    /\ bot \in [Tokens -> Robots] /\ config \in Configs
    /\ life \in {"down", "starting", "up"} /\ tried \in BOOLEAN
StartupTyped ==
    /\ startup \in [phase : Phases, legacy : MaybeRobot,
                    plan : SUBSET Conversations, sole : BOOLEAN]
    /\ IsFiniteSet(startup.plan)
RuntimesTyped ==
    /\ rt \in [Tokens -> [pc : {"off", "registering", "ready", "up", "stuck"}, robot : MaybeRobot]]
    /\ byRobot \in [Robots -> Tokens \union {Nobody}]
WorkerTyped ==
    /\ worker \in [job : Jobs, pc : Steps, token : Tokens \union {Nobody},
                   plan : SUBSET Conversations]
    /\ IsFiniteSet(worker.plan)
LogsTyped == served \in Log /\ sent \in SentLog
SpentTyped == spent \in [Budgets -> Nat]
\* ... where the thread is, and for whom; ...
Begins == {"load", "sentinel", "saveplan", "savepending"}
Proceeds == {"record", "bind", "flush", "savemigrated", "clearplan"}
Listens == {"ready", "up"}
WorkerInv ==
    /\ life = "down" => worker.pc = "none"
    /\ life = "starting" => worker.job = "begin" /\ worker.pc \in Begins
    /\ life = "up" => worker.pc \in {"none"} \union Proceeds
    /\ worker.pc = "none" => worker = Idle
    /\ worker.pc = "record" => worker.job = "record"
    /\ worker.pc \in {"bind", "flush", "savemigrated"} => worker.job \in {"protect", "apply"}
    /\ worker.pc = "clearplan" => worker.job = "apply"
    /\ worker.pc \in Proceeds => worker.token \in Tokens /\ rt[worker.token].pc = "registering"
\* ... a runtime that registers or listens is a configured one, and has a robot; ...
RuntimeInv ==
    /\ \A t \in Tokens : rt[t].pc # "off" => life = "up" /\ t \in Configured
    /\ \A t \in Tokens : rt[t].pc \in {"registering", "ready", "up"} => rt[t].robot # Nobody
\* ... each robot resolves to the runtime that has it; the other way round, unless
\* the adapter object is used again; ...
ClaimInv ==
    /\ \A r \in Robots : byRobot[r] # Nobody => life = "up" /\ rt[byRobot[r]].robot = r
    /\ ~Reuse /\ life # "down" =>
          \A t \in Tokens : rt[t].robot # Nobody => byRobot[rt[t].robot] = t
\* ... what the running adapter believes of the documents; ...
PhaseInv ==
    /\ life = "up" =>
          /\ meta.phase # "missing"
          /\ startup.sole <=> startup.phase = "single"
          /\ startup.sole => /\ Len(config) = 1 /\ meta.phase = "single"
                             /\ startup.legacy \in {Nobody, meta.legacy}
          /\ ~startup.sole => startup.legacy = meta.legacy /\ meta.phase \in {"pending", "migrated"}
          /\ startup.phase = "pending" => startup.plan = planFile.plan
          /\ startup.phase # "pending" => meta.phase = startup.phase
          /\ startup.phase = "pending" /\ meta.phase # "pending" => worker.pc = "clearplan"
          /\ worker.pc = "record" => startup.sole
          /\ worker.job = "protect" => startup.sole /\ startup.legacy # Nobody
          /\ worker.job = "apply" => startup.phase = "pending"
          /\ worker.pc = "clearplan" => meta.phase = "migrated"
    /\ meta.phase \in {"pending", "migrated"} => meta.legacy # Nobody
\* ... a single token listens only as the recorded identity; ...
SoleInv ==
    life = "up" /\ startup.sole =>
        \A t \in Tokens : rt[t].pc \in Listens => rt[t].robot = meta.legacy
\* ... the sessions are the conversations that were served; ...
StoreInv == \A c \in Conversations : c \in store <=> Servers(c) # {}

\* ... a profile that was never started has nothing; ...
FreshInv ==
    /\ ~snapshot => disk = Unowned
    /\ meta.phase = "missing" /\ ~snapshot => store = {} /\ mem = Unowned
    /\ worker.pc = "sentinel" => meta.phase = "missing" /\ ~snapshot /\ ~Multi
\* ... before the first plan there is one bot only; ...
OnlyLegacy(m, c) == m[c] \in {Nobody, meta.legacy}
SingleInv ==
    meta.phase = "single" =>
        \A c \in Conversations :
            /\ OnlyLegacy(mem, c) /\ OnlyLegacy(disk, c)
            /\ Servers(c) \subseteq {meta.legacy}
\* ... a plan on its way to the disk; ...
FreezeInv ==
    /\ worker.pc \in {"saveplan", "savepending"} =>
          meta.phase = "single" /\ meta.legacy # Nobody /\ Multi
    /\ worker.pc = "savepending" => planFile = [exists |-> TRUE, plan |-> worker.plan]
    /\ worker.pc \in {"saveplan", "savepending"} /\ MaxListFailures = 0 => worker.plan = store
\* ... a plan that waits is whole, and its conversations are the legacy bot's; ...
PendingInv ==
    meta.phase = "pending" =>
        /\ PlanUsable
        /\ \A c \in planFile.plan :
              OnlyLegacy(mem, c) /\ OnlyLegacy(disk, c) /\ Servers(c) \subseteq {meta.legacy}
        /\ MaxListFailures = 0 => Legacy \subseteq planFile.plan

\* ... a plan that is applied is bound first, then written; ...
Bound(m) == \A c \in Legacy \union worker.plan : m[c] # Nobody
ApplyInv ==
    /\ worker.pc \in {"flush", "savemigrated"} =>
          /\ worker.job = "apply" => worker.plan = startup.plan
          /\ worker.job = "protect" /\ MaxListFailures = 0 => worker.plan = store
          /\ worker.job = "protect" => worker.plan \subseteq store
          /\ MaxListFailures = 0 => Bound(mem)
    /\ worker.pc = "savemigrated" => snapshot /\ (MaxListFailures = 0 => Bound(disk))
    /\ worker.pc = "clearplan" => \A c \in startup.plan : OnlyLegacy(mem, c)
\* ... what is migrated is bound, on disk and in memory; ...
MigratedInv ==
    meta.phase = "migrated" =>
        /\ snapshot
        /\ MaxListFailures = 0 =>
              \A c \in Legacy : disk[c] # Nobody /\ (life = "up" => mem[c] # Nobody)

\* ... memory has what the disk has, or a tombstone; ...
DiskInv ==
    /\ life = "up" =>
          \A c \in Conversations : disk[c] # Nobody => mem[c] \in {disk[c], Contested}
    /\ worker.pc \in {"sentinel", "saveplan", "savepending"} /\ snapshot => mem = disk
\* ... and who was served is known: by a route, or because the conversation waits
\* for the legacy bot.
Waits(c) == \/ meta.phase \in {"missing", "single"}
            \/ meta.phase = "pending" /\ c \in planFile.plan
Names(m, c) == m[c] \in Robots => Servers(c) \subseteq {m[c]}
OwnerInv ==
    MaxListFailures = 0 =>
        \A c \in Conversations \ lost :
            (\A r, s \in Servers(c) : r = s) /\ Names(mem, c) /\ Names(disk, c)
KnownInv ==
    MaxListFailures = 0 =>
        \A c \in Conversations \ lost : Servers(c) # {} =>
            /\ Waits(c) \/ mem[c] # Nobody \/ disk[c] # Nobody
            /\ life = "up" => Waits(c) \/ mem[c] # Nobody
Senders(c) == By(sent, c, "routed")
SentInv ==
    MaxListFailures = 0 => \A c \in Conversations \ lost : Senders(c) \subseteq Servers(c)

IInv ==
    /\ MetaTyped /\ PlanTyped /\ MapsTyped /\ StoreTyped /\ LifeTyped /\ StartupTyped
    /\ RuntimesTyped /\ WorkerTyped /\ LogsTyped /\ SpentTyped
    /\ WorkerInv /\ RuntimeInv /\ ClaimInv /\ PhaseInv /\ SoleInv /\ StoreInv
    /\ FreshInv /\ SingleInv /\ FreezeInv /\ PendingInv /\ ApplyInv /\ MigratedInv /\ DiskInv
    /\ OwnerInv /\ KnownInv /\ SentInv

-----------------------------------------------------------------------------
(* What the operators do.                                                  *)

LEMMA NamesDiffer ==
    /\ Nobody \notin Robots /\ Nobody \notin Tokens /\ Nobody # Contested
    /\ Contested \notin Robots
BY NamesAssumption

LEMMA NothingFinite == IsFiniteSet({})
  BY FS_EmptySet

\* The tokens of a start; one token is the primary.
LEMMA ConfigTokens ==
    ASSUME LifeTyped
    PROVE  /\ Configured \subseteq Tokens /\ Primary \in Tokens /\ Primary \in Configured
           /\ ~Multi => Len(config) = 1
           /\ Len(config) = 1 => Configured = {Primary}
<1>1. config \in Seq(Tokens) /\ Len(config) > 0
  BY NamesAssumption DEF LifeTyped
<1>2. Len(config) \in Nat /\ DOMAIN config = 1..Len(config)
  BY <1>1
<1>3. 1 \in DOMAIN config
  BY <1>1, <1>2
<1>4. Configured \subseteq Tokens
  BY <1>1, <1>2 DEF Configured
<1>5. Len(config) = 1 => DOMAIN config = {1}
  BY <1>2
<1>6. ~Multi => Len(config) = 1
  BY <1>1, <1>2 DEF Multi
<1> QED
  BY <1>1, <1>2, <1>3, <1>4, <1>5, <1>6 DEF Configured, Primary

LEMMA ServersAre == \A c \in Conversations : Servers(c) \subseteq Robots
  BY DEF Servers, By

LEMMA LegacyServed == \A c \in Legacy : c \in Conversations /\ Servers(c) # {}
  BY DEF Legacy, Servers, By

LEMMA ServedSame ==
    ASSUME served' = served
    PROVE  (\A c \in Conversations : Servers(c)' = Servers(c)) /\ Legacy' = Legacy
<1>1. \A c \in Conversations : Servers(c)' = Servers(c)
  BY DEF Servers, By
<1>2. Legacy' = Legacy
  <2>1. Legacy' = {c \in Conversations : By(served', c, TRUE) # {}}
    BY DEF Legacy, Conversations, MaybeRobot, By
  <2> QED
    BY <2>1 DEF Legacy
<1> QED
  BY <1>1, <1>2

LEMMA SentSame ==
    ASSUME sent' = sent
    PROVE  \A c \in Conversations : Senders(c)' = Senders(c)
BY DEF Senders, By

LEMMA ServeDoes ==
    ASSUME LogsTyped, startup.sole \in BOOLEAN, NEW c \in Conversations, NEW r \in Robots,
           Serve(c, r)
    PROVE  /\ served' \in Log /\ store' = store \union {c}
           /\ \A d \in Conversations :
                 Servers(d)' = IF d = c THEN Servers(c) \union {r} ELSE Servers(d)
           /\ Legacy' = IF startup.sole THEN Legacy \union {c} ELSE Legacy
<1>1. served' = [served EXCEPT ![c] = @ \union {<<r, startup.sole>>}]
  BY DEF Serve
<1>2. served' \in Log
  BY <1>1 DEF LogsTyped, Log
<1>3. \A d \in Conversations, x \in Robots, b \in BOOLEAN :
        <<x, b>> \in served'[d] <=>
            <<x, b>> \in served[d] \/ (d = c /\ x = r /\ b = startup.sole)
  BY <1>1 DEF LogsTyped, Log
<1>4. \A d \in Conversations :
        Servers(d)' = IF d = c THEN Servers(c) \union {r} ELSE Servers(d)
  BY <1>3 DEF Servers, By
<1>5. \A d \in Conversations : d \in Legacy' <=> d \in Legacy \/ (startup.sole /\ d = c)
  <2>1. \A d \in Conversations :
          d \in Legacy <=> \E x \in Robots : <<x, TRUE>> \in served[d]
    BY DEF Legacy, By
  <2>2. Conversations' = Conversations
    BY DEF Conversations, MaybeRobot
  <2>3. \A d \in Conversations :
          d \in Legacy' <=> \E x \in Robots : <<x, TRUE>> \in served'[d]
    BY <2>2 DEF Legacy, By
  <2> QED
    BY <1>3, <2>1, <2>3
<1>6. Legacy \subseteq Conversations /\ Legacy' \subseteq Conversations
  BY DEF Legacy, Conversations, MaybeRobot
<1> QED
  BY <1>2, <1>4, <1>5, <1>6 DEF Serve

\* A conversation of the single-token days waits for its bot or has a route.
LEMMA LegacyKnown ==
    ASSUME IInv, MaxListFailures = 0, NEW c \in Legacy
    PROVE  c \in Conversations /\ (Waits(c) \/ disk[c] # Nobody)
<1>1. c \in Conversations
  BY DEF Legacy
<1>2. meta.phase \in {"missing", "single", "pending", "migrated"}
  BY DEF IInv, MetaTyped, Phases
<1>3. CASE meta.phase = "pending"
  BY <1>1, <1>3 DEF IInv, PendingInv, Waits
<1>4. CASE meta.phase = "migrated"
  BY <1>1, <1>4 DEF IInv, MigratedInv
<1> QED
  BY <1>1, <1>2, <1>3, <1>4 DEF Waits

\* Whoever was served and is not lost with the old maps waits or has a route.
LEMMA ReplaceDoes ==
    ASSUME IInv, NEW new \in Maps, Replace(new)
    PROVE  /\ mem' = new /\ lost \subseteq lost' /\ lost' \subseteq Conversations
           /\ MaxListFailures = 0 =>
                 \A c \in Conversations \ lost' : Servers(c) # {} =>
                     Waits(c) \/ new[c] # Nobody \/ disk[c] # Nobody
<1>1. /\ mem' = new /\ lost \subseteq lost' /\ lost' \subseteq Conversations
      /\ \A c \in Conversations \ lost' :
            /\ c \notin lost
            /\ c \in Legacy \/ mem[c] = Nobody \/ new[c] # Nobody \/ disk[c] # Nobody
  BY DEF Replace, IInv, StoreTyped
<1>2. ASSUME MaxListFailures = 0, NEW c \in Conversations \ lost', Servers(c) # {}
      PROVE  Waits(c) \/ new[c] # Nobody \/ disk[c] # Nobody
  <2>1. CASE c \in Legacy
    BY <1>2, <2>1, LegacyKnown
  <2>2. CASE mem[c] = Nobody
    BY <1>1, <1>2, <2>2 DEF IInv, KnownInv
  <2> QED
    BY <1>1, <1>2, <2>1, <2>2
<1> QED
  BY <1>1, <1>2

\* The same of the maps that begin() loads.
LEMMA LoadDoes ==
    ASSUME IInv, Loaded
    PROVE  /\ mem' \in Maps /\ lost \subseteq lost' /\ lost' \subseteq Conversations
           /\ mem' \in {mem, disk} /\ (snapshot => mem' = disk)
           /\ ~snapshot => mem' = mem /\ \A c \in Conversations : disk[c] = Nobody
           /\ MaxListFailures = 0 =>
                 \A c \in Conversations \ lost' : Servers(c) # {} => Waits(c) \/ mem'[c] # Nobody
<1> DEFINE new == IF snapshot THEN disk ELSE mem
<1>1. new \in Maps /\ Replace(new)
  BY DEF Loaded, IInv, MapsTyped
<1>2. ~snapshot => \A c \in Conversations : disk[c] = Nobody
  BY DEF IInv, FreshInv, Unowned
<1> HIDE DEF new
<1>3. /\ mem' = new /\ lost \subseteq lost' /\ lost' \subseteq Conversations
      /\ MaxListFailures = 0 =>
            \A c \in Conversations \ lost' : Servers(c) # {} =>
                Waits(c) \/ new[c] # Nobody \/ disk[c] # Nobody
  BY <1>1, ReplaceDoes
<1> USE DEF new
<1> QED
  BY <1>1, <1>2, <1>3

\* Only the primary of a single token may register, so that nobody listens beside
\* the thread that works for it.
LEMMA NobodyListens ==
    ASSUME IInv, life = "up", startup.sole, worker.pc \in Proceeds, NEW t \in Tokens
    PROVE  rt[t].pc \notin Listens
<1>1. Configured = {Primary}
  BY ConfigTokens DEF IInv, PhaseInv
<1>2. worker.token \in Tokens /\ rt[worker.token].pc = "registering"
  BY DEF IInv, WorkerInv
<1>3. worker.token = Primary
  BY <1>1, <1>2 DEF IInv, RuntimeInv
<1>4. rt[t].pc # "off" => t = Primary
  BY <1>1 DEF IInv, RuntimeInv
<1> QED
  BY <1>2, <1>3, <1>4 DEF Listens

LEMMA InitInvariant == Init => IInv
<1> SUFFICES ASSUME Init PROVE IInv
  OBVIOUS
<1> USE NamesDiffer, NothingFinite DEF Init
<1>1. config \in Configs
  BY NamesAssumption
<1>2. MetaTyped /\ PlanTyped /\ StartupTyped /\ WorkerTyped /\ SpentTyped
  BY DEF MetaTyped, Metadata, Phases, MaybeRobot, PlanTyped, NoPlanFile, StartupTyped,
         NotStarted, Startup, WorkerTyped, Idle, Jobs, Steps, SpentTyped, Budgets
<1>3. MapsTyped /\ StoreTyped /\ LifeTyped /\ RuntimesTyped /\ LogsTyped
  BY <1>1 DEF MapsTyped, Maps, Unowned, Owners, StoreTyped, LifeTyped, RuntimesTyped, Off,
              MaybeRobot, LogsTyped, Log, SentLog
<1>4. WorkerInv /\ RuntimeInv /\ ClaimInv /\ PhaseInv /\ SoleInv
  BY DEF WorkerInv, Begins, Proceeds, RuntimeInv, ClaimInv, PhaseInv, SoleInv, Idle, Off, Metadata
<1>5. \A c \in Conversations : Servers(c) = {} /\ Senders(c) = {}
  BY DEF Servers, Senders, By
<1>6. StoreInv /\ FreshInv /\ SingleInv /\ FreezeInv /\ PendingInv /\ ApplyInv /\ MigratedInv
  BY <1>5 DEF StoreInv, FreshInv, SingleInv, FreezeInv, PendingInv, ApplyInv, MigratedInv, Idle,
              Metadata
<1>7. DiskInv /\ OwnerInv /\ KnownInv /\ SentInv
  BY <1>5 DEF DiskInv, OwnerInv, Names, KnownInv, SentInv, Idle, Unowned
<1> QED
  BY <1>2, <1>3, <1>4, <1>6, <1>7 DEF IInv

LEMMA StepInvariant == IInv /\ [Next]_vars => IInv'
<1> SUFFICES ASSUME IInv, [Next]_vars
             PROVE  IInv'
  OBVIOUS
<1> USE NamesDiffer, NothingFinite DEF documents, adapter, history
<1>1. ASSUME NEW k \in Configs, Start(k)
      PROVE  IInv'
  <2>1. (\A c \in Conversations : Servers(c)' = Servers(c)) /\ Legacy' = Legacy
    BY <1>1, ServedSame DEF Start
  <2>2. \A c \in Conversations : Senders(c)' = Senders(c)
    BY <1>1, SentSame DEF Start
  <2>3. Unowned \in Maps
    BY DEF Unowned, Maps, Owners
  <2>4. /\ mem' \in Maps /\ mem' \in {mem, Unowned}
        /\ lost \subseteq lost' /\ lost' \subseteq Conversations
        /\ MaxListFailures = 0 =>
              \A c \in Conversations \ lost' : Servers(c) # {} =>
                  Waits(c) \/ mem'[c] # Nobody \/ disk[c] # Nobody
    BY <1>1, <2>3, ReplaceDoes DEF Start, IInv, KnownInv, StoreTyped, MapsTyped
  <2>5. MetaTyped' /\ PlanTyped' /\ StartupTyped' /\ LogsTyped'
    BY <1>1 DEF IInv, MetaTyped, Phases, PlanTyped, StartupTyped, LogsTyped, Start
  <2>6. StoreInv'
    BY <1>1, <2>1, <2>2, <2>4 DEF IInv, StoreInv, Start, Spends, Unowned, Idle, Off
  <2>7. MapsTyped'
    BY <1>1, <2>4 DEF IInv, MapsTyped, Start
  <2>8. StoreTyped'
    BY <1>1, <2>1, <2>2, <2>4 DEF IInv, StoreTyped, Start, Spends, Unowned, Idle, Off
  <2>9. LifeTyped'
    BY <1>1, <2>1, <2>2, <2>4 DEF IInv, LifeTyped, Start, Spends, Unowned, Idle, Off
  <2>10. RuntimesTyped'
    BY <1>1 DEF IInv, RuntimesTyped, Off, MaybeRobot, Start
  <2>11. WorkerTyped'
    BY <1>1 DEF IInv, WorkerTyped, Idle, Jobs, Steps, StoreTyped, StartupTyped, Phases,
       MaybeRobot, MetaTyped, PlanTyped, MapsTyped, Maps, Start
  <2>12. SpentTyped'
    BY <1>1 DEF IInv, SpentTyped, Spends, Budgets, Start
  <2>13. WorkerInv'
    BY <1>1 DEF IInv, WorkerInv, Begins, Proceeds, Start
  <2>14. RuntimeInv'
    BY <1>1 DEF IInv, RuntimeInv, Off, Start
  <2>15. ClaimInv'
    BY <1>1, <2>1, <2>2, <2>4 DEF IInv, ClaimInv, Off, Start, Spends, Unowned, Idle
  <2>16. PhaseInv'
    BY <1>1, <2>1, <2>2, <2>4 DEF IInv, PhaseInv, Idle, Start, Spends, Unowned, Off
  <2>17. SoleInv'
    BY <1>1 DEF SoleInv, Start
  <2>18. FreshInv'
    BY <1>1, <2>4 DEF IInv, FreshInv, Multi, Unowned, Start
  <2>19. SingleInv'
    BY <1>1, <2>1, <2>4 DEF IInv, SingleInv, OnlyLegacy, Start, Unowned
  <2>20. FreezeInv'
    BY <1>1 DEF IInv, FreezeInv, Start
  <2>21. PendingInv'
    BY <1>1, <2>1, <2>4 DEF IInv, PendingInv, PlanTyped, PlanUsable, OnlyLegacy, PhaseInv, Idle,
       Multi, WorkerInv, Begins, Proceeds, MetaTyped, Phases, MaybeRobot, MapsTyped, Maps,
       Owners, StoreTyped, LifeTyped, StartupTyped, RuntimesTyped, Off, WorkerTyped, Jobs,
       Steps, LogsTyped, Log, SpentTyped, Spends, Budgets, RuntimeInv, Configured, ClaimInv,
       SoleInv, Listens, StoreInv, FreshInv, Unowned, SingleInv, Start
  <2>22. ApplyInv'
    BY <1>1 DEF IInv, ApplyInv, Start
  <2>23. MigratedInv'
    BY <1>1, <2>1, <2>2, <2>4 DEF IInv, MigratedInv, Start, Spends, Unowned, Idle, Off
  <2>24. DiskInv'
    BY <1>1, <2>1, <2>2, <2>4 DEF IInv, DiskInv, Idle, Start, Spends, Unowned, Off
  <2>25. OwnerInv'
    BY <1>1, <2>1, <2>4 DEF IInv, OwnerInv, Names, Start, Unowned
  <2>26. KnownInv'
    BY <1>1, <2>1, <2>4 DEF IInv, KnownInv, Waits, Start
  <2>27. SentInv'
    BY <1>1, <2>1, <2>2, <2>4 DEF IInv, SentInv, Start, Spends, Unowned, Idle, Off
  <2> QED
    BY <2>5, <2>6, <2>7, <2>8, <2>9, <2>10, <2>11, <2>12, <2>13, <2>14, <2>15, <2>16, <2>17,
       <2>18,
       <2>19, <2>20, <2>21, <2>22, <2>23, <2>24, <2>25, <2>26, <2>27 DEF IInv
<1>2. CASE BeginRefused
  <2>1. (\A c \in Conversations : Servers(c)' = Servers(c)) /\ Legacy' = Legacy
    BY <1>2, ServedSame DEF BeginRefused, NotUp
  <2>2. \A c \in Conversations : Senders(c)' = Senders(c)
    BY <1>2, SentSame DEF BeginRefused, NotUp
  <2>3. /\ mem' \in Maps /\ lost \subseteq lost' /\ lost' \subseteq Conversations
        /\ mem' \in {mem, disk} /\ (snapshot => mem' = disk)
        /\ ~snapshot => mem' = mem /\ \A c \in Conversations : disk[c] = Nobody
        /\ MaxListFailures = 0 =>
              \A c \in Conversations \ lost' : Servers(c) # {} => Waits(c) \/ mem'[c] # Nobody
    BY <1>2, LoadDoes DEF BeginRefused
  <2>4. /\ MetaTyped' /\ PlanTyped' /\ StartupTyped' /\ RuntimesTyped' /\ LogsTyped'
        /\ SpentTyped'
    BY <1>2 DEF IInv, MetaTyped, Phases, MaybeRobot, PlanTyped, StartupTyped, RuntimesTyped,
       LogsTyped, SpentTyped, BeginRefused, NotUp
  <2>5. StoreInv'
    BY <1>2, <2>1, <2>2, <2>3 DEF IInv, StoreInv, BeginRefused, Loading, NotUp
  <2>6. MapsTyped'
    BY <1>2, <2>1, <2>2, <2>3 DEF IInv, MapsTyped, Maps, Owners, BeginRefused, Loading, NotUp
  <2>7. StoreTyped'
    BY <1>2, <2>1, <2>2, <2>3 DEF IInv, StoreTyped, BeginRefused, Loading, NotUp
  <2>8. LifeTyped'
    BY <1>2, <2>1, <2>2, <2>3 DEF IInv, LifeTyped, BeginRefused, Loading, NotUp
  <2>9. WorkerTyped'
    BY <1>2 DEF IInv, WorkerTyped, Idle, Jobs, Steps, StoreTyped, StartupTyped, Phases,
       MaybeRobot, MetaTyped, PlanTyped, MapsTyped, Maps, BeginRefused, NotUp
  <2>10. WorkerInv'
    BY <1>2 DEF IInv, WorkerInv, Proceeds, Idle, BeginRefused, NotUp
  <2>11. RuntimeInv'
    BY <1>2 DEF IInv, RuntimeInv, Configured, RuntimesTyped, MaybeRobot, WorkerInv, Begins,
       Proceeds, BeginRefused, Loading, NotUp
  <2>12. ClaimInv'
    BY <1>2 DEF IInv, ClaimInv, RuntimesTyped, MaybeRobot, RuntimeInv, Configured, MetaTyped,
       Phases, PlanTyped, MapsTyped, Maps, Owners, StoreTyped, LifeTyped, StartupTyped,
       WorkerTyped, Idle, Jobs, Steps, LogsTyped, Log, SpentTyped, Budgets, WorkerInv, Begins,
       Proceeds, BeginRefused, Loading, NotUp
  <2>13. PhaseInv'
    BY <1>2, <2>1, <2>2, <2>3 DEF IInv, PhaseInv, Idle, Multi, BeginRefused, Loading, NotUp
  <2>14. SoleInv'
    BY <1>2, <2>1, <2>2, <2>3 DEF IInv, SoleInv, Listens, BeginRefused, Loading, NotUp
  <2>15. FreshInv'
    BY <1>2, <2>3 DEF IInv, FreshInv, Multi, Unowned, Evidence, PhaseInv, Idle, BeginRefused,
       NotUp
  <2>16. SingleInv'
    BY <1>2, <2>1, <2>2, <2>3 DEF IInv, SingleInv, OnlyLegacy, BeginRefused, Loading, NotUp
  <2>17. FreezeInv'
    BY <1>2, <2>1, <2>2, <2>3 DEF IInv, FreezeInv, Multi, Idle, BeginRefused, Loading, NotUp
  <2>18. PendingInv'
    BY <1>2 DEF IInv, PendingInv, PlanTyped, PlanUsable, OnlyLegacy, PhaseInv, Idle, Multi,
       BeginRefused, NotUp
  <2>19. ApplyInv'
    BY <1>2 DEF IInv, ApplyInv, Idle, BeginRefused, NotUp
  <2>20. MigratedInv'
    BY <1>2, <2>1, <2>2, <2>3 DEF IInv, MigratedInv, BeginRefused, Loading, NotUp
  <2>21. DiskInv'
    BY <1>2, <2>1, <2>2, <2>3 DEF IInv, DiskInv, Idle, BeginRefused, Loading, NotUp
  <2>22. OwnerInv'
    BY <1>2, <2>1, <2>2, <2>3 DEF IInv, OwnerInv, Names, BeginRefused, Loading, NotUp
  <2>23. KnownInv'
    BY <1>2, <2>1, <2>2, <2>3 DEF IInv, KnownInv, Waits, BeginRefused, Loading, NotUp
  <2>24. SentInv'
    BY <1>2, <2>1, <2>2, <2>3 DEF IInv, SentInv, BeginRefused, Loading, NotUp
  <2> QED
    BY <2>4, <2>5, <2>6, <2>7, <2>8, <2>9, <2>10, <2>11, <2>12, <2>13, <2>14, <2>15, <2>16,
       <2>17,
       <2>18, <2>19, <2>20, <2>21, <2>22, <2>23, <2>24 DEF IInv
<1>3. CASE BeginKnown
  <2>1. (\A c \in Conversations : Servers(c)' = Servers(c)) /\ Legacy' = Legacy
    BY <1>3, ServedSame DEF BeginKnown
  <2>2. \A c \in Conversations : Senders(c)' = Senders(c)
    BY <1>3, SentSame DEF BeginKnown
  <2>3. /\ mem' \in Maps /\ lost \subseteq lost' /\ lost' \subseteq Conversations
        /\ mem' \in {mem, disk} /\ (snapshot => mem' = disk)
        /\ ~snapshot => mem' = mem /\ \A c \in Conversations : disk[c] = Nobody
        /\ MaxListFailures = 0 =>
              \A c \in Conversations \ lost' : Servers(c) # {} => Waits(c) \/ mem'[c] # Nobody
    BY <1>3, LoadDoes DEF BeginKnown
  <2>4. ~Multi => Len(config) = 1
    BY ConfigTokens DEF IInv
  <2>5. MetaTyped' /\ PlanTyped' /\ RuntimesTyped' /\ LogsTyped' /\ SpentTyped'
    BY <1>3 DEF IInv, MetaTyped, Phases, MaybeRobot, PlanTyped, RuntimesTyped, LogsTyped,
       SpentTyped, BeginKnown
  <2>6. StoreInv'
    BY <1>3, <2>1, <2>2, <2>3, <2>4 DEF IInv, StoreInv, BeginKnown, Loading, Up, Multi
  <2>7. MapsTyped'
    BY <1>3, <2>3 DEF IInv, MapsTyped, Maps, Owners, BeginKnown
  <2>8. StoreTyped'
    BY <1>3, <2>1, <2>2, <2>3, <2>4 DEF IInv, StoreTyped, BeginKnown, Loading, Up, Multi
  <2>9. LifeTyped'
    BY <1>3, <2>1, <2>2, <2>3, <2>4 DEF IInv, LifeTyped, BeginKnown, Loading, Up, Multi
  <2>10. StartupTyped'
    BY <1>3 DEF IInv, StartupTyped, Startup, Phases, MaybeRobot, MetaTyped, WorkerTyped, Idle,
       Jobs, Steps, PlanTyped, MapsTyped, Maps, Owners, StoreTyped, LifeTyped, RuntimesTyped,
       LogsTyped, Log, SpentTyped, Budgets, WorkerInv, Begins, Proceeds, RuntimeInv, Configured,
       ClaimInv, PhaseInv, Multi, SoleInv, Listens, StoreInv, FreshInv, Unowned, SingleInv,
       OnlyLegacy, FreezeInv, PendingInv, PlanUsable, ApplyInv, Bound, MigratedInv, DiskInv,
       OwnerInv, Names, BeginKnown, Up
  <2>11. WorkerTyped'
    BY <1>3 DEF IInv, WorkerTyped, Idle, Jobs, Steps, StoreTyped, StartupTyped, Startup, Phases,
       MaybeRobot, MetaTyped, PlanTyped, MapsTyped, Maps, Owners, LifeTyped, RuntimesTyped,
       LogsTyped, Log, SpentTyped, Budgets, WorkerInv, Begins, Proceeds, RuntimeInv, Configured,
       ClaimInv, PhaseInv, Multi, SoleInv, Listens, StoreInv, FreshInv, Unowned, SingleInv,
       OnlyLegacy, FreezeInv, PendingInv, PlanUsable, ApplyInv, Bound, MigratedInv, DiskInv,
       OwnerInv, Names, BeginKnown, Up
  <2>12. WorkerInv'
    BY <1>3 DEF IInv, WorkerInv, Begins, Proceeds, Idle, BeginKnown, Up
  <2>13. RuntimeInv'
    BY <1>3 DEF IInv, RuntimeInv, Configured, BeginKnown, Up
  <2>14. ClaimInv'
    BY <1>3 DEF IInv, ClaimInv, RuntimesTyped, MaybeRobot, RuntimeInv, Configured, MetaTyped,
       Phases, PlanTyped, MapsTyped, Maps, Owners, StoreTyped, LifeTyped, StartupTyped, Startup,
       WorkerTyped, Idle, Jobs, Steps, LogsTyped, Log, SpentTyped, Budgets, WorkerInv, Begins,
       Proceeds, PhaseInv, Multi, SoleInv, Listens, StoreInv, FreshInv, Unowned, SingleInv,
       OnlyLegacy, FreezeInv, PendingInv, PlanUsable, ApplyInv, Bound, MigratedInv, DiskInv,
       OwnerInv, Names, BeginKnown, Loading
  <2>15. PhaseInv'
    <3>1. meta.phase = "single" => Len(config) = 1
      BY <1>3, <2>4 DEF IInv, FreshInv, BeginKnown
    <3> QED
      BY <1>3, <3>1 DEF IInv, PhaseInv, BeginKnown, Loading, Up, Startup, Idle, Phases,
         MetaTyped
  <2>16. SoleInv'
    BY <1>3 DEF IInv, SoleInv, Listens, Startup, PhaseInv, Idle, Multi, RuntimeInv, BeginKnown,
       Up
  <2>17. FreshInv'
    BY <1>3 DEF IInv, FreshInv, Multi, Unowned, PhaseInv, Startup, Idle, BeginKnown, Up
  <2>18. SingleInv'
    BY <1>3, <2>1, <2>3 DEF IInv, SingleInv, OnlyLegacy, BeginKnown
  <2>19. FreezeInv'
    BY <1>3 DEF IInv, FreezeInv, Idle, BeginKnown, Up
  <2>20. PendingInv'
    BY <1>3, <2>1, <2>3 DEF IInv, PendingInv, PlanTyped, PlanUsable, OnlyLegacy, PhaseInv,
       Startup, Idle, Multi, WorkerInv, Begins, Proceeds, MetaTyped, Phases, MaybeRobot,
       MapsTyped, Maps, Owners, StoreTyped, LifeTyped, StartupTyped, RuntimesTyped, WorkerTyped,
       Jobs, Steps, LogsTyped, Log, SpentTyped, Budgets, RuntimeInv, Configured, ClaimInv,
       SoleInv, Listens, StoreInv, FreshInv, Unowned, SingleInv, FreezeInv, ApplyInv, Bound,
       MigratedInv, DiskInv, OwnerInv, Names, KnownInv, Waits, SentInv, BeginKnown
  <2>21. ApplyInv'
    BY <1>3 DEF IInv, ApplyInv, Bound, Idle, BeginKnown, Up
  <2>22. MigratedInv'
    BY <1>3, <2>1, <2>2, <2>3, <2>4 DEF IInv, MigratedInv, BeginKnown, Loading, Up, Multi
  <2>23. DiskInv'
    BY <1>3, <2>3 DEF IInv, DiskInv, Idle, BeginKnown
  <2>24. OwnerInv'
    BY <1>3, <2>1, <2>3 DEF IInv, OwnerInv, Names, BeginKnown
  <2>25. KnownInv'
    BY <1>3, <2>1, <2>3 DEF IInv, KnownInv, Waits, BeginKnown
  <2>26. SentInv'
    BY <1>3, <2>1, <2>2, <2>3, <2>4 DEF IInv, SentInv, BeginKnown, Loading, Up, Multi
  <2> QED
    BY <2>5, <2>6, <2>7, <2>8, <2>9, <2>10, <2>11, <2>12, <2>13, <2>14, <2>15, <2>16, <2>17,
       <2>18,
       <2>19, <2>20, <2>21, <2>22, <2>23, <2>24, <2>25, <2>26 DEF IInv
<1>4. CASE BeginSentinel
  <2>1. (\A c \in Conversations : Servers(c)' = Servers(c)) /\ Legacy' = Legacy
    BY <1>4, ServedSame DEF BeginSentinel
  <2>2. \A c \in Conversations : Senders(c)' = Senders(c)
    BY <1>4, SentSame DEF BeginSentinel
  <2>3. /\ mem' \in Maps /\ lost \subseteq lost' /\ lost' \subseteq Conversations
        /\ mem' \in {mem, disk} /\ (snapshot => mem' = disk)
        /\ ~snapshot => mem' = mem /\ \A c \in Conversations : disk[c] = Nobody
        /\ MaxListFailures = 0 =>
              \A c \in Conversations \ lost' : Servers(c) # {} => Waits(c) \/ mem'[c] # Nobody
    BY <1>4, LoadDoes DEF BeginSentinel
  <2>4. ~Multi => Len(config) = 1
    BY ConfigTokens DEF IInv
  <2>5. /\ MetaTyped' /\ PlanTyped' /\ LifeTyped' /\ StartupTyped' /\ RuntimesTyped'
        /\ LogsTyped' /\ SpentTyped'
    BY <1>4 DEF IInv, MetaTyped, Phases, MaybeRobot, PlanTyped, LifeTyped, StartupTyped,
       RuntimesTyped, LogsTyped, SpentTyped, BeginSentinel
  <2>6. RuntimeInv' /\ ClaimInv' /\ SoleInv'
    BY <1>4 DEF IInv, RuntimeInv, Configured, ClaimInv, SoleInv, Listens, BeginSentinel,
       Loading, Multi
  <2>7. StoreInv'
    BY <1>4, <2>1, <2>2, <2>3, <2>4 DEF IInv, StoreInv, BeginSentinel, Loading, Multi
  <2>8. MapsTyped'
    BY <1>4, <2>3 DEF IInv, MapsTyped, Maps, Owners, BeginSentinel
  <2>9. StoreTyped'
    BY <1>4, <2>1, <2>2, <2>3, <2>4 DEF IInv, StoreTyped, BeginSentinel, Loading, Multi
  <2>10. WorkerTyped'
    BY <1>4 DEF IInv, WorkerTyped, Steps, BeginSentinel
  <2>11. WorkerInv'
    BY <1>4 DEF IInv, WorkerInv, Begins, Proceeds, BeginSentinel, Loading
  <2>12. PhaseInv'
    BY <1>4, <2>1, <2>2, <2>3, <2>4 DEF IInv, PhaseInv, Multi, BeginSentinel, Loading
  <2>13. FreshInv'
    BY <1>4, <2>3 DEF IInv, FreshInv, Multi, Unowned, Evidence, BeginSentinel
  <2>14. SingleInv'
    BY <1>4, <2>1, <2>2, <2>3, <2>4 DEF IInv, SingleInv, OnlyLegacy, BeginSentinel, Loading,
       Multi
  <2>15. FreezeInv'
    BY <1>4, <2>1, <2>2, <2>3, <2>4 DEF IInv, FreezeInv, Multi, BeginSentinel, Loading
  <2>16. PendingInv'
    BY <1>4 DEF IInv, PendingInv, PlanTyped, BeginSentinel
  <2>17. ApplyInv'
    BY <1>4 DEF IInv, ApplyInv, BeginSentinel
  <2>18. MigratedInv'
    BY <1>4, <2>1, <2>2, <2>3, <2>4 DEF IInv, MigratedInv, BeginSentinel, Loading, Multi
  <2>19. DiskInv'
    BY <1>4, <2>1, <2>2, <2>3, <2>4 DEF IInv, DiskInv, BeginSentinel, Loading, Multi
  <2>20. OwnerInv'
    BY <1>4, <2>1, <2>2, <2>3, <2>4 DEF IInv, OwnerInv, Names, BeginSentinel, Loading, Multi
  <2>21. KnownInv'
    BY <1>4, <2>1, <2>2, <2>3, <2>4 DEF IInv, KnownInv, Waits, BeginSentinel, Loading, Multi
  <2>22. SentInv'
    BY <1>4, <2>1, <2>2, <2>3, <2>4 DEF IInv, SentInv, BeginSentinel, Loading, Multi
  <2> QED
    BY <2>5, <2>6, <2>7, <2>8, <2>9, <2>10, <2>11, <2>12, <2>13, <2>14, <2>15, <2>16, <2>17,
       <2>18,
       <2>19, <2>20, <2>21, <2>22 DEF IInv
<1>5. CASE SaveSentinel
  <2>1. (\A c \in Conversations : Servers(c)' = Servers(c)) /\ Legacy' = Legacy
    BY <1>5, ServedSame DEF SaveSentinel
  <2>2. \A c \in Conversations : Senders(c)' = Senders(c)
    BY <1>5, SentSame DEF SaveSentinel
  <2>3. ~Multi => Len(config) = 1
    BY ConfigTokens DEF IInv
  <2>4. /\ PlanTyped' /\ MapsTyped' /\ StoreTyped' /\ RuntimesTyped' /\ LogsTyped'
        /\ SpentTyped'
    BY <1>5 DEF IInv, PlanTyped, MapsTyped, Maps, Owners, StoreTyped, RuntimesTyped, LogsTyped,
       SpentTyped, SaveSentinel
  <2>5. StoreInv'
    BY <1>5, <2>1, <2>2, <2>3 DEF IInv, StoreInv, SaveSentinel, Up
  <2>6. OwnerInv'
    BY <1>5, <2>1, <2>2, <2>3 DEF IInv, OwnerInv, Names, SaveSentinel, Up
  <2>7. SentInv'
    BY <1>5, <2>1, <2>2, <2>3 DEF IInv, SentInv, SaveSentinel, Up
  <2>8. MetaTyped'
    BY <1>5, <2>1, <2>2, <2>3 DEF IInv, MetaTyped, Metadata, Phases, MaybeRobot, SaveSentinel,
       Up
  <2>9. LifeTyped'
    BY <1>5, <2>1, <2>2, <2>3 DEF IInv, LifeTyped, SaveSentinel, Up
  <2>10. StartupTyped'
    BY <1>5, <2>1, <2>2, <2>3 DEF IInv, StartupTyped, Startup, Phases, MaybeRobot, SaveSentinel,
       Up
  <2>11. WorkerTyped'
    BY <1>5, <2>1, <2>2, <2>3 DEF IInv, WorkerTyped, Idle, Jobs, Steps, SaveSentinel, Up
  <2>12. WorkerInv'
    BY <1>5, <2>1, <2>2, <2>3 DEF IInv, WorkerInv, Begins, Proceeds, Idle, SaveSentinel, Up
  <2>13. RuntimeInv'
    BY <1>5, <2>1, <2>2, <2>3 DEF IInv, RuntimeInv, Configured, SaveSentinel, Up
  <2>14. ClaimInv'
    BY <1>5 DEF IInv, ClaimInv, RuntimesTyped, MaybeRobot, RuntimeInv, Configured, MetaTyped,
       Metadata, Phases, PlanTyped, MapsTyped, Maps, Owners, StoreTyped, LifeTyped,
       StartupTyped, Startup, WorkerTyped, Idle, Jobs, Steps, LogsTyped, Log, SpentTyped,
       Budgets, WorkerInv, Begins, Proceeds, PhaseInv, Multi, SoleInv, Listens, SaveSentinel
  <2>15. PhaseInv'
    <3>1. Len(config) = 1
      BY <1>5, <2>3 DEF IInv, FreshInv, SaveSentinel
    <3> QED
      BY <1>5, <3>1 DEF IInv, PhaseInv, SaveSentinel, Up, Metadata, Startup, Idle
  <2>16. SoleInv'
    BY <1>5 DEF IInv, SoleInv, Listens, Startup, Metadata, PhaseInv, Idle, Multi, RuntimeInv,
       Configured, RuntimesTyped, MaybeRobot, MetaTyped, Phases, PlanTyped, MapsTyped, Maps,
       Owners, StoreTyped, LifeTyped, StartupTyped, WorkerTyped, Jobs, Steps, LogsTyped, Log,
       SpentTyped, Budgets, WorkerInv, Begins, Proceeds, ClaimInv, SaveSentinel
  <2>17. FreshInv'
    BY <1>5 DEF IInv, FreshInv, Multi, Unowned, Metadata, PhaseInv, Startup, Idle, SaveSentinel,
       Up
  <2>18. SingleInv'
    BY <1>5, <2>1 DEF IInv, SingleInv, OnlyLegacy, Metadata, PhaseInv, Startup, Idle, Multi,
       WorkerInv, Begins, Proceeds, MetaTyped, Phases, MaybeRobot, PlanTyped, MapsTyped, Maps,
       Owners, StoreTyped, LifeTyped, StartupTyped, RuntimesTyped, WorkerTyped, Jobs, Steps,
       LogsTyped, Log, SpentTyped, Budgets, RuntimeInv, Configured, ClaimInv, SoleInv, Listens,
       StoreInv, FreshInv, Unowned, FreezeInv, PendingInv, SaveSentinel
  <2>19. FreezeInv'
    BY <1>5, <2>1, <2>2, <2>3 DEF IInv, FreezeInv, Multi, Idle, Metadata, SaveSentinel, Up
  <2>20. PendingInv'
    BY <1>5 DEF IInv, PendingInv, Metadata, SaveSentinel
  <2>21. ApplyInv'
    BY <1>5, <2>1, <2>2, <2>3 DEF IInv, ApplyInv, Bound, OnlyLegacy, Idle, SaveSentinel, Up
  <2>22. MigratedInv'
    BY <1>5, <2>1, <2>2, <2>3 DEF IInv, MigratedInv, Metadata, SaveSentinel, Up
  <2>23. DiskInv'
    BY <1>5 DEF IInv, DiskInv, Idle, WorkerInv, Begins, Proceeds, MetaTyped, Metadata, Phases,
       MaybeRobot, PlanTyped, MapsTyped, Maps, Owners, StoreTyped, LifeTyped, StartupTyped,
       Startup, RuntimesTyped, WorkerTyped, Jobs, Steps, LogsTyped, Log, SpentTyped, Budgets,
       RuntimeInv, Configured, ClaimInv, PhaseInv, Multi, SoleInv, Listens, StoreInv, FreshInv,
       Unowned, SingleInv, OnlyLegacy, FreezeInv, SaveSentinel
  <2>24. KnownInv'
    BY <1>5, <2>1, <2>2, <2>3 DEF IInv, KnownInv, Waits, Metadata, SaveSentinel, Up
  <2> QED
    BY <2>4, <2>5, <2>6, <2>7, <2>8, <2>9, <2>10, <2>11, <2>12, <2>13, <2>14, <2>15, <2>16,
       <2>17,
       <2>18, <2>19, <2>20, <2>21, <2>22, <2>23, <2>24 DEF IInv
<1>6. CASE BeginFreeze
  <2>1. (\A c \in Conversations : Servers(c)' = Servers(c)) /\ Legacy' = Legacy
    BY <1>6, ServedSame DEF BeginFreeze
  <2>2. \A c \in Conversations : Senders(c)' = Senders(c)
    BY <1>6, SentSame DEF BeginFreeze
  <2>3. /\ mem' \in Maps /\ lost \subseteq lost' /\ lost' \subseteq Conversations
        /\ mem' \in {mem, disk} /\ (snapshot => mem' = disk)
        /\ ~snapshot => mem' = mem /\ \A c \in Conversations : disk[c] = Nobody
        /\ MaxListFailures = 0 =>
              \A c \in Conversations \ lost' : Servers(c) # {} => Waits(c) \/ mem'[c] # Nobody
    BY <1>6, LoadDoes DEF BeginFreeze
  <2>4. /\ MetaTyped' /\ PlanTyped' /\ LifeTyped' /\ StartupTyped' /\ RuntimesTyped'
        /\ LogsTyped'
    BY <1>6 DEF IInv, MetaTyped, Phases, MaybeRobot, PlanTyped, LifeTyped, StartupTyped,
       RuntimesTyped, LogsTyped, BeginFreeze
  <2>5. RuntimeInv' /\ ClaimInv' /\ SoleInv'
    BY <1>6 DEF IInv, RuntimeInv, Configured, ClaimInv, SoleInv, BeginFreeze
  <2>6. StoreInv'
    BY <1>6, <2>1, <2>2, <2>3 DEF IInv, StoreInv, BeginFreeze, Loading, Multi, Enumerated,
       Spends
  <2>7. MapsTyped'
    BY <1>6, <2>3 DEF IInv, MapsTyped, BeginFreeze
  <2>8. StoreTyped'
    BY <1>6, <2>1, <2>2, <2>3 DEF IInv, StoreTyped, BeginFreeze, Loading, Multi, Enumerated,
       Spends
  <2>9. WorkerTyped'
    BY <1>6 DEF IInv, WorkerTyped, Jobs, Steps, StoreTyped, StartupTyped, Phases, MaybeRobot,
       BeginFreeze, Enumerated
  <2>10. SpentTyped'
    BY <1>6 DEF IInv, SpentTyped, Spends, BeginFreeze, Enumerated
  <2>11. WorkerInv'
    BY <1>6 DEF IInv, WorkerInv, Begins, Proceeds, BeginFreeze, Loading
  <2>12. PhaseInv'
    BY <1>6, <2>1, <2>2, <2>3 DEF IInv, PhaseInv, Multi, BeginFreeze, Loading, Enumerated,
       Spends
  <2>13. FreshInv'
    BY <1>6 DEF IInv, FreshInv, BeginFreeze
  <2>14. SingleInv'
    BY <1>6, <2>1, <2>3 DEF IInv, SingleInv, OnlyLegacy, BeginFreeze
  <2>15. FreezeInv'
    BY <1>6 DEF IInv, FreezeInv, Multi, Idle, WorkerInv, Begins, Proceeds, WorkerTyped, Jobs,
       Steps, MetaTyped, Phases, MaybeRobot, PlanTyped, MapsTyped, Maps, Owners, StoreTyped,
       LifeTyped, StartupTyped, RuntimesTyped, LogsTyped, Log, SpentTyped, Spends, Budgets,
       BeginFreeze, Enumerated
  <2>16. PendingInv'
    BY <1>6 DEF IInv, PendingInv, PlanTyped, BeginFreeze
  <2>17. ApplyInv'
    BY <1>6 DEF IInv, ApplyInv, BeginFreeze
  <2>18. MigratedInv'
    BY <1>6, <2>1, <2>2, <2>3 DEF IInv, MigratedInv, BeginFreeze, Loading, Multi, Enumerated,
       Spends
  <2>19. DiskInv'
    BY <1>6, <2>1, <2>2, <2>3 DEF IInv, DiskInv, BeginFreeze, Loading, Multi, Enumerated, Spends
  <2>20. OwnerInv'
    BY <1>6, <2>1, <2>3 DEF IInv, OwnerInv, Names, BeginFreeze
  <2>21. KnownInv'
    BY <1>6 DEF KnownInv, Waits, BeginFreeze
  <2>22. SentInv'
    BY <2>1, <2>2, <2>3 DEF IInv, SentInv, MetaTyped
  <2> QED
    BY <2>4, <2>5, <2>6, <2>7, <2>8, <2>9, <2>10, <2>11, <2>12, <2>13, <2>14, <2>15, <2>16,
       <2>17,
       <2>18, <2>19, <2>20, <2>21, <2>22 DEF IInv
<1>7. CASE SavePlan
  <2>1. (\A c \in Conversations : Servers(c)' = Servers(c)) /\ Legacy' = Legacy
    BY <1>7, ServedSame DEF SavePlan
  <2>2. \A c \in Conversations : Senders(c)' = Senders(c)
    BY <1>7, SentSame DEF SavePlan
  <2>3. /\ MetaTyped' /\ MapsTyped' /\ StoreTyped' /\ LifeTyped' /\ StartupTyped'
        /\ RuntimesTyped' /\ LogsTyped' /\ SpentTyped'
    BY <1>7 DEF IInv, MetaTyped, Phases, MaybeRobot, MapsTyped, Maps, Owners, StoreTyped,
       LifeTyped, StartupTyped, RuntimesTyped, LogsTyped, SpentTyped, SavePlan
  <2>4. RuntimeInv' /\ ClaimInv' /\ SoleInv'
    BY <1>7 DEF IInv, RuntimeInv, Configured, ClaimInv, SoleInv, Listens, SavePlan
  <2>5. StoreInv'
    BY <1>7, <2>1, <2>2 DEF IInv, StoreInv, SavePlan
  <2>6. SingleInv'
    BY <1>7, <2>1, <2>2 DEF IInv, SingleInv, OnlyLegacy, SavePlan
  <2>7. MigratedInv'
    BY <1>7, <2>1, <2>2 DEF IInv, MigratedInv, SavePlan
  <2>8. OwnerInv'
    BY <1>7, <2>1, <2>2 DEF IInv, OwnerInv, Names, SavePlan
  <2>9. SentInv'
    BY <1>7, <2>1, <2>2 DEF IInv, SentInv, SavePlan
  <2>10. PlanTyped'
    BY <1>7 DEF IInv, PlanTyped, WorkerTyped, SavePlan
  <2>11. WorkerTyped'
    BY <1>7, <2>1, <2>2 DEF IInv, WorkerTyped, Jobs, Steps, SavePlan
  <2>12. WorkerInv'
    BY <1>7, <2>1, <2>2 DEF IInv, WorkerInv, Begins, Proceeds, Idle, SavePlan
  <2>13. PhaseInv'
    BY <1>7 DEF IInv, PhaseInv, Idle, WorkerInv, Proceeds, SavePlan
  <2>14. FreshInv'
    BY <1>7, <2>1, <2>2 DEF IInv, FreshInv, Multi, Unowned, SavePlan
  <2>15. FreezeInv'
    BY <1>7, <2>1, <2>2 DEF IInv, FreezeInv, Multi, SavePlan
  <2>16. PendingInv'
    BY <1>7 DEF IInv, PendingInv, PlanTyped, PlanUsable, OnlyLegacy, PhaseInv, Idle, Multi,
       WorkerInv, Begins, Proceeds, MetaTyped, Phases, MaybeRobot, MapsTyped, Maps, Owners,
       StoreTyped, LifeTyped, StartupTyped, RuntimesTyped, WorkerTyped, Jobs, Steps, LogsTyped,
       Log, SpentTyped, Budgets, RuntimeInv, Configured, ClaimInv, SoleInv, Listens, StoreInv,
       FreshInv, Unowned, SingleInv, FreezeInv, ApplyInv, SavePlan
  <2>17. ApplyInv'
    BY <1>7, <2>1, <2>2 DEF IInv, ApplyInv, Bound, OnlyLegacy, SavePlan
  <2>18. DiskInv'
    BY <1>7, <2>1, <2>2 DEF IInv, DiskInv, SavePlan
  <2>19. KnownInv'
    BY <1>7 DEF IInv, KnownInv, Waits, PhaseInv, Idle, Multi, WorkerInv, Begins, Proceeds,
       MetaTyped, Phases, MaybeRobot, PlanTyped, MapsTyped, Maps, Owners, StoreTyped, LifeTyped,
       StartupTyped, RuntimesTyped, WorkerTyped, Jobs, Steps, LogsTyped, Log, SpentTyped,
       Budgets, RuntimeInv, Configured, ClaimInv, SoleInv, Listens, StoreInv, FreshInv, Unowned,
       SingleInv, OnlyLegacy, FreezeInv, PendingInv, SavePlan
  <2> QED
    BY <2>3, <2>4, <2>5, <2>6, <2>7, <2>8, <2>9, <2>10, <2>11, <2>12, <2>13, <2>14, <2>15,
       <2>16,
       <2>17, <2>18, <2>19 DEF IInv
<1>8. CASE SavePending
  <2>1. (\A c \in Conversations : Servers(c)' = Servers(c)) /\ Legacy' = Legacy
    BY <1>8, ServedSame DEF SavePending
  <2>2. \A c \in Conversations : Senders(c)' = Senders(c)
    BY <1>8, SentSame DEF SavePending
  <2>3. Cardinality(worker.plan) \in Nat
    BY FS_CardinalityType DEF IInv, WorkerTyped
  <2>4. /\ meta.phase = "single" /\ meta.legacy # Nobody /\ worker.plan \subseteq Conversations
        /\ planFile = [exists |-> TRUE, plan |-> worker.plan]
    BY <1>8 DEF IInv, FreezeInv, WorkerTyped, SavePending
  <2>5. MaxListFailures = 0 => worker.plan = store /\ Legacy \subseteq worker.plan
    BY <1>8, LegacyServed DEF IInv, FreezeInv, StoreInv, SavePending
  <2>6. /\ PlanTyped' /\ MapsTyped' /\ StoreTyped' /\ RuntimesTyped' /\ LogsTyped'
        /\ SpentTyped'
    BY <1>8 DEF IInv, PlanTyped, MapsTyped, Maps, Owners, StoreTyped, RuntimesTyped, LogsTyped,
       SpentTyped, SavePending
  <2>7. StoreInv'
    BY <1>8, <2>1, <2>2, <2>3, <2>4, <2>5 DEF IInv, StoreInv, SavePending, Up
  <2>8. OwnerInv'
    BY <1>8, <2>1, <2>2, <2>3, <2>4, <2>5 DEF IInv, OwnerInv, Names, SavePending, Up
  <2>9. SentInv'
    BY <1>8, <2>1, <2>2, <2>3, <2>4, <2>5 DEF IInv, SentInv, SavePending, Up
  <2>10. MetaTyped'
    BY <1>8, <2>3 DEF IInv, MetaTyped, Metadata, Phases, MaybeRobot, WorkerTyped, Idle, Jobs,
       Steps, StartupTyped, Startup, RuntimesTyped, PlanTyped, MapsTyped, Maps, Owners,
       StoreTyped, LifeTyped, LogsTyped, Log, SpentTyped, Budgets, WorkerInv, Begins, Proceeds,
       RuntimeInv, Configured, ClaimInv, PhaseInv, Multi, SoleInv, Listens, StoreInv, FreshInv,
       Unowned, SingleInv, OnlyLegacy, FreezeInv, PendingInv, PlanUsable, ApplyInv, Bound,
       SavePending
  <2>11. LifeTyped'
    BY <1>8, <2>1, <2>2, <2>3, <2>4, <2>5 DEF IInv, LifeTyped, SavePending, Up
  <2>12. StartupTyped'
    BY <1>8 DEF IInv, StartupTyped, Startup, Phases, MaybeRobot, MetaTyped, WorkerTyped,
       SavePending, Up
  <2>13. WorkerTyped'
    BY <1>8 DEF IInv, WorkerTyped, Idle, Jobs, Steps, SavePending, Up
  <2>14. WorkerInv'
    BY <1>8 DEF IInv, WorkerInv, Begins, Proceeds, Idle, SavePending, Up
  <2>15. RuntimeInv'
    BY <1>8, <2>1, <2>2, <2>3, <2>4, <2>5 DEF IInv, RuntimeInv, Configured, SavePending, Up
  <2>16. ClaimInv'
    BY <1>8 DEF IInv, ClaimInv, RuntimesTyped, MaybeRobot, RuntimeInv, Configured, MetaTyped,
       Metadata, Phases, PlanTyped, MapsTyped, Maps, Owners, StoreTyped, LifeTyped,
       StartupTyped, Startup, WorkerTyped, Idle, Jobs, Steps, LogsTyped, Log, SpentTyped,
       Budgets, WorkerInv, Begins, Proceeds, SavePending
  <2>17. PhaseInv'
    BY <1>8 DEF IInv, PhaseInv, Metadata, Startup, Idle, Multi, WorkerInv, Begins, Proceeds,
       LifeTyped, WorkerTyped, Jobs, Steps, MetaTyped, Phases, MaybeRobot, PlanTyped, MapsTyped,
       Maps, Owners, StoreTyped, StartupTyped, RuntimesTyped, LogsTyped, Log, SpentTyped,
       Budgets, RuntimeInv, Configured, ClaimInv, SoleInv, Listens, StoreInv, FreshInv, Unowned,
       SingleInv, OnlyLegacy, FreezeInv, SavePending, Up
  <2>18. SoleInv'
    BY <1>8 DEF IInv, SoleInv, Listens, Startup, SavePending, Up
  <2>19. FreshInv'
    BY <1>8 DEF IInv, FreshInv, Multi, Unowned, Metadata, PhaseInv, Startup, Idle, SavePending,
       Up
  <2>20. SingleInv'
    BY <1>8 DEF SingleInv, Metadata, SavePending
  <2>21. FreezeInv'
    BY <1>8 DEF IInv, FreezeInv, Multi, Idle, SavePending, Up
  <2>22. PendingInv'
    BY <1>8, <2>1, <2>5 DEF IInv, PendingInv, PlanTyped, PlanUsable, OnlyLegacy, Metadata,
       PhaseInv, Startup, Idle, Multi, WorkerInv, Begins, Proceeds, MetaTyped, Phases,
       MaybeRobot, MapsTyped, Maps, Owners, StoreTyped, LifeTyped, StartupTyped, RuntimesTyped,
       WorkerTyped, Jobs, Steps, LogsTyped, Log, SpentTyped, Budgets, RuntimeInv, Configured,
       ClaimInv, SoleInv, Listens, StoreInv, FreshInv, Unowned, SingleInv, FreezeInv, ApplyInv,
       Bound, SavePending
  <2>23. ApplyInv'
    BY <1>8 DEF IInv, ApplyInv, Bound, Idle, SavePending, Up
  <2>24. MigratedInv'
    BY <1>8, <2>1, <2>2, <2>3, <2>4, <2>5 DEF IInv, MigratedInv, Metadata, SavePending, Up
  <2>25. DiskInv'
    BY <1>8 DEF IInv, DiskInv, Idle, WorkerInv, Begins, Proceeds, MetaTyped, Metadata, Phases,
       MaybeRobot, PlanTyped, MapsTyped, Maps, Owners, StoreTyped, LifeTyped, StartupTyped,
       Startup, RuntimesTyped, WorkerTyped, Jobs, Steps, LogsTyped, Log, SpentTyped, Budgets,
       RuntimeInv, Configured, ClaimInv, PhaseInv, Multi, SoleInv, Listens, StoreInv, FreshInv,
       Unowned, SingleInv, OnlyLegacy, SavePending
  <2>26. KnownInv'
    BY <1>8, <2>1 DEF IInv, KnownInv, Waits, Metadata, PhaseInv, Startup, Idle, Multi,
       WorkerInv, Begins, Proceeds, MetaTyped, Phases, MaybeRobot, PlanTyped, MapsTyped, Maps,
       Owners, StoreTyped, LifeTyped, StartupTyped, RuntimesTyped, WorkerTyped, Jobs, Steps,
       LogsTyped, Log, SpentTyped, Budgets, RuntimeInv, Configured, ClaimInv, SoleInv, Listens,
       StoreInv, FreshInv, Unowned, SingleInv, OnlyLegacy, FreezeInv, PendingInv, PlanUsable,
       SavePending
  <2> QED
    BY <2>6, <2>7, <2>8, <2>9, <2>10, <2>11, <2>12, <2>13, <2>14, <2>15, <2>16, <2>17, <2>18,
       <2>19,
       <2>20, <2>21, <2>22, <2>23, <2>24, <2>25, <2>26 DEF IInv
<1>9. CASE BeginFails
  <2>1. (\A c \in Conversations : Servers(c)' = Servers(c)) /\ Legacy' = Legacy
    BY <1>9, ServedSame DEF BeginFails, NotUp
  <2>2. \A c \in Conversations : Senders(c)' = Senders(c)
    BY <1>9, SentSame DEF BeginFails, NotUp
  <2>3. /\ MetaTyped' /\ PlanTyped' /\ MapsTyped' /\ StoreTyped' /\ StartupTyped'
        /\ RuntimesTyped' /\ LogsTyped'
    BY <1>9 DEF IInv, MetaTyped, Phases, MaybeRobot, PlanTyped, MapsTyped, Maps, Owners,
       StoreTyped, StartupTyped, RuntimesTyped, LogsTyped, BeginFails, NotUp
  <2>4. StoreInv'
    BY <1>9, <2>1, <2>2 DEF IInv, StoreInv, BeginFails, NotUp
  <2>5. SingleInv'
    BY <1>9, <2>1, <2>2 DEF IInv, SingleInv, OnlyLegacy, BeginFails, NotUp
  <2>6. PendingInv'
    BY <1>9, <2>1, <2>2 DEF IInv, PendingInv, PlanTyped, PlanUsable, OnlyLegacy, BeginFails,
       NotUp
  <2>7. OwnerInv'
    BY <1>9, <2>1, <2>2 DEF IInv, OwnerInv, Names, BeginFails, NotUp
  <2>8. SentInv'
    BY <1>9, <2>1, <2>2 DEF IInv, SentInv, BeginFails, NotUp
  <2>9. LifeTyped'
    BY <1>9, <2>1, <2>2 DEF IInv, LifeTyped, BeginFails, NotUp
  <2>10. WorkerTyped'
    BY <1>9, <2>1, <2>2 DEF IInv, WorkerTyped, Idle, Jobs, Steps, BeginFails, NotUp
  <2>11. SpentTyped'
    BY <1>9, <2>1, <2>2 DEF IInv, SpentTyped, Spends, Budgets, BeginFails, NotUp
  <2>12. WorkerInv'
    BY <1>9, <2>1, <2>2 DEF IInv, WorkerInv, Begins, Proceeds, Idle, BeginFails, NotUp
  <2>13. RuntimeInv'
    BY <1>9 DEF IInv, RuntimeInv, Configured, RuntimesTyped, MaybeRobot, WorkerInv, Proceeds,
       BeginFails, NotUp
  <2>14. ClaimInv'
    BY <1>9 DEF IInv, ClaimInv, RuntimesTyped, MaybeRobot, RuntimeInv, Configured, MetaTyped,
       Phases, PlanTyped, MapsTyped, Maps, Owners, StoreTyped, LifeTyped, StartupTyped,
       WorkerTyped, Idle, Jobs, Steps, LogsTyped, Log, SpentTyped, Spends, Budgets, WorkerInv,
       Begins, Proceeds, PhaseInv, Multi, SoleInv, Listens, StoreInv, BeginFails, NotUp
  <2>15. PhaseInv'
    BY <1>9, <2>1, <2>2 DEF IInv, PhaseInv, Idle, BeginFails, NotUp
  <2>16. SoleInv'
    BY <1>9, <2>1, <2>2 DEF IInv, SoleInv, Listens, BeginFails, NotUp
  <2>17. FreshInv'
    BY <1>9 DEF IInv, FreshInv, Multi, Idle, BeginFails, NotUp
  <2>18. FreezeInv'
    BY <1>9, <2>1, <2>2 DEF IInv, FreezeInv, Multi, Idle, BeginFails, NotUp
  <2>19. ApplyInv'
    BY <1>9, <2>1, <2>2 DEF IInv, ApplyInv, Bound, OnlyLegacy, Idle, BeginFails, NotUp
  <2>20. MigratedInv'
    BY <1>9, <2>1, <2>2 DEF IInv, MigratedInv, BeginFails, NotUp
  <2>21. DiskInv'
    BY <1>9, <2>1, <2>2 DEF IInv, DiskInv, Idle, BeginFails, NotUp
  <2>22. KnownInv'
    BY <1>9, <2>1, <2>2 DEF IInv, KnownInv, Waits, BeginFails, NotUp
  <2> QED
    BY <2>3, <2>4, <2>5, <2>6, <2>7, <2>8, <2>9, <2>10, <2>11, <2>12, <2>13, <2>14, <2>15,
       <2>16,
       <2>17, <2>18, <2>19, <2>20, <2>21, <2>22 DEF IInv
<1>10. ASSUME NEW t \in Tokens, Register(t)
      PROVE  IInv'
  <2>1. (\A c \in Conversations : Servers(c)' = Servers(c)) /\ Legacy' = Legacy
    BY <1>10, ServedSame DEF Register
  <2>2. \A c \in Conversations : Senders(c)' = Senders(c)
    BY <1>10, SentSame DEF Register
  <2>3. bot[t] \in Robots /\ rt[t].pc = "off" /\ life = "up" /\ t \in Configured
    BY <1>10 DEF IInv, LifeTyped, Register, MayRegister
  <2>4. \/ rt' = [rt EXCEPT ![t].pc = "stuck"] /\ byRobot' = byRobot
        \/ /\ byRobot[bot[t]] \in {Nobody, t}
           /\ byRobot' = [x \in Robots |-> IF x = bot[t] THEN t
                                          ELSE IF x = rt[t].robot THEN Nobody
                                          ELSE byRobot[x]]
           /\ rt' = [rt EXCEPT ![t] = [pc |-> "registering", robot |-> bot[t]]]
    BY <1>10 DEF Register, Claim
  <2>5. /\ \A u \in Tokens : u # t => rt'[u] = rt[u]
        /\ \/ rt'[t].pc = "stuck" /\ rt'[t].robot = rt[t].robot /\ byRobot' = byRobot
           \/ /\ rt'[t].pc = "registering" /\ rt'[t].robot = bot[t]
              /\ byRobot[bot[t]] \in {Nobody, t} /\ byRobot'[bot[t]] = t
              /\ \A x \in Robots : x # bot[t] =>
                    byRobot'[x] = IF x = rt[t].robot THEN Nobody ELSE byRobot[x]
    BY <2>3, <2>4 DEF IInv, RuntimesTyped
  <2>6. /\ MetaTyped' /\ PlanTyped' /\ MapsTyped' /\ StoreTyped' /\ StartupTyped'
        /\ WorkerTyped' /\ LogsTyped' /\ SpentTyped'
    BY <1>10 DEF IInv, MetaTyped, Phases, MaybeRobot, PlanTyped, MapsTyped, Maps, Owners,
       StoreTyped, StartupTyped, WorkerTyped, Jobs, LogsTyped, SpentTyped, Register
  <2>7. PhaseInv' /\ FreshInv' /\ FreezeInv' /\ DiskInv'
    BY <1>10 DEF IInv, PhaseInv, Multi, FreshInv, Unowned, FreezeInv, DiskInv, Register
  <2>8. StoreInv'
    BY <1>10, <2>1, <2>2, <2>3, <2>4, <2>5 DEF IInv, StoreInv, Register
  <2>9. SingleInv'
    BY <1>10, <2>1, <2>2, <2>3, <2>4, <2>5 DEF IInv, SingleInv, OnlyLegacy, Register
  <2>10. PendingInv'
    BY <1>10, <2>1 DEF IInv, PendingInv, PlanTyped, PlanUsable, OnlyLegacy, Register
  <2>11. ApplyInv'
    BY <1>10, <2>1, <2>2, <2>3, <2>4, <2>5 DEF IInv, ApplyInv, Bound, OnlyLegacy, Register
  <2>12. MigratedInv'
    BY <1>10, <2>1, <2>2, <2>3, <2>4, <2>5 DEF IInv, MigratedInv, Register
  <2>13. OwnerInv'
    BY <1>10, <2>1, <2>2, <2>3, <2>4, <2>5 DEF IInv, OwnerInv, Names, Register
  <2>14. KnownInv'
    BY <1>10, <2>1, <2>2, <2>3, <2>4, <2>5 DEF IInv, KnownInv, Waits, Register
  <2>15. SentInv'
    BY <1>10, <2>1, <2>2, <2>3, <2>4, <2>5 DEF IInv, SentInv, Register
  <2>16. LifeTyped'
    BY <1>10, <2>1, <2>2, <2>3, <2>4, <2>5 DEF IInv, LifeTyped, Register
  <2>17. RuntimesTyped'
    BY <2>3, <2>4 DEF IInv, RuntimesTyped, MaybeRobot
  <2>18. WorkerInv'
    BY <1>10, <2>3, <2>4 DEF IInv, WorkerInv, Begins, Proceeds, Idle, RuntimesTyped,
       Register, MayRegister
  <2>19. RuntimeInv'
    <3>1. life' = life /\ config' = config /\ Configured' = Configured
      BY <1>10 DEF Register, Configured
    <3>2. ASSUME NEW u \in Tokens
          PROVE  /\ rt'[u].pc # "off" => life = "up" /\ u \in Configured
                 /\ rt'[u].pc \in {"registering", "ready", "up"} => rt'[u].robot # Nobody
      BY <2>3, <2>5, NamesDiffer DEF IInv, RuntimeInv
    <3> QED
      BY <3>1, <3>2 DEF RuntimeInv
  <2>20. ClaimInv'
    <3>t. byRobot \in [Robots -> Tokens \union {Nobody}] /\ rt[t].robot \in MaybeRobot
      BY DEF IInv, RuntimesTyped
    <3>l. life' = life
      BY <1>10 DEF Register
    <3>1. ASSUME NEW r \in Robots, byRobot'[r] # Nobody
          PROVE  life' = "up" /\ rt'[byRobot'[r]].robot = r
      BY <2>3, <2>5, <3>t, <3>1, <3>l, NamesDiffer DEF IInv, ClaimInv
    <3>2. ASSUME ~Reuse, NEW u \in Tokens, rt'[u].robot # Nobody
          PROVE  byRobot'[rt'[u].robot] = u
      <4>1. CASE u = t
        BY <2>3, <2>5, <3>2, <3>t, <4>1 DEF IInv, ClaimInv, MaybeRobot
      <4>2. CASE u # t
        <5>1. rt'[u] = rt[u] /\ byRobot[rt[u].robot] = u /\ rt[u].robot \in Robots
          BY <2>3, <2>5, <3>2, <4>2 DEF IInv, ClaimInv, RuntimesTyped, MaybeRobot
        <5>2. rt[t].robot # rt[u].robot
          BY <2>3, <3>2, <4>2, <5>1 DEF IInv, ClaimInv
        <5> QED
          BY <2>5, <4>2, <5>1, <5>2
      <4> QED
        BY <4>1, <4>2
    <3> QED
      BY <3>1, <3>2 DEF ClaimInv
  <2>21. SoleInv'
    BY <1>10, <2>4 DEF IInv, SoleInv, Listens, RuntimesTyped, Register
  <2> QED
    BY <2>6, <2>7, <2>8, <2>9, <2>10, <2>11, <2>12, <2>13, <2>14, <2>15, <2>16, <2>17, <2>18,
       <2>19,
       <2>20, <2>21 DEF IInv
<1>11. ASSUME NEW t \in Tokens, RegisterFails(t)
      PROVE  IInv'
  <2>1. (\A c \in Conversations : Servers(c)' = Servers(c)) /\ Legacy' = Legacy
    BY <1>11, ServedSame DEF RegisterFails
  <2>2. \A c \in Conversations : Senders(c)' = Senders(c)
    BY <1>11, SentSame DEF RegisterFails
  <2>3. /\ MetaTyped' /\ PlanTyped' /\ MapsTyped' /\ StoreTyped' /\ StartupTyped'
        /\ RuntimesTyped' /\ WorkerTyped' /\ LogsTyped' /\ SpentTyped'
    BY <1>11 DEF IInv, MetaTyped, Phases, MaybeRobot, PlanTyped, MapsTyped, Maps, Owners,
       StoreTyped, StartupTyped, RuntimesTyped, WorkerTyped, Jobs, Steps, LogsTyped, SpentTyped,
       RegisterFails
  <2>4. /\ WorkerInv' /\ RuntimeInv' /\ ClaimInv' /\ PhaseInv' /\ SoleInv' /\ FreshInv'
        /\ FreezeInv' /\ DiskInv'
    BY <1>11 DEF IInv, WorkerInv, Begins, Proceeds, Idle, RuntimeInv, Configured, ClaimInv,
       PhaseInv, Multi, SoleInv, Listens, FreshInv, FreezeInv, DiskInv, RegisterFails
  <2>5. StoreInv'
    BY <1>11, <2>1, <2>2 DEF IInv, StoreInv, RegisterFails, MayRegister
  <2>6. SingleInv'
    BY <1>11, <2>1, <2>2 DEF IInv, SingleInv, OnlyLegacy, RegisterFails, MayRegister
  <2>7. PendingInv'
    BY <1>11, <2>1, <2>2 DEF IInv, PendingInv, PlanTyped, PlanUsable, OnlyLegacy, RegisterFails,
       MayRegister
  <2>8. ApplyInv'
    BY <1>11, <2>1, <2>2 DEF IInv, ApplyInv, Bound, OnlyLegacy, RegisterFails, MayRegister
  <2>9. MigratedInv'
    BY <1>11, <2>1, <2>2 DEF IInv, MigratedInv, RegisterFails, MayRegister
  <2>10. OwnerInv'
    BY <1>11, <2>1, <2>2 DEF IInv, OwnerInv, Names, RegisterFails, MayRegister
  <2>11. KnownInv'
    BY <1>11, <2>1, <2>2 DEF IInv, KnownInv, Waits, RegisterFails, MayRegister
  <2>12. SentInv'
    BY <1>11, <2>1, <2>2 DEF IInv, SentInv, RegisterFails, MayRegister
  <2>13. LifeTyped'
    BY <1>11, <2>1, <2>2 DEF IInv, LifeTyped, RegisterFails, MayRegister
  <2> QED
    BY <2>3, <2>4, <2>5, <2>6, <2>7, <2>8, <2>9, <2>10, <2>11, <2>12, <2>13 DEF IInv
<1>12. ASSUME NEW t \in Tokens, Advance(t)
      PROVE  IInv'
  <2>1. (\A c \in Conversations : Servers(c)' = Servers(c)) /\ Legacy' = Legacy
    BY <1>12, ServedSame DEF Advance
  <2>2. \A c \in Conversations : Senders(c)' = Senders(c)
    BY <1>12, SentSame DEF Advance
  <2>3. /\ MetaTyped' /\ PlanTyped' /\ MapsTyped' /\ StoreTyped' /\ LifeTyped'
        /\ StartupTyped' /\ LogsTyped' /\ SpentTyped'
    BY <1>12 DEF IInv, MetaTyped, Phases, MaybeRobot, PlanTyped, MapsTyped, Maps, Owners,
       StoreTyped, LifeTyped, StartupTyped, LogsTyped, SpentTyped, Advance
  <2>4. StoreInv'
    BY <1>12, <2>1, <2>2 DEF IInv, StoreInv, Advance
  <2>5. SingleInv'
    BY <1>12, <2>1, <2>2 DEF IInv, SingleInv, OnlyLegacy, Advance
  <2>6. PendingInv'
    BY <1>12, <2>1, <2>2 DEF IInv, PendingInv, PlanTyped, PlanUsable, OnlyLegacy, Advance
  <2>7. MigratedInv'
    BY <1>12, <2>1, <2>2 DEF IInv, MigratedInv, Advance
  <2>8. OwnerInv'
    BY <1>12, <2>1, <2>2 DEF IInv, OwnerInv, Names, Advance
  <2>9. KnownInv'
    BY <1>12, <2>1, <2>2 DEF IInv, KnownInv, Waits, Advance
  <2>10. SentInv'
    BY <1>12, <2>1, <2>2 DEF IInv, SentInv, Advance
  <2>11. RuntimesTyped'
    BY <1>12, <2>1, <2>2 DEF IInv, RuntimesTyped, MaybeRobot, Advance
  <2>12. WorkerTyped'
    BY <1>12, <2>1, <2>2 DEF IInv, WorkerTyped, Idle, Work, Jobs, Steps, Advance
  <2>13. WorkerInv'
    BY <1>12 DEF IInv, WorkerInv, Begins, Proceeds, Idle, Work, WorkerTyped, Jobs, Steps,
       LifeTyped, MetaTyped, Phases, MaybeRobot, PlanTyped, MapsTyped, Maps, Owners, StoreTyped,
       StartupTyped, RuntimesTyped, LogsTyped, Log, SpentTyped, Budgets, RuntimeInv, Configured,
       Advance
  <2>14. RuntimeInv'
    BY <1>12 DEF IInv, RuntimeInv, Configured, RuntimesTyped, Advance
  <2>15. ClaimInv'
    BY <1>12, <2>1, <2>2 DEF IInv, ClaimInv, RuntimesTyped, MaybeRobot, RuntimeInv, Configured,
       Advance
  <2>16. PhaseInv'
    BY <1>12 DEF IInv, PhaseInv, Idle, Work, Advance
  <2>17. SoleInv'
    BY <1>12, <2>1, <2>2 DEF IInv, SoleInv, Listens, Advance
  <2>18. FreshInv'
    BY <1>12 DEF IInv, FreshInv, Multi, Work, Advance
  <2>19. FreezeInv'
    BY <1>12, <2>1, <2>2 DEF IInv, FreezeInv, Multi, Idle, Work, Advance
  <2>20. ApplyInv'
    BY <1>12, <2>1, <2>2 DEF IInv, ApplyInv, Bound, OnlyLegacy, Idle, Work, Advance
  <2>21. DiskInv'
    BY <1>12, <2>1, <2>2 DEF IInv, DiskInv, Idle, Work, Advance
  <2> QED
    BY <2>3, <2>4, <2>5, <2>6, <2>7, <2>8, <2>9, <2>10, <2>11, <2>12, <2>13, <2>14, <2>15,
       <2>16,
       <2>17, <2>18, <2>19, <2>20, <2>21 DEF IInv
<1>13. ASSUME NEW t \in Tokens, Handshake(t)
      PROVE  IInv'
  <2>1. (\A c \in Conversations : Servers(c)' = Servers(c)) /\ Legacy' = Legacy
    BY <1>13, ServedSame DEF Handshake
  <2>2. \A c \in Conversations : Senders(c)' = Senders(c)
    BY <1>13, SentSame DEF Handshake
  <2>3. /\ MetaTyped' /\ PlanTyped' /\ MapsTyped' /\ StoreTyped' /\ StartupTyped'
        /\ WorkerTyped' /\ LogsTyped' /\ SpentTyped'
    BY <1>13 DEF IInv, MetaTyped, Phases, MaybeRobot, PlanTyped, MapsTyped, Maps, Owners,
       StoreTyped, StartupTyped, WorkerTyped, Jobs, LogsTyped, SpentTyped, Handshake
  <2>4. PhaseInv' /\ FreshInv' /\ FreezeInv' /\ DiskInv'
    BY <1>13 DEF IInv, PhaseInv, Multi, FreshInv, Unowned, FreezeInv, DiskInv, Handshake
  <2>5. StoreInv'
    BY <1>13, <2>1, <2>2 DEF IInv, StoreInv, Handshake
  <2>6. SingleInv'
    BY <1>13, <2>1, <2>2 DEF IInv, SingleInv, OnlyLegacy, Handshake
  <2>7. PendingInv'
    BY <1>13, <2>1, <2>2 DEF IInv, PendingInv, PlanTyped, PlanUsable, OnlyLegacy, Handshake
  <2>8. ApplyInv'
    BY <1>13, <2>1, <2>2 DEF IInv, ApplyInv, Bound, OnlyLegacy, Handshake
  <2>9. MigratedInv'
    BY <1>13, <2>1, <2>2 DEF IInv, MigratedInv, Handshake
  <2>10. OwnerInv'
    BY <1>13, <2>1, <2>2 DEF IInv, OwnerInv, Names, Handshake
  <2>11. KnownInv'
    BY <1>13, <2>1, <2>2 DEF IInv, KnownInv, Waits, Handshake
  <2>12. SentInv'
    BY <1>13, <2>1, <2>2 DEF IInv, SentInv, Handshake
  <2>13. LifeTyped'
    BY <1>13, <2>1, <2>2 DEF IInv, LifeTyped, Handshake
  <2>14. RuntimesTyped'
    BY <1>13, <2>1, <2>2 DEF IInv, RuntimesTyped, MaybeRobot, Handshake
  <2>15. WorkerInv'
    BY <1>13, <2>1, <2>2 DEF IInv, WorkerInv, Begins, Proceeds, Idle, Handshake
  <2>16. RuntimeInv'
    BY <1>13, <2>1, <2>2 DEF IInv, RuntimeInv, Configured, Handshake
  <2>17. ClaimInv'
    BY <1>13, <2>1, <2>2 DEF IInv, ClaimInv, Handshake
  <2>18. SoleInv'
    BY <1>13, <2>1, <2>2 DEF IInv, SoleInv, Listens, Handshake
  <2> QED
    BY <2>3, <2>4, <2>5, <2>6, <2>7, <2>8, <2>9, <2>10, <2>11, <2>12, <2>13, <2>14, <2>15,
       <2>16,
       <2>17, <2>18 DEF IInv
<1>14. ASSUME NEW t \in Tokens, Drop(t)
      PROVE  IInv'
  <2>1. (\A c \in Conversations : Servers(c)' = Servers(c)) /\ Legacy' = Legacy
    BY <1>14, ServedSame DEF Drop
  <2>2. \A c \in Conversations : Senders(c)' = Senders(c)
    BY <1>14, SentSame DEF Drop
  <2>3. /\ MetaTyped' /\ PlanTyped' /\ MapsTyped' /\ StoreTyped' /\ LifeTyped'
        /\ StartupTyped' /\ WorkerTyped' /\ LogsTyped' /\ SpentTyped'
    BY <1>14 DEF IInv, MetaTyped, Phases, MaybeRobot, PlanTyped, MapsTyped, Maps, Owners,
       StoreTyped, LifeTyped, StartupTyped, WorkerTyped, Jobs, LogsTyped, SpentTyped, Drop
  <2>4. PhaseInv' /\ FreshInv' /\ FreezeInv' /\ DiskInv'
    BY <1>14 DEF IInv, PhaseInv, Multi, FreshInv, Unowned, FreezeInv, DiskInv, Drop
  <2>5. StoreInv'
    BY <1>14, <2>1, <2>2 DEF IInv, StoreInv, Drop
  <2>6. SingleInv'
    BY <1>14, <2>1, <2>2 DEF IInv, SingleInv, OnlyLegacy, Drop
  <2>7. PendingInv'
    BY <1>14, <2>1, <2>2 DEF IInv, PendingInv, PlanTyped, PlanUsable, OnlyLegacy, Drop
  <2>8. ApplyInv'
    BY <1>14, <2>1, <2>2 DEF IInv, ApplyInv, Bound, OnlyLegacy, Drop
  <2>9. MigratedInv'
    BY <1>14, <2>1, <2>2 DEF IInv, MigratedInv, Drop
  <2>10. OwnerInv'
    BY <1>14, <2>1, <2>2 DEF IInv, OwnerInv, Names, Drop
  <2>11. KnownInv'
    BY <1>14, <2>1, <2>2 DEF IInv, KnownInv, Waits, Drop
  <2>12. SentInv'
    BY <1>14, <2>1, <2>2 DEF IInv, SentInv, Drop
  <2>13. RuntimesTyped'
    BY <1>14, <2>1, <2>2 DEF IInv, RuntimesTyped, MaybeRobot, Drop
  <2>14. WorkerInv'
    BY <1>14, <2>1, <2>2 DEF IInv, WorkerInv, Begins, Proceeds, Idle, Drop
  <2>15. RuntimeInv'
    BY <1>14, <2>1, <2>2 DEF IInv, RuntimeInv, Configured, Drop
  <2>16. ClaimInv'
    BY <1>14, <2>1, <2>2 DEF IInv, ClaimInv, Drop
  <2>17. SoleInv'
    BY <1>14, <2>1, <2>2 DEF IInv, SoleInv, Listens, Drop
  <2> QED
    BY <2>3, <2>4, <2>5, <2>6, <2>7, <2>8, <2>9, <2>10, <2>11, <2>12, <2>13, <2>14, <2>15,
       <2>16,
       <2>17 DEF IInv
<1>15. CASE RecordSingle
  <2>1. (\A c \in Conversations : Servers(c)' = Servers(c)) /\ Legacy' = Legacy
    BY <1>15, ServedSame DEF RecordSingle
  <2>2. \A c \in Conversations : Senders(c)' = Senders(c)
    BY <1>15, SentSame DEF RecordSingle
  <2>3. /\ PlanTyped' /\ MapsTyped' /\ StoreTyped' /\ StartupTyped' /\ LogsTyped'
        /\ SpentTyped'
    BY <1>15 DEF IInv, PlanTyped, MapsTyped, Maps, Owners, StoreTyped, StartupTyped, Phases,
       LogsTyped, SpentTyped, RecordSingle
  <2>4. StoreInv'
    BY <1>15, <2>1, <2>2, ServersAre DEF IInv, StoreInv, RecordSingle, Registered, Raised
  <2>5. OwnerInv'
    BY <1>15, <2>1, <2>2, ServersAre DEF IInv, OwnerInv, Names, RecordSingle, Registered, Raised
  <2>6. SentInv'
    BY <1>15, <2>1, <2>2, ServersAre DEF IInv, SentInv, RecordSingle, Registered, Raised
  <2>7. MetaTyped'
    BY <1>15 DEF IInv, MetaTyped, Metadata, Phases, MaybeRobot, WorkerTyped, Idle, Jobs, Steps,
       StartupTyped, RuntimesTyped, PlanTyped, MapsTyped, Maps, Owners, StoreTyped, LifeTyped,
       LogsTyped, Log, SpentTyped, Budgets, WorkerInv, Begins, Proceeds, RuntimeInv, Configured,
       RecordSingle
  <2>8. LifeTyped'
    BY <1>15, <2>1, <2>2, ServersAre DEF IInv, LifeTyped, RecordSingle, Registered, Raised
  <2>9. RuntimesTyped'
    BY <1>15, <2>1, <2>2, ServersAre DEF IInv, RuntimesTyped, MaybeRobot, RecordSingle,
       Registered, Raised
  <2>10. WorkerTyped'
    BY <1>15 DEF IInv, WorkerTyped, Idle, Jobs, Steps, RecordSingle, Registered, Raised
  <2>11. WorkerInv'
    BY <1>15 DEF IInv, WorkerInv, Proceeds, Idle, RecordSingle, Registered, Raised
  <2>12. RuntimeInv'
    BY <1>15 DEF IInv, RuntimeInv, Configured, RuntimesTyped, MaybeRobot, WorkerInv, Begins,
       Proceeds, RecordSingle, Registered, Raised
  <2>13. ClaimInv'
    BY <1>15 DEF IInv, ClaimInv, RuntimesTyped, RecordSingle, Registered, Raised
  <2>14. PhaseInv'
    BY <1>15, <2>1, <2>2, ServersAre DEF IInv, PhaseInv, Metadata, Idle, RecordSingle,
       Registered, Raised
  <2>15. SoleInv'
    BY <1>15 DEF IInv, SoleInv, Listens, Metadata, PhaseInv, Idle, RuntimeInv, Configured,
       RuntimesTyped, RecordSingle, Registered, Raised
  <2>16. FreshInv'
    BY <1>15 DEF IInv, FreshInv, Multi, Unowned, Metadata, PhaseInv, Idle, RecordSingle,
       Registered, Raised
  <2>17. SingleInv'
    BY <1>15, <2>1, ServersAre DEF IInv, SingleInv, OnlyLegacy, Metadata, PhaseInv, Idle, Multi,
       WorkerInv, Begins, Proceeds, MetaTyped, Phases, MaybeRobot, PlanTyped, MapsTyped, Maps,
       Owners, StoreTyped, LifeTyped, StartupTyped, RuntimesTyped, WorkerTyped, Jobs, Steps,
       LogsTyped, Log, SpentTyped, Budgets, RuntimeInv, Configured, ClaimInv, SoleInv, Listens,
       StoreInv, FreshInv, Unowned, FreezeInv, PendingInv, PlanUsable, ApplyInv, Bound,
       MigratedInv, DiskInv, OwnerInv, Names, KnownInv, Waits, SentInv, RecordSingle
  <2>18. FreezeInv'
    BY <1>15 DEF IInv, FreezeInv, Idle, RecordSingle, Registered, Raised
  <2>19. PendingInv'
    BY <1>15 DEF IInv, PendingInv, PlanTyped, PlanUsable, OnlyLegacy, Metadata, PhaseInv, Idle,
       Multi, WorkerInv, Begins, Proceeds, MetaTyped, Phases, MaybeRobot, MapsTyped, Maps,
       Owners, StoreTyped, LifeTyped, StartupTyped, RuntimesTyped, WorkerTyped, Jobs, Steps,
       LogsTyped, RecordSingle
  <2>20. ApplyInv'
    BY <1>15 DEF IInv, ApplyInv, Idle, RecordSingle, Registered, Raised
  <2>21. MigratedInv'
    BY <1>15, <2>1, <2>2, ServersAre DEF IInv, MigratedInv, Metadata, RecordSingle, Registered,
       Raised
  <2>22. DiskInv'
    BY <1>15, <2>1, <2>2, ServersAre DEF IInv, DiskInv, Idle, RecordSingle, Registered, Raised
  <2>23. KnownInv'
    BY <1>15, <2>1, <2>2, ServersAre DEF IInv, KnownInv, Waits, Metadata, RecordSingle,
       Registered, Raised
  <2> QED
    BY <2>3, <2>4, <2>5, <2>6, <2>7, <2>8, <2>9, <2>10, <2>11, <2>12, <2>13, <2>14, <2>15,
       <2>16,
       <2>17, <2>18, <2>19, <2>20, <2>21, <2>22, <2>23 DEF IInv
<1>16. CASE BindLegacy
  <2>1. (\A c \in Conversations : Servers(c)' = Servers(c)) /\ Legacy' = Legacy
    BY <1>16, ServedSame DEF BindLegacy
  <2>2. \A c \in Conversations : Senders(c)' = Senders(c)
    BY <1>16, SentSame DEF BindLegacy
  <2>3. /\ life = "up" /\ worker.job \in {"protect", "apply"} /\ worker.pc = "bind"
        /\ startup.legacy \in Robots /\ startup.legacy = meta.legacy
        /\ worker.job = "protect" => startup.sole /\ meta.phase = "single"
        /\ worker.job = "apply" => /\ ~startup.sole /\ meta.phase = "pending"
                                   /\ startup.phase = "pending" /\ startup.plan = planFile.plan
    BY <1>16 DEF IInv, WorkerInv, Begins, PhaseInv, LifeTyped, StartupTyped, MaybeRobot,
       BindLegacy, PlanRobot
  <2>4. PICK plan \in SUBSET Conversations :
          /\ WorkPlan(plan) /\ Fits(plan) /\ mem' = Binds(plan)
          /\ worker' = [worker EXCEPT !.pc = "flush", !.plan = plan]
    BY <1>16 DEF BindLegacy
  <2>5. /\ worker.job = "apply" => plan = startup.plan /\ spent' = spent
        /\ worker.job = "protect" => plan \subseteq store
        /\ worker.job = "protect" /\ MaxListFailures = 0 => plan = store
        /\ spent' \in [Budgets -> Nat]
    BY <2>3, <2>4 DEF WorkPlan, Enumerated, Spends, Budgets, IInv, SpentTyped
  <2>6. IsFiniteSet(plan)
    BY <2>3, <2>5, FS_Subset DEF IInv, StoreTyped, StartupTyped
  <2>7. /\ mem' \in Maps
        /\ \A c \in Conversations : mem'[c] = IF c \in plan THEN meta.legacy ELSE mem[c]
        /\ \A c \in plan : mem[c] \in {Nobody, meta.legacy}
    BY <2>3, <2>4 DEF IInv, MapsTyped, Maps, Owners, Binds, Fits, PlanRobot
  <2>8. \A c \in plan : OnlyLegacy(disk, c) /\ Servers(c) \subseteq {meta.legacy}
    BY <2>3, <2>5 DEF IInv, SingleInv, PendingInv
  <2>9. MaxListFailures = 0 => Legacy \subseteq plan
    BY <2>3, <2>5, LegacyServed DEF IInv, StoreInv, PendingInv
  <2>10. /\ worker' = [worker EXCEPT !.pc = "flush", !.plan = plan]
         /\ UNCHANGED <<meta, planFile, disk, snapshot, store, bot, life, config, startup, rt,
                        byRobot, tried, served, sent, lost>>
    BY <1>16, <2>4 DEF BindLegacy
  <2>11. /\ MetaTyped' /\ PlanTyped' /\ StoreTyped' /\ LifeTyped' /\ StartupTyped'
         /\ RuntimesTyped' /\ LogsTyped'
    BY <2>10 DEF IInv, MetaTyped, Phases, MaybeRobot, PlanTyped, StoreTyped, LifeTyped,
       StartupTyped, RuntimesTyped, LogsTyped
  <2>12. RuntimeInv' /\ ClaimInv' /\ SoleInv'
    BY <2>10 DEF IInv, RuntimeInv, Configured, ClaimInv, SoleInv
  <2>13. StoreInv'
    BY <2>1, <2>10 DEF IInv, StoreInv
  <2>14. SentInv'
    BY <2>1, <2>2, <2>10 DEF IInv, SentInv
  <2>15. MapsTyped'
    BY <2>7, <2>10 DEF IInv, MapsTyped
  <2>16. WorkerTyped'
    BY <2>6, <2>10 DEF IInv, WorkerTyped, Steps
  <2>17. SpentTyped'
    BY <2>5 DEF SpentTyped
  <2>18. WorkerInv'
    BY <2>3, <2>10 DEF IInv, WorkerInv, Begins, Proceeds
  <2>19. PhaseInv'
    BY <2>3, <2>10 DEF IInv, PhaseInv
  <2>20. FreshInv'
    BY <2>3, <2>10 DEF IInv, FreshInv
  <2>21. SingleInv'
    BY <2>1, <2>7, <2>10 DEF IInv, SingleInv, OnlyLegacy
  <2>22. FreezeInv'
    BY <2>10 DEF FreezeInv
  <2>23. PendingInv'
    BY <1>16, <2>1, <2>7, <2>10 DEF IInv, PendingInv, PlanTyped, PlanUsable, OnlyLegacy
  <2>24. ApplyInv'
    BY <1>16, <2>1, <2>3, <2>5, <2>7, <2>9, <2>10 DEF IInv, ApplyInv, Bound, OnlyLegacy
  <2>25. MigratedInv'
    BY <2>3, <2>10 DEF IInv, MigratedInv
  <2>26. DiskInv'
    BY <2>7, <2>10 DEF IInv, DiskInv
  <2>27. OwnerInv'
    BY <2>1, <2>7, <2>8, <2>10 DEF IInv, OwnerInv, Names
  <2>28. KnownInv'
    BY <2>1, <2>7, <2>10 DEF IInv, KnownInv, Waits
  <2> QED
    BY <2>11, <2>12, <2>13, <2>14, <2>15, <2>16, <2>17, <2>18, <2>19, <2>20, <2>21, <2>22,
       <2>23, <2>24,
       <2>25, <2>26, <2>27, <2>28 DEF IInv
<1>17. CASE FlushLegacy
  <2>1. (\A c \in Conversations : Servers(c)' = Servers(c)) /\ Legacy' = Legacy
    BY <1>17, ServedSame DEF FlushLegacy
  <2>2. \A c \in Conversations : Senders(c)' = Senders(c)
    BY <1>17, SentSame DEF FlushLegacy
  <2>3. /\ life = "up" /\ worker.job \in {"protect", "apply"} /\ worker.pc = "flush"
        /\ meta.phase \in {"single", "pending"}
    BY <1>17 DEF IInv, WorkerInv, Begins, PhaseInv, LifeTyped, FlushLegacy
  <2>4. /\ MetaTyped' /\ PlanTyped' /\ StoreTyped' /\ LifeTyped' /\ StartupTyped'
        /\ RuntimesTyped' /\ LogsTyped' /\ SpentTyped'
    BY <1>17 DEF IInv, MetaTyped, Phases, MaybeRobot, PlanTyped, StoreTyped, LifeTyped,
       StartupTyped, RuntimesTyped, LogsTyped, SpentTyped, FlushLegacy
  <2>5. RuntimeInv' /\ ClaimInv' /\ SoleInv'
    BY <1>17 DEF IInv, RuntimeInv, Configured, ClaimInv, SoleInv, Listens, FlushLegacy
  <2>6. StoreInv'
    BY <1>17, <2>1, <2>2, <2>3 DEF IInv, StoreInv, FlushLegacy
  <2>7. SentInv'
    BY <1>17, <2>1, <2>2, <2>3 DEF IInv, SentInv, FlushLegacy
  <2>8. MapsTyped'
    BY <1>17, <2>1, <2>2, <2>3 DEF IInv, MapsTyped, Maps, Owners, FlushLegacy
  <2>9. WorkerTyped'
    BY <1>17, <2>1, <2>2, <2>3 DEF IInv, WorkerTyped, Jobs, Steps, FlushLegacy
  <2>10. WorkerInv'
    BY <1>17, <2>1, <2>2, <2>3 DEF IInv, WorkerInv, Begins, Proceeds, Idle, FlushLegacy
  <2>11. PhaseInv'
    BY <1>17, <2>1, <2>2, <2>3 DEF IInv, PhaseInv, FlushLegacy
  <2>12. FreshInv'
    BY <1>17, <2>1, <2>2, <2>3 DEF IInv, FreshInv, Multi, Unowned, FlushLegacy
  <2>13. SingleInv'
    BY <1>17, <2>1, <2>2, <2>3 DEF IInv, SingleInv, OnlyLegacy, FlushLegacy
  <2>14. FreezeInv'
    BY <1>17, <2>1, <2>2, <2>3 DEF IInv, FreezeInv, Multi, FlushLegacy
  <2>15. PendingInv'
    BY <1>17, <2>1, <2>2, <2>3 DEF IInv, PendingInv, PlanTyped, PlanUsable, OnlyLegacy,
       FlushLegacy
  <2>16. ApplyInv'
    BY <1>17, <2>1, <2>2, <2>3 DEF IInv, ApplyInv, Bound, OnlyLegacy, FlushLegacy
  <2>17. MigratedInv'
    BY <1>17, <2>1, <2>2, <2>3 DEF IInv, MigratedInv, FlushLegacy
  <2>18. DiskInv'
    BY <1>17, <2>1, <2>2, <2>3 DEF IInv, DiskInv, FlushLegacy
  <2>19. OwnerInv'
    BY <1>17, <2>1, <2>2, <2>3 DEF IInv, OwnerInv, Names, FlushLegacy
  <2>20. KnownInv'
    BY <1>17, <2>1, <2>2, <2>3 DEF IInv, KnownInv, Waits, FlushLegacy
  <2> QED
    BY <2>4, <2>5, <2>6, <2>7, <2>8, <2>9, <2>10, <2>11, <2>12, <2>13, <2>14, <2>15, <2>16,
       <2>17,
       <2>18, <2>19, <2>20 DEF IInv
<1>18. CASE SaveMigrated
  <2>1. (\A c \in Conversations : Servers(c)' = Servers(c)) /\ Legacy' = Legacy
    BY <1>18, ServedSame DEF SaveMigrated
  <2>2. \A c \in Conversations : Senders(c)' = Senders(c)
    BY <1>18, SentSame DEF SaveMigrated
  <2>3. /\ life = "up" /\ worker.job \in {"protect", "apply"} /\ worker.pc = "savemigrated"
        /\ worker.token \in Tokens /\ snapshot
        /\ startup.legacy \in Robots /\ startup.legacy = meta.legacy
        /\ worker.job = "protect" => startup.sole /\ meta.phase = "single"
        /\ worker.job = "apply" => /\ ~startup.sole /\ meta.phase = "pending"
                                   /\ startup.phase = "pending" /\ startup.plan = planFile.plan
    BY <1>18 DEF IInv, WorkerInv, Begins, Proceeds, PhaseInv, LifeTyped, StartupTyped,
       MaybeRobot, ApplyInv, SaveMigrated
  <2>4. Cardinality(worker.plan) \in Nat
    BY FS_CardinalityType DEF IInv, WorkerTyped
  <2>5. MaxListFailures = 0 =>
          /\ \A c \in Legacy : mem[c] # Nobody /\ disk[c] # Nobody
          /\ \A c \in Conversations : Servers(c) # {} /\ Waits(c) => mem[c] # Nobody
    BY <2>3 DEF IInv, ApplyInv, Bound, StoreInv, Waits
  <2>6. /\ meta' = [phase |-> "migrated", legacy |-> startup.legacy,
                     size |-> Cardinality(worker.plan)]
        /\ UNCHANGED <<planFile, disk, snapshot, mem, store, bot, life, config, byRobot, served,
                       sent, lost, spent>>
        /\ \/ /\ worker.job = "apply" /\ worker' = [worker EXCEPT !.pc = "clearplan"]
              /\ UNCHANGED <<rt, startup, tried>>
           \/ /\ worker.job = "protect" /\ worker' = Idle /\ tried' = tried
              /\ rt' = [rt EXCEPT ![worker.token].pc = "ready"]
              /\ startup' = [phase |-> "migrated", legacy |-> startup.legacy, plan |-> {},
                             sole |-> FALSE]
    BY <1>18, <2>3 DEF SaveMigrated, Metadata, Startup, Registered, PlanRobot
  <2>7. PlanTyped' /\ MapsTyped' /\ StoreTyped' /\ LifeTyped' /\ LogsTyped' /\ SpentTyped'
    BY <2>6 DEF IInv, PlanTyped, MapsTyped, Maps, Owners, StoreTyped, LifeTyped, LogsTyped,
       SpentTyped
  <2>8. StoreInv'
    BY <1>18, <2>1, <2>2, <2>3, <2>4, <2>5, <2>6 DEF IInv, StoreInv
  <2>9. OwnerInv'
    BY <1>18, <2>1, <2>2, <2>3, <2>4, <2>5, <2>6 DEF IInv, OwnerInv, Names
  <2>10. SentInv'
    BY <1>18, <2>1, <2>2, <2>3, <2>4, <2>5, <2>6 DEF IInv, SentInv
  <2>11. MetaTyped'
    BY <1>18, <2>1, <2>2, <2>3, <2>4, <2>5, <2>6 DEF IInv, MetaTyped, Phases, MaybeRobot
  <2>12. StartupTyped'
    <3>1. CASE startup' = startup
      BY <3>1 DEF IInv, StartupTyped
    <3>2. CASE startup' = [phase |-> "migrated", legacy |-> startup.legacy, plan |-> {},
                           sole |-> FALSE]
      <4>1. startup.legacy \in MaybeRobot
        BY DEF IInv, StartupTyped
      <4>2. startup'.plan = {} /\ startup' \in [phase : Phases, legacy : MaybeRobot,
                                              plan : SUBSET Conversations, sole : BOOLEAN]
        BY <3>2, <4>1 DEF Phases
      <4> QED
        BY <4>2 DEF StartupTyped
    <3> QED
      BY <2>6, <3>1, <3>2
  <2>13. RuntimesTyped'
    BY <1>18, <2>1, <2>2, <2>3, <2>4, <2>5, <2>6 DEF IInv, RuntimesTyped, MaybeRobot
  <2>14. WorkerTyped'
    BY <2>6 DEF IInv, WorkerTyped, Idle, Jobs, Steps
  <2>15. WorkerInv'
    BY <2>6 DEF IInv, WorkerInv, Begins, Proceeds, Idle, WorkerTyped, LifeTyped
  <2>16. RuntimeInv'
    BY <2>3, <2>6 DEF IInv, RuntimeInv, Configured, RuntimesTyped, WorkerInv
  <2>17. ClaimInv'
    BY <2>6 DEF IInv, ClaimInv, RuntimesTyped
  <2>18. PhaseInv'
    BY <2>6 DEF IInv, PhaseInv, Idle, WorkerInv, LifeTyped, WorkerTyped
  <2>19. SoleInv'
    BY <1>18, <2>1, <2>2, <2>3, <2>4, <2>5, <2>6 DEF IInv, SoleInv, Listens
  <2>20. FreshInv'
    BY <2>6 DEF IInv, FreshInv, Multi, Unowned, PhaseInv, Idle, WorkerInv, Begins, Proceeds,
       MetaTyped, Phases, MaybeRobot, PlanTyped, WorkerTyped
  <2>21. SingleInv'
    BY <1>18, <2>1, <2>2, <2>3, <2>4, <2>5, <2>6 DEF IInv, SingleInv, OnlyLegacy
  <2>22. FreezeInv'
    BY <2>6 DEF IInv, FreezeInv, Idle, WorkerTyped
  <2>23. PendingInv'
    BY <2>6 DEF PendingInv
  <2>24. ApplyInv'
    BY <2>6 DEF IInv, ApplyInv, Bound, OnlyLegacy, Idle, PhaseInv, Multi, WorkerInv, Begins,
       Proceeds, MetaTyped, Phases, MaybeRobot, PlanTyped, MapsTyped, Maps, Owners, StoreTyped,
       LifeTyped, StartupTyped, RuntimesTyped, WorkerTyped, Jobs, Steps, LogsTyped, Log,
       PendingInv
  <2>25. MigratedInv'
    BY <1>18, <2>1, <2>2, <2>3, <2>4, <2>5, <2>6 DEF IInv, MigratedInv
  <2>26. DiskInv'
    BY <2>6 DEF IInv, DiskInv, Idle, WorkerInv, Begins, Proceeds, MetaTyped, Phases, MaybeRobot,
       PlanTyped, MapsTyped, Maps, Owners, WorkerTyped
  <2>27. KnownInv'
    BY <1>18, <2>1, <2>2, <2>3, <2>4, <2>5, <2>6 DEF IInv, KnownInv, Waits
  <2> QED
    BY <2>7, <2>8, <2>9, <2>10, <2>11, <2>12, <2>13, <2>14, <2>15, <2>16, <2>17, <2>18,
       <2>19, <2>20,
       <2>21, <2>22, <2>23, <2>24, <2>25, <2>26, <2>27 DEF IInv
<1>19. CASE ClearPlan
  <2>1. (\A c \in Conversations : Servers(c)' = Servers(c)) /\ Legacy' = Legacy
    BY <1>19, ServedSame DEF ClearPlan
  <2>2. \A c \in Conversations : Senders(c)' = Senders(c)
    BY <1>19, SentSame DEF ClearPlan
  <2>3. NoPlanFile \in [exists : BOOLEAN, plan : SUBSET Conversations] /\ NoPlanFile.plan = {}
    BY DEF NoPlanFile
  <2>4. /\ life = "up" /\ worker.job = "apply" /\ worker.pc = "clearplan"
        /\ worker.token \in Tokens /\ meta.phase = "migrated"
        /\ ~startup.sole /\ startup.legacy = meta.legacy
    BY <1>19 DEF IInv, WorkerInv, Begins, Proceeds, PhaseInv, LifeTyped, ClearPlan
  <2>5. planFile' = planFile \/ planFile' = NoPlanFile
    BY <1>19 DEF ClearPlan
  <2>6. MetaTyped' /\ MapsTyped' /\ StoreTyped' /\ LifeTyped' /\ LogsTyped'
    BY <1>19 DEF IInv, MetaTyped, Phases, MaybeRobot, MapsTyped, Maps, Owners, StoreTyped,
       LifeTyped, LogsTyped, ClearPlan, Registered
  <2>7. StoreInv'
    BY <1>19, <2>1, <2>2, <2>4, <2>5 DEF IInv, StoreInv, ClearPlan, Registered, PlanRobot
  <2>8. SingleInv'
    BY <1>19, <2>1, <2>2, <2>4, <2>5 DEF IInv, SingleInv, OnlyLegacy, ClearPlan, Registered,
       PlanRobot
  <2>9. MigratedInv'
    BY <1>19, <2>1, <2>2, <2>4, <2>5 DEF IInv, MigratedInv, ClearPlan, Registered, PlanRobot
  <2>10. OwnerInv'
    BY <1>19, <2>1, <2>2, <2>4, <2>5 DEF IInv, OwnerInv, Names, ClearPlan, Registered, PlanRobot
  <2>11. SentInv'
    BY <1>19, <2>1, <2>2, <2>4, <2>5 DEF IInv, SentInv, ClearPlan, Registered, PlanRobot
  <2>12. PlanTyped'
    BY <2>5, <2>3 DEF IInv, PlanTyped
  <2>13. StartupTyped'
    BY <1>19 DEF IInv, StartupTyped, Startup, Phases, ClearPlan, PlanRobot
  <2>14. RuntimesTyped'
    BY <1>19, <2>1, <2>2, <2>4, <2>5 DEF IInv, RuntimesTyped, MaybeRobot, ClearPlan, Registered,
       PlanRobot
  <2>15. WorkerTyped'
    BY <1>19 DEF IInv, WorkerTyped, Idle, Jobs, Steps, ClearPlan, Registered
  <2>16. SpentTyped'
    BY <1>19 DEF IInv, SpentTyped, Spends, ClearPlan
  <2>17. WorkerInv'
    BY <1>19 DEF IInv, WorkerInv, Begins, Proceeds, Idle, ClearPlan, Registered
  <2>18. RuntimeInv'
    BY <1>19 DEF IInv, RuntimeInv, Configured, RuntimesTyped, MaybeRobot, WorkerInv, Begins,
       Proceeds, ClearPlan, Registered
  <2>19. ClaimInv'
    BY <1>19, <2>1, <2>2, <2>4, <2>5 DEF IInv, ClaimInv, ClearPlan, Registered, PlanRobot
  <2>20. PhaseInv'
    BY <1>19 DEF IInv, PhaseInv, Startup, Idle, ClearPlan, Registered, PlanRobot
  <2>21. SoleInv'
    BY <1>19 DEF IInv, SoleInv, Startup, ClearPlan
  <2>22. FreshInv'
    BY <1>19 DEF IInv, FreshInv, Multi, Unowned, PhaseInv, Startup, Idle, ClearPlan, Registered
  <2>23. FreezeInv'
    BY <1>19 DEF IInv, FreezeInv, Idle, ClearPlan, Registered
  <2>24. PendingInv'
    BY <1>19, <2>4 DEF IInv, PendingInv, PlanTyped, PlanUsable, OnlyLegacy, ClearPlan
  <2>25. ApplyInv'
    BY <1>19 DEF IInv, ApplyInv, Bound, Idle, ClearPlan, Registered
  <2>26. DiskInv'
    BY <1>19, <2>1, <2>2, <2>4, <2>5 DEF IInv, DiskInv, Idle, ClearPlan, Registered, PlanRobot
  <2>27. KnownInv'
    BY <1>19, <2>1, <2>2, <2>4, <2>5 DEF IInv, KnownInv, Waits, ClearPlan, Registered, PlanRobot
  <2> QED
    BY <2>6, <2>7, <2>8, <2>9, <2>10, <2>11, <2>12, <2>13, <2>14, <2>15, <2>16, <2>17, <2>18,
       <2>19,
       <2>20, <2>21, <2>22, <2>23, <2>24, <2>25, <2>26, <2>27 DEF IInv
<1>20. CASE LegacyFails
  <2>1. (\A c \in Conversations : Servers(c)' = Servers(c)) /\ Legacy' = Legacy
    BY <1>20, ServedSame DEF LegacyFails
  <2>2. \A c \in Conversations : Senders(c)' = Senders(c)
    BY <1>20, SentSame DEF LegacyFails
  <2>3. /\ life = "up" /\ worker.token \in Tokens /\ rt[worker.token].pc = "registering"
        /\ worker.pc \in {"record", "bind", "flush", "savemigrated"}
        /\ worker.job = "apply" => ~startup.sole
        /\ startup.phase = "pending" => meta.phase = "pending"
    BY <1>20 DEF IInv, WorkerInv, Begins, Proceeds, PhaseInv, LifeTyped, LegacyFails
  <2>4. spent' \in [Budgets -> Nat]
    BY <1>20 DEF LegacyFails, Spends, Budgets, IInv, SpentTyped
  <2>5. (IF worker.job = "apply" THEN Registered ELSE Raised)
        /\ UNCHANGED <<documents, mem, store, bot, life, config, startup, byRobot, history>>
    BY <1>20 DEF LegacyFails
  <2>6. /\ worker' = Idle /\ tried' \in {tried, TRUE}
        /\ rt' = [rt EXCEPT ![worker.token].pc = IF worker.job = "apply" THEN "ready" ELSE "off"]
        /\ spent' \in [Budgets -> Nat]
        /\ UNCHANGED <<meta, planFile, disk, snapshot, mem, store, bot, life, config, startup,
                       byRobot, served, sent, lost>>
    BY <2>4, <2>5 DEF Registered, Raised
  <2>7. /\ MetaTyped' /\ PlanTyped' /\ MapsTyped' /\ StoreTyped' /\ StartupTyped'
        /\ LogsTyped'
    BY <2>6 DEF IInv, MetaTyped, Phases, MaybeRobot, PlanTyped, MapsTyped, StoreTyped,
       StartupTyped, LogsTyped
  <2>8. StoreInv'
    BY <1>20, <2>1, <2>2, <2>3, <2>6 DEF IInv, StoreInv
  <2>9. SingleInv'
    BY <1>20, <2>1, <2>2, <2>3, <2>6 DEF IInv, SingleInv, OnlyLegacy
  <2>10. PendingInv'
    BY <1>20, <2>1, <2>2, <2>3, <2>6 DEF IInv, PendingInv, PlanTyped, PlanUsable, OnlyLegacy
  <2>11. MigratedInv'
    BY <1>20, <2>1, <2>2, <2>3, <2>6 DEF IInv, MigratedInv
  <2>12. OwnerInv'
    BY <1>20, <2>1, <2>2, <2>3, <2>6 DEF IInv, OwnerInv, Names
  <2>13. KnownInv'
    BY <1>20, <2>1, <2>2, <2>3, <2>6 DEF IInv, KnownInv, Waits
  <2>14. SentInv'
    BY <1>20, <2>1, <2>2, <2>3, <2>6 DEF IInv, SentInv
  <2>15. LifeTyped'
    BY <1>20, <2>1, <2>2, <2>3, <2>6 DEF IInv, LifeTyped
  <2>16. RuntimesTyped'
    BY <1>20, <2>1, <2>2, <2>3, <2>6 DEF IInv, RuntimesTyped, MaybeRobot
  <2>17. WorkerTyped'
    BY <1>20, <2>1, <2>2, <2>3, <2>6 DEF IInv, WorkerTyped, Idle, Jobs, Steps
  <2>18. SpentTyped'
    BY <1>20, <2>1, <2>2, <2>3, <2>6 DEF IInv, SpentTyped, Budgets
  <2>19. WorkerInv'
    BY <1>20, <2>1, <2>2, <2>3, <2>6 DEF IInv, WorkerInv, Begins, Proceeds, Idle
  <2>20. RuntimeInv'
    BY <1>20, <2>1, <2>2, <2>3, <2>6 DEF IInv, RuntimeInv, Configured
  <2>21. ClaimInv'
    BY <1>20, <2>1, <2>2, <2>3, <2>6 DEF IInv, ClaimInv
  <2>22. PhaseInv'
    BY <1>20, <2>1, <2>2, <2>3, <2>6 DEF IInv, PhaseInv, Idle
  <2>23. SoleInv'
    BY <1>20, <2>1, <2>2, <2>3, <2>6 DEF IInv, SoleInv, Listens
  <2>24. FreshInv'
    BY <2>6 DEF IInv, FreshInv, Idle
  <2>25. FreezeInv'
    BY <1>20, <2>1, <2>2, <2>3, <2>6 DEF IInv, FreezeInv, Multi, Idle
  <2>26. ApplyInv'
    BY <1>20, <2>1, <2>2, <2>3, <2>6 DEF IInv, ApplyInv, Bound, OnlyLegacy, Idle
  <2>27. DiskInv'
    BY <1>20, <2>1, <2>2, <2>3, <2>6 DEF IInv, DiskInv, Idle
  <2> QED
    BY <2>7, <2>8, <2>9, <2>10, <2>11, <2>12, <2>13, <2>14, <2>15, <2>16, <2>17, <2>18,
       <2>19, <2>20,
       <2>21, <2>22, <2>23, <2>24, <2>25, <2>26, <2>27 DEF IInv
<1>21. ASSUME NEW t \in Tokens, NEW c \in Conversations, Inbound(t, c)
      PROVE  IInv'
  <2>1. PICK r \in Robots : r = rt[t].robot
    BY <1>21 DEF Inbound, IInv, RuntimesTyped, RuntimeInv, MaybeRobot
  <2>2. life = "up" /\ startup.sole \in BOOLEAN /\ LogsTyped
    BY <1>21 DEF Inbound, IInv, RuntimeInv, StartupTyped
  <2>3. UNCHANGED <<meta, planFile, disk, snapshot, bot, life, config, startup, rt, byRobot,
                    tried, worker, sent, lost, spent>>
    BY <1>21 DEF Inbound
  <2>4. \A d \in Conversations : Senders(d)' = Senders(d)
    BY <2>3, SentSame
  <2>5. ~startup.sole => /\ meta.phase \in {"pending", "migrated"} /\ worker.job # "protect"
                         /\ startup.legacy = meta.legacy
                         /\ startup.phase = "pending" \/ meta.phase = startup.phase
                         /\ startup.phase = "pending" => startup.plan = planFile.plan
    BY <2>2 DEF IInv, PhaseInv
  <2>6. \/ startup.sole /\ Serve(c, r) /\ mem' = mem
        \/ /\ ~startup.sole /\ ~Frozen(r, c) /\ mem[c] \in {Nobody, r} /\ Serve(c, r)
           /\ mem' = [mem EXCEPT ![c] = r]
        \/ /\ ~startup.sole /\ ~Frozen(r, c) /\ mem[c] \notin {Nobody, r}
           /\ served' = served /\ store' = store /\ mem' = [mem EXCEPT ![c] = Contested]
    BY <1>21, <2>1, NamesDiffer DEF Inbound, Bind
  <2>7. /\ served' \in Log /\ mem' \in Maps
        /\ \/ /\ startup.sole /\ mem' = mem /\ store' = store \union {c}
              /\ Legacy' = Legacy \union {c}
              /\ \A d \in Conversations :
                    Servers(d)' = IF d = c THEN Servers(c) \union {r} ELSE Servers(d)
           \/ /\ ~startup.sole /\ ~Frozen(r, c) /\ mem[c] \in {Nobody, r}
              /\ mem'[c] = r /\ \A d \in Conversations \ {c} : mem'[d] = mem[d]
              /\ store' = store \union {c} /\ Legacy' = Legacy
              /\ \A d \in Conversations :
                    Servers(d)' = IF d = c THEN Servers(c) \union {r} ELSE Servers(d)
           \/ /\ ~startup.sole /\ ~Frozen(r, c) /\ mem[c] \notin {Nobody, r}
              /\ mem'[c] = Contested /\ \A d \in Conversations \ {c} : mem'[d] = mem[d]
              /\ store' = store /\ Legacy' = Legacy
              /\ \A d \in Conversations : Servers(d)' = Servers(d)
    <3>1. CASE startup.sole /\ Serve(c, r) /\ mem' = mem
      <4>1. /\ served' \in Log /\ store' = store \union {c} /\ Legacy' = Legacy \union {c}
            /\ \A d \in Conversations :
                  Servers(d)' = IF d = c THEN Servers(c) \union {r} ELSE Servers(d)
        BY <2>2, <3>1, ServeDoes
      <4> QED
        BY <3>1, <4>1 DEF IInv, MapsTyped
    <3>2. CASE /\ ~startup.sole /\ ~Frozen(r, c) /\ mem[c] \in {Nobody, r} /\ Serve(c, r)
               /\ mem' = [mem EXCEPT ![c] = r]
      <4>1. /\ served' \in Log /\ store' = store \union {c} /\ Legacy' = Legacy
            /\ \A d \in Conversations :
                  Servers(d)' = IF d = c THEN Servers(c) \union {r} ELSE Servers(d)
        BY <2>2, <3>2, ServeDoes
      <4>2. mem' \in Maps /\ mem'[c] = r /\ \A d \in Conversations \ {c} : mem'[d] = mem[d]
        BY <3>2 DEF IInv, MapsTyped, Maps, Owners
      <4> QED
        BY <3>2, <4>1, <4>2
    <3>3. CASE /\ ~startup.sole /\ ~Frozen(r, c) /\ mem[c] \notin {Nobody, r}
               /\ served' = served /\ store' = store /\ mem' = [mem EXCEPT ![c] = Contested]
      <4>1. Legacy' = Legacy /\ \A d \in Conversations : Servers(d)' = Servers(d)
        BY <3>3, ServedSame
      <4>2. /\ mem' \in Maps /\ mem'[c] = Contested
            /\ \A d \in Conversations \ {c} : mem'[d] = mem[d]
        BY <3>3 DEF IInv, MapsTyped, Maps, Owners
      <4> QED
        BY <3>3, <4>1, <4>2 DEF IInv, LogsTyped
    <3> QED
      BY <2>6, <3>1, <3>2, <3>3
  <2>8. startup.sole => /\ meta.phase = "single" /\ r = meta.legacy
                        /\ worker.pc \notin Proceeds
    BY <1>21, <2>1, <2>2, NobodyListens DEF IInv, PhaseInv, SoleInv, Listens, Inbound
  <2>9. /\ MetaTyped' /\ PlanTyped' /\ LifeTyped' /\ StartupTyped' /\ RuntimesTyped'
        /\ WorkerTyped' /\ SpentTyped'
    BY <2>3 DEF IInv, MetaTyped, Phases, MaybeRobot, PlanTyped, LifeTyped, StartupTyped,
       RuntimesTyped, WorkerTyped, Jobs, SpentTyped
  <2>10. WorkerInv' /\ RuntimeInv' /\ ClaimInv' /\ PhaseInv' /\ SoleInv'
    BY <2>3 DEF IInv, WorkerInv, Begins, Proceeds, Idle, RuntimeInv, Configured, ClaimInv,
       PhaseInv, SoleInv
  <2>11. MapsTyped'
    BY <2>3, <2>7 DEF IInv, MapsTyped, Maps
  <2>12. StoreTyped'
    <3>1. store' = store \/ store' = store \union {c}
      BY <2>7
    <3>2. IsFiniteSet(store')
      BY <3>1, FS_AddElement DEF IInv, StoreTyped
    <3> QED
      BY <2>3, <3>1, <3>2 DEF IInv, StoreTyped
  <2>13. LogsTyped'
    BY <2>3, <2>7 DEF IInv, LogsTyped
  <2>14. StoreInv'
    BY <1>21, <2>1, <2>2, <2>3, <2>4, <2>5, <2>7, <2>8 DEF IInv, StoreInv, Frozen
  <2>15. FreshInv'
    BY <2>3, <2>5, <2>8 DEF IInv, FreshInv, Multi
  <2>16. SingleInv'
    BY <2>3, <2>5, <2>7, <2>8 DEF IInv, SingleInv, OnlyLegacy
  <2>17. FreezeInv'
    BY <2>2, <2>3 DEF IInv, FreezeInv, Multi, Idle, WorkerInv, Begins, Proceeds
  <2>18. PendingInv'
    BY <2>3, <2>5, <2>7, <2>8 DEF IInv, PendingInv, PlanTyped, PlanUsable, OnlyLegacy, Frozen
  <2>19. ApplyInv'
    <3>1. CASE startup.sole
      BY <2>3, <2>8, <3>1 DEF ApplyInv, Proceeds
    <3>2. CASE ~startup.sole
      <4>1. Legacy' = Legacy
        BY <2>7, <3>2
      <4>2. \A d \in Conversations : mem[d] # Nobody => mem'[d] # Nobody
        BY <2>7, <3>2, NamesDiffer
      <4>3. Bound(mem) => Bound(mem)'
        BY <2>3, <4>1, <4>2 DEF Bound, Legacy, IInv, WorkerTyped
      <4>4. Bound(disk) => Bound(disk)'
        BY <2>3, <4>1 DEF Bound
      <4>5. ASSUME worker.pc = "clearplan", NEW d \in startup.plan
            PROVE  mem'[d] \in {Nobody, meta.legacy}
        <5>1. startup.phase = "pending" /\ startup.legacy = meta.legacy /\ d \in Conversations
          BY <2>2, <2>5, <4>5 DEF IInv, PhaseInv, WorkerInv, StartupTyped
        <5>2. mem[d] \in {Nobody, meta.legacy}
          BY <4>5 DEF IInv, ApplyInv, OnlyLegacy
        <5>3. CASE d # c
          BY <2>7, <3>2, <5>1, <5>2, <5>3
        <5>4. CASE d = c
          <6>1. r = meta.legacy
            BY <2>7, <3>2, <4>5, <5>1, <5>4 DEF Frozen
          <6> QED
            BY <2>7, <3>2, <5>2, <5>4, <6>1
        <5> QED
          BY <5>3, <5>4
      <4> QED
        BY <2>2, <2>3, <2>5, <3>2, <4>3, <4>4, <4>5 DEF IInv, ApplyInv, OnlyLegacy
    <3> QED
      BY <3>1, <3>2
  <2>20. MigratedInv'
    <3>1. ASSUME meta.phase = "migrated", MaxListFailures = 0, NEW d \in Legacy'
          PROVE  disk[d] # Nobody /\ mem'[d] # Nobody
      <4>1. ~startup.sole /\ Legacy' = Legacy /\ d \in Conversations
        BY <2>7, <2>8, <3>1 DEF Legacy
      <4>2. disk[d] # Nobody /\ mem[d] # Nobody
        BY <2>2, <3>1, <4>1 DEF IInv, MigratedInv
      <4> QED
        BY <2>7, <4>1, <4>2, NamesDiffer
    <3>2. meta.phase = "migrated" => snapshot
      BY DEF IInv, MigratedInv
    <3> QED
      BY <2>3, <3>1, <3>2 DEF MigratedInv
  <2>21. DiskInv'
    BY <2>2, <2>3, <2>7 DEF IInv, DiskInv, Idle, WorkerInv, Begins, Proceeds
  <2>22. OwnerInv'
    <3> SUFFICES ASSUME MaxListFailures = 0, NEW d \in Conversations \ lost
                 PROVE  /\ \A q, s \in Servers(d)' : q = s
                        /\ Names(mem, d)' /\ Names(disk, d)'
      BY <2>3 DEF OwnerInv
    <3>1. (\A q, s \in Servers(d) : q = s) /\ Names(mem, d) /\ Names(disk, d)
      BY DEF IInv, OwnerInv
    <3>2. CASE d # c
      <4>1. Servers(d)' = Servers(d) /\ mem'[d] = mem[d]
        BY <2>7, <3>2
      <4> QED
        BY <2>3, <3>1, <4>1 DEF Names
    <3>3. CASE d = c
      <4> Servers(c)' \subseteq Servers(c) \union {r}
        BY <2>7
      <4>1. CASE startup.sole
        <5>1. /\ mem' = mem /\ Servers(c) \subseteq {r}
              /\ mem[c] \in {Nobody, r} /\ disk[c] \in {Nobody, r}
          BY <2>7, <2>8, <4>1 DEF IInv, SingleInv, OnlyLegacy
        <5> QED
          BY <2>3, <3>3, <5>1, NamesDiffer DEF Names
      <4>2. CASE ~startup.sole /\ mem[c] = r
        <5>1. mem'[c] \in {r, Contested} /\ Servers(c) \subseteq {r}
          BY <2>7, <3>1, <3>3, <4>2 DEF Names
        <5>2. disk[c] \in Robots => disk[c] = r
          BY <2>2, <4>2, NamesDiffer DEF IInv, DiskInv
        <5> QED
          BY <2>3, <3>3, <5>1, <5>2, NamesDiffer DEF Names
      <4>3. CASE ~startup.sole /\ mem[c] = Nobody
        <5>1. mem'[c] = r /\ ~Frozen(r, c)
          BY <2>7, <4>3, NamesDiffer
        <5>2. disk[c] = Nobody
          BY <2>2, <4>3, NamesDiffer DEF IInv, DiskInv
        <5>3. Servers(c) # {} => meta.phase = "pending" /\ c \in planFile.plan
          BY <2>2, <2>5, <3>3, <4>3 DEF IInv, KnownInv, Waits
        <5>4. Servers(c) # {} => Servers(c) \subseteq {meta.legacy} /\ r = meta.legacy
          BY <2>5, <4>3, <5>1, <5>3 DEF IInv, PendingInv, Frozen
        <5> QED
          BY <2>3, <3>3, <5>1, <5>2, <5>4, NamesDiffer DEF Names
      <4>4. CASE ~startup.sole /\ mem[c] \notin {Nobody, r}
        <5>1. Servers(c)' = Servers(c) /\ mem'[c] = Contested
          BY <2>7, <4>4
        <5> QED
          BY <2>3, <3>1, <3>3, <5>1, NamesDiffer DEF Names
      <4> QED
        BY <2>2, <4>1, <4>2, <4>3, <4>4
    <3> QED
      BY <3>2, <3>3
  <2>23. KnownInv'
    BY <2>3, <2>7, <2>8 DEF IInv, KnownInv, Waits
  <2>24. SentInv'
    BY <1>21, <2>1, <2>2, <2>3, <2>4, <2>5, <2>7, <2>8 DEF IInv, SentInv, Frozen
  <2> QED
    BY <2>9, <2>10, <2>11, <2>12, <2>13, <2>14, <2>15, <2>16, <2>17, <2>18, <2>19, <2>20,
       <2>21, <2>22,
       <2>23, <2>24 DEF IInv
<1>22. ASSUME NEW x \in MaybeRobot, NEW c \in Conversations, Send(x, c)
      PROVE  IInv'
  <2>1. UNCHANGED <<meta, planFile, disk, snapshot, mem, store, bot, life, config, startup, rt,
                    byRobot, tried, worker, served, lost, spent>>
    BY <1>22 DEF Send
  <2>2. (\A d \in Conversations : Servers(d)' = Servers(d)) /\ Legacy' = Legacy
    BY <2>1, ServedSame
  <2>3. PICK r \in Robots, mode \in Modes :
          /\ Says(c, r, mode)
          /\ mode = "routed" => /\ ~startup.sole /\ Resolves(x, c, r)
                                /\ x = Nobody \/ ~Frozen(x, c)
    <3>1. PICK r \in Robots :
            \/ startup.sole /\ r = rt[Primary].robot /\ Says(c, r, "sole")
            \/ /\ ~startup.sole /\ Resolves(x, c, r) /\ Connected(r)
               /\ Says(c, rt[byRobot[r]].robot,
                       IF x # Nobody /\ Frozen(x, c) THEN "frozen" ELSE "routed")
      BY <1>22 DEF Send
    <3>2. Connected(r) => rt[byRobot[r]].robot = r
      BY DEF Connected, IInv, ClaimInv
    <3> QED
      BY <3>1, <3>2 DEF Modes
  <2>4. sent' = [sent EXCEPT ![c] = sent[c] \union {<<r, mode>>}] /\ sent \in SentLog
    BY <2>3 DEF Says, IInv, LogsTyped
  <2>5. sent' \in SentLog
    BY <2>4 DEF SentLog
  <2>6. \A d \in Conversations :
          Senders(d)' \subseteq IF d = c /\ mode = "routed" THEN Senders(d) \union {r} ELSE Senders(d)
    <3>1. \A d \in Conversations, y \in Robots :
            <<y, "routed">> \in sent'[d] =>
                <<y, "routed">> \in sent[d] \/ (d = c /\ y = r /\ mode = "routed")
      BY <2>4 DEF SentLog
    <3> QED
      BY <3>1 DEF Senders, By
  <2>7. ASSUME MaxListFailures = 0, c \notin lost, mode = "routed"
        PROVE  r \in Servers(c)
    <3>1. Servers(c) # {} /\ life = "up" /\ ~startup.sole
      BY <1>22, <2>3, <2>7 DEF Send, IInv, StoreInv
    <3>2. CASE mem[c] = r
      BY <2>7, <3>1, <3>2 DEF IInv, OwnerInv, Names
    <3>3. CASE mem[c] # r
      <4>1. mem[c] = Nobody /\ (r = startup.legacy \/ (r = x /\ ~Frozen(r, c)))
        BY <2>3, <2>7, <3>3, NamesDiffer DEF Resolves
      <4>2. startup.legacy = meta.legacy /\ meta.phase = "pending" /\ c \in planFile.plan
        BY <2>7, <3>1, <4>1 DEF IInv, KnownInv, Waits, PhaseInv
      <4>3. Servers(c) = {startup.legacy}
        BY <3>1, <4>2 DEF IInv, PendingInv
      <4>4. startup.phase = "pending" /\ startup.plan = planFile.plan
        BY <3>1, <4>2 DEF IInv, PhaseInv
      <4> QED
        BY <4>1, <4>2, <4>3, <4>4 DEF Frozen
    <3> QED
      BY <3>2, <3>3
  <2>8. /\ MetaTyped' /\ PlanTyped' /\ MapsTyped' /\ StoreTyped' /\ LifeTyped'
        /\ StartupTyped' /\ RuntimesTyped' /\ WorkerTyped' /\ SpentTyped'
    BY <2>1 DEF IInv, MetaTyped, Phases, MaybeRobot, PlanTyped, MapsTyped, Maps, Owners,
       StoreTyped, LifeTyped, StartupTyped, RuntimesTyped, WorkerTyped, SpentTyped
  <2>9. /\ WorkerInv' /\ RuntimeInv' /\ ClaimInv' /\ PhaseInv' /\ SoleInv' /\ FreshInv'
        /\ FreezeInv' /\ DiskInv'
    BY <2>1 DEF IInv, WorkerInv, Begins, Proceeds, Idle, RuntimeInv, Configured, ClaimInv,
       PhaseInv, Multi, SoleInv, Listens, FreshInv, FreezeInv, DiskInv
  <2>10. StoreInv'
    BY <2>1, <2>2 DEF IInv, StoreInv
  <2>11. SingleInv'
    BY <2>1, <2>2 DEF IInv, SingleInv, OnlyLegacy
  <2>12. PendingInv'
    BY <2>1, <2>2 DEF IInv, PendingInv, PlanTyped, PlanUsable, OnlyLegacy
  <2>13. ApplyInv'
    BY <2>1, <2>2 DEF IInv, ApplyInv, Bound, OnlyLegacy
  <2>14. MigratedInv'
    BY <2>1, <2>2 DEF IInv, MigratedInv
  <2>15. OwnerInv'
    BY <2>1, <2>2 DEF IInv, OwnerInv, Names
  <2>16. KnownInv'
    BY <2>1, <2>2 DEF IInv, KnownInv, Waits
  <2>17. LogsTyped'
    BY <2>1, <2>5 DEF IInv, LogsTyped
  <2>18. SentInv'
    BY <2>1, <2>2, <2>6, <2>7 DEF IInv, SentInv
  <2> QED
    BY <2>8, <2>9, <2>10, <2>11, <2>12, <2>13, <2>14, <2>15, <2>16, <2>17, <2>18 DEF IInv
<1>23. CASE FlushRoutes
  <2>1. (\A c \in Conversations : Servers(c)' = Servers(c)) /\ Legacy' = Legacy
    BY <1>23, ServedSame DEF FlushRoutes
  <2>2. \A c \in Conversations : Senders(c)' = Senders(c)
    BY <1>23, SentSame DEF FlushRoutes
  <2>3. /\ MetaTyped' /\ PlanTyped' /\ StoreTyped' /\ LifeTyped' /\ StartupTyped'
        /\ RuntimesTyped' /\ WorkerTyped' /\ LogsTyped' /\ SpentTyped'
    BY <1>23 DEF IInv, MetaTyped, Phases, MaybeRobot, PlanTyped, StoreTyped, LifeTyped,
       StartupTyped, RuntimesTyped, WorkerTyped, LogsTyped, SpentTyped, FlushRoutes
  <2>4. WorkerInv' /\ RuntimeInv' /\ ClaimInv' /\ PhaseInv' /\ SoleInv' /\ FreezeInv'
    BY <1>23 DEF IInv, WorkerInv, Begins, Proceeds, Idle, RuntimeInv, Configured, ClaimInv,
       PhaseInv, SoleInv, FreezeInv, FlushRoutes
  <2>5. StoreInv'
    BY <1>23, <2>1, <2>2 DEF IInv, StoreInv, FlushRoutes
  <2>6. SentInv'
    BY <1>23, <2>1, <2>2 DEF IInv, SentInv, FlushRoutes
  <2>7. MapsTyped'
    BY <1>23, <2>1, <2>2 DEF IInv, MapsTyped, Maps, Owners, FlushRoutes
  <2>8. FreshInv'
    BY <1>23, <2>1, <2>2 DEF IInv, FreshInv, Multi, Unowned, FlushRoutes
  <2>9. SingleInv'
    BY <1>23, <2>1, <2>2 DEF IInv, SingleInv, OnlyLegacy, FlushRoutes
  <2>10. PendingInv'
    BY <1>23, <2>1, <2>2 DEF IInv, PendingInv, PlanTyped, PlanUsable, OnlyLegacy, FlushRoutes
  <2>11. ApplyInv'
    BY <1>23, <2>1, <2>2 DEF IInv, ApplyInv, Bound, OnlyLegacy, FlushRoutes
  <2>12. MigratedInv'
    BY <1>23, <2>1, <2>2 DEF IInv, MigratedInv, FlushRoutes
  <2>13. DiskInv'
    BY <1>23, <2>1, <2>2 DEF IInv, DiskInv, FlushRoutes
  <2>14. OwnerInv'
    BY <1>23, <2>1, <2>2 DEF IInv, OwnerInv, Names, FlushRoutes
  <2>15. KnownInv'
    BY <1>23, <2>1, <2>2 DEF IInv, KnownInv, Waits, FlushRoutes
  <2> QED
    BY <2>3, <2>4, <2>5, <2>6, <2>7, <2>8, <2>9, <2>10, <2>11, <2>12, <2>13, <2>14,
       <2>15 DEF IInv
<1>24. CASE Stop
  <2>1. (\A c \in Conversations : Servers(c)' = Servers(c)) /\ Legacy' = Legacy
    BY <1>24, ServedSame DEF Stop
  <2>2. \A c \in Conversations : Senders(c)' = Senders(c)
    BY <1>24, SentSame DEF Stop
  <2>3. /\ MetaTyped' /\ PlanTyped' /\ StoreTyped' /\ StartupTyped' /\ WorkerTyped'
        /\ LogsTyped'
    BY <1>24 DEF IInv, MetaTyped, Phases, MaybeRobot, PlanTyped, StoreTyped, StartupTyped,
       WorkerTyped, LogsTyped, Stop
  <2>4. StoreInv'
    BY <1>24, <2>1, <2>2 DEF IInv, StoreInv, Stop, Closed
  <2>5. FreezeInv'
    BY <1>24 DEF IInv, FreezeInv, Multi, Idle, Stop, Closed
  <2>6. SentInv'
    BY <1>24, <2>1, <2>2 DEF IInv, SentInv, Stop, Closed
  <2>7. MapsTyped'
    BY <1>24, <2>1, <2>2 DEF IInv, MapsTyped, Maps, Owners, Stop, Closed
  <2>8. LifeTyped'
    BY <1>24, <2>1, <2>2 DEF IInv, LifeTyped, Stop, Closed
  <2>9. RuntimesTyped'
    BY <1>24, <2>1, <2>2 DEF IInv, RuntimesTyped, MaybeRobot, Stop, Closed
  <2>10. SpentTyped'
    BY <1>24, <2>1, <2>2 DEF IInv, SpentTyped, Spends, Budgets, Stop, Closed
  <2>11. WorkerInv'
    BY <1>24, <2>1, <2>2 DEF IInv, WorkerInv, Begins, Proceeds, Idle, Stop, Closed
  <2>12. RuntimeInv'
    BY <1>24 DEF IInv, RuntimeInv, RuntimesTyped, Stop
  <2>13. ClaimInv'
    BY <1>24, <2>1, <2>2 DEF IInv, ClaimInv, Stop, Closed
  <2>14. PhaseInv'
    BY <1>24, <2>1, <2>2 DEF IInv, PhaseInv, Idle, Stop, Closed
  <2>15. SoleInv'
    BY <1>24, <2>1, <2>2 DEF IInv, SoleInv, Listens, Stop, Closed
  <2>16. FreshInv'
    BY <1>24 DEF IInv, FreshInv, Multi, PhaseInv, Stop, Closed
  <2>17. SingleInv'
    BY <1>24, <2>1, <2>2 DEF IInv, SingleInv, OnlyLegacy, Stop, Closed
  <2>18. PendingInv'
    BY <1>24, <2>1, <2>2 DEF IInv, PendingInv, PlanTyped, PlanUsable, OnlyLegacy, Stop, Closed
  <2>19. ApplyInv'
    BY <1>24, <2>1, <2>2 DEF IInv, ApplyInv, Bound, OnlyLegacy, Idle, Stop, Closed
  <2>20. MigratedInv'
    BY <1>24, <2>1, <2>2 DEF IInv, MigratedInv, Stop, Closed
  <2>21. DiskInv'
    BY <1>24, <2>1, <2>2 DEF IInv, DiskInv, Idle, Stop, Closed
  <2>22. OwnerInv'
    BY <1>24, <2>1, <2>2 DEF IInv, OwnerInv, Names, Stop, Closed
  <2>23. KnownInv'
    BY <1>24, <2>1, <2>2 DEF IInv, KnownInv, Waits, Stop, Closed
  <2> QED
    BY <2>3, <2>4, <2>5, <2>6, <2>7, <2>8, <2>9, <2>10, <2>11, <2>12, <2>13, <2>14, <2>15,
       <2>16,
       <2>17, <2>18, <2>19, <2>20, <2>21, <2>22, <2>23 DEF IInv
<1>25. CASE Crash
  <2>1. (\A c \in Conversations : Servers(c)' = Servers(c)) /\ Legacy' = Legacy
    BY <1>25, ServedSame DEF Crash
  <2>2. \A c \in Conversations : Senders(c)' = Senders(c)
    BY <1>25, SentSame DEF Crash
  <2>3. Unowned \in Maps
    BY DEF Unowned, Maps, Owners
  <2>4. /\ mem' \in Maps /\ mem' \in {mem, Unowned}
        /\ lost \subseteq lost' /\ lost' \subseteq Conversations
        /\ MaxListFailures = 0 =>
              \A c \in Conversations \ lost' : Servers(c) # {} =>
                  Waits(c) \/ mem'[c] # Nobody \/ disk[c] # Nobody
    BY <1>25, <2>3, ReplaceDoes DEF Crash
  <2>5. MetaTyped' /\ PlanTyped' /\ StartupTyped' /\ LogsTyped'
    BY <1>25 DEF IInv, MetaTyped, Phases, PlanTyped, StartupTyped, LogsTyped, Crash
  <2>6. StoreInv'
    BY <1>25, <2>1, <2>2, <2>4 DEF IInv, StoreInv, Crash, Closed, Spends, Unowned
  <2>7. MapsTyped'
    BY <1>25, <2>4 DEF IInv, MapsTyped, Maps, Owners, Crash
  <2>8. StoreTyped'
    BY <1>25, <2>1, <2>2, <2>4 DEF IInv, StoreTyped, Crash, Closed, Spends, Unowned
  <2>9. LifeTyped'
    BY <1>25, <2>1, <2>2, <2>4 DEF IInv, LifeTyped, Crash, Closed, Spends, Unowned
  <2>10. RuntimesTyped'
    BY <1>25 DEF IInv, RuntimesTyped, Off, MaybeRobot, Crash, Closed
  <2>11. WorkerTyped'
    BY <1>25 DEF IInv, WorkerTyped, Idle, Jobs, Steps, Crash
  <2>12. SpentTyped'
    BY <1>25, <2>1, <2>2, <2>4 DEF IInv, SpentTyped, Spends, Budgets, Crash, Closed, Unowned
  <2>13. WorkerInv'
    BY <1>25 DEF IInv, WorkerInv, Begins, Proceeds, Idle, Crash, Closed
  <2>14. RuntimeInv'
    BY <1>25 DEF IInv, RuntimeInv, Off, Crash
  <2>15. ClaimInv'
    BY <1>25, <2>1, <2>2, <2>4 DEF IInv, ClaimInv, Off, Crash, Closed, Spends, Unowned
  <2>16. PhaseInv'
    BY <1>25, <2>1, <2>2, <2>4 DEF IInv, PhaseInv, Idle, Crash, Closed, Spends, Unowned
  <2>17. SoleInv'
    BY <1>25, <2>1, <2>2, <2>4 DEF IInv, SoleInv, Listens, Crash, Closed, Spends, Unowned
  <2>18. FreshInv'
    BY <1>25, <2>4 DEF IInv, FreshInv, Multi, Unowned, PhaseInv, Idle, Crash
  <2>19. SingleInv'
    BY <1>25, <2>1, <2>2, <2>4 DEF IInv, SingleInv, OnlyLegacy, Crash, Closed, Spends, Unowned
  <2>20. FreezeInv'
    BY <1>25 DEF IInv, FreezeInv, Idle, Crash
  <2>21. PendingInv'
    BY <1>25, <2>1, <2>4 DEF IInv, PendingInv, PlanTyped, PlanUsable, OnlyLegacy, Crash, Unowned
  <2>22. ApplyInv'
    BY <1>25 DEF IInv, ApplyInv, Idle, Crash
  <2>23. MigratedInv'
    BY <1>25, <2>1, <2>2, <2>4 DEF IInv, MigratedInv, Crash, Closed, Spends, Unowned
  <2>24. DiskInv'
    BY <1>25, <2>1, <2>2, <2>4 DEF IInv, DiskInv, Idle, Crash, Closed, Spends, Unowned
  <2>25. OwnerInv'
    BY <1>25, <2>1, <2>2, <2>4 DEF IInv, OwnerInv, Names, Crash, Closed, Spends, Unowned
  <2>26. KnownInv'
    BY <1>25, <2>1, <2>2, <2>4 DEF IInv, KnownInv, Waits, Crash, Closed, Spends, Unowned
  <2>27. SentInv'
    BY <1>25, <2>1, <2>2, <2>4 DEF IInv, SentInv, Crash, Closed, Spends, Unowned
  <2> QED
    BY <2>5, <2>6, <2>7, <2>8, <2>9, <2>10, <2>11, <2>12, <2>13, <2>14, <2>15, <2>16, <2>17,
       <2>18,
       <2>19, <2>20, <2>21, <2>22, <2>23, <2>24, <2>25, <2>26, <2>27 DEF IInv
<1>26. ASSUME NEW t \in Tokens, NEW r \in Robots, TokenMoves(t, r)
      PROVE  IInv'
  <2>1. (\A c \in Conversations : Servers(c)' = Servers(c)) /\ Legacy' = Legacy
    BY <1>26, ServedSame DEF TokenMoves
  <2>2. \A c \in Conversations : Senders(c)' = Senders(c)
    BY <1>26, SentSame DEF TokenMoves
  <2>3. /\ MetaTyped' /\ PlanTyped' /\ MapsTyped' /\ StoreTyped' /\ StartupTyped'
        /\ RuntimesTyped' /\ WorkerTyped' /\ LogsTyped'
    BY <1>26 DEF IInv, MetaTyped, Phases, MaybeRobot, PlanTyped, MapsTyped, Maps, Owners,
       StoreTyped, StartupTyped, RuntimesTyped, WorkerTyped, LogsTyped, TokenMoves
  <2>4. /\ WorkerInv' /\ RuntimeInv' /\ ClaimInv' /\ PhaseInv' /\ SoleInv' /\ FreshInv'
        /\ FreezeInv' /\ DiskInv'
    BY <1>26 DEF IInv, WorkerInv, Begins, Proceeds, Idle, RuntimeInv, Configured, ClaimInv,
       PhaseInv, Multi, SoleInv, FreshInv, FreezeInv, DiskInv, TokenMoves
  <2>5. StoreInv'
    BY <1>26, <2>1, <2>2 DEF IInv, StoreInv, TokenMoves
  <2>6. SingleInv'
    BY <1>26, <2>1, <2>2 DEF IInv, SingleInv, OnlyLegacy, TokenMoves
  <2>7. PendingInv'
    BY <1>26, <2>1, <2>2 DEF IInv, PendingInv, PlanTyped, PlanUsable, OnlyLegacy, TokenMoves
  <2>8. ApplyInv'
    BY <1>26, <2>1, <2>2 DEF IInv, ApplyInv, Bound, OnlyLegacy, TokenMoves
  <2>9. MigratedInv'
    BY <1>26, <2>1, <2>2 DEF IInv, MigratedInv, TokenMoves
  <2>10. OwnerInv'
    BY <1>26, <2>1, <2>2 DEF IInv, OwnerInv, Names, TokenMoves
  <2>11. KnownInv'
    BY <1>26, <2>1, <2>2 DEF IInv, KnownInv, Waits, TokenMoves
  <2>12. SentInv'
    BY <1>26, <2>1, <2>2 DEF IInv, SentInv, TokenMoves
  <2>13. LifeTyped'
    BY <1>26, <2>1, <2>2 DEF IInv, LifeTyped, TokenMoves
  <2>14. SpentTyped'
    BY <1>26, <2>1, <2>2 DEF IInv, SpentTyped, Spends, Budgets, TokenMoves
  <2> QED
    BY <2>3, <2>4, <2>5, <2>6, <2>7, <2>8, <2>9, <2>10, <2>11, <2>12, <2>13, <2>14 DEF IInv
<1>27. CASE SentinelLost
  <2>1. (\A c \in Conversations : Servers(c)' = Servers(c)) /\ Legacy' = Legacy
    BY <1>27, ServedSame DEF SentinelLost
  <2>2. \A c \in Conversations : Senders(c)' = Senders(c)
    BY <1>27, SentSame DEF SentinelLost
  <2>3. /\ PlanTyped' /\ MapsTyped' /\ StoreTyped' /\ LifeTyped' /\ StartupTyped'
        /\ RuntimesTyped' /\ WorkerTyped' /\ LogsTyped'
    BY <1>27 DEF IInv, PlanTyped, MapsTyped, Maps, Owners, StoreTyped, LifeTyped, StartupTyped,
       RuntimesTyped, WorkerTyped, LogsTyped, SentinelLost
  <2>4. WorkerInv' /\ RuntimeInv' /\ ClaimInv' /\ DiskInv'
    BY <1>27 DEF IInv, WorkerInv, Begins, Proceeds, Idle, RuntimeInv, Configured, ClaimInv,
       DiskInv, SentinelLost
  <2>5. StoreInv'
    BY <1>27, <2>1, <2>2 DEF IInv, StoreInv, SentinelLost
  <2>6. OwnerInv'
    BY <1>27, <2>1, <2>2 DEF IInv, OwnerInv, Names, SentinelLost
  <2>7. SentInv'
    BY <1>27, <2>1, <2>2 DEF IInv, SentInv, SentinelLost
  <2>8. MetaTyped'
    BY <1>27, <2>1, <2>2 DEF IInv, MetaTyped, Metadata, Phases, MaybeRobot, SentinelLost
  <2>9. SpentTyped'
    BY <1>27, <2>1, <2>2 DEF IInv, SpentTyped, Spends, Budgets, SentinelLost
  <2>10. PhaseInv'
    BY <1>27, <2>1, <2>2 DEF IInv, PhaseInv, Metadata, SentinelLost
  <2>11. SoleInv'
    BY <1>27, <2>1, <2>2 DEF IInv, SoleInv, Listens, Metadata, SentinelLost
  <2>12. FreshInv'
    BY <1>27, <2>1, <2>2 DEF IInv, FreshInv, Multi, Unowned, Metadata, SentinelLost
  <2>13. SingleInv'
    BY <1>27, <2>1, <2>2 DEF IInv, SingleInv, OnlyLegacy, Metadata, SentinelLost
  <2>14. FreezeInv'
    BY <1>27 DEF IInv, FreezeInv, Multi, WorkerInv, SentinelLost
  <2>15. PendingInv'
    BY <1>27, <2>1, <2>2 DEF IInv, PendingInv, PlanTyped, PlanUsable, OnlyLegacy, Metadata,
       SentinelLost
  <2>16. ApplyInv'
    BY <1>27 DEF IInv, ApplyInv, Bound, WorkerInv, SentinelLost
  <2>17. MigratedInv'
    BY <1>27, <2>1, <2>2 DEF IInv, MigratedInv, Metadata, SentinelLost
  <2>18. KnownInv'
    BY <1>27, <2>1, <2>2 DEF IInv, KnownInv, Waits, Metadata, SentinelLost
  <2> QED
    BY <2>3, <2>4, <2>5, <2>6, <2>7, <2>8, <2>9, <2>10, <2>11, <2>12, <2>13, <2>14, <2>15,
       <2>16,
       <2>17, <2>18 DEF IInv
<1>28. CASE UNCHANGED vars
  <2>1. (\A c \in Conversations : Servers(c)' = Servers(c)) /\ Legacy' = Legacy
    BY <1>28, ServedSame DEF vars
  <2>2. \A c \in Conversations : Senders(c)' = Senders(c)
    BY <1>28, SentSame DEF vars
  <2>3. /\ MetaTyped' /\ PlanTyped' /\ MapsTyped' /\ StoreTyped' /\ LifeTyped'
        /\ StartupTyped' /\ RuntimesTyped' /\ WorkerTyped' /\ LogsTyped' /\ SpentTyped'
    BY <1>28 DEF IInv, MetaTyped, Phases, MaybeRobot, PlanTyped, MapsTyped, Maps, Owners,
       StoreTyped, LifeTyped, StartupTyped, RuntimesTyped, WorkerTyped, LogsTyped, SpentTyped,
       vars
  <2>4. /\ WorkerInv' /\ RuntimeInv' /\ ClaimInv' /\ PhaseInv' /\ SoleInv' /\ FreshInv'
        /\ FreezeInv' /\ DiskInv'
    BY <1>28 DEF IInv, WorkerInv, Begins, Proceeds, Idle, RuntimeInv, Configured, ClaimInv,
       PhaseInv, Multi, SoleInv, FreshInv, FreezeInv, DiskInv, vars
  <2>5. StoreInv'
    BY <1>28, <2>1, <2>2 DEF IInv, StoreInv, vars
  <2>6. SingleInv'
    BY <1>28, <2>1, <2>2 DEF IInv, SingleInv, OnlyLegacy, vars
  <2>7. PendingInv'
    BY <1>28, <2>1, <2>2 DEF IInv, PendingInv, PlanTyped, PlanUsable, OnlyLegacy, vars
  <2>8. ApplyInv'
    BY <1>28, <2>1, <2>2 DEF IInv, ApplyInv, Bound, OnlyLegacy, vars
  <2>9. MigratedInv'
    BY <1>28, <2>1, <2>2 DEF IInv, MigratedInv, vars
  <2>10. OwnerInv'
    BY <1>28, <2>1, <2>2 DEF IInv, OwnerInv, Names, vars
  <2>11. KnownInv'
    BY <1>28, <2>1, <2>2 DEF IInv, KnownInv, Waits, vars
  <2>12. SentInv'
    BY <1>28, <2>1, <2>2 DEF IInv, SentInv, vars
  <2> QED
    BY <2>3, <2>4, <2>5, <2>6, <2>7, <2>8, <2>9, <2>10, <2>11, <2>12 DEF IInv
<1> QED
  BY <1>1, <1>2, <1>3, <1>4, <1>5, <1>6, <1>7, <1>8, <1>9, <1>10, <1>11, <1>12, <1>13, <1>14,
     <1>15, <1>16, <1>17, <1>18, <1>19, <1>20, <1>21, <1>22, <1>23, <1>24, <1>25, <1>26, <1>27,
     <1>28 DEF Next, Begin, LegacyWork, vars

-----------------------------------------------------------------------------
(* The theorems.                                                           *)

\* All parts of the invariant hold of every state.
THEOREM InvariantHolds == Spec => []IInv
  BY InitInvariant, StepInvariant, PTL DEF Spec

\* The documents, the maps and what the adapter keeps of them are always of their
\* type, wherever begin(), a registration or the thread was cut off.
THEOREM TypeCorrect == Spec => []TypeOK
<1>1. IInv => TypeOK
  BY DEF IInv, TypeOK, MetaTyped, PlanTyped, MapsTyped, Maps, StoreTyped, LifeTyped,
         StartupTyped, RuntimesTyped, WorkerTyped, LogsTyped, Log, SentLog, SpentTyped
<1> QED
  BY <1>1, InvariantHolds, PTL

\* However a start was cut off, the next one finds the plan that its metadata counts
\* (_begin_multi saves the plan before the metadata), and no message makes a plan that
\* waits unbindable (bind_inbound_route): also when sessions could not be listed.
THEOREM PlanSurvives == Spec => [](PlanStaysApplicable /\ PendingIsStartable)
<1>1. IInv => PlanStaysApplicable
  <2> SUFFICES ASSUME IInv, life = "up", startup.phase = "pending", NEW c \in startup.plan
               PROVE  mem[c] \in {Nobody, startup.legacy}
    BY DEF PlanStaysApplicable, Fits, PlanRobot
  <2>1. /\ startup.legacy = meta.legacy /\ startup.plan = planFile.plan
        /\ meta.phase = "pending" \/ worker.pc = "clearplan"
    BY DEF IInv, PhaseInv
  <2>2. CASE meta.phase = "pending"
    BY <2>1, <2>2 DEF IInv, PendingInv, OnlyLegacy
  <2>3. CASE worker.pc = "clearplan"
    BY <2>1, <2>3 DEF IInv, ApplyInv, OnlyLegacy
  <2> QED
    BY <2>1, <2>2, <2>3
<1>2. IInv => PendingIsStartable
  BY DEF IInv, PendingInv, PendingIsStartable, PlanUsable
<1> QED
  BY <1>1, <1>2, InvariantHolds, PTL

\* While the session store can be listed, a migration that is finished has bound,
\* on disk, whatever the single token served (apply_legacy_plan and
\* protect_replaced_single_identity bind, flush, and only then save).
THEOREM MigrationIsSound ==
    ASSUME MaxListFailures = 0
    PROVE  Spec => []MigrationSound
<1>1. IInv => MigratedIsBound
  BY DEF IInv, MigratedInv, MigratedIsBound
<1> QED
  BY <1>1, PlanSurvives, InvariantHolds, PTL DEF MigrationSound

\* Then a conversation is only ever answered by one bot, unless a stop lost its first
\* route (bind_inbound_route), and once it has been, only that bot speaks in it:
\* whichever turn or session a delivery comes from, or from none, home channel or not
\* (resolve_outbound).  What is left out is another bot's turn that speaks in a
\* conversation while it waits for the plan.
THEOREM ConversationsKeepTheirBot ==
    ASSUME MaxListFailures = 0
    PROVE  Spec => [](OneIdentityPerConversation /\ OnlyServersSpeak)
<1>1. IInv => OneIdentityPerConversation
  <2> SUFFICES ASSUME IInv, NEW c \in Conversations \ lost
               PROVE  Cardinality(Servers(c)) <= 1
    BY DEF OneIdentityPerConversation
  <2>1. \A r, s \in Servers(c) : r = s
    BY DEF IInv, OwnerInv
  <2>2. CASE Servers(c) = {}
    BY <2>2, FS_EmptySet
  <2>3. CASE Servers(c) # {}
    <3>1. PICK r \in Servers(c) : TRUE
      BY <2>3
    <3>2. Servers(c) = {r}
      BY <2>1, <3>1
    <3> QED
      BY <3>2, FS_Singleton
  <2> QED
    BY <2>2, <2>3
<1>2. IInv => OnlyServersSpeak
  BY DEF IInv, SentInv, Senders, OnlyServersSpeak
<1> QED
  BY <1>1, <1>2, InvariantHolds, PTL

\* In an adapter object that is connected once, a bot's routes resolve to the one
\* runtime that registered as it (_claim_identity).
THEOREM ClaimsResolve ==
    ASSUME ~Reuse
    PROVE  Spec => []OneRuntimePerRobot
<1>1. IInv => OneRuntimePerRobot
  BY DEF IInv, RuntimeInv, ClaimInv, OneRuntimePerRobot
<1> QED
  BY <1>1, InvariantHolds, PTL

\* The three together.
THEOREM IdentityIsKept ==
    ASSUME MaxListFailures = 0, ~Reuse
    PROVE  Spec => []IdentityKept
BY ConversationsKeepTheirBot, ClaimsResolve, PTL DEF IdentityKept
=============================================================================
