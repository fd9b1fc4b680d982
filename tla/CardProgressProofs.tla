-------------------------- MODULE CardProgressProofs --------------------------
(***************************************************************************)
(* Theorems about CardProgress.  The types first, with the number of each  *)
(* state and its place in its turn; then the invariant that relates what   *)
(* a drain has read, the state of its key by now and the card as the       *)
(* server has it, and what each action keeps of it.  The types hold for    *)
(* turns that begin again, the invariant for turns that begin once.        *)
(***************************************************************************)
EXTENDS CardProgress, TLAPS, WellFoundedInduction

\* A drain that has read its state, any drain, and the types of the variables.
Long == [pc : Working, key : Keys, saw : Turn, tries : Nat, exhausted : Nat]

DrainOf ==
    {Off} \union [pc : {"queued"}, key : Keys]
          \union [pc : {"read"}, key : Keys, exhausted : Nat]
          \union Long

TypeInv ==
    /\ DOMAIN states \subseteq Keys
    /\ states \in [DOMAIN states -> Turn]
    /\ drains \in [Drains -> DrainOf]
    /\ adapter \in {"up", "closing", "down"}
    /\ controls \in [Ids -> {"none", "stop", "retry"}]
    /\ shown \in [Ids -> [seq : Nat \union {-1}, rev : Nat, phase : Phases]]
    /\ made \in 0..MaxStates /\ lost \subseteq Ids /\ begun \subseteq Turns
    /\ cancels \in 0..MaxCancels

\* Each of the states f has a number of its own among the first m.
Numbered(f, m) ==
    /\ \A k \in DOMAIN f : f[k].id <= m
    /\ \A k, j \in DOMAIN f : f[k].id = f[j].id => k = j

\* And the segment that has not ended is the last of its turn.
KeysRight(f, m) ==
    /\ Numbered(f, m)
    /\ \A k, j \in DOMAIN f : f[k].phase = "active" /\ j[1] = k[1] => j[2] <= k[2]

\* What holds of the types, also when turns begin again.
TInv == TypeInv /\ KeysRight(states, made)

\* f holds states, under keys of theirs.
Holds(f) == DOMAIN f \subseteq Keys /\ f \in [DOMAIN f -> Turn]

-----------------------------------------------------------------------------
(* What the operators do.                                                  *)

\* A drain past its read has all its fields, and one that is not off its key.
LEMMA DrainShape ==
    ASSUME NEW w \in DrainOf
    PROVE  /\ w.pc \in Working \ {"read"} => w \in Long
           /\ w # Off => w.key \in Keys /\ w.pc \in Working \union {"queued"}
           /\ w.pc = "read" => w.exhausted \in Nat
           /\ (w = Off) <=> (w.pc = "off")
BY DEF DrainOf, Long, Off, Working

\* Of the states f those of the keys K have gone, with actions of theirs, and no other
\* was given up.
Dropped(f, K) ==
    /\ DOMAIN states' = DOMAIN f \ K
    /\ \A k \in DOMAIN states' : states'[k] = f[k]
    /\ Holds(states')
    /\ controls' \in [Ids -> {"none", "stop", "retry"}]
    /\ \A i \in Ids : controls'[i] = controls[i] \/ controls'[i] = "none"
    /\ lost \subseteq lost' /\ lost' \subseteq Ids
    /\ \A i \in lost' : i \in lost \/ \E k \in K \intersect DOMAIN f : f[k].id = i

\* That is what _drop_state_locked does, and whether it gives the states up.
LEMMA DropMeans ==
    ASSUME TypeInv, NEW f, Holds(f), NEW K, Drop(f, K, TRUE) \/ Drop(f, K, FALSE)
    PROVE  /\ Dropped(f, K)
           /\ Drop(f, K, TRUE) => \A k \in K \intersect DOMAIN f : f[k].id \in lost'
           /\ Drop(f, K, FALSE) => lost' = lost
<1> DEFINE gone == {f[k] : k \in K \intersect DOMAIN f}
<1>1. states' = [k \in DOMAIN f \ K |-> f[k]]
  BY DEF Drop, Restrict
<1>2. controls' = [i \in Ids |->
                     IF \E s \in gone : s.id = i /\ s.mode = "registry" /\ s.msg /\ ~s.keep
                     THEN "none" ELSE controls[i]]
  BY DEF Drop
<1>3. /\ Drop(f, K, TRUE) => lost' = lost \union {s.id : s \in gone}
      /\ Drop(f, K, FALSE) => lost' = lost
  BY DEF Drop
<1>4. gone \subseteq Turn
  BY DEF Holds
<1>5. {s.id : s \in gone} \subseteq Ids
  BY <1>4 DEF Turn
<1>6. /\ controls' \in [Ids -> {"none", "stop", "retry"}]
      /\ \A i \in Ids : controls'[i] = controls[i] \/ controls'[i] = "none"
  <2> HIDE DEF gone
  <2> QED
    BY <1>2 DEF TypeInv
<1>7. /\ DOMAIN states' = DOMAIN f \ K /\ Holds(states')
      /\ \A k \in DOMAIN states' : states'[k] = f[k]
  BY <1>1 DEF Holds
<1>8. lost \subseteq lost' /\ lost' \subseteq Ids
  BY <1>3, <1>5 DEF TypeInv
<1>9. /\ \A i \in lost' : i \in lost \/ \E k \in K \intersect DOMAIN f : f[k].id = i
      /\ Drop(f, K, TRUE) => \A k \in K \intersect DOMAIN f : f[k].id \in lost'
      /\ Drop(f, K, FALSE) => lost' = lost
  BY <1>3
<1> QED
  BY <1>6, <1>7, <1>8, <1>9 DEF Dropped

\* The four ways of _schedule_locked.
LEMMA ScheduleMeans ==
    ASSUME NEW f, NEW k, Schedule(f, k)
    PROVE  \/ f[k].scheduled /\ Becomes(f) /\ UNCHANGED drains
           \/ ~f[k].scheduled /\ f[k].tools # "real" /\ f[k].phase = "active" /\ Becomes(f)
                /\ UNCHANGED drains
           \/ ~f[k].scheduled /\ f[k].tools # "real" /\ f[k].phase # "active"
                /\ Drop(f, {k}, FALSE) /\ UNCHANGED drains
           \/ ~f[k].scheduled /\ f[k].tools = "real" /\ adapter # "up" /\ Drop(f, {k}, TRUE)
                /\ UNCHANGED drains
           \/ /\ ~f[k].scheduled /\ f[k].tools = "real" /\ adapter = "up"
              /\ Becomes([f EXCEPT ![k].scheduled = TRUE])
              /\ \E d \in Drains : drains[d] = Off
                                   /\ drains' = [drains EXCEPT ![d] = Drain("queued", k)]
BY DEF Schedule

\* Numbers and places stay right when states go, or end where they are.
LEMMA KeysKept ==
    ASSUME NEW f, NEW g, NEW m, KeysRight(f, m), DOMAIN g \subseteq DOMAIN f,
           \A k \in DOMAIN g : g[k].id = f[k].id /\ (g[k].phase = "active" => f[k].phase = "active")
    PROVE  KeysRight(g, m)
BY DEF KeysRight, Numbered

\* They stay right when a state is made under the last key of its turn.
LEMMA KeysExtended ==
    ASSUME NEW f, NEW g, NEW m \in Nat, NEW new, new[2] \in Nat, KeysRight(f, m),
           \A k \in DOMAIN f : f[k].id \in Nat /\ k[2] \in Nat,
           DOMAIN g = DOMAIN f \union {new}, new \notin DOMAIN f, g[new].id = m + 1,
           \A k \in DOMAIN f : k[1] = new[1] => k[2] <= new[2] /\ g[k].phase # "active",
           \A k \in DOMAIN f : g[k].id = f[k].id /\ (g[k].phase = "active" => f[k].phase = "active")
    PROVE  KeysRight(g, m + 1)
<1>1. \A k \in DOMAIN f : f[k].id <= m
  BY DEF KeysRight, Numbered
<1>2. \A k \in DOMAIN g : g[k].id <= m + 1
  BY <1>1
<1>3. \A k, j \in DOMAIN g : g[k].id = g[j].id => k = j
  BY <1>1 DEF KeysRight, Numbered
<1>4. ASSUME NEW k \in DOMAIN g, NEW j \in DOMAIN g, g[k].phase = "active", j[1] = k[1]
      PROVE  j[2] <= k[2]
  <2>1. CASE k = new
    BY <1>4, <2>1
  <2>2. CASE k # new /\ j = new
    BY <1>4, <2>2
  <2>3. CASE k # new /\ j # new
    BY <1>4, <2>3 DEF KeysRight, Numbered
  <2> QED
    BY <2>1, <2>2, <2>3
<1> QED
  BY <1>2, <1>3, <1>4 DEF KeysRight, Numbered

\* Scheduling keeps types, numbers and phases of what stays.
LEMMA ScheduleTypes ==
    ASSUME TypeInv, NEW f, Holds(f), NEW k \in DOMAIN f, Schedule(f, k)
    PROVE  /\ Holds(states') /\ DOMAIN states' \subseteq DOMAIN f
           /\ \A j \in DOMAIN states' : states'[j].id = f[j].id /\ states'[j].phase = f[j].phase
           /\ drains' \in [Drains -> DrainOf]
           /\ controls' \in [Ids -> {"none", "stop", "retry"}] /\ lost' \subseteq Ids
<1>1. CASE Becomes(f) /\ UNCHANGED drains
  BY <1>1 DEF Becomes, TypeInv
<1>2. ASSUME Drop(f, {k}, TRUE) \/ Drop(f, {k}, FALSE), UNCHANGED drains
      PROVE  /\ Holds(states') /\ DOMAIN states' \subseteq DOMAIN f
             /\ \A j \in DOMAIN states' : states'[j].id = f[j].id /\ states'[j].phase = f[j].phase
             /\ drains' \in [Drains -> DrainOf]
             /\ controls' \in [Ids -> {"none", "stop", "retry"}] /\ lost' \subseteq Ids
  <2>1. /\ DOMAIN states' = DOMAIN f \ {k} /\ \A j \in DOMAIN states' : states'[j] = f[j]
        /\ Holds(states')
        /\ controls' \in [Ids -> {"none", "stop", "retry"}] /\ lost' \subseteq Ids
    BY <1>2, DropMeans DEF Dropped
  <2>2. drains' \in [Drains -> DrainOf]
    BY <1>2 DEF TypeInv
  <2> QED
    BY <2>1, <2>2
<1>3. ASSUME Becomes([f EXCEPT ![k].scheduled = TRUE]),
             NEW d \in Drains, drains' = [drains EXCEPT ![d] = Drain("queued", k)]
      PROVE  /\ Holds(states') /\ DOMAIN states' \subseteq DOMAIN f
             /\ \A j \in DOMAIN states' : states'[j].id = f[j].id /\ states'[j].phase = f[j].phase
             /\ drains' \in [Drains -> DrainOf]
             /\ controls' \in [Ids -> {"none", "stop", "retry"}] /\ lost' \subseteq Ids
  <2>1. Drain("queued", k) \in DrainOf
    BY DEF Drain, DrainOf, Holds
  <2>2. drains' \in [Drains -> DrainOf]
    BY <1>3, <2>1 DEF TypeInv
  <2> DEFINE s == [f[k] EXCEPT !.scheduled = TRUE]
  <2>3. s \in Turn /\ s.id = f[k].id /\ s.phase = f[k].phase
    BY DEF Holds, Turn
  <2>4. states' = [f EXCEPT ![k] = s]
    BY <1>3 DEF Becomes
  <2> HIDE DEF s
  <2>5. Holds(states') /\ DOMAIN states' = DOMAIN f
    BY <2>3, <2>4 DEF Holds
  <2>6. \A j \in DOMAIN states' : states'[j].id = f[j].id /\ states'[j].phase = f[j].phase
    BY <2>3, <2>4 DEF Holds
  <2> QED
    BY <1>3, <2>2, <2>5, <2>6 DEF Becomes, TypeInv
<1> QED
  BY <1>1, <1>2, <1>3, ScheduleMeans

\* A hook finds a state that has not ended.
LEMMA FoundMeans ==
    ASSUME NEW t, NEW k \in Found(t)
    PROVE  k \in DOMAIN states /\ states[k].phase = "active"
BY DEF Found, Final

-----------------------------------------------------------------------------
(* Types.                                                                  *)

\* A state that is replaced under its number, and is not begun anew.
LEMMA ReplacedHolds ==
    ASSUME TInv, NEW k \in DOMAIN states, NEW s \in Turn, s.id = states[k].id,
           s.phase = "active" => states[k].phase = "active"
    PROVE  Holds([states EXCEPT ![k] = s]) /\ KeysRight([states EXCEPT ![k] = s], made)
<1> DEFINE f == [states EXCEPT ![k] = s]
<1>1. Holds(f) /\ DOMAIN f = DOMAIN states
  BY DEF TInv, TypeInv, Holds
<1>2. \A j \in DOMAIN f :
         f[j].id = states[j].id /\ (f[j].phase = "active" => states[j].phase = "active")
  BY DEF TInv, TypeInv
<1> HIDE DEF f
<1>3. KeysRight(f, made)
  BY <1>1, <1>2, KeysKept DEF TInv
<1> QED
  BY <1>1, <1>3 DEF f

\* A hook's new state in the place of the old one keeps the types.
LEMMA HookTypes ==
    ASSUME TInv, NEW k \in DOMAIN states, NEW s \in Turn, s.id = states[k].id,
           states[k].phase = "active",
           \/ Schedule([states EXCEPT ![k] = s], k)
           \/ Becomes([states EXCEPT ![k] = s]) /\ UNCHANGED drains,
           Hook
    PROVE  TInv'
<1> DEFINE f == [states EXCEPT ![k] = s]
<1>1. Holds(f) /\ KeysRight(f, made) /\ k \in DOMAIN f
  BY ReplacedHolds DEF TInv, TypeInv
<1> HIDE DEF f
<1>2. Schedule(f, k) \/ (Becomes(f) /\ UNCHANGED drains)
  BY DEF f
<1>3. /\ Holds(states') /\ DOMAIN states' \subseteq DOMAIN f
      /\ \A j \in DOMAIN states' : states'[j].id = f[j].id /\ states'[j].phase = f[j].phase
      /\ drains' \in [Drains -> DrainOf]
      /\ controls' \in [Ids -> {"none", "stop", "retry"}] /\ lost' \subseteq Ids
  <2>1. CASE Schedule(f, k)
    BY <1>1, <2>1, ScheduleTypes DEF TInv
  <2>2. CASE Becomes(f) /\ UNCHANGED drains
    BY <1>1, <2>2 DEF TInv, TypeInv, Becomes
  <2> QED
    BY <1>2, <2>1, <2>2
<1>4. KeysRight(states', made)
  BY <1>1, <1>3, KeysKept
<1>5. TypeInv'
  BY <1>3 DEF Hook, TInv, TypeInv, Holds
<1> QED
  BY <1>4, <1>5 DEF Hook, TInv

\* s is what a hook has made of o, at the next revision.
Changes(s, o) ==
    /\ s \in Turn /\ s.id = o.id /\ s.seq = o.seq /\ s.msg = o.msg /\ s.mode = o.mode
    /\ s.stop = o.stop /\ s.keep = o.keep /\ s.sending = o.sending
    /\ s.scheduled = o.scheduled
    /\ s.rev = o.rev + 1 /\ s.due \in {o.due, s.rev}
    /\ o.tools = "real" => s.tools = "real"

\* A hook shows what it leaves at once, or leaves nothing new to show.
HookStep(k) ==
    LET o == states[k]
    IN  \E s \in Turn :
          /\ Changes(s, o)
          /\ \/ s.due = s.rev /\ Schedule([states EXCEPT ![k] = s], k)
             \/ /\ s.due = o.due /\ s.phase = "active"
                /\ s.tools = "real" => o.tools = "real"
                /\ Becomes([states EXCEPT ![k] = s]) /\ UNCHANGED drains

\* s is o but for its tools and its phase.
SameBut(s, o) ==
    /\ s \in Turn /\ s.id = o.id /\ s.seq = o.seq /\ s.msg = o.msg /\ s.mode = o.mode
    /\ s.stop = o.stop /\ s.keep = o.keep /\ s.sending = o.sending
    /\ s.scheduled = o.scheduled /\ s.rev = o.rev
    /\ o.tools = "real" => s.tools = "real"

\* A hook that has something to show schedules the state, with a revision more.
LEMMA ShowsMeans ==
    ASSUME TypeInv, NEW k \in DOMAIN states, NEW s, SameBut(s, states[k]), Shows(k, s)
    PROVE  HookStep(k)
<1> DEFINE n == s.rev + 1
           r == [s EXCEPT !.rev = n, !.due = n]
<1>1. s \in Turn /\ n \in Nat
  BY DEF SameBut, Turn
<1>2. Schedule([states EXCEPT ![k] = r], k)
  BY DEF Shows
<1>3. n = states[k].rev + 1
  BY DEF SameBut
<1> HIDE DEF n
<1>4. r \in Turn /\ r.rev = n /\ r.due = n
  BY <1>1 DEF Turn
<1>5. /\ r.id = s.id /\ r.seq = s.seq /\ r.msg = s.msg /\ r.mode = s.mode /\ r.stop = s.stop
      /\ r.keep = s.keep /\ r.sending = s.sending /\ r.scheduled = s.scheduled
      /\ r.tools = s.tools
  BY <1>1 DEF Turn
<1> HIDE DEF r
<1>6. Changes(r, states[k])
  BY <1>3, <1>4, <1>5 DEF Changes, SameBut
<1> QED
  BY <1>2, <1>4, <1>6 DEF HookStep

\* The model begins, or calls a tool that sends a card of its own.
LEMMA QuietMeans ==
    ASSUME TypeInv, NEW k \in DOMAIN states, states[k].phase = "active", NEW tools \in Tools,
           tools = "real" <=> states[k].tools = "real", UNCHANGED drains,
           Becomes([states EXCEPT ![k].rev = @ + 1, ![k].tools = tools])
    PROVE  HookStep(k)
<1> DEFINE o == states[k]
           n == o.rev + 1
           r == [o EXCEPT !.rev = n, !.tools = tools]
<1>1. o \in Turn /\ n \in Nat
  BY DEF TypeInv, Turn
<1>2. [states EXCEPT ![k].rev = @ + 1, ![k].tools = tools] = [states EXCEPT ![k] = r]
  BY DEF TypeInv
<1>3. Becomes([states EXCEPT ![k] = r])
  BY <1>2
<1> HIDE DEF n
<1>4. r \in Turn /\ r.rev = n /\ r.tools = tools
  BY <1>1 DEF Turn
<1>5. /\ r.id = o.id /\ r.seq = o.seq /\ r.msg = o.msg /\ r.mode = o.mode /\ r.stop = o.stop
      /\ r.keep = o.keep /\ r.sending = o.sending /\ r.scheduled = o.scheduled
      /\ r.due = o.due /\ r.phase = o.phase
  BY <1>1 DEF Turn
<1> HIDE DEF r
<1>6. Changes(r, states[k])
  BY <1>4, <1>5 DEF Changes, n
<1> QED
  BY <1>3, <1>4, <1>5, <1>6 DEF HookStep

\* A hook of the agent.
Hooks(t) ==
    \/ ModelStarted(t) \/ ModelFinished(t) \/ ToolStarted(t)
    \/ AuthoringToolStarted(t) \/ ToolFinished(t) \/ Complete(t)

\* Every hook changes one state that has not ended, in one of these ways.
LEMMA HooksMean ==
    ASSUME TypeInv, NEW t, Hooks(t)
    PROVE  Hook /\ \E k \in DOMAIN states : states[k].phase = "active" /\ HookStep(k)
<1>0. \A k \in DOMAIN states : states[k] \in Turn
  BY DEF TypeInv
<1>1. CASE ModelStarted(t)
  <2>1. PICK k \in Found(t) :
           Becomes([states EXCEPT ![k].rev = @ + 1,
                                  ![k].tools = IF @ = "none" THEN "thinking" ELSE @])
    BY <1>1 DEF ModelStarted
  <2> DEFINE tools == IF states[k].tools = "none" THEN "thinking" ELSE states[k].tools
  <2>2. k \in DOMAIN states /\ states[k].phase = "active"
    BY FoundMeans
  <2>3. Becomes([states EXCEPT ![k].rev = @ + 1, ![k].tools = tools])
    BY <2>1, <2>2
  <2>4. tools \in Tools /\ (tools = "real" <=> states[k].tools = "real")
    BY <1>0, <2>2 DEF Turn, Tools
  <2> HIDE DEF tools
  <2>5. UNCHANGED drains /\ Hook
    BY <1>1 DEF ModelStarted
  <2> QED
    BY <2>2, <2>3, <2>4, <2>5, QuietMeans
<1>2. CASE AuthoringToolStarted(t)
  <2>1. PICK k \in Found(t) :
           Becomes([states EXCEPT ![k].rev = @ + 1,
                                  ![k].tools = IF @ = "real" THEN @ ELSE "none"])
    BY <1>2 DEF AuthoringToolStarted
  <2> DEFINE tools == IF states[k].tools = "real" THEN states[k].tools ELSE "none"
  <2>2. k \in DOMAIN states /\ states[k].phase = "active"
    BY FoundMeans
  <2>3. Becomes([states EXCEPT ![k].rev = @ + 1, ![k].tools = tools])
    BY <2>1, <2>2
  <2>4. tools \in Tools /\ (tools = "real" <=> states[k].tools = "real")
    BY <1>0, <2>2 DEF Turn, Tools
  <2> HIDE DEF tools
  <2>5. UNCHANGED drains /\ Hook
    BY <1>2 DEF AuthoringToolStarted
  <2> QED
    BY <2>2, <2>3, <2>4, <2>5, QuietMeans
<1>3. CASE ModelFinished(t) \/ ToolFinished(t)
  <2>1. PICK k \in Found(t) : Shows(k, states[k])
    BY <1>3 DEF ModelFinished, ToolFinished
  <2>2. k \in DOMAIN states /\ states[k].phase = "active"
    BY FoundMeans
  <2>3. SameBut(states[k], states[k])
    BY <1>0, <2>2 DEF SameBut
  <2> QED
    BY <1>3, <2>1, <2>2, <2>3, ShowsMeans DEF ModelFinished, ToolFinished
<1>4. CASE ToolStarted(t)
  <2>1. PICK k \in Found(t) : Shows(k, [states[k] EXCEPT !.tools = "real"])
    BY <1>4 DEF ToolStarted
  <2>2. k \in DOMAIN states /\ states[k].phase = "active"
    BY FoundMeans
  <2>3. SameBut([states[k] EXCEPT !.tools = "real"], states[k])
    BY <1>0, <2>2 DEF SameBut, Turn, Tools
  <2> QED
    BY <1>4, <2>1, <2>2, <2>3, ShowsMeans DEF ToolStarted
<1>5. CASE Complete(t)
  <2>1. PICK k \in Found(t), p \in {"result", "error"} : Shows(k, [states[k] EXCEPT !.phase = p])
    BY <1>5 DEF Complete
  <2>2. k \in DOMAIN states /\ states[k].phase = "active"
    BY FoundMeans
  <2>3. SameBut([states[k] EXCEPT !.phase = p], states[k])
    BY <1>0, <2>2 DEF SameBut, Turn, Phases
  <2> QED
    BY <1>5, <2>1, <2>2, <2>3, ShowsMeans DEF Complete
<1> QED
  BY <1>1, <1>2, <1>3, <1>4, <1>5 DEF Hooks

\* Some segment of any is the last.
LEMMA HasLast ==
    ASSUME NEW S \in SUBSET (0..MaxSegment), S # {}
    PROVE  \E n \in S : \A m \in S : m <= n
<1> USE ProgressAssumption
<1> DEFINE R == OpToRel(<, Nat)
           T == {MaxSegment - m : m \in S}
<1>1. IsWellFoundedOn(R, Nat)
  BY NatLessThanWellFounded
<1>2. \A x, y \in Nat : <<x, y>> \in R <=> x < y
  BY DEF OpToRel
<1> HIDE DEF R
<1>3. \A m \in S : MaxSegment - m \in Nat
  OBVIOUS
<1>4. T \subseteq Nat /\ T # {}
  BY <1>3
<1>5. PICK x \in T : \A y \in T : ~(<<y, x>> \in R)
  <2> HIDE DEF T
  <2> QED
    BY <1>1, <1>4, WFMin
<1>6. PICK n \in S : x = MaxSegment - n
  BY <1>5
<1>7. \A m \in S : m <= n
  <2> TAKE m \in S
  <2>1. MaxSegment - m \in T /\ MaxSegment - m \in Nat /\ x \in Nat
    BY <1>3, <1>4, <1>5
  <2>2. ~(MaxSegment - m < x)
    BY <1>2, <1>5, <2>1
  <2> QED
    BY <1>6, <2>2
<1> QED
  BY <1>7

\* A segment that begins is a state.
LEMMA NewTurnTyped == \A i \in Ids : NewTurn(i) \in Turn
BY ProgressAssumption DEF NewTurn, Turn, Ids, Tools, Phases, Modes

\* A segment that begins is the turn's first, or follows its last.
LEMMA BeginMeans ==
    ASSUME TypeInv, NEW t \in Turns, Begin(t)
    PROVE  /\ \A k \in DOMAIN states : k[1] = t => Final(k)
           /\ Reuse \/ t \notin begun
           /\ \E n \in 0..MaxSegment :
                 /\ \A k \in DOMAIN states : k[1] = t => k[2] < n
                 /\ states' = [k \in DOMAIN states \union {<<t, n>>} |->
                                 IF Live(k) THEN states[k] ELSE NewTurn(made + 1)]
           /\ made < MaxStates /\ made' = made + 1 /\ begun' = begun \union {t}
           /\ UNCHANGED <<drains, adapter, controls, shown, lost, cancels>>
<1> USE ProgressAssumption
<1> DEFINE mine == {k \in DOMAIN states : k[1] = t}
           segments == {k[2] : k \in mine}
           last == IF mine = {} THEN -1 ELSE CHOOSE n \in {k[2] : k \in mine} :
                                               \A k \in mine : k[2] <= n
<1>1. \A k \in DOMAIN states : k[2] \in 0..MaxSegment
  BY DEF TypeInv, Keys
<1>2. /\ (\A k \in mine : Final(k)) /\ (Reuse \/ t \notin begun)
      /\ last < MaxSegment /\ made < MaxStates
      /\ states' = [k \in DOMAIN states \union {<<t, last + 1>>} |->
                      IF Live(k) THEN states[k] ELSE NewTurn(made + 1)]
      /\ made' = made + 1 /\ begun' = begun \union {t}
      /\ UNCHANGED <<drains, adapter, controls, shown, lost, cancels>>
  BY DEF Begin
<1>3. last \in -1..MaxSegment /\ \A k \in mine : k[2] <= last
  <2>1. CASE mine = {}
    BY <2>1
  <2>2. CASE mine # {}
    <3>1. segments \in SUBSET (0..MaxSegment) /\ segments # {}
      BY <1>1, <2>2
    <3>2. \E n \in segments : \A m \in segments : m <= n
      BY <3>1, HasLast
    <3>3. last \in segments /\ \A k \in mine : k[2] <= last
      BY <2>2, <3>2
    <3> QED
      BY <3>1, <3>3
  <2> QED
    BY <2>1, <2>2
<1> DEFINE n == last + 1
<1>4. n \in 0..MaxSegment /\ \A k \in mine : k[2] < n
  <2> HIDE DEF last
  <2> QED
    BY <1>1, <1>2, <1>3
<1> HIDE DEF last, n
<1>5. states' = [k \in DOMAIN states \union {<<t, n>>} |->
                   IF Live(k) THEN states[k] ELSE NewTurn(made + 1)]
  BY <1>2 DEF n
<1> QED
  BY <1>2, <1>4, <1>5

\* What a rollover makes of the state that has not ended.
Stopped(s) == [s EXCEPT !.phase = "result", !.rev = s.rev + 1, !.due = s.rev + 1]

\* The states when a segment has been added.
Split(new, next) == [j \in DOMAIN states \union {new} |-> IF j = new THEN next ELSE states[j]]

\* And the segment before it has been stopped.
Halted(k, new, next) == [Split(new, next) EXCEPT ![k] = Stopped(states[k])]

\* The segment of the key k, the only one that has not ended, is followed by next.
RolledOver(k, new, next) ==
    /\ new = <<k[1], k[2] + 1>> /\ new \notin DOMAIN states
    /\ \A j \in DOMAIN states : j # k => states[j].phase # "active"
    /\ states[k].phase = "active" /\ (states[k].tools = "real" \/ states[k].msg)
    /\ next = [NewTurn(made + 1) EXCEPT !.mode = states[k].mode]
    /\ \/ ~states[k].msg /\ ~states[k].sending /\ Drop(Split(new, next), {k}, FALSE)
            /\ UNCHANGED drains
       \/ /\ states[k].msg \/ states[k].sending
          /\ Schedule(Halted(k, new, next), k)
    /\ made < MaxStates /\ made' = made + 1
    /\ UNCHANGED <<adapter, shown, begun, cancels>>

\* A rollover drops the last segment that was not sent or halts it, and begins the next.
LEMMA RolloverMeans ==
    ASSUME TInv, RolloverForInbound
    PROVE  \E k \in DOMAIN states, new \in Keys, next \in Turn : RolledOver(k, new, next)
<1> USE ProgressAssumption
<1> DEFINE live == {k \in DOMAIN states : ~Final(k)}
<1>1. PICK k \in live :
           /\ live = {k} /\ k[2] < MaxSegment
           /\ states[k].tools = "real" \/ states[k].msg
           /\ LET new == <<k[1], k[2] + 1>>
                  next == [NewTurn(made + 1) EXCEPT !.mode = states[k].mode]
                  f == [j \in DOMAIN states \union {new} |->
                          IF j = new THEN next ELSE states[j]]
                  stopped == [states[k] EXCEPT !.phase = "result", !.rev = @ + 1,
                                               !.due = states[k].rev + 1]
              IN  IF ~states[k].msg /\ ~states[k].sending
                  THEN Drop(f, {k}, FALSE) /\ UNCHANGED drains
                  ELSE Schedule([f EXCEPT ![k] = stopped], k)
  BY DEF RolloverForInbound
<1>2. made < MaxStates /\ made' = made + 1 /\ UNCHANGED <<adapter, shown, begun, cancels>>
  BY DEF RolloverForInbound
<1> DEFINE new == <<k[1], k[2] + 1>>
           next == [NewTurn(made + 1) EXCEPT !.mode = states[k].mode]
<1>3. k \in DOMAIN states /\ k \in Keys /\ states[k] \in Turn /\ states[k].phase = "active"
  BY <1>1 DEF Final, TInv, TypeInv
<1>4. k[1] \in Turns /\ k[2] \in 0..MaxSegment
  BY <1>3 DEF Keys
<1>5. new \in Keys /\ new[1] = k[1] /\ new[2] = k[2] + 1
  BY <1>1, <1>4 DEF Keys
<1>6. new \notin DOMAIN states
  <2> HIDE DEF new
  <2> QED
    BY <1>3, <1>4, <1>5 DEF TInv, KeysRight, Numbered
<1>7. \A j \in DOMAIN states : j # k => states[j].phase # "active"
  BY <1>1 DEF Final
<1>8. next \in Turn
  <2>1. made + 1 \in Ids
    BY <1>2 DEF TInv, TypeInv, Ids
  <2>2. NewTurn(made + 1) \in Turn /\ states[k].mode \in Modes
    BY <1>3, <2>1, NewTurnTyped DEF Turn
  <2> QED
    BY <2>2 DEF Turn
<1>9. Stopped(states[k]) = [states[k] EXCEPT !.phase = "result", !.rev = @ + 1,
                                             !.due = states[k].rev + 1]
  BY <1>3 DEF Stopped, Turn
<1> DEFINE f == [j \in DOMAIN states \union {new} |-> IF j = new THEN next ELSE states[j]]
<1>10. \/ ~states[k].msg /\ ~states[k].sending /\ Drop(f, {k}, FALSE) /\ UNCHANGED drains
       \/ /\ states[k].msg \/ states[k].sending
          /\ Schedule([f EXCEPT ![k] = Stopped(states[k])], k)
  BY <1>1, <1>9
<1> QED
  BY <1>1, <1>2, <1>3, <1>5, <1>6, <1>7, <1>8, <1>10 DEF RolledOver, Split, Halted

\* A turn that begins keeps the types.
LEMMA BeginTypes ==
    ASSUME TInv, NEW t \in Turns, Begin(t)
    PROVE  TInv'
<1> USE ProgressAssumption
<1>1. PICK n \in 0..MaxSegment :
         /\ \A k \in DOMAIN states : k[1] = t => k[2] < n
         /\ states' = [k \in DOMAIN states \union {<<t, n>>} |->
                         IF Live(k) THEN states[k] ELSE NewTurn(made + 1)]
  BY BeginMeans DEF TInv
<1>2. /\ \A k \in DOMAIN states : k[1] = t => Final(k)
      /\ made < MaxStates /\ made' = made + 1 /\ begun' = begun \union {t}
      /\ UNCHANGED <<drains, adapter, controls, shown, lost, cancels>>
  BY BeginMeans DEF TInv
<1>3. made + 1 \in Ids /\ made \in Nat
  BY <1>2 DEF TInv, TypeInv, Ids
<1>4. NewTurn(made + 1) \in Turn /\ NewTurn(made + 1).id = made + 1
  BY <1>3, NewTurnTyped DEF NewTurn
<1> DEFINE new == <<t, n>>
<1>5. new \in Keys /\ new[1] = t /\ new[2] = n
  BY DEF Keys
<1>6. \A k \in DOMAIN states : k # new /\ k[2] \in Nat /\ states[k] \in Turn
  <2>1. \A k \in DOMAIN states : k[2] \in Nat /\ states[k] \in Turn
    BY DEF TInv, TypeInv, Keys
  <2>2. ASSUME new \in DOMAIN states PROVE FALSE
    BY <1>1, <1>5, <2>1, <2>2
  <2> QED
    BY <2>1, <2>2
<1>7. DOMAIN states' = DOMAIN states \union {new} /\ states'[new] = NewTurn(made + 1)
      /\ \A k \in DOMAIN states : states'[k] = states[k]
  BY <1>1, <1>6 DEF Live
<1> HIDE DEF new
<1>8. KeysRight(states', made + 1)
  <2>1. \A k \in DOMAIN states : states[k].id \in Nat /\ k[2] \in Nat
    BY <1>6 DEF Turn, Ids
  <2>2. \A k \in DOMAIN states : k[1] = new[1] => k[2] <= new[2] /\ states'[k].phase # "active"
    BY <1>1, <1>2, <1>5, <1>6, <1>7 DEF Final
  <2>3. new \notin DOMAIN states /\ new[2] \in Nat /\ states'[new].id = made + 1
    BY <1>4, <1>5, <1>6, <1>7
  <2>4. \A k \in DOMAIN states : states'[k].id = states[k].id
                                 /\ (states'[k].phase = "active" => states[k].phase = "active")
    BY <1>7
  <2>5. KeysRight(states, made)
    BY DEF TInv
  <2> QED
    BY <1>3, <1>7, <2>1, <2>2, <2>3, <2>4, <2>5, KeysExtended
<1>9. DOMAIN states' \subseteq Keys /\ states' \in [DOMAIN states' -> Turn]
  <2>1. \A k \in DOMAIN states' : states'[k] \in Turn
    BY <1>4, <1>6, <1>7
  <2>2. states' = [k \in DOMAIN states' |-> states'[k]]
    BY <1>1
  <2>3. DOMAIN states \subseteq Keys
    BY DEF TInv, TypeInv
  <2> QED
    BY <1>5, <1>7, <2>1, <2>2, <2>3
<1> QED
  BY <1>2, <1>3, <1>8, <1>9 DEF TInv, TypeInv, Ids

\* f is the states with a segment added, g when the one before it has been stopped too:
\* then there is again one of the turn at most that has not ended.
SplitRight(f, g, k, new, next) ==
    /\ Holds(f) /\ Numbered(f, made + 1) /\ Holds(g) /\ KeysRight(g, made + 1)
    /\ DOMAIN f = DOMAIN states \union {new} /\ f[new] = next
    /\ \A j \in DOMAIN states : f[j] = states[j]
    /\ DOMAIN g = DOMAIN f
    /\ \A j \in DOMAIN f : j # k => g[j] = f[j]
    /\ Stopped(states[k]) \in Turn /\ made \in Nat /\ made + 1 \in Ids

\* The states with the next segment, and with the last one halted, are states.
LEMMA SplitHolds ==
    ASSUME TInv, NEW k \in DOMAIN states, NEW new \in Keys, NEW next \in Turn,
           RolledOver(k, new, next)
    PROVE  SplitRight(Split(new, next), Halted(k, new, next), k, new, next)
<1> USE ProgressAssumption
<1> DEFINE f == Split(new, next)
           g == Halted(k, new, next)
<1>1. /\ new = <<k[1], k[2] + 1>> /\ new \notin DOMAIN states
      /\ \A j \in DOMAIN states : j # k => states[j].phase # "active"
      /\ states[k].phase = "active"
      /\ next = [NewTurn(made + 1) EXCEPT !.mode = states[k].mode]
      /\ made < MaxStates
  BY DEF RolledOver
<1> DEFINE stopped == Stopped(states[k])
<1>2. /\ \A j \in DOMAIN states : states[j] \in Turn /\ j \in Keys /\ j # new
      /\ made \in Nat /\ made + 1 \in Ids
  <2>1. made < MaxStates
    BY <1>1
  <2>2. \A j \in DOMAIN states : states[j] \in Turn /\ j \in Keys
    BY DEF TInv, TypeInv
  <2>3. \A j \in DOMAIN states : j # new
    BY <1>1
  <2>4. made \in Nat /\ made + 1 \in Ids
    BY <2>1 DEF TInv, TypeInv, Ids
  <2> QED
    BY <2>2, <2>3, <2>4
<1>3. stopped \in Turn /\ stopped.id = states[k].id /\ stopped.phase = "result"
  <2> DEFINE o == states[k]
             m == o.rev + 1
  <2>1. o \in Turn /\ m \in Nat
    BY <1>2 DEF Turn
  <2>2. stopped = [o EXCEPT !.phase = "result", !.rev = m, !.due = m]
    BY DEF Stopped
  <2> HIDE DEF o, m, stopped
  <2>3. stopped \in Turn /\ stopped.id = o.id /\ stopped.phase = "result"
    BY <2>1, <2>2 DEF Turn, Phases
  <2> QED
    BY <2>3 DEF o
<1>4. next.id = made + 1
  BY <1>1 DEF NewTurn
<1> HIDE DEF stopped
<1>5. /\ Holds(f) /\ DOMAIN f = DOMAIN states \union {new}
      /\ \A j \in DOMAIN states : f[j] = states[j]
  BY <1>2 DEF Holds, Split
<1>6. f[new] = next
  BY DEF Split
<1>7. /\ Holds(g) /\ DOMAIN g = DOMAIN states \union {new}
      /\ g[k] = stopped /\ g[new] = next
      /\ \A j \in DOMAIN states : j # k => g[j] = states[j]
  <2>1. g = [f EXCEPT ![k] = stopped]
    BY DEF Halted, stopped
  <2> HIDE DEF f, g
  <2> QED
    BY <1>2, <1>3, <1>5, <1>6, <2>1 DEF Holds
<1> HIDE DEF f, g
<1>8. KeysRight(g, made + 1)
  <2>1. \A j \in DOMAIN states : states[j].id \in Nat /\ j[2] \in Nat
    BY <1>2 DEF Turn, Ids, Keys
  <2>2. new[1] = k[1] /\ new[2] = k[2] + 1 /\ new[2] \in Nat
    BY <1>1, <2>1
  <2>3. KeysRight(states, made)
    BY DEF TInv
  <2>4. \A j \in DOMAIN states : j[1] = new[1] => j[2] <= new[2] /\ g[j].phase # "active"
    BY <1>1, <1>3, <1>7, <2>1, <2>2, <2>3 DEF KeysRight, Numbered
  <2>5. new \notin DOMAIN states /\ g[new].id = made + 1
    BY <1>2, <1>4, <1>7
  <2>6. \A j \in DOMAIN states : g[j].id = states[j].id
                                 /\ (g[j].phase = "active" => states[j].phase = "active")
    BY <1>3, <1>7
  <2>7. DOMAIN g = DOMAIN states \union {new} /\ made \in Nat
    BY <1>2, <1>7
  <2> QED
    BY <2>1, <2>2, <2>3, <2>4, <2>5, <2>6, <2>7, KeysExtended
<1>9. Numbered(f, made + 1)
  <2>1. \A j \in DOMAIN f : f[j].id = g[j].id
    BY <1>3, <1>5, <1>6, <1>7
  <2> QED
    BY <1>5, <1>7, <1>8, <2>1 DEF KeysRight, Numbered
<1> QED
  BY <1>2, <1>3, <1>5, <1>6, <1>7, <1>8, <1>9 DEF stopped, f, g, SplitRight

\* A rollover keeps the types.
LEMMA RolloverTypes ==
    ASSUME TInv, RolloverForInbound
    PROVE  TInv'
<1>1. PICK k \in DOMAIN states, new \in Keys, next \in Turn : RolledOver(k, new, next)
  BY RolloverMeans
<1> DEFINE f == Split(new, next)
           g == Halted(k, new, next)
<1>2. /\ Holds(f) /\ Holds(g) /\ KeysRight(g, made + 1)
      /\ DOMAIN g = DOMAIN f /\ (\A j \in DOMAIN f : j # k => g[j] = f[j])
      /\ k \in DOMAIN f /\ made \in Nat /\ made + 1 \in Ids
  <2>1. SplitRight(f, g, k, new, next)
    BY <1>1, SplitHolds
  <2> HIDE DEF f, g
  <2> QED
    BY <2>1 DEF SplitRight
<1>3. /\ \/ (Drop(f, {k}, TRUE) \/ Drop(f, {k}, FALSE)) /\ UNCHANGED drains
         \/ Schedule(g, k)
      /\ made' = made + 1 /\ UNCHANGED <<adapter, shown, begun, cancels>>
  BY <1>1 DEF RolledOver
<1> HIDE DEF f, g
<1>4. /\ Holds(states') /\ DOMAIN states' \subseteq DOMAIN g
      /\ \A j \in DOMAIN states' : states'[j].id = g[j].id /\ states'[j].phase = g[j].phase
      /\ drains' \in [Drains -> DrainOf]
      /\ controls' \in [Ids -> {"none", "stop", "retry"}] /\ lost' \subseteq Ids
  <2>1. CASE (Drop(f, {k}, TRUE) \/ Drop(f, {k}, FALSE)) /\ UNCHANGED drains
    <3>1. /\ DOMAIN states' = DOMAIN f \ {k} /\ \A j \in DOMAIN states' : states'[j] = f[j]
          /\ Holds(states')
          /\ controls' \in [Ids -> {"none", "stop", "retry"}] /\ lost' \subseteq Ids
      BY <1>2, <2>1, DropMeans DEF TInv, Dropped
    <3>2. drains' \in [Drains -> DrainOf]
      BY <2>1 DEF TInv, TypeInv
    <3> QED
      BY <1>2, <3>1, <3>2
  <2>2. CASE Schedule(g, k)
    BY <1>2, <2>2, ScheduleTypes DEF TInv
  <2> QED
    BY <1>3, <2>1, <2>2
<1>5. KeysRight(states', made + 1)
  BY <1>2, <1>4, KeysKept
<1> QED
  BY <1>2, <1>3, <1>4, <1>5 DEF TInv, TypeInv, Holds, Ids

\* The states that are left have not changed.
LEMMA DropTypes ==
    ASSUME TInv, NEW K, Drop(states, K, TRUE) \/ Drop(states, K, FALSE),
           UNCHANGED <<shown, made, begun>>,
           drains' \in [Drains -> DrainOf], adapter' \in {"up", "closing", "down"},
           cancels' \in 0..MaxCancels
    PROVE  TInv'
<1>1. Holds(states)
  BY DEF TInv, TypeInv, Holds
<1>2. /\ DOMAIN states' = DOMAIN states \ K /\ \A k \in DOMAIN states' : states'[k] = states[k]
      /\ Holds(states')
      /\ controls' \in [Ids -> {"none", "stop", "retry"}] /\ lost' \subseteq Ids
  BY <1>1, DropMeans DEF TInv, Dropped
<1>3. KeysRight(states', made)
  BY <1>2, KeysKept DEF TInv
<1> QED
  BY <1>2, <1>3 DEF TInv, TypeInv, Holds

\* A state that is replaced in place.
LEMMA ReplaceTypes ==
    ASSUME TInv, NEW k \in DOMAIN states, NEW s \in Turn, s.id = states[k].id,
           s.phase = "active" => states[k].phase = "active",
           states' = [states EXCEPT ![k] = s],
           controls' \in [Ids -> {"none", "stop", "retry"}],
           UNCHANGED <<lost, shown, made, begun, adapter, cancels>>,
           drains' \in [Drains -> DrainOf]
    PROVE  TInv'
<1>1. Holds(states') /\ KeysRight(states', made)
  BY ReplacedHolds
<1> QED
  BY <1>1 DEF TInv, TypeInv, Holds

\* What the adapter drops and resets keeps the types.
LEMMA AdapterTypes ==
    ASSUME TInv, CancelSession \/ Disconnect \/ TakenDown \/ ConnectAgain \/ ResetIdentity
    PROVE  TInv'
<1> USE ProgressAssumption
<1>1. CASE CancelSession
  <2>1. /\ cancels' \in 0..MaxCancels /\ drains' \in [Drains -> DrainOf]
        /\ adapter' \in {"up", "closing", "down"}
    BY <1>1 DEF CancelSession, TInv, TypeInv
  <2> QED
    BY <1>1, <2>1, DropTypes DEF CancelSession
<1>2. CASE Disconnect \/ ConnectAgain
  <2>1. UNCHANGED <<states, drains, controls, shown, made, lost, begun>>
    BY <1>2 DEF Disconnect, ConnectAgain
  <2>2. cancels' \in 0..MaxCancels /\ adapter' \in {"up", "closing", "down"}
    BY <1>2 DEF Disconnect, ConnectAgain, TInv, TypeInv
  <2> QED
    BY <2>1, <2>2 DEF TInv, TypeInv
<1>3. CASE TakenDown
  <2>1. \A d \in Drains : (IF Active(d) THEN Off ELSE drains[d]) \in DrainOf
    BY DEF TInv, TypeInv, DrainOf
  <2>2. drains' \in [Drains -> DrainOf]
    BY <1>3, <2>1 DEF TakenDown, CancelAll
  <2>3. cancels' \in 0..MaxCancels /\ adapter' \in {"up", "closing", "down"}
    BY <1>3 DEF TakenDown, TInv, TypeInv
  <2> QED
    BY <1>3, <2>2, <2>3, DropTypes DEF TakenDown, CancelAll
<1>4. CASE ResetIdentity
  <2>1. \A d \in Drains : (IF Active(d) THEN Off ELSE drains[d]) \in DrainOf
    BY DEF TInv, TypeInv, DrainOf
  <2>2. drains' \in [Drains -> DrainOf]
    BY <1>4, <2>1 DEF ResetIdentity
  <2>3. cancels' \in 0..MaxCancels /\ adapter' \in {"up", "closing", "down"}
    BY <1>4 DEF ResetIdentity, TInv, TypeInv
  <2>4. DOMAIN states' = {} /\ states' \in [DOMAIN states' -> Turn]
    BY <1>4 DEF ResetIdentity, Restrict
  <2>5. lost' \subseteq Ids
    BY <1>4 DEF ResetIdentity, TInv, TypeInv, Range, Turn
  <2>6. controls' \in [Ids -> {"none", "stop", "retry"}]
    BY <1>4 DEF ResetIdentity
  <2>7. KeysRight(states', made)
    BY <2>4 DEF KeysRight, Numbered
  <2>8. UNCHANGED <<shown, made, begun>>
    BY <1>4 DEF ResetIdentity
  <2> QED
    BY <2>2, <2>3, <2>4, <2>5, <2>6, <2>7, <2>8 DEF TInv, TypeInv
<1> QED
  BY <1>1, <1>2, <1>3, <1>4

-----------------------------------------------------------------------------
(* What a drain leaves.                                                    *)

\* A drain that goes on as a drain.
LEMMA MovesTyped ==
    ASSUME TypeInv, NEW d \in Drains, NEW w \in DrainOf, drains' = [drains EXCEPT ![d] = w]
    PROVE  drains' \in [Drains -> DrainOf]
BY DEF TypeInv

\* A drain that ends.
LEMMA EndsTyped ==
    ASSUME TypeInv, NEW d \in Drains, Ends(d)
    PROVE  drains' \in [Drains -> DrainOf]
BY MovesTyped DEF Ends, DrainOf

\* A drain that goes on from a step to another has what it had.
LEMMA GoesMeans ==
    ASSUME TypeInv, NEW d \in Drains, drains[d] \in Long, NEW pc \in Working, Goes(d, pc)
    PROVE  /\ [drains[d] EXCEPT !.pc = pc] \in Long
           /\ drains' = [drains EXCEPT ![d] = [drains[d] EXCEPT !.pc = pc]]
           /\ drains' \in [Drains -> DrainOf]
<1>1. [drains[d] EXCEPT !.pc = pc] \in Long
  BY DEF Long
<1>2. drains' = [drains EXCEPT ![d] = [drains[d] EXCEPT !.pc = pc]]
  BY DEF Goes, TypeInv
<1> QED
  BY <1>1, <1>2, MovesTyped DEF DrainOf

\* Only drains have changed.
LEMMA DrainOnlyTypes ==
    ASSUME TInv, Leaves, Drained, drains' \in [Drains -> DrainOf],
           shown' \in [Ids -> [seq : Nat \union {-1}, rev : Nat, phase : Phases]]
    PROVE  TInv'
BY DEF Leaves, Drained, TInv, TypeInv

\* A drain that gives its state up keeps the types.
LEMMA GivesUpTypes ==
    ASSUME TInv, NEW d \in Drains, GivesUp(d), Drained, UNCHANGED shown
    PROVE  TInv'
<1>1. drains' \in [Drains -> DrainOf]
  BY EndsTyped DEF GivesUp, TInv
<1>2. adapter' \in {"up", "closing", "down"} /\ cancels' \in 0..MaxCancels
  BY DEF Drained, TInv, TypeInv
<1> QED
  BY <1>1, <1>2, DropTypes DEF GivesUp, Drained

\* A task that is created keeps the types.
LEMMA SpawnedTypes ==
    ASSUME TInv, NEW d \in Drains, Spawned(d)
    PROVE  TInv'
<1>1. drains[d].key \in Keys
  BY DrainShape DEF Spawned, TInv, TypeInv, Off
<1>2. [pc |-> "read", key |-> Now(d), exhausted |-> 0] \in DrainOf
  BY <1>1 DEF DrainOf, Now
<1>3. drains' \in [Drains -> DrainOf]
  BY <1>2, MovesTyped, EndsTyped DEF Spawned, TInv
<1> QED
  BY <1>3, DrainOnlyTypes DEF Spawned, TInv, TypeInv

\* The ways a drain looks at its state.
LEMMA ReadsMeans ==
    ASSUME TypeInv, NEW d \in Drains, Reads(d)
    PROVE  /\ drains[d] \in DrainOf /\ drains[d].pc = "read" /\ drains[d].key \in Keys
           /\ Drained /\ UNCHANGED shown
           /\ \/ ~Live(drains[d].key) /\ Ends(d) /\ Leaves
              \/ Live(drains[d].key) /\ adapter # "up" /\ GivesUp(d)
              \/ /\ Live(drains[d].key) /\ adapter = "up" /\ Leaves
                 /\ \E w \in Long :
                       /\ w.pc = "act" /\ w.key = drains[d].key /\ w.saw = states[w.key]
                       /\ drains' = [drains EXCEPT ![d] = w]
<1>1. drains[d] \in DrainOf /\ drains[d].pc = "read" /\ drains[d].key \in Keys
        /\ drains[d].exhausted \in Nat
  BY DrainShape DEF Reads, TypeInv, Off
<1>2. CASE Live(Now(d)) /\ adapter = "up" /\ Leaves
           /\ drains' = [drains EXCEPT ![d] =
                 [pc |-> "act", key |-> Now(d), saw |-> states[Now(d)],
                  tries |-> 0, exhausted |-> drains[d].exhausted]]
  <2> DEFINE w == [pc |-> "act", key |-> Now(d), saw |-> states[Now(d)],
                   tries |-> 0, exhausted |-> drains[d].exhausted]
  <2>1. states[Now(d)] \in Turn
    BY <1>2 DEF Live, TypeInv
  <2>2. w \in Long
    BY <1>1, <2>1 DEF Long, Working, Now
  <2> QED
    BY <1>1, <1>2, <2>2 DEF Now, Reads
<1> QED
  BY <1>1, <1>2 DEF Reads, Now

\* They keep the types.
LEMMA ReadsTypes ==
    ASSUME TInv, NEW d \in Drains, Reads(d)
    PROVE  TInv'
<1>1. TypeInv
  BY DEF TInv
<1>2. CASE GivesUp(d)
  BY <1>1, <1>2, ReadsMeans, GivesUpTypes
<1>3. CASE Leaves /\ Ends(d)
  BY <1>1, <1>3, ReadsMeans, EndsTyped, DrainOnlyTypes DEF TypeInv
<1>4. CASE Leaves /\ \E w \in Long : drains' = [drains EXCEPT ![d] = w]
  <2>1. drains' \in [Drains -> DrainOf]
    BY <1>1, <1>4, MovesTyped DEF DrainOf
  <2> QED
    BY <1>1, <1>4, <2>1, ReadsMeans, DrainOnlyTypes DEF TypeInv
<1> QED
  BY <1>1, <1>2, <1>3, <1>4, ReadsMeans

\* A drain that is past its look at the state knows what it saw.
LEMMA LongWhenReading ==
    ASSUME TypeInv, NEW d \in Drains, drains[d].pc \in Working \ {"read"}
    PROVE  drains[d] \in Long /\ drains[d].key \in Keys /\ drains[d].saw \in Turn
BY DrainShape DEF TypeInv, Long

\* The ways a drain goes on with what it saw.
LEMMA ActsMeans ==
    ASSUME TypeInv, NEW d \in Drains, Acts(d)
    PROVE  /\ drains[d] \in Long /\ drains[d].pc = "act"
           /\ Drained /\ UNCHANGED shown
           /\ LET w == drains[d]
                  k == w.key
              IN  \/ w.saw.mode = "none" /\ Goes(d, "profile") /\ Leaves
                  \/ w.saw.mode # "none" /\ w.saw.msg /\ Goes(d, "edit") /\ Leaves
                  \/ (Blank(w.saw) \/ ~w.saw.msg) /\ ~Same(d) /\ Ends(d) /\ Leaves
                  \/ /\ w.saw.mode # "none" /\ ~w.saw.msg /\ Same(d) /\ Goes(d, "send")
                     /\ Becomes([states EXCEPT ![k].sending = TRUE])
                  \/ /\ w.saw.mode # "none" /\ Blank(w.saw) /\ Same(d) /\ Ends(d)
                     /\ \/ Drop(states, {k}, TRUE)
                        \/ Becomes([states EXCEPT ![k].scheduled = FALSE])
<1>1. drains[d].pc = "act" /\ drains[d].pc \in Working \ {"read"}
  BY DEF Acts, Working
<1>2. drains[d] \in Long
  BY <1>1, LongWhenReading
<1> QED
  BY <1>1, <1>2 DEF Acts, Now

\* One field of a state that is set.
LEMMA SetsSending ==
    ASSUME TypeInv, NEW k \in DOMAIN states
    PROVE  \E s \in Turn :
              /\ [states EXCEPT ![k].sending = TRUE] = [states EXCEPT ![k] = s]
              /\ s = [states[k] EXCEPT !.sending = TRUE]
              /\ s.id = states[k].id /\ s.phase = states[k].phase
<1> DEFINE o == states[k]
           s == [o EXCEPT !.sending = TRUE]
<1>1. o \in Turn
  BY DEF TypeInv
<1>2. s \in Turn /\ s.id = o.id /\ s.phase = o.phase
  BY <1>1 DEF Turn
<1>3. [states EXCEPT ![k].sending = TRUE] = [states EXCEPT ![k] = s]
  BY DEF TypeInv
<1> QED
  BY <1>2, <1>3

\* A state whose drain ends is not scheduled any more.
LEMMA ClearsScheduled ==
    ASSUME TypeInv, NEW k \in DOMAIN states
    PROVE  \E s \in Turn :
              /\ [states EXCEPT ![k].scheduled = FALSE] = [states EXCEPT ![k] = s]
              /\ s.id = states[k].id /\ s.phase = states[k].phase
<1> DEFINE o == states[k]
           s == [o EXCEPT !.scheduled = FALSE]
<1>1. o \in Turn
  BY DEF TypeInv
<1>2. s \in Turn /\ s.id = o.id /\ s.phase = o.phase
  BY <1>1 DEF Turn
<1>3. [states EXCEPT ![k].scheduled = FALSE] = [states EXCEPT ![k] = s]
  BY DEF TypeInv
<1> QED
  BY <1>2, <1>3

\* A drain that goes on keeps the types.
LEMMA ActsTypes ==
    ASSUME TInv, NEW d \in Drains, Acts(d)
    PROVE  TInv'
<1> DEFINE w == drains[d]
           k == w.key
<1>1. TypeInv /\ w \in Long /\ Drained /\ UNCHANGED shown
  BY ActsMeans DEF TInv
<1>2. CASE (Goes(d, "profile") \/ Goes(d, "edit")) /\ Leaves
  <2>1. drains' \in [Drains -> DrainOf]
    BY <1>1, <1>2, GoesMeans DEF Working
  <2> QED
    BY <1>1, <1>2, <2>1, DrainOnlyTypes DEF TypeInv
<1>3. CASE Ends(d) /\ Leaves
  BY <1>1, <1>3, EndsTyped, DrainOnlyTypes DEF TypeInv
<1>4. CASE Same(d) /\ Goes(d, "send") /\ Becomes([states EXCEPT ![k].sending = TRUE])
  <2>1. drains' \in [Drains -> DrainOf]
    BY <1>1, <1>4, GoesMeans DEF Working
  <2>2. k \in DOMAIN states
    BY <1>4 DEF Same, Live, Now
  <2>3. PICK s \in Turn : /\ [states EXCEPT ![k].sending = TRUE] = [states EXCEPT ![k] = s]
                          /\ s.id = states[k].id /\ s.phase = states[k].phase
    BY <1>1, <2>2, SetsSending
  <2>4. states' = [states EXCEPT ![k] = s] /\ controls' = controls /\ lost' = lost
    BY <1>4, <2>3 DEF Becomes
  <2> HIDE DEF k, w
  <2>5. controls' \in [Ids -> {"none", "stop", "retry"}]
    BY <1>1, <2>4 DEF TypeInv
  <2> QED
    BY <1>1, <2>1, <2>2, <2>3, <2>4, <2>5, ReplaceTypes DEF Drained
<1>5. CASE Same(d) /\ Ends(d) /\ Drop(states, {k}, TRUE)
  <2>1. GivesUp(d)
    BY <1>5 DEF GivesUp, Now
  <2> QED
    BY <1>1, <2>1, GivesUpTypes
<1>6. CASE Same(d) /\ Ends(d) /\ Becomes([states EXCEPT ![k].scheduled = FALSE])
  <2>1. drains' \in [Drains -> DrainOf]
    BY <1>1, <1>6, EndsTyped
  <2>2. k \in DOMAIN states
    BY <1>6 DEF Same, Live, Now
  <2>3. PICK s \in Turn : /\ [states EXCEPT ![k].scheduled = FALSE] = [states EXCEPT ![k] = s]
                          /\ s.id = states[k].id /\ s.phase = states[k].phase
    BY <1>1, <2>2, ClearsScheduled
  <2>4. states' = [states EXCEPT ![k] = s] /\ controls' = controls /\ lost' = lost
    BY <1>6, <2>3 DEF Becomes
  <2> HIDE DEF k, w
  <2>5. controls' \in [Ids -> {"none", "stop", "retry"}]
    BY <1>1, <2>4 DEF TypeInv
  <2> QED
    BY <1>1, <2>1, <2>2, <2>3, <2>4, <2>5, ReplaceTypes DEF Drained
<1> QED
  BY <1>1, <1>2, <1>3, <1>4, <1>5, <1>6, ActsMeans

\* The profile that the server answers with sets the mode, once.
LEMMA ProfileMeans ==
    ASSUME TypeInv, NEW d \in Drains, ProfileAnswers(d)
    PROVE  /\ drains[d] \in Long /\ drains[d].pc = "profile"
           /\ Drained /\ UNCHANGED shown
           /\ LET w == drains[d]
                  k == w.key
              IN  \/ GivesUp(d)
                  \/ ~Same(d) /\ Ends(d) /\ Leaves
                  \/ /\ Same(d) /\ Goes(d, "read") /\ UNCHANGED <<controls, lost>>
                     /\ \E m \in {"card", "registry"}, s \in Turn :
                           /\ states' = [states EXCEPT ![k] = s]
                           /\ s = [states[k] EXCEPT !.mode = m, !.stop = (m = "registry")]
                           /\ s.id = states[k].id /\ s.phase = states[k].phase
<1>1. drains[d].pc = "profile" /\ drains[d].pc \in Working \ {"read"}
  BY DEF ProfileAnswers, Working
<1>2. drains[d] \in Long
  BY <1>1, LongWhenReading
<1> DEFINE k == drains[d].key
<1>3. ASSUME Same(d), NEW m \in {"card", "registry"},
             Becomes([states EXCEPT ![Now(d)].mode = m, ![Now(d)].stop = (m = "registry")])
      PROVE  /\ UNCHANGED <<controls, lost>>
             /\ \E s \in Turn :
                   /\ states' = [states EXCEPT ![k] = s]
                   /\ s = [states[k] EXCEPT !.mode = m, !.stop = (m = "registry")]
                   /\ s.id = states[k].id /\ s.phase = states[k].phase
  <2> DEFINE o == states[k]
             s == [o EXCEPT !.mode = m, !.stop = (m = "registry")]
  <2>1. k \in DOMAIN states /\ o \in Turn
    BY <1>3 DEF Same, Live, Now, TypeInv
  <2>2. s \in Turn /\ s.id = o.id /\ s.phase = o.phase
    BY <2>1 DEF Turn, Modes
  <2>3. states' = [states EXCEPT ![k] = s]
    BY <1>3, <2>1 DEF Becomes, Now, TypeInv
  <2>4. UNCHANGED <<controls, lost>>
    BY <1>3 DEF Becomes
  <2> QED
    BY <2>2, <2>3, <2>4
<1> QED
  BY <1>1, <1>2, <1>3 DEF ProfileAnswers

\* The answer of the server to a question for its profile keeps the types.
LEMMA ProfileTypes ==
    ASSUME TInv, NEW d \in Drains, ProfileAnswers(d)
    PROVE  TInv'
<1> DEFINE w == drains[d]
           k == w.key
<1>1. TypeInv /\ w \in Long /\ Drained /\ UNCHANGED shown
  BY ProfileMeans DEF TInv
<1>2. CASE GivesUp(d)
  BY <1>1, <1>2, GivesUpTypes
<1>3. CASE Ends(d) /\ Leaves
  BY <1>1, <1>3, EndsTyped, DrainOnlyTypes DEF TypeInv
<1>4. ASSUME Same(d), Goes(d, "read"), UNCHANGED <<controls, lost>>, NEW s \in Turn,
             states' = [states EXCEPT ![k] = s], s.id = states[k].id, s.phase = states[k].phase
      PROVE  TInv'
  <2>1. drains' \in [Drains -> DrainOf]
    BY <1>1, <1>4, GoesMeans DEF Working
  <2>2. k \in DOMAIN states
    BY <1>4 DEF Same, Live, Now
  <2> HIDE DEF k, w
  <2>3. controls' \in [Ids -> {"none", "stop", "retry"}]
    BY <1>1, <1>4 DEF TypeInv
  <2> QED
    BY <1>1, <1>4, <2>1, <2>2, <2>3, ReplaceTypes DEF Drained
<1> QED
  BY <1>1, <1>2, <1>3, <1>4, ProfileMeans

\* What the server holds of a card after a request of the drain w.
Told(w) == [seq |-> IF w.pc = "send" THEN 0 ELSE w.saw.seq + 1, rev |-> w.saw.rev,
            phase |-> w.saw.phase]

\* The server takes a card or an edit that is not behind what it has.
LEMMA ServerMeans ==
    ASSUME TypeInv, NEW d \in Drains, ServerTakes(d)
    PROVE  LET w == drains[d]
           IN  /\ w \in Long /\ w.pc \in {"send", "edit"} /\ w.saw.id \in Ids
               /\ Told(w) \in [seq : Nat \union {-1}, rev : Nat, phase : Phases]
               /\ \/ Told(w).seq < shown[w.saw.id].seq /\ shown' = shown
                  \/ ~(Told(w).seq < shown[w.saw.id].seq)
                       /\ shown' = [shown EXCEPT ![w.saw.id] = Told(w)]
               /\ Goes(d, IF w.pc = "send" THEN "sent" ELSE "edited")
               /\ Leaves /\ Drained
<1>1. drains[d].pc \in {"send", "edit"} /\ drains[d].pc \in Working \ {"read"}
  BY DEF ServerTakes, Working
<1>2. drains[d] \in Long /\ drains[d].saw \in Turn
  BY <1>1, LongWhenReading
<1>3. /\ drains[d].saw.id \in Ids /\ drains[d].saw.rev \in Nat /\ drains[d].saw.seq \in Nat
      /\ drains[d].saw.phase \in Phases
  BY <1>2 DEF Turn
<1>4. Told(drains[d]) \in [seq : Nat \union {-1}, rev : Nat, phase : Phases]
  BY <1>3 DEF Told
<1> QED
  BY <1>1, <1>2, <1>3, <1>4 DEF ServerTakes, Told

\* What the server takes keeps the types.
LEMMA ServerTypes ==
    ASSUME TInv, NEW d \in Drains, ServerTakes(d)
    PROVE  TInv'
<1> DEFINE w == drains[d]
<1>1. /\ TypeInv /\ w \in Long /\ Leaves /\ Drained
      /\ Told(w) \in [seq : Nat \union {-1}, rev : Nat, phase : Phases]
      /\ shown' = shown \/ shown' = [shown EXCEPT ![w.saw.id] = Told(w)]
      /\ Goes(d, IF w.pc = "send" THEN "sent" ELSE "edited")
  BY ServerMeans DEF TInv
<1>2. drains' \in [Drains -> DrainOf]
  BY <1>1, GoesMeans DEF Working
<1> HIDE DEF w
<1>3. shown' \in [Ids -> [seq : Nat \union {-1}, rev : Nat, phase : Phases]]
  BY <1>1 DEF TypeInv
<1> QED
  BY <1>1, <1>2, <1>3, DrainOnlyTypes

\* What is left of the state s when it is shown as the drain saw it: an action a, and
\* what next has become of it, unless it is final and went.
Settles(d, s, registers, e) ==
    LET w == drains[d]
        same == s.rev = w.saw.rev
    IN  \E a \in {"none", "stop", "retry"}, kept \in BOOLEAN, next \in Turn :
          /\ \/ registers /\ <<a, kept>> \in Synced(s, w.saw.phase)
             \/ ~registers /\ a = controls[s.id] /\ kept = s.keep
          /\ next = [s EXCEPT !.keep = kept, !.scheduled = ~same]
          /\ next.id = s.id /\ next.phase = s.phase
          /\ \/ /\ same /\ s.phase # "active"
                /\ states' = Restrict(states, DOMAIN states \ {w.key})
                /\ controls' = [controls EXCEPT ![s.id] =
                                  IF s.mode = "registry" /\ ~kept THEN "none" ELSE a]
             \/ /\ ~(same /\ s.phase # "active")
                /\ states' = [states EXCEPT ![w.key] = next]
                /\ controls' = [controls EXCEPT ![s.id] = a]
          /\ \/ same /\ drains' = [drains EXCEPT ![d] = Off]
             \/ ~same /\ drains' = [drains EXCEPT ![d] =
                                       [pc |-> "read", key |-> w.key, exhausted |-> e]]
          /\ UNCHANGED lost

\* What Shown does, with its choice named.
LEMMA ShownMeans ==
    ASSUME TypeInv, NEW d \in Drains, drains[d] \in Long, NEW s \in Turn, NEW e \in Nat,
           NEW registers \in BOOLEAN, Shown(d, s, registers, e)
    PROVE  Settles(d, s, registers, e)
<1> DEFINE w == drains[d]
           same == s.rev = w.saw.rev
           R == IF registers THEN Synced(s, w.saw.phase) ELSE {<<controls[s.id], s.keep>>}
<1>1. PICK r \in R :
         LET next == [s EXCEPT !.keep = r[2], !.scheduled = ~same]
         IN  /\ IF same /\ s.phase # "active"
                THEN /\ states' = Restrict(states, DOMAIN states \ {w.key})
                     /\ controls' = [controls EXCEPT ![s.id] =
                                       IF s.mode = "registry" /\ ~next.keep THEN "none" ELSE r[1]]
                ELSE /\ states' = [states EXCEPT ![w.key] = next]
                     /\ controls' = [controls EXCEPT ![s.id] = r[1]]
             /\ drains' = [drains EXCEPT ![d] =
                  IF same THEN Off ELSE [pc |-> "read", key |-> w.key, exhausted |-> e]]
             /\ UNCHANGED lost
  BY DEF Shown, Now
<1>2. s.id \in Ids /\ s.keep \in BOOLEAN /\ controls[s.id] \in {"none", "stop", "retry"}
  BY DEF Turn, TypeInv
<1>3. PICK a \in {"none", "stop", "retry"}, kept \in BOOLEAN : r = <<a, kept>>
  BY <1>1, <1>2 DEF Synced, Control
<1>4. \/ registers /\ <<a, kept>> \in Synced(s, w.saw.phase)
      \/ ~registers /\ a = controls[s.id] /\ kept = s.keep
  BY <1>1, <1>3
<1> DEFINE next == [s EXCEPT !.keep = kept, !.scheduled = ~same]
<1>5. next \in Turn /\ next.id = s.id /\ next.phase = s.phase /\ next.keep = kept
  BY DEF Turn
<1>6. r[1] = a /\ r[2] = kept
  BY <1>3
<1> HIDE DEF w, R
<1> QED
  BY <1>1, <1>4, <1>5, <1>6 DEF w, Settles

\* It keeps the types.
LEMMA ShownTypes ==
    ASSUME TInv, NEW d \in Drains, drains[d] \in Long, Live(drains[d].key), NEW s \in Turn,
           s.id = states[drains[d].key].id, s.phase = states[drains[d].key].phase, NEW e \in Nat,
           NEW registers \in BOOLEAN, Shown(d, s, registers, e), Drained, UNCHANGED shown
    PROVE  TInv'
<1> DEFINE w == drains[d]
           k == w.key
           same == s.rev = w.saw.rev
<1>1. PICK a \in {"none", "stop", "retry"}, kept \in BOOLEAN, next \in Turn :
         /\ next.id = s.id /\ next.phase = s.phase
         /\ \/ /\ same /\ s.phase # "active"
               /\ states' = Restrict(states, DOMAIN states \ {k})
               /\ controls' = [controls EXCEPT ![s.id] =
                                 IF s.mode = "registry" /\ ~kept THEN "none" ELSE a]
            \/ /\ ~(same /\ s.phase # "active")
               /\ states' = [states EXCEPT ![k] = next]
               /\ controls' = [controls EXCEPT ![s.id] = a]
         /\ \/ same /\ drains' = [drains EXCEPT ![d] = Off]
            \/ ~same /\ drains' = [drains EXCEPT ![d] =
                                      [pc |-> "read", key |-> k, exhausted |-> e]]
         /\ UNCHANGED lost
  <2>1. Settles(d, s, registers, e)
    BY ShownMeans DEF TInv
  <2> QED
    BY <2>1 DEF Settles
<1>2. TypeInv /\ k \in DOMAIN states /\ k \in Keys
  BY LongWhenReading DEF TInv, TypeInv, Live, Long
<1>3. drains' \in [Drains -> DrainOf]
  <2>1. [pc |-> "read", key |-> k, exhausted |-> e] \in DrainOf /\ Off \in DrainOf
    BY <1>2 DEF DrainOf
  <2> QED
    BY <1>1, <1>2, <2>1, MovesTyped
<1>4. controls' \in [Ids -> {"none", "stop", "retry"}]
  <2> HIDE DEF w, k, same
  <2> QED
    BY <1>1, <1>2 DEF TypeInv
<1>5. CASE states' = Restrict(states, DOMAIN states \ {k})
  <2>1. /\ DOMAIN states' = DOMAIN states \ {k}
        /\ \A j \in DOMAIN states' : states'[j] = states[j]
        /\ Holds(states')
    BY <1>2, <1>5 DEF Restrict, Holds, TypeInv
  <2>2. KeysRight(states', made)
    BY <2>1, KeysKept DEF TInv
  <2> QED
    BY <1>1, <1>2, <1>3, <1>4, <2>1, <2>2 DEF TInv, TypeInv, Holds, Drained
<1>6. CASE states' = [states EXCEPT ![k] = next]
  <2>1. UNCHANGED <<lost, shown, made, begun, adapter, cancels>>
    BY <1>1 DEF Drained
  <2>2. next.id = states[k].id /\ next.phase = states[k].phase
    BY <1>1
  <2> HIDE DEF k, w
  <2> QED
    BY <1>2, <1>3, <1>4, <1>6, <2>1, <2>2, ReplaceTypes
<1> QED
  BY <1>1, <1>5, <1>6

\* A send or an edit has been answered; s is the state with the answer.
LEMMA SendReturnsMeans ==
    ASSUME TypeInv, NEW d \in Drains, SendReturns(d)
    PROVE  LET w == drains[d]
               k == w.key
           IN  /\ w \in Long /\ w.pc = "sent" /\ Drained /\ UNCHANGED shown
               /\ \/ ~Same(d) /\ Ends(d) /\ Leaves
                  \/ /\ Same(d) /\ Live(k) /\ states[k] \in Turn
                     /\ \E s \in Turn :
                           /\ s = [states[k] EXCEPT !.sending = FALSE, !.msg = TRUE]
                           /\ s.id = states[k].id /\ s.phase = states[k].phase
                           /\ Shown(d, s, s.mode = "registry", w.exhausted)
<1>1. drains[d].pc = "sent" /\ drains[d].pc \in Working \ {"read"}
  BY DEF SendReturns, Working
<1>2. drains[d] \in Long
  BY <1>1, LongWhenReading
<1> DEFINE k == drains[d].key
           s == [states[k] EXCEPT !.sending = FALSE, !.msg = TRUE]
<1>3. ASSUME Same(d)
      PROVE  /\ Live(k) /\ states[k] \in Turn /\ s \in Turn
             /\ s.id = states[k].id /\ s.phase = states[k].phase
  <2> DEFINE o == states[k]
  <2>1. k \in DOMAIN states /\ o \in Turn
    BY <1>3 DEF Same, Live, Now, TypeInv
  <2> HIDE DEF o
  <2>2. [o EXCEPT !.sending = FALSE, !.msg = TRUE] \in Turn
        /\ [o EXCEPT !.sending = FALSE, !.msg = TRUE].id = o.id
        /\ [o EXCEPT !.sending = FALSE, !.msg = TRUE].phase = o.phase
    BY <2>1 DEF Turn
  <2> QED
    BY <2>1, <2>2 DEF o, Live
<1> QED
  BY <1>1, <1>2, <1>3 DEF SendReturns, Now

\* The same of an edit.
LEMMA EditReturnsMeans ==
    ASSUME TypeInv, NEW d \in Drains, EditReturns(d)
    PROVE  LET w == drains[d]
               k == w.key
           IN  /\ w \in Long /\ w.pc = "edited" /\ Drained /\ UNCHANGED shown
               /\ \/ ~Same(d) /\ Ends(d) /\ Leaves
                  \/ /\ Same(d) /\ Live(k) /\ states[k] \in Turn
                     /\ \E s \in Turn :
                           /\ s = [states[k] EXCEPT !.seq = w.saw.seq + 1]
                           /\ s.id = states[k].id /\ s.phase = states[k].phase
                           /\ Shown(d, s, s.mode = "registry" /\ Final(k), 0)
<1>1. drains[d].pc = "edited" /\ drains[d].pc \in Working \ {"read"}
  BY DEF EditReturns, Working
<1>2. drains[d] \in Long /\ drains[d].saw \in Turn
  BY <1>1, LongWhenReading
<1> DEFINE k == drains[d].key
           n == drains[d].saw.seq + 1
           s == [states[k] EXCEPT !.seq = n]
<1>3. n \in Nat
  BY <1>2 DEF Turn
<1>4. ASSUME Same(d)
      PROVE  /\ Live(k) /\ states[k] \in Turn /\ s \in Turn
             /\ s.id = states[k].id /\ s.phase = states[k].phase
  <2> DEFINE o == states[k]
  <2>1. k \in DOMAIN states /\ o \in Turn
    BY <1>4 DEF Same, Live, Now, TypeInv
  <2> HIDE DEF o, n
  <2>2. [o EXCEPT !.seq = n] \in Turn /\ [o EXCEPT !.seq = n].id = o.id
        /\ [o EXCEPT !.seq = n].phase = o.phase
    BY <1>3, <2>1 DEF Turn
  <2> QED
    BY <2>1, <2>2 DEF o, Live
<1> QED
  BY <1>1, <1>2, <1>4 DEF EditReturns, Now

\* An edit that fails is given up, tried again, or begun anew from the state.
LEMMA EditFailsMeans ==
    ASSUME TypeInv, NEW d \in Drains, EditFails(d)
    PROVE  LET w == drains[d]
           IN  /\ w \in Long /\ w.pc \in {"edit", "edited"} /\ Drained /\ UNCHANGED shown
               /\ \/ GivesUp(d)
                  \/ Leaves /\ \E v \in Long :
                        v.pc = "edit" /\ v.key = w.key /\ v.saw = w.saw
                           /\ drains' = [drains EXCEPT ![d] = v]
                  \/ Leaves /\ \E e \in Nat :
                        drains' = [drains EXCEPT ![d] =
                                      [pc |-> "read", key |-> w.key, exhausted |-> e]]
<1>1. drains[d].pc \in {"edit", "edited"} /\ drains[d].pc \in Working \ {"read"}
  BY DEF EditFails, Working
<1>2. drains[d] \in Long
  BY <1>1, LongWhenReading
<1> DEFINE w == drains[d]
           v == [w EXCEPT !.pc = "edit", !.tries = w.tries + 1]
<1>3. w.tries + 1 \in Nat /\ w.exhausted + 1 \in Nat
  BY <1>2 DEF Long
<1>4. v \in Long /\ v.pc = "edit" /\ v.key = w.key /\ v.saw = w.saw
  BY <1>2, <1>3 DEF Long, Working
<1>5. [drains EXCEPT ![d].pc = "edit", ![d].tries = @ + 1] = [drains EXCEPT ![d] = v]
  BY <1>2 DEF TypeInv, Long
<1>6. \/ GivesUp(d)
      \/ Leaves /\ drains' = [drains EXCEPT ![d].pc = "edit", ![d].tries = @ + 1]
      \/ Leaves /\ drains' = [drains EXCEPT ![d] =
                                 [pc |-> "read", key |-> w.key, exhausted |-> w.exhausted + 1]]
  BY DEF EditFails
<1>7. Drained /\ UNCHANGED shown
  BY DEF EditFails
<1> QED
  BY <1>1, <1>2, <1>3, <1>4, <1>5, <1>6, <1>7

\* Answers and failures keep the types.
LEMMA AnswersTypes ==
    ASSUME TInv, NEW d \in Drains, SendReturns(d) \/ EditReturns(d) \/ SendFails(d) \/ EditFails(d)
    PROVE  TInv'
<1>0. TypeInv
  BY DEF TInv
<1>1. CASE SendReturns(d)
  <2>1. CASE Ends(d) /\ Leaves
    BY <1>0, <1>1, <2>1, SendReturnsMeans, EndsTyped, DrainOnlyTypes DEF TypeInv
  <2>2. CASE ~(Ends(d) /\ Leaves)
    <3>1. /\ drains[d] \in Long /\ Drained /\ UNCHANGED shown /\ Live(drains[d].key)
          /\ drains[d].exhausted \in Nat
      BY <1>0, <1>1, <2>2, SendReturnsMeans DEF Long
    <3>2. PICK s \in Turn : /\ s.id = states[drains[d].key].id
                            /\ s.phase = states[drains[d].key].phase
                            /\ Shown(d, s, s.mode = "registry", drains[d].exhausted)
      BY <1>0, <1>1, <2>2, SendReturnsMeans
    <3> QED
      BY <3>1, <3>2, ShownTypes
  <2> QED
    BY <2>1, <2>2
<1>2. CASE EditReturns(d)
  <2>1. CASE Ends(d) /\ Leaves
    BY <1>0, <1>2, <2>1, EditReturnsMeans, EndsTyped, DrainOnlyTypes DEF TypeInv
  <2>2. CASE ~(Ends(d) /\ Leaves)
    <3>1. drains[d] \in Long /\ Drained /\ UNCHANGED shown /\ Live(drains[d].key)
      BY <1>0, <1>2, <2>2, EditReturnsMeans
    <3>2. PICK s \in Turn : /\ s.id = states[drains[d].key].id
                            /\ s.phase = states[drains[d].key].phase
                            /\ Shown(d, s, s.mode = "registry" /\ Final(drains[d].key), 0)
      BY <1>0, <1>2, <2>2, EditReturnsMeans
    <3> QED
      BY <3>1, <3>2, ShownTypes
  <2> QED
    BY <2>1, <2>2
<1>3. CASE SendFails(d)
  BY <1>3, GivesUpTypes DEF SendFails
<1>4. CASE EditFails(d)
  <2>1. CASE GivesUp(d)
    BY <1>0, <1>4, <2>1, EditFailsMeans, GivesUpTypes
  <2>2. CASE Leaves /\ \E v \in DrainOf : drains' = [drains EXCEPT ![d] = v]
    <3>1. drains' \in [Drains -> DrainOf]
      BY <1>0, <2>2, MovesTyped
    <3> QED
      BY <1>0, <1>4, <2>2, <3>1, EditFailsMeans, DrainOnlyTypes DEF TypeInv
  <2>3. GivesUp(d) \/ (Leaves /\ \E v \in DrainOf : drains' = [drains EXCEPT ![d] = v])
    <3>1. \A e \in Nat : [pc |-> "read", key |-> drains[d].key, exhausted |-> e] \in DrainOf
      BY <1>0, <1>4, EditFailsMeans DEF Long, DrainOf
    <3>2. Long \subseteq DrainOf
      BY DEF DrainOf
    <3> QED
      BY <1>0, <1>4, <3>1, <3>2, EditFailsMeans
  <2> QED
    BY <2>1, <2>2, <2>3
<1> QED
  BY <1>1, <1>2, <1>3, <1>4

-----------------------------------------------------------------------------
(* The types hold.                                                         *)

\* At first there is nothing.
LEMMA TypeInit == Init => TInv
<1> USE ProgressAssumption
<1> SUFFICES ASSUME Init PROVE TInv
  OBVIOUS
<1>1. DOMAIN states = {} /\ states \in [DOMAIN states -> Turn]
  BY DEF Init
<1>2. drains \in [Drains -> DrainOf]
  BY DEF Init, DrainOf
<1>3. shown \in [Ids -> [seq : Nat \union {-1}, rev : Nat, phase : Phases]]
  BY DEF Init, Unsent, Phases
<1>4. controls \in [Ids -> {"none", "stop", "retry"}]
  BY DEF Init
<1>5. KeysRight(states, made)
  BY <1>1 DEF KeysRight, Numbered
<1> QED
  BY <1>1, <1>2, <1>3, <1>4, <1>5 DEF Init, TInv, TypeInv

\* Every step keeps the types.
LEMMA TypeStep == TInv /\ [Next]_vars => TInv'
<1> SUFFICES ASSUME TInv, [Next]_vars PROVE TInv'
  OBVIOUS
<1>0. TypeInv
  BY DEF TInv
<1>1. CASE UNCHANGED vars
  BY <1>1 DEF vars, TInv, TypeInv
<1>2. ASSUME NEW t \in Turns, Hooks(t) PROVE TInv'
  <2>1. PICK k \in DOMAIN states : states[k].phase = "active" /\ HookStep(k)
    BY <1>0, <1>2, HooksMean
  <2>2. Hook
    BY <1>0, <1>2, HooksMean
  <2>3. PICK s \in Turn :
           /\ s.id = states[k].id
           /\ \/ Schedule([states EXCEPT ![k] = s], k)
              \/ Becomes([states EXCEPT ![k] = s]) /\ UNCHANGED drains
    BY <2>1 DEF HookStep, Changes
  <2> QED
    BY <2>1, <2>2, <2>3, HookTypes
<1>3. CASE \E t \in Turns : Begin(t)
  BY <1>3, BeginTypes
<1>4. CASE RolloverForInbound
  BY <1>4, RolloverTypes
<1>5. CASE CancelSession \/ Disconnect \/ TakenDown \/ ConnectAgain \/ ResetIdentity
  BY <1>5, AdapterTypes
<1>6. ASSUME NEW d \in Drains, Runs(d) \/ Answers(d) \/ ServerTakes(d) PROVE TInv'
  BY <1>6, SpawnedTypes, ReadsTypes, ActsTypes, ProfileTypes, ServerTypes, AnswersTypes
     DEF Runs, Answers
<1> QED
  BY <1>1, <1>2, <1>3, <1>4, <1>5, <1>6 DEF Next, Hooks

\* States, drains, cards and actions keep their types, and a state its number and its
\* place among the segments of its turn, in any order of hooks, rollovers, drains,
\* failures and resets; turns may begin again.
THEOREM TypeCorrect == Spec => []TypeOK
<1>1. TInv => TypeOK
  <2> SUFFICES ASSUME TInv PROVE TypeOK
    OBVIOUS
  <2>1. Range(states) \subseteq Turn
    BY DEF TInv, TypeInv, Range
  <2>2. ASSUME NEW d \in Drains
        PROVE  \/ drains[d] = Off
               \/ drains[d].pc \in Working \union {"queued"} /\ drains[d].key \in Keys
    BY DrainShape DEF TInv, TypeInv
  <2>3. shown \in [Ids -> [seq : Nat \union {-1}, rev : Nat, phase : Phases]]
    BY DEF TInv, TypeInv
  <2> QED
    BY <2>1, <2>2, <2>3 DEF TypeOK, TInv, TypeInv, KeysRight, Numbered
<1> QED
  BY <1>1, TypeInit, TypeStep, PTL DEF Spec

-----------------------------------------------------------------------------
(* The invariant, of what the states f, the number m of states made and    *)
(* the turns B that began are to become; the other variables are as they   *)
(* stand.                                                                  *)

\* A drain that has read its state, and one that asks the server about the card.
Reading(d) == drains[d].pc \in Working \ {"read"}
Asking == {"send", "sent", "edit", "edited"}

\* A key that has a state or a drain is of a turn that began, and no drain has a key
\* that a rollover is still to make.
TurnsRight(f, B) ==
    /\ \A k \in DOMAIN f : k[1] \in B
    /\ \A d \in Drains : drains[d] # Off => drains[d].key[1] \in B
    /\ \A d \in Drains, k \in DOMAIN f :
          drains[d] # Off /\ f[k].phase = "active" /\ drains[d].key[1] = k[1]
            => drains[d].key[2] <= k[2]

\* Nothing is known of a state that is still to be made.
FreshRight(m) ==
    \A i \in Ids : i > m => shown[i] = Unsent /\ controls[i] = "none" /\ i \notin lost

\* A scheduled state has its drain, but while disconnect() is about to drop it.
Cared(f) ==
    \A k \in DOMAIN f :
        f[k].scheduled =>
           /\ adapter # "down"
           /\ adapter = "closing" \/ \E d \in Drains : drains[d] # Off /\ drains[d].key = k

\* A key has one drain at most, and a state has one only when it is scheduled.
DrainsRight(f) ==
    /\ \A d, e \in Drains :
          drains[d] # Off /\ drains[e] # Off /\ drains[d].key = drains[e].key => d = e
    /\ \A d \in Drains :
          drains[d] # Off /\ drains[d].key \in DOMAIN f => f[drains[d].key].scheduled

\* The state s, whose card the server shows as c, with the action a.
StateRight(s, c, a) ==
    /\ s.due <= s.rev
    /\ c.seq <= s.seq + 1
    /\ ~s.msg => s.seq = 0 /\ c.seq <= 0 /\ a = "none"
    /\ ~s.msg /\ ~s.sending => c.seq < 0
    /\ s.tools # "real" => ~s.msg /\ ~s.sending
    /\ s.mode # "registry" => a = "none"
    /\ c.phase # "active" => s.phase = c.phase
    /\ s.scheduled => s.tools = "real"

StatesRight(f) ==
    \A k \in DOMAIN f : StateRight(f[k], shown[f[k].id], controls[f[k].id])

\* There is nothing to show of s that c does not show, or a drain is to see to it.
Settled(s, c) ==
    s.scheduled \/ (s.phase = "active" /\ (s.tools = "real" => s.due <= c.rev))

\* The drain w, for whose state the server shows c.
DrainRight(w, c) ==
    /\ w.saw.tools = "real"
    /\ c.seq <= w.saw.seq + 1
    /\ ~w.saw.msg => w.saw.seq = 0 /\ c.seq <= 0
    /\ c.phase # "active" => w.saw.phase = c.phase
    /\ w.pc = "profile" => w.saw.mode = "none"
    /\ w.pc \in Asking => w.saw.mode # "none" /\ (w.saw.msg <=> w.pc \in {"edit", "edited"})
    /\ w.pc \in {"sent", "edited"} => c.rev = w.saw.rev /\ c.phase = w.saw.phase

\* What the drain w read is a former value of the state s.
ReadFrom(w, s) ==
    /\ s.id = w.saw.id /\ s.seq = w.saw.seq /\ s.msg = w.saw.msg /\ s.mode = w.saw.mode
    /\ w.saw.rev <= s.rev
    /\ w.saw.rev = s.rev \/ w.saw.phase # "active" => s.phase = w.saw.phase
    /\ w.pc \in {"send", "sent"} => s.sending

\* The drain w has told the server nothing and is not about to.
Idle(w) == w.pc \in Working \ {"read"} => ~w.saw.msg /\ w.pc \notin Asking

ReadRight(f, m) ==
    \A d \in Drains :
        Reading(d) =>
           LET w == drains[d]
           IN  /\ w.saw.id <= m
               /\ DrainRight(w, shown[w.saw.id])
               /\ w.key \in DOMAIN f => ReadFrom(w, f[w.key])
               /\ \A k \in DOMAIN f : f[k].id = w.saw.id => k = w.key
               /\ Idle(w) \/ w.key \in DOMAIN f \/ w.saw.id \in lost

\* What is left of a state that is gone and was not given up.
Left(c, a) ==
    /\ c.seq >= 0 => c.phase # "active"
    /\ a = "none" \/ (a = "retry" /\ c.phase = "error")

LeftRight(f, m) ==
    \A i \in 1..m :
        i \in lost \/ (\E k \in DOMAIN f : f[k].id = i) \/ Left(shown[i], controls[i])

\* What holds at any point of a step, and what holds when it is over.
Core(f, m, B) ==
    /\ TurnsRight(f, B) /\ FreshRight(m) /\ DrainsRight(f) /\ StatesRight(f)
    /\ ReadRight(f, m) /\ OneDrain /\ LeftRight(f, m)

Right ==
    /\ Core(states, made, begun) /\ Cared(states)
    /\ \A k \in DOMAIN states : Settled(states[k], shown[states[k].id])

IInv == TInv /\ Right

-----------------------------------------------------------------------------
(* What a step keeps that drops states, or goes on with one of them.       *)

\* The states that are dropped are given up or have nothing to show, and no drain was
\* ended whose state stays.
LEMMA DropKeeps ==
    ASSUME TypeInv, NEW f, Holds(f), NEW m \in Nat, Numbered(f, m), NEW B, Core(f, m, B),
           DOMAIN states' \subseteq DOMAIN f, \A k \in DOMAIN states' : states'[k] = f[k],
           \A d \in Drains : drains'[d] = Off \/ drains'[d] = drains[d],
           Cared(states)',
           \A k \in DOMAIN states' : Settled(f[k], shown[f[k].id]),
           \A k \in DOMAIN f \ DOMAIN states' :
              \/ f[k].id \in lost'
              \/ /\ Left(shown[f[k].id], controls'[f[k].id])
                 /\ \A d \in Drains : drains'[d] # Off /\ drains'[d].key = k => Idle(drains[d]),
           \A i \in Ids : \/ controls'[i] = controls[i] \/ controls'[i] = "none"
                          \/ \E k \in DOMAIN f \ DOMAIN states' : f[k].id = i,
           lost \subseteq lost', \A i \in lost' : i \in lost \/ \E k \in DOMAIN f : f[k].id = i,
           shown' = shown, begun' = B, made' = m, m <= MaxStates
    PROVE  Right'
<1> USE ProgressAssumption
<1>1. /\ \A k \in DOMAIN f : f[k].id \in Ids /\ f[k].id <= m
      /\ \A k, j \in DOMAIN f : f[k].id = f[j].id => k = j
      /\ \A k \in DOMAIN states' : k \in DOMAIN f /\ states'[k] = f[k]
  BY DEF Holds, Numbered, Turn
<1>2. \A i \in 1..m : i \in Ids
  BY DEF Ids
<1>3. TurnsRight(states, begun)'
  BY <1>1 DEF Core, TurnsRight
<1>4. FreshRight(made)'
  BY <1>1 DEF Core, FreshRight, Ids
<1>5. DrainsRight(states)'
  BY <1>1 DEF Core, DrainsRight
<1>6. StatesRight(states)'
  <2> SUFFICES ASSUME NEW k \in DOMAIN states'
               PROVE  StateRight(f[k], shown[f[k].id], controls'[f[k].id])
    BY <1>1 DEF StatesRight
  <2>1. StateRight(f[k], shown[f[k].id], controls[f[k].id])
    BY <1>1 DEF Core, StatesRight
  <2>2. controls'[f[k].id] = controls[f[k].id] \/ controls'[f[k].id] = "none"
    BY <1>1
  <2> QED
    BY <2>1, <2>2 DEF StateRight
<1>7. ReadRight(states, made)'
  <2> SUFFICES ASSUME NEW d \in Drains, Reading(d)'
               PROVE  LET w == drains[d]
                      IN  /\ w = drains'[d]
                          /\ w.saw.id <= m
                          /\ DrainRight(w, shown[w.saw.id])
                          /\ w.key \in DOMAIN states' => ReadFrom(w, states'[w.key])
                          /\ \A k \in DOMAIN states' : states'[k].id = w.saw.id => k = w.key
                          /\ Idle(w) \/ w.key \in DOMAIN states' \/ w.saw.id \in lost'
    BY DEF ReadRight
  <2> DEFINE w == drains[d]
  <2>1. Reading(d) /\ w = drains'[d] /\ w # Off
    BY DEF Reading, Off, Working
  <2>2. /\ w.saw.id <= m
        /\ DrainRight(w, shown[w.saw.id])
        /\ w.key \in DOMAIN f => ReadFrom(w, f[w.key])
        /\ \A k \in DOMAIN f : f[k].id = w.saw.id => k = w.key
        /\ Idle(w) \/ w.key \in DOMAIN f \/ w.saw.id \in lost
    BY <2>1 DEF Core, ReadRight
  <2> HIDE DEF w
  <2>3. w.key \in DOMAIN states' => ReadFrom(w, states'[w.key])
    BY <1>1, <2>2
  <2>4. \A k \in DOMAIN states' : states'[k].id = w.saw.id => k = w.key
    BY <1>1, <2>2
  <2>5. Idle(w) \/ w.key \in DOMAIN states' \/ w.saw.id \in lost'
    <3>1. CASE w.key \in DOMAIN f \ DOMAIN states'
      <4>1. f[w.key].id = w.saw.id
        BY <2>2, <3>1 DEF ReadFrom
      <4> QED
        BY <2>1, <3>1, <4>1 DEF w
    <3> QED
      BY <2>2, <3>1
  <2> QED
    BY <2>1, <2>2, <2>3, <2>4, <2>5 DEF w
<1>8. OneDrain'
  <2>1. \A d \in Drains : Reading(d)' => Reading(d) /\ drains'[d] = drains[d]
    BY DEF Reading, Off, Working
  <2> QED
    BY <2>1 DEF Core, OneDrain, Reading
<1>9. LeftRight(states, made)'
  <2> SUFFICES ASSUME NEW i \in 1..m, i \notin lost', \A k \in DOMAIN states' : states'[k].id # i
               PROVE  Left(shown[i], controls'[i])
    BY DEF LeftRight
  <2>1. CASE \E k \in DOMAIN f : f[k].id = i
    BY <1>1, <2>1
  <2>2. CASE ~\E k \in DOMAIN f : f[k].id = i
    <3>1. Left(shown[i], controls[i])
      BY <2>2 DEF Core, LeftRight
    <3>2. controls'[i] = controls[i] \/ controls'[i] = "none"
      BY <1>2, <2>2
    <3> QED
      BY <3>1, <3>2 DEF Left
  <2> QED
    BY <2>1, <2>2
<1>10. \A k \in DOMAIN states' : Settled(states'[k], shown'[states'[k].id])
  BY <1>1
<1> QED
  BY <1>3, <1>4, <1>5, <1>6, <1>7, <1>8, <1>9, <1>10 DEF Right, Core

\* The drain d, which is that of the key k or becomes it, goes on as w or rests; the card
\* and the action that change are of its state, or of one that was given up.
Moves(f, d, k, w) ==
    /\ \/ drains[d] # Off /\ drains[d].key = k
       \/ drains[d] = Off /\ adapter = "up" /\ k \in DOMAIN f /\ ~f[k].scheduled
    /\ w \in DrainOf /\ (w # Off => w.key = k)
    /\ drains' = [drains EXCEPT ![d] = w] /\ UNCHANGED <<lost, adapter>>
    /\ DOMAIN states' = DOMAIN f /\ \A j \in DOMAIN f : j # k => states'[j] = f[j]
    /\ \A j \in DOMAIN f : j # k => Settled(f[j], shown[f[j].id])
    /\ \A i \in Ids : \/ shown'[i] = shown[i] /\ controls'[i] = controls[i]
                      \/ k \in DOMAIN f /\ f[k].id = i
                      \/ i \in lost /\ Reading(d) /\ drains[d].saw.id = i

\* What the state of the key is then.
Shapes(f, k, w) ==
    k \in DOMAIN f =>
       /\ states'[k].id = f[k].id /\ states'[k].phase = f[k].phase
       /\ states'[k].scheduled <=> w # Off
       /\ Settled(states'[k], shown'[f[k].id])
       /\ StateRight(states'[k], shown'[f[k].id], controls'[f[k].id])

\* What the drain has read then.
Knows(f, m, d, k, w) ==
    w.pc \in Working \ {"read"} =>
       /\ w.saw.id \in Ids /\ w.saw.id <= m /\ DrainRight(w, shown'[w.saw.id])
       /\ k \in DOMAIN f => ReadFrom(w, states'[k])
       /\ k \notin DOMAIN f => Reading(d) /\ w.saw.id = drains[d].saw.id
       /\ Idle(w) \/ k \in DOMAIN f \/ w.saw.id \in lost

\* Such a move of a drain keeps the invariant.
LEMMA MoveKeeps ==
    ASSUME TypeInv, NEW f, Holds(f), NEW m \in Nat, KeysRight(f, m), NEW B, Core(f, m, B),
           Cared(f), NEW d \in Drains, NEW k, NEW w,
           Moves(f, d, k, w), Shapes(f, k, w), Knows(f, m, d, k, w),
           begun' = B, made' = m, m <= MaxStates
    PROVE  Right'
<1> USE ProgressAssumption DEF Moves, Shapes, Knows
<1>1. /\ \A j \in DOMAIN f : f[j].id \in Ids /\ f[j].id <= m
      /\ \A i, j \in DOMAIN f : f[i].id = f[j].id => i = j
  BY DEF Holds, KeysRight, Numbered, Turn
<1>2. /\ drains'[d] = w /\ \A e \in Drains : e # d => drains'[e] = drains[e]
      /\ \A e \in Drains : Reading(e) => drains[e] # Off /\ drains[e].saw.id \in Ids
      /\ w.pc \in Working \ {"read"} => w # Off
  <2>1. \A e \in Drains : Reading(e) => drains[e].saw.id \in Ids
    BY LongWhenReading DEF Reading, Turn
  <2> QED
    BY <2>1 DEF TypeInv, Reading, Off, Working
<1>3. \A e \in Drains :
         Reading(e) =>
            /\ drains[e].saw.id <= m
            /\ \A j \in DOMAIN f : f[j].id = drains[e].saw.id => j = drains[e].key
  BY DEF Core, ReadRight
<1>4. ASSUME NEW e \in Drains, e # d, drains[e] # Off, k \in DOMAIN f
      PROVE  drains[e].key # k
  BY <1>4 DEF Core, DrainsRight
<1>5. ASSUME NEW e \in Drains, e # d, Reading(e)
      PROVE  /\ k \in DOMAIN f => drains[e].saw.id # f[k].id
             /\ Reading(d) => drains[e].saw.id # drains[d].saw.id
             /\ shown'[drains[e].saw.id] = shown[drains[e].saw.id]
  <2>1. k \in DOMAIN f => drains[e].saw.id # f[k].id
    BY <1>2, <1>3, <1>4, <1>5
  <2>2. Reading(d) => drains[e].saw.id # drains[d].saw.id
    BY <1>5 DEF Core, OneDrain, Reading
  <2> QED
    BY <1>2, <1>5, <2>1, <2>2
<1>6. ASSUME NEW j \in DOMAIN f, j # k
      PROVE  shown'[f[j].id] = shown[f[j].id] /\ controls'[f[j].id] = controls[f[j].id]
  BY <1>1, <1>2, <1>3, <1>6
<1>7. TurnsRight(states, begun)'
  <2>1. \A j \in DOMAIN f : j[1] \in B
    BY DEF Core, TurnsRight
  <2>2. ASSUME NEW e \in Drains, drains'[e] # Off
        PROVE  drains'[e].key[1] \in B
    BY <1>2, <2>1, <2>2 DEF Core, TurnsRight
  <2>3. ASSUME NEW e \in Drains, drains'[e] # Off, NEW j \in DOMAIN f,
               f[j].phase = "active", drains'[e].key[1] = j[1]
        PROVE  drains'[e].key[2] <= j[2]
    <3>1. CASE e = d /\ k \in DOMAIN f
      BY <1>2, <2>3, <3>1 DEF KeysRight, Numbered
    <3>2. CASE e # d \/ k \notin DOMAIN f
      BY <1>2, <2>3, <3>2 DEF Core, TurnsRight
    <3> QED
      BY <3>1, <3>2
  <2>4. \A j \in DOMAIN f : states'[j].phase = f[j].phase
    OBVIOUS
  <2> QED
    BY <2>1, <2>2, <2>3, <2>4 DEF TurnsRight
<1>8. FreshRight(made)'
  BY <1>1, <1>3 DEF Core, FreshRight, Ids
<1>9. DrainsRight(states)'
  <2>1. ASSUME NEW e \in Drains, e # d, drains[e] # Off, drains'[d] # Off
        PROVE  drains[e].key # k
    BY <1>4, <2>1 DEF Core, DrainsRight
  <2>2. ASSUME NEW e \in Drains, drains'[e] # Off, drains'[e].key \in DOMAIN f
        PROVE  states'[drains'[e].key].scheduled
    BY <1>2, <1>4, <2>2 DEF Core, DrainsRight
  <2>3. ASSUME NEW x \in Drains, NEW e \in Drains, drains'[x] # Off, drains'[e] # Off,
               drains'[x].key = drains'[e].key
        PROVE  x = e
    BY <1>2, <2>1, <2>3 DEF Core, DrainsRight
  <2> QED
    BY <2>2, <2>3 DEF DrainsRight
<1>10. Cared(states)'
  <2> SUFFICES ASSUME NEW j \in DOMAIN f, states'[j].scheduled
               PROVE  /\ adapter # "down"
                      /\ adapter = "closing"
                         \/ \E e \in Drains : drains'[e] # Off /\ drains'[e].key = j
    BY DEF Cared
  <2>1. CASE j = k
    <3>1. adapter # "down"
      BY <2>1 DEF Core, DrainsRight, Cared
    <3> QED
      BY <1>2, <2>1, <3>1
  <2>2. CASE j # k
    BY <1>2, <2>2 DEF Cared
  <2> QED
    BY <2>1, <2>2
<1>11. StatesRight(states)'
  <2> SUFFICES ASSUME NEW j \in DOMAIN f
               PROVE  StateRight(states'[j], shown'[states'[j].id], controls'[states'[j].id])
    BY DEF StatesRight
  <2>1. CASE j = k
    BY <2>1
  <2>2. CASE j # k
    <3>1. StateRight(f[j], shown[f[j].id], controls[f[j].id])
      BY DEF Core, StatesRight
    <3>2. states'[j] = f[j]
      BY <2>2
    <3> QED
      BY <1>6, <2>2, <3>1, <3>2
  <2> QED
    BY <2>1, <2>2
<1>12. ReadRight(states, made)'
  <2> SUFFICES ASSUME NEW e \in Drains, Reading(e)'
               PROVE  LET v == drains'[e]
                      IN  /\ v.saw.id <= m
                          /\ DrainRight(v, shown'[v.saw.id])
                          /\ v.key \in DOMAIN f => ReadFrom(v, states'[v.key])
                          /\ \A j \in DOMAIN f : states'[j].id = v.saw.id => j = v.key
                          /\ Idle(v) \/ v.key \in DOMAIN f \/ v.saw.id \in lost
    BY DEF ReadRight
  <2>0. \A j \in DOMAIN f : states'[j].id = f[j].id
    OBVIOUS
  <2>1. CASE e = d
    <3>1. w.pc \in Working \ {"read"} /\ w.key = k
      BY <1>2, <2>1 DEF Reading
    <3>2. \A j \in DOMAIN f : f[j].id = w.saw.id => j = k
      BY <1>1, <1>2, <1>3, <3>1 DEF ReadFrom
    <3> QED
      BY <1>2, <2>0, <2>1, <3>1, <3>2
  <2>2. CASE e # d
    <3>1. Reading(e) /\ drains'[e] = drains[e] /\ drains[e] # Off
      BY <1>2, <2>2 DEF Reading
    <3>2. LET v == drains[e]
          IN  /\ v.saw.id <= m
              /\ DrainRight(v, shown[v.saw.id])
              /\ v.key \in DOMAIN f => ReadFrom(v, f[v.key])
              /\ \A j \in DOMAIN f : f[j].id = v.saw.id => j = v.key
              /\ Idle(v) \/ v.key \in DOMAIN f \/ v.saw.id \in lost
      BY <3>1 DEF Core, ReadRight
    <3>3. drains[e].key \in DOMAIN f => states'[drains[e].key] = f[drains[e].key]
      BY <1>4, <2>2, <3>1
    <3>4. shown'[drains[e].saw.id] = shown[drains[e].saw.id]
      BY <1>5, <2>2, <3>1
    <3> QED
      BY <2>0, <3>1, <3>2, <3>3, <3>4
  <2> QED
    BY <2>1, <2>2
<1>13. OneDrain'
  <2>1. ASSUME NEW e \in Drains, e # d, Reading(e), w.pc \in Working \ {"read"}
        PROVE  drains[e].saw.id # w.saw.id
    BY <1>5, <2>1 DEF ReadFrom
  <2>2. \A e \in Drains : e # d => drains'[e] = drains[e]
    BY <1>2
  <2> QED
    BY <1>2, <2>1, <2>2 DEF Core, OneDrain, Reading
<1>14. LeftRight(states, made)'
  <2>1. \A i \in 1..m : i \in Ids
    BY DEF Ids
  <2> QED
    BY <2>1 DEF Core, LeftRight
<1>15. \A j \in DOMAIN states' : Settled(states'[j], shown'[states'[j].id])
  <2> SUFFICES ASSUME NEW j \in DOMAIN f
               PROVE  Settled(states'[j], shown'[states'[j].id])
    OBVIOUS
  <2>1. CASE j = k
    BY <2>1
  <2>2. CASE j # k
    BY <1>6, <2>2
  <2> QED
    BY <2>1, <2>2
<1> QED
  BY <1>7, <1>8, <1>9, <1>10, <1>11, <1>12, <1>13, <1>14, <1>15 DEF Right, Core

-----------------------------------------------------------------------------
(* Hooks, turns that begin and turns that are split.                       *)

\* What a hook makes of a state that has not ended may still have to be shown.
LEMMA ReplaceKeeps ==
    ASSUME TypeInv, NEW f, Holds(f), NEW m \in Nat, NEW B, Core(f, m, B), Cared(f),
           NEW k \in DOMAIN f, f[k].phase = "active", NEW s \in Turn, Changes(s, f[k]),
           NEW g, g = [f EXCEPT ![k] = s]
    PROVE  Core(g, m, B) /\ Cared(g)
<1> DEFINE o == f[k]
           c == shown[o.id]
           a == controls[o.id]
<1>1. o \in Turn /\ s \in Turn /\ c \in [seq : Nat \union {-1}, rev : Nat, phase : Phases]
  BY DEF Holds, Turn, TypeInv
<1>2. StateRight(o, c, a)
  BY DEF Core, StatesRight
<1>3. StateRight(s, c, a) /\ s.id = o.id /\ s.scheduled = o.scheduled
  <2> HIDE DEF o, c, a
  <2>1. o.phase = "active" /\ Changes(s, o)
    BY DEF o
  <2>2. o.rev \in Nat /\ o.due \in Nat
    BY <1>1 DEF Turn
  <2> QED
    BY <1>2, <2>1, <2>2 DEF StateRight, Changes
<1>4. DOMAIN g = DOMAIN f /\ g[k] = s /\ \A j \in DOMAIN f : j # k => g[j] = f[j]
  BY DEF Holds
<1> HIDE DEF c, a
<1>5. \A j \in DOMAIN g : g[j].id = f[j].id /\ g[j].scheduled = f[j].scheduled
                          /\ (g[j].phase = "active" => f[j].phase = "active")
  BY <1>3, <1>4
<1>6. TurnsRight(g, B)
  BY <1>4, <1>5 DEF Core, TurnsRight
<1>7. DrainsRight(g) /\ Cared(g)
  BY <1>4, <1>5 DEF Core, DrainsRight, Cared
<1>8. StatesRight(g)
  BY <1>3, <1>4, <1>5 DEF Core, StatesRight, c, a
<1>9. ReadRight(g, m)
  <2> SUFFICES ASSUME NEW d \in Drains, Reading(d)
               PROVE  LET w == drains[d]
                      IN  /\ w.saw.id <= m
                          /\ DrainRight(w, shown[w.saw.id])
                          /\ w.key \in DOMAIN g => ReadFrom(w, g[w.key])
                          /\ \A j \in DOMAIN g : g[j].id = w.saw.id => j = w.key
                          /\ Idle(w) \/ w.key \in DOMAIN g \/ w.saw.id \in lost
    BY DEF ReadRight
  <2> DEFINE w == drains[d]
  <2>1. /\ w.saw.id <= m
        /\ DrainRight(w, shown[w.saw.id])
        /\ w.key \in DOMAIN f => ReadFrom(w, f[w.key])
        /\ \A j \in DOMAIN f : f[j].id = w.saw.id => j = w.key
        /\ Idle(w) \/ w.key \in DOMAIN f \/ w.saw.id \in lost
    BY DEF Core, ReadRight
  <2>2. w.saw \in Turn
    BY LongWhenReading DEF Reading
  <2> HIDE DEF w
  <2>3. ASSUME w.key = k PROVE ReadFrom(w, s)
    <3>1. ReadFrom(w, o) /\ o.phase = "active" /\ Changes(s, o)
      BY <2>1, <2>3
    <3>2. o.rev \in Nat /\ w.saw.rev \in Nat
      BY <1>1, <2>2 DEF Turn
    <3> HIDE DEF o
    <3> QED
      BY <3>1, <3>2 DEF ReadFrom, Changes
  <2>4. w.key \in DOMAIN g => ReadFrom(w, g[w.key])
    BY <1>4, <2>1, <2>3
  <2> QED
    BY <1>4, <1>5, <2>1, <2>4 DEF w
<1>10. LeftRight(g, m)
  BY <1>4, <1>5 DEF Core, LeftRight
<1> QED
  BY <1>6, <1>7, <1>8, <1>9, <1>10 DEF Core

\* A segment that has nothing to show.
Fresh(s, i) ==
    /\ s.id = i /\ s.tools = "none" /\ s.rev = 0 /\ s.due = 0 /\ s.phase = "active"
    /\ ~s.scheduled /\ ~s.sending /\ ~s.msg /\ s.seq = 0

\* No drain is ahead of the key.
IsNext(new) ==
    /\ new \notin DOMAIN states /\ new[2] \in Nat
    /\ \A d \in Drains : drains[d] # Off /\ drains[d].key[1] = new[1]
                           => drains[d].key[2] < new[2]

\* A segment that begins under a key of its own.
LEMMA ExtendKeeps ==
    ASSUME IInv, made < MaxStates, NEW new, IsNext(new), NEW next, Fresh(next, made + 1),
           NEW B, begun \subseteq B, new[1] \in B
    PROVE  LET f == Split(new, next)
           IN  /\ Core(f, made + 1, B) /\ Cared(f)
               /\ \A j \in DOMAIN f : Settled(f[j], shown[f[j].id])
<1> USE ProgressAssumption DEF IsNext, Fresh
<1> DEFINE f == Split(new, next)
<1>1. /\ TypeInv /\ made \in Nat /\ made + 1 \in Ids
      /\ \A d \in Drains : drains[d] # Off => drains[d].key \in Keys
  BY DrainShape DEF IInv, TInv, TypeInv, Ids
<1>2. /\ DOMAIN f = DOMAIN states \union {new} /\ f[new] = next
      /\ \A j \in DOMAIN states : f[j] = states[j]
  BY DEF Split
<1> HIDE DEF f
<1>3. /\ Core(states, made, begun) /\ Cared(states)
      /\ \A k \in DOMAIN states : Settled(states[k], shown[states[k].id])
      /\ \A k \in DOMAIN states : states[k].id \in Ids /\ states[k].id <= made
  BY DEF IInv, Right, TInv, TypeInv, KeysRight, Numbered, Turn
<1>4. shown[made + 1] = Unsent /\ controls[made + 1] = "none" /\ made + 1 \notin lost
  BY <1>1, <1>3 DEF Core, FreshRight
<1>5. \A d \in Drains : drains[d] # Off => drains[d].key # new
  BY <1>1 DEF Keys
<1>6. TurnsRight(f, B)
  <2>1. ASSUME NEW d \in Drains, drains[d] # Off, drains[d].key[1] = new[1]
        PROVE  drains[d].key[2] <= new[2]
    BY <1>1, <2>1 DEF Keys
  <2> QED
    BY <1>2, <1>3, <2>1 DEF Core, TurnsRight
<1>7. FreshRight(made + 1)
  BY <1>1, <1>3 DEF Core, FreshRight, Ids
<1>8. DrainsRight(f) /\ Cared(f)
  BY <1>2, <1>3, <1>5 DEF Core, DrainsRight, Cared
<1>9. StatesRight(f)
  <2>1. StateRight(next, Unsent, "none")
    BY DEF StateRight, Unsent
  <2> QED
    BY <1>2, <1>3, <1>4, <2>1 DEF Core, StatesRight
<1>10. ReadRight(f, made + 1)
  <2> SUFFICES ASSUME NEW d \in Drains, Reading(d)
               PROVE  LET w == drains[d]
                      IN  /\ w.saw.id <= made + 1
                          /\ DrainRight(w, shown[w.saw.id])
                          /\ w.key \in DOMAIN f => ReadFrom(w, f[w.key])
                          /\ \A j \in DOMAIN f : f[j].id = w.saw.id => j = w.key
                          /\ Idle(w) \/ w.key \in DOMAIN f \/ w.saw.id \in lost
    BY DEF ReadRight
  <2> DEFINE w == drains[d]
  <2>1. /\ w.saw.id <= made
        /\ DrainRight(w, shown[w.saw.id])
        /\ w.key \in DOMAIN states => ReadFrom(w, states[w.key])
        /\ \A j \in DOMAIN states : states[j].id = w.saw.id => j = w.key
        /\ Idle(w) \/ w.key \in DOMAIN states \/ w.saw.id \in lost
    BY <1>3 DEF Core, ReadRight
  <2>2. w # Off /\ w.key # new /\ w.saw.id \in Ids
    BY <1>1, <1>5, LongWhenReading DEF Reading, Turn, Off, Working
  <2> HIDE DEF w
  <2>3. w.saw.id <= made + 1 /\ w.saw.id # made + 1
    BY <1>1, <2>1, <2>2 DEF Ids
  <2> QED
    BY <1>2, <2>1, <2>2, <2>3 DEF w
<1>11. LeftRight(f, made + 1)
  <2> SUFFICES ASSUME NEW i \in 1..(made + 1), i \notin lost, \A k \in DOMAIN f : f[k].id # i
               PROVE  Left(shown[i], controls[i])
    BY DEF LeftRight
  <2>1. i # made + 1 /\ \A k \in DOMAIN states : states[k].id # i
    BY <1>2
  <2>2. i \in 1..made
    BY <1>1, <2>1
  <2> QED
    BY <1>3, <2>1, <2>2 DEF Core, LeftRight
<1>12. \A j \in DOMAIN f : Settled(f[j], shown[f[j].id])
  <2>1. Settled(next, shown[next.id])
    BY DEF Settled
  <2> QED
    BY <1>2, <1>3, <2>1
<1> QED
  BY <1>3, <1>6, <1>7, <1>8, <1>9, <1>10, <1>11, <1>12 DEF Core, f

\* Scheduling a state keeps it, whatever the hook that holds the lock made of the state.
LEMMA ScheduleKeeps ==
    ASSUME TypeInv, NEW f, Holds(f), NEW m \in Nat, KeysRight(f, m), NEW B, Core(f, m, B),
           Cared(f), NEW k \in DOMAIN f, Schedule(f, k),
           \A j \in DOMAIN f : j # k => Settled(f[j], shown[f[j].id]),
           UNCHANGED <<shown, adapter>>, begun' = B, made' = m, m <= MaxStates
    PROVE  Right'
<1>1. StateRight(f[k], shown[f[k].id], controls[f[k].id])
  BY DEF Core, StatesRight
<1>2. f[k].id \in Ids /\ f[k] \in Turn
  BY DEF Holds, Turn
<1>3. CASE Becomes(f) /\ UNCHANGED drains
           /\ (f[k].scheduled \/ (f[k].phase = "active" /\ f[k].tools # "real"))
  <2>1. \A j \in DOMAIN f : Settled(f[j], shown[f[j].id])
    BY <1>3 DEF Settled
  <2>2. states' = f /\ UNCHANGED <<controls, lost, drains>>
    BY <1>3 DEF Becomes
  <2>3. Cared(states)'
    BY <2>2 DEF Cared
  <2> QED
    BY <2>1, <2>2, <2>3, DropKeeps DEF KeysRight
<1>4. CASE /\ Drop(f, {k}, TRUE) \/ (Drop(f, {k}, FALSE) /\ f[k].tools # "real")
           /\ UNCHANGED drains /\ ~f[k].scheduled
  <2>1. /\ DOMAIN states' = DOMAIN f \ {k} /\ \A j \in DOMAIN states' : states'[j] = f[j]
        /\ \A i \in Ids : controls'[i] = controls[i] \/ controls'[i] = "none"
        /\ lost \subseteq lost'
        /\ \A i \in lost' : i \in lost \/ \E j \in {k} \intersect DOMAIN f : f[j].id = i
        /\ Drop(f, {k}, TRUE) => \A j \in {k} \intersect DOMAIN f : f[j].id \in lost'
    <3>1. Drop(f, {k}, TRUE) \/ Drop(f, {k}, FALSE)
      BY <1>4
    <3> QED
      BY <3>1, DropMeans DEF Dropped
  <2>2. Cared(states)'
    BY <1>4, <2>1 DEF Cared
  <2>3. \A d \in Drains : ~(drains'[d] # Off /\ drains'[d].key = k)
    BY <1>4 DEF Core, DrainsRight
  <2>4. f[k].id \in lost' \/ Left(shown[f[k].id], controls'[f[k].id])
    <3>1. CASE f[k].tools # "real"
      <4>1. shown[f[k].id].seq < 0 /\ controls[f[k].id] = "none"
        BY <1>1, <3>1 DEF StateRight
      <4>2. shown[f[k].id].seq \in Nat \union {-1}
        BY <1>2 DEF TypeInv
      <4> QED
        BY <1>2, <2>1, <4>1, <4>2 DEF Left
    <3> QED
      BY <1>4, <2>1, <3>1
  <2>5. \A j \in DOMAIN f \ DOMAIN states' : j = k
    BY <2>1
  <2>6. \A j \in DOMAIN states' : Settled(f[j], shown[f[j].id])
    BY <2>1
  <2>7. /\ DOMAIN states' \subseteq DOMAIN f
        /\ \A d \in Drains : drains'[d] = drains[d]
        /\ \A i \in lost' : i \in lost \/ \E j \in DOMAIN f : f[j].id = i
    BY <1>4, <2>1
  <2> QED
    BY <2>1, <2>2, <2>3, <2>4, <2>5, <2>6, <2>7, DropKeeps DEF KeysRight
<1>5. ASSUME ~f[k].scheduled, f[k].tools = "real", adapter = "up",
             Becomes([f EXCEPT ![k].scheduled = TRUE]), NEW d \in Drains,
             drains[d] = Off, drains' = [drains EXCEPT ![d] = Drain("queued", k)]
      PROVE  Right'
  <2> DEFINE w == Drain("queued", k)
             s == [f[k] EXCEPT !.scheduled = TRUE]
  <2>1. /\ w \in DrainOf /\ w # Off /\ w.key = k
        /\ w.pc \notin Working \ {"read"}
    BY DEF Drain, DrainOf, Holds, Off, Working
  <2>2. states' = [f EXCEPT ![k] = s] /\ UNCHANGED <<controls, lost>>
    BY <1>5 DEF Becomes, Holds
  <2>3. /\ s.id = f[k].id /\ s.phase = f[k].phase /\ s.scheduled = TRUE
        /\ StateRight(s, shown[f[k].id], controls[f[k].id])
        /\ Settled(s, shown[f[k].id])
    BY <1>1, <1>2, <1>5 DEF Turn, StateRight, Settled
  <2>4. /\ DOMAIN states' = DOMAIN f /\ states'[k] = s
        /\ \A j \in DOMAIN f : j # k => states'[j] = f[j]
    BY <2>2 DEF Holds
  <2>5. /\ states'[k].id = f[k].id /\ states'[k].phase = f[k].phase
        /\ states'[k].scheduled <=> w # Off
        /\ Settled(states'[k], shown'[f[k].id])
        /\ StateRight(states'[k], shown'[f[k].id], controls'[f[k].id])
    BY <2>1, <2>2, <2>3, <2>4
  <2>6. \A i \in Ids : shown'[i] = shown[i] /\ controls'[i] = controls[i]
    BY <2>2
  <2>7. UNCHANGED <<lost, adapter>>
    BY <2>2
  <2>8. drains' = [drains EXCEPT ![d] = w]
    BY <1>5
  <2> HIDE DEF w, s
  <2>9. Moves(f, d, k, w)
    BY <1>5, <2>1, <2>4, <2>6, <2>7, <2>8 DEF Moves
  <2>10. Shapes(f, k, w) /\ Knows(f, m, d, k, w)
    BY <2>1, <2>5 DEF Shapes, Knows
  <2> QED
    BY <2>9, <2>10, MoveKeeps
<1> QED
  BY <1>3, <1>4, <1>5, ScheduleMeans

\* So does a hook.
LEMMA HookKeeps ==
    ASSUME IInv, NEW k \in DOMAIN states, states[k].phase = "active", HookStep(k), Hook
    PROVE  Right'
<1>1. /\ TypeInv /\ Holds(states) /\ made \in Nat /\ made <= MaxStates /\ KeysRight(states, made)
      /\ Core(states, made, begun) /\ Cared(states)
      /\ \A j \in DOMAIN states : Settled(states[j], shown[states[j].id])
      /\ states[k] \in Turn
  BY ProgressAssumption DEF IInv, TInv, TypeInv, Holds, Right
<1>2. PICK s \in Turn :
         /\ Changes(s, states[k])
         /\ \/ s.due = s.rev /\ Schedule([states EXCEPT ![k] = s], k)
            \/ /\ s.due = states[k].due /\ s.phase = "active"
               /\ s.tools = "real" => states[k].tools = "real"
               /\ Becomes([states EXCEPT ![k] = s]) /\ UNCHANGED drains
  BY DEF HookStep
<1> DEFINE f == [states EXCEPT ![k] = s]
<1>3. s.id = states[k].id /\ s.scheduled = states[k].scheduled
  BY <1>2 DEF Changes
<1>4. Holds(f) /\ KeysRight(f, made)
  BY <1>1, <1>3, ReplacedHolds DEF IInv
<1>5. Core(f, made, begun) /\ Cared(f)
  BY <1>1, <1>2, ReplaceKeeps
<1>6. /\ DOMAIN f = DOMAIN states /\ k \in DOMAIN f /\ f[k] = s
      /\ \A j \in DOMAIN f : j # k => f[j] = states[j]
  BY <1>1 DEF Holds
<1>7. \/ Schedule(f, k)
      \/ /\ s.due = states[k].due /\ s.phase = "active"
         /\ s.tools = "real" => states[k].tools = "real"
         /\ Becomes(f) /\ UNCHANGED drains
  BY <1>2
<1> HIDE DEF f
<1>8. UNCHANGED <<adapter, shown, made, begun>>
  BY DEF Hook
<1>9. CASE Schedule(f, k)
  BY <1>1, <1>4, <1>5, <1>6, <1>8, <1>9, ScheduleKeeps
<1>10. CASE /\ s.due = states[k].due /\ s.phase = "active"
            /\ s.tools = "real" => states[k].tools = "real"
            /\ Becomes(f) /\ UNCHANGED drains
  <2>1. Settled(s, shown[s.id])
    BY <1>1, <1>3, <1>10 DEF Settled
  <2>2. \A j \in DOMAIN f : Settled(f[j], shown[f[j].id])
    BY <1>1, <1>6, <2>1
  <2>3. states' = f /\ UNCHANGED <<controls, lost, drains>>
    BY <1>10 DEF Becomes
  <2>4. Cared(states)'
    BY <1>5, <1>8, <2>3 DEF Cared
  <2> QED
    BY <1>1, <1>4, <1>5, <1>8, <2>2, <2>3, <2>4, DropKeeps DEF KeysRight
<1> QED
  BY <1>7, <1>9, <1>10

\* A turn that begins has begun for the first time, and has no drain from before.
LEMMA BeginKeeps ==
    ASSUME IInv, ~Reuse, NEW t \in Turns, Begin(t)
    PROVE  Right'
<1> USE ProgressAssumption
<1>1. PICK n \in 0..MaxSegment :
         /\ \A k \in DOMAIN states : k[1] = t => k[2] < n
         /\ states' = [k \in DOMAIN states \union {<<t, n>>} |->
                         IF Live(k) THEN states[k] ELSE NewTurn(made + 1)]
  BY BeginMeans DEF IInv, TInv
<1>2. /\ t \notin begun /\ made < MaxStates /\ made' = made + 1 /\ begun' = begun \union {t}
      /\ UNCHANGED <<drains, adapter, controls, shown, lost, cancels>>
  BY BeginMeans DEF IInv, TInv
<1> DEFINE new == <<t, n>>
           next == NewTurn(made + 1)
           f == Split(new, next)
<1>3. /\ new[1] = t /\ new[2] = n /\ n \in Nat
      /\ \A k \in DOMAIN states : k[2] \in Nat
  BY DEF IInv, TInv, TypeInv, Keys
<1>4. new \notin DOMAIN states
  <2> SUFFICES ASSUME new \in DOMAIN states PROVE FALSE
    OBVIOUS
  <2>1. n < n
    BY <1>1, <1>3
  <2> QED
    BY <1>3, <2>1
<1>5. Fresh(next, made + 1)
  BY DEF NewTurn, Fresh
<1>6. states' = f
  BY <1>1, <1>4 DEF Live, Split
<1>7. TInv'
  BY <1>2, BeginTypes DEF IInv
<1>8. \A d \in Drains : drains[d] # Off => drains[d].key[1] # t
  BY <1>2 DEF IInv, Right, Core, TurnsRight
<1> HIDE DEF new
<1>9. /\ Core(f, made + 1, begun \union {t}) /\ Cared(f)
      /\ \A j \in DOMAIN f : Settled(f[j], shown[f[j].id])
  <2>1. begun \subseteq begun \union {t} /\ new[1] \in begun \union {t}
    BY <1>3
  <2>2. IsNext(new)
    BY <1>3, <1>4, <1>8 DEF IsNext
  <2> QED
    BY <1>2, <1>5, <2>1, <2>2, ExtendKeeps
<1> HIDE DEF f
<1>10. Holds(f) /\ Numbered(f, made + 1) /\ TypeInv /\ made + 1 \in Nat /\ made + 1 <= MaxStates
  BY <1>2, <1>6, <1>7 DEF IInv, TInv, TypeInv, KeysRight, Holds
<1>11. Cared(states)'
  BY <1>2, <1>6, <1>9 DEF Cared
<1> QED
  BY <1>2, <1>6, <1>9, <1>10, <1>11, DropKeeps

\* A rollover: the halted segment has a drain, or has nothing on its way and goes.
LEMMA RolloverKeeps ==
    ASSUME IInv, RolloverForInbound
    PROVE  Right'
<1> USE ProgressAssumption
<1>1. PICK k \in DOMAIN states, new \in Keys, next \in Turn : RolledOver(k, new, next)
  BY RolloverMeans DEF IInv
<1> DEFINE f == Split(new, next)
           g == Halted(k, new, next)
           s == Stopped(states[k])
<1>2. SplitRight(f, g, k, new, next)
  BY <1>1, SplitHolds DEF IInv
<1>3. /\ TypeInv /\ Core(states, made, begun)
      /\ \A j \in DOMAIN states : states[j] \in Turn /\ j \in Keys
  BY DEF IInv, TInv, TypeInv, Right
<1>4. /\ new = <<k[1], k[2] + 1>> /\ new \notin DOMAIN states
      /\ states[k].phase = "active" /\ (states[k].tools = "real" \/ states[k].msg)
      /\ next = [NewTurn(made + 1) EXCEPT !.mode = states[k].mode]
      /\ made < MaxStates /\ made' = made + 1 /\ UNCHANGED <<adapter, shown, begun>>
  BY <1>1 DEF RolledOver
<1>5. /\ Core(f, made + 1, begun) /\ Cared(f)
      /\ \A j \in DOMAIN f : Settled(f[j], shown[f[j].id])
  <2>1. k[2] \in Nat /\ new[1] = k[1] /\ new[2] = k[2] + 1
    BY <1>3, <1>4 DEF Keys
  <2>2. new[1] \in begun
    BY <1>3, <2>1 DEF Core, TurnsRight
  <2>3. \A d \in Drains : drains[d] # Off /\ drains[d].key[1] = new[1]
                            => drains[d].key[2] < new[2]
    <3>1. \A d \in Drains : drains[d] # Off => drains[d].key[2] \in Nat
      BY <1>3, DrainShape DEF TypeInv, Keys
    <3>2. \A d \in Drains : drains[d] # Off /\ drains[d].key[1] = k[1]
                              => drains[d].key[2] <= k[2]
      BY <1>3, <1>4 DEF Core, TurnsRight
    <3> QED
      BY <2>1, <3>1, <3>2
  <2>4. IsNext(new)
    BY <1>4, <2>1, <2>3 DEF IsNext
  <2>5. Fresh(next, made + 1)
    BY <1>4 DEF Fresh, NewTurn
  <2> QED
    BY <1>4, <2>2, <2>4, <2>5, ExtendKeeps
<1>6. \/ ~states[k].msg /\ ~states[k].sending /\ Drop(f, {k}, FALSE) /\ UNCHANGED drains
      \/ Schedule(g, k)
  BY <1>1 DEF RolledOver
<1>7. g = [f EXCEPT ![k] = s]
  BY DEF Halted
<1> HIDE DEF f, g, s
<1>8. /\ Holds(f) /\ Numbered(f, made + 1) /\ Holds(g) /\ KeysRight(g, made + 1)
      /\ k \in DOMAIN f /\ f[k] = states[k] /\ DOMAIN g = DOMAIN f
      /\ \A j \in DOMAIN f : j # k => g[j] = f[j]
      /\ s \in Turn /\ made + 1 \in Nat /\ made + 1 <= MaxStates
  BY <1>2, <1>4 DEF SplitRight, s
<1>9. CASE ~states[k].msg /\ ~states[k].sending /\ Drop(f, {k}, FALSE) /\ UNCHANGED drains
  <2> DEFINE i == states[k].id
  <2>1. /\ DOMAIN states' = DOMAIN f \ {k} /\ \A j \in DOMAIN states' : states'[j] = f[j]
        /\ \A x \in Ids : controls'[x] = controls[x] \/ controls'[x] = "none"
        /\ lost' = lost
    BY <1>3, <1>8, <1>9, DropMeans DEF Dropped
  <2>2. Left(shown[i], controls'[i])
    <3>1. StateRight(states[k], shown[i], controls[i])
      BY <1>3 DEF Core, StatesRight
    <3>2. i \in Ids /\ shown[i].seq \in Nat \union {-1}
      BY <1>3 DEF Turn, TypeInv
    <3> QED
      BY <1>9, <2>1, <3>1, <3>2 DEF StateRight, Left
  <2>3. ASSUME NEW d \in Drains, drains'[d] # Off, drains'[d].key = k
        PROVE  Idle(drains[d])
    <3>1. Reading(d) => /\ DrainRight(drains[d], shown[drains[d].saw.id])
                        /\ ReadFrom(drains[d], states[k])
      BY <1>3, <1>9, <2>3 DEF Core, ReadRight
    <3> QED
      BY <1>9, <3>1 DEF Reading, Idle, DrainRight, ReadFrom, Asking
  <2>4. Cared(states)'
    BY <1>4, <1>5, <1>9, <2>1 DEF Cared
  <2>5. /\ DOMAIN states' \subseteq DOMAIN f /\ \A j \in DOMAIN f \ DOMAIN states' : j = k
        /\ \A d \in Drains : drains'[d] = drains[d]
        /\ \A j \in DOMAIN states' : Settled(f[j], shown[f[j].id])
    BY <1>5, <1>9, <2>1
  <2> QED
    BY <1>3, <1>4, <1>5, <1>8, <2>1, <2>2, <2>3, <2>4, <2>5, DropKeeps
<1>10. CASE Schedule(g, k)
  <2>1. Changes(s, f[k])
    BY <1>3, <1>8 DEF Changes, s, Stopped, Turn
  <2>2. Core(g, made + 1, begun) /\ Cared(g)
    BY <1>3, <1>4, <1>5, <1>7, <1>8, <2>1, ReplaceKeeps
  <2>3. \A j \in DOMAIN g : j # k => Settled(g[j], shown[g[j].id])
    BY <1>5, <1>8
  <2> QED
    BY <1>3, <1>4, <1>8, <1>10, <2>2, <2>3, ScheduleKeeps
<1> QED
  BY <1>6, <1>9, <1>10

-----------------------------------------------------------------------------
(* The adapter goes down, and drains end.                                  *)

\* What the lemmas above take of the states as they are.
LEMMA AsTheyAre ==
    ASSUME IInv
    PROVE  /\ TypeInv /\ Holds(states) /\ made \in Nat /\ made <= MaxStates
           /\ Numbered(states, made) /\ KeysRight(states, made)
           /\ Core(states, made, begun) /\ Cared(states)
           /\ \A k \in DOMAIN states : Settled(states[k], shown[states[k].id])
           /\ \A k \in DOMAIN states : states[k] \in Turn
BY ProgressAssumption DEF IInv, TInv, TypeInv, KeysRight, Holds, Right

\* Drains end that have no state any more, and no state changes.
LEMMA LeavesKeeps ==
    ASSUME IInv, Leaves, \A d \in Drains : drains'[d] = Off \/ drains'[d] = drains[d],
           Cared(states)', UNCHANGED <<shown, made, begun>>
    PROVE  Right'
<1>1. UNCHANGED <<states, controls, lost>>
  BY DEF Leaves
<1> QED
  BY <1>1, AsTheyAre, DropKeeps

\* Every state is given up.
LEMMA AllDroppedKeeps ==
    ASSUME IInv, DOMAIN states' = {},
           \A d \in Drains : drains'[d] = Off \/ drains'[d] = drains[d],
           \A i \in Ids : controls'[i] = controls[i] \/ controls'[i] = "none",
           lost \subseteq lost', \A k \in DOMAIN states : states[k].id \in lost',
           \A i \in lost' : i \in lost \/ \E k \in DOMAIN states : states[k].id = i,
           UNCHANGED <<shown, made, begun>>
    PROVE  Right'
<1>1. Cared(states)'
  BY DEF Cared
<1> QED
  BY <1>1, AsTheyAre, DropKeeps

\* Cancelled sessions, disconnections and resets give up every state they drop.
LEMMA AdapterKeeps ==
    ASSUME IInv, CancelSession \/ Disconnect \/ TakenDown \/ ConnectAgain \/ ResetIdentity
    PROVE  Right'
<1>1. CASE CancelSession \/ TakenDown
  <2>1. /\ Drop(states, DOMAIN states, TRUE) /\ UNCHANGED <<shown, made, begun>>
        /\ \A d \in Drains : drains'[d] = Off \/ drains'[d] = drains[d]
    BY <1>1, AsTheyAre DEF CancelSession, TakenDown, CancelAll
  <2>2. TypeInv /\ Holds(states)
    BY AsTheyAre
  <2>3. /\ Dropped(states, DOMAIN states)
        /\ \A k \in DOMAIN states \intersect DOMAIN states : states[k].id \in lost'
    BY <2>1, <2>2, DropMeans
  <2> QED
    BY <2>1, <2>3, AllDroppedKeeps DEF Dropped
<1>2. CASE Disconnect
  <2>1. Cared(states)'
    BY <1>2, AsTheyAre DEF Disconnect, Cared
  <2> QED
    BY <1>2, <2>1, LeavesKeeps DEF Disconnect, Leaves
<1>3. CASE ConnectAgain
  <2>1. Cared(states)'
    BY <1>3, AsTheyAre DEF ConnectAgain, Cared
  <2> QED
    BY <1>3, <2>1, LeavesKeeps DEF ConnectAgain, Leaves
<1>4. CASE ResetIdentity
  <2>1. DOMAIN states' = {}
    BY <1>4 DEF ResetIdentity, Restrict
  <2>2. \A i \in Ids : controls'[i] = "none"
    BY <1>4 DEF ResetIdentity
  <2>3. \A d \in Drains : drains'[d] = Off \/ drains'[d] = drains[d]
    BY <1>4 DEF ResetIdentity
  <2>4. /\ lost \subseteq lost' /\ \A k \in DOMAIN states : states[k].id \in lost'
        /\ \A i \in lost' : i \in lost \/ \E k \in DOMAIN states : states[k].id = i
    BY <1>4 DEF ResetIdentity, Range
  <2>5. UNCHANGED <<shown, made, begun>>
    BY <1>4 DEF ResetIdentity
  <2> QED
    BY <2>1, <2>2, <2>3, <2>4, <2>5, AllDroppedKeeps
<1> QED
  BY <1>1, <1>2, <1>3, <1>4

\* A drain that ends when its state is gone.
LEMMA EndsKeeps ==
    ASSUME IInv, NEW d \in Drains, Ends(d), Leaves, Drained, UNCHANGED shown,
           drains[d] # Off => ~Live(drains[d].key) \/ adapter # "up"
    PROVE  Right'
<1>1. drains' = [drains EXCEPT ![d] = Off] /\ UNCHANGED <<states, adapter>>
  BY DEF Ends, Leaves, Drained
<1>2. \A e \in Drains : (e = d => drains'[e] = Off) /\ (e # d => drains'[e] = drains[e])
  BY <1>1, AsTheyAre DEF TypeInv
<1>3. Cared(states)'
  <2>1. Cared(states) /\ adapter \in {"up", "closing", "down"}
    BY AsTheyAre DEF TypeInv
  <2> QED
    BY <1>1, <1>2, <2>1 DEF Cared, Live
<1> QED
  BY <1>2, <1>3, LeavesKeeps DEF Drained

\* A drain that gives up drops whatever state has its key, and that state is given up.
LEMMA GivesUpKeeps ==
    ASSUME IInv, NEW d \in Drains, GivesUp(d), Drained, UNCHANGED shown, drains[d] # Off
    PROVE  Right'
<1> DEFINE k == drains[d].key
<1>1. Drop(states, {k}, TRUE) /\ drains' = [drains EXCEPT ![d] = Off]
  BY DEF GivesUp, Ends, Now
<1>2. \A e \in Drains : (e = d => drains'[e] = Off) /\ (e # d => drains'[e] = drains[e])
  BY <1>1, AsTheyAre DEF TypeInv
<1>3. Dropped(states, {k}) /\ \A j \in {k} \intersect DOMAIN states : states[j].id \in lost'
  <2>1. TypeInv /\ Holds(states)
    BY AsTheyAre
  <2> QED
    BY <1>1, <2>1, DropMeans
<1>4. Cared(states)'
  BY <1>2, <1>3, AsTheyAre DEF Cared, Drained, Dropped
<1>5. /\ DOMAIN states' \subseteq DOMAIN states
      /\ \A j \in DOMAIN states' : states'[j] = states[j]
      /\ \A j \in DOMAIN states \ DOMAIN states' : states[j].id \in lost'
      /\ \A j \in DOMAIN states' : Settled(states[j], shown[states[j].id])
      /\ \A i \in Ids : controls'[i] = controls[i] \/ controls'[i] = "none"
      /\ lost \subseteq lost'
      /\ \A i \in lost' : i \in lost \/ \E j \in DOMAIN states : states[j].id = i
  BY <1>3, AsTheyAre DEF Dropped
<1>6. UNCHANGED <<made, begun>>
  BY DEF Drained
<1> QED
  BY <1>2, <1>4, <1>5, <1>6, AsTheyAre, DropKeeps

-----------------------------------------------------------------------------
(* A drain goes on.                                                        *)

\* A step of a drain that has a key already.
LEMMA StepKeeps ==
    ASSUME IInv, NEW d \in Drains, drains[d] # Off, NEW w \in DrainOf,
           w # Off => w.key = drains[d].key, drains' = [drains EXCEPT ![d] = w],
           UNCHANGED lost, Drained, DOMAIN states' = DOMAIN states,
           \A j \in DOMAIN states : j # drains[d].key => states'[j] = states[j],
           \A i \in Ids : \/ shown'[i] = shown[i] /\ controls'[i] = controls[i]
                          \/ Live(drains[d].key) /\ states[drains[d].key].id = i
                          \/ i \in lost /\ Reading(d) /\ drains[d].saw.id = i,
           Shapes(states, drains[d].key, w), Knows(states, made, d, drains[d].key, w)
    PROVE  Right'
<1> DEFINE k == drains[d].key
<1>1. Moves(states, d, k, w)
  BY AsTheyAre DEF Moves, Drained, Live
<1>2. Shapes(states, k, w) /\ Knows(states, made, d, k, w)
  OBVIOUS
<1>3. UNCHANGED <<made, begun>>
  BY DEF Drained
<1> HIDE DEF k
<1> QED
  BY <1>1, <1>2, <1>3, AsTheyAre, MoveKeeps

\* A drain at work, its state and its card.
Reader(d) ==
    LET w == drains[d]
        k == w.key
    IN  /\ w \in Long /\ w # Off /\ w.saw \in Turn /\ w.saw.id <= made
        /\ w.saw.id \in Ids /\ w.saw.rev \in Nat /\ w.saw.seq \in Nat
        /\ ~Blank(w.saw)
        /\ shown[w.saw.id] \in [seq : Nat \union {-1}, rev : Nat, phase : Phases]
        /\ DrainRight(w, shown[w.saw.id])
        /\ Idle(w) \/ Live(k) \/ w.saw.id \in lost
        /\ Same(d) <=> Live(k)
        /\ Live(k) =>
              /\ k \in DOMAIN states /\ states[k] \in Turn /\ states[k].id = w.saw.id
              /\ states[k].rev \in Nat /\ states[k].seq \in Nat /\ states[k].due \in Nat
              /\ ReadFrom(w, states[k])
              /\ states[k].scheduled /\ states[k].tools = "real"
              /\ StateRight(states[k], shown[w.saw.id], controls[w.saw.id])

\* That is what the invariant says of it.
LEMMA ReaderKnows ==
    ASSUME IInv, NEW d \in Drains, Reading(d)
    PROVE  Reader(d)
<1> DEFINE w == drains[d]
           k == w.key
<1>1. TypeInv /\ Core(states, made, begun) /\ \A j \in DOMAIN states : states[j] \in Turn
  BY AsTheyAre
<1>2. w \in Long /\ w.saw \in Turn /\ w # Off
  BY <1>1, LongWhenReading DEF Reading, Off, Working
<1>3. /\ w.saw.id <= made /\ DrainRight(w, shown[w.saw.id])
      /\ Live(k) => ReadFrom(w, states[k])
      /\ Idle(w) \/ Live(k) \/ w.saw.id \in lost
  BY <1>1 DEF Core, ReadRight, Live
<1>4. w.saw.id \in Ids /\ w.saw.rev \in Nat /\ w.saw.seq \in Nat /\ ~Blank(w.saw)
  BY <1>2, <1>3 DEF Turn, DrainRight, Blank
<1>5. shown[w.saw.id] \in [seq : Nat \union {-1}, rev : Nat, phase : Phases]
  BY <1>1, <1>4 DEF TypeInv
<1>6. Same(d) <=> Live(k)
  BY <1>3 DEF Same, Now, ReadFrom
<1>7. ASSUME Live(k)
      PROVE  /\ k \in DOMAIN states /\ states[k] \in Turn /\ states[k].id = w.saw.id
             /\ states[k].rev \in Nat /\ states[k].seq \in Nat /\ states[k].due \in Nat
             /\ ReadFrom(w, states[k])
             /\ states[k].scheduled /\ states[k].tools = "real"
             /\ StateRight(states[k], shown[w.saw.id], controls[w.saw.id])
  <2>1. k \in DOMAIN states /\ states[k] \in Turn /\ ReadFrom(w, states[k])
    BY <1>1, <1>3, <1>7 DEF Live
  <2>2. /\ states[k].id = w.saw.id /\ states[k].rev \in Nat /\ states[k].seq \in Nat
        /\ states[k].due \in Nat
    BY <2>1 DEF ReadFrom, Turn
  <2>3. StateRight(states[k], shown[states[k].id], controls[states[k].id])
    BY <1>1, <2>1 DEF Core, StatesRight
  <2>4. states[k].scheduled
    BY <1>1, <1>2, <2>1 DEF Core, DrainsRight
  <2> QED
    BY <2>1, <2>2, <2>3, <2>4 DEF StateRight
<1> QED
  BY <1>2, <1>3, <1>4, <1>5, <1>6, <1>7 DEF Reader

\* A queued drain that is created is to read, or ends with an adapter that goes down.
LEMMA SpawnedKeeps ==
    ASSUME IInv, NEW d \in Drains, Spawned(d)
    PROVE  Right'
<1>1. drains[d].pc = "queued" /\ Leaves /\ Drained /\ UNCHANGED shown /\ drains[d] # Off
  BY DEF Spawned, Off
<1>2. CASE Ends(d) /\ adapter # "up"
  BY <1>1, <1>2, EndsKeeps
<1>3. CASE adapter = "up"
  <2> DEFINE w == [pc |-> "read", key |-> Now(d), exhausted |-> 0]
             k == drains[d].key
  <2>1. drains' = [drains EXCEPT ![d] = w]
    BY <1>3 DEF Spawned
  <2>2. k \in Keys
    BY <1>1, AsTheyAre, DrainShape DEF TypeInv
  <2>3. w \in DrainOf /\ w # Off /\ w.key = k /\ w.pc = "read"
    BY <2>2 DEF DrainOf, Now, Off
  <2>4. UNCHANGED <<states, controls, lost, shown>>
    BY <1>1 DEF Leaves
  <2>5. Shapes(states, k, w)
    <3>1. Live(k) => states[k].scheduled
      BY <1>1, AsTheyAre DEF Core, DrainsRight, Live
    <3> HIDE DEF w, k
    <3> QED
      BY <2>3, <2>4, <3>1, AsTheyAre DEF Shapes, Live, Settled, Core, StatesRight
  <2>6. Knows(states, made, d, k, w)
    BY <2>3 DEF Knows
  <2> HIDE DEF w
  <2> QED
    BY <1>1, <2>1, <2>3, <2>4, <2>5, <2>6, StepKeeps
<1> QED
  BY <1>2, <1>3 DEF Spawned

\* What a drain reads is at that moment what there is.
LEMMA ReadsKeeps ==
    ASSUME IInv, NEW d \in Drains, Reads(d)
    PROVE  Right'
<1>1. /\ TypeInv /\ Core(states, made, begun) /\ \A j \in DOMAIN states : states[j] \in Turn
      /\ \A j \in DOMAIN states : states[j].id <= made
  BY AsTheyAre DEF Numbered
<1>2. drains[d].pc = "read" /\ Drained /\ UNCHANGED shown /\ drains[d] # Off
  BY DEF Reads, Off
<1>3. CASE ~Live(drains[d].key) /\ Ends(d) /\ Leaves
  BY <1>2, <1>3, EndsKeeps
<1>4. CASE GivesUp(d)
  BY <1>2, <1>4, GivesUpKeeps
<1>5. ASSUME Live(drains[d].key), Leaves, NEW w \in Long, w.pc = "act",
             w.key = drains[d].key, w.saw = states[w.key],
             drains' = [drains EXCEPT ![d] = w]
      PROVE  Right'
  <2> DEFINE k == drains[d].key
             s == states[k]
  <2>1. k \in DOMAIN states /\ s \in Turn /\ s.id \in Ids /\ s.id <= made /\ s.rev \in Nat
    BY <1>1, <1>5 DEF Live, Turn
  <2>2. StateRight(s, shown[s.id], controls[s.id]) /\ s.scheduled
    BY <1>1, <1>2, <2>1 DEF Core, StatesRight, DrainsRight
  <2>3. UNCHANGED <<states, controls, lost, shown>>
    BY <1>2, <1>5 DEF Leaves
  <2>4. w \in DrainOf /\ w # Off
    BY <1>5 DEF DrainOf, Off
  <2>5. Shapes(states, k, w)
    BY <2>2, <2>3, <2>4 DEF Shapes, Settled
  <2>6. ReadFrom(w, s) /\ DrainRight(w, shown[s.id])
    BY <1>5, <2>1, <2>2 DEF ReadFrom, DrainRight, StateRight, Asking
  <2>7. Knows(states, made, d, k, w)
    BY <1>5, <2>1, <2>3, <2>6 DEF Knows
  <2> QED
    BY <1>2, <1>5, <2>3, <2>4, <2>5, <2>7, StepKeeps
<1> QED
  BY <1>1, <1>3, <1>4, <1>5, ReadsMeans

\* What was read does not change, nor does the state.
LEMMA GoesOnKeeps ==
    ASSUME IInv, NEW d \in Drains, Reading(d), NEW v \in Long, v.key = drains[d].key,
           v.saw = drains[d].saw, drains' = [drains EXCEPT ![d] = v],
           Leaves, Drained, UNCHANGED shown, DrainRight(v, shown[v.saw.id]),
           Live(v.key) => ReadFrom(v, states[v.key]),
           Idle(v) \/ Live(v.key) \/ v.saw.id \in lost
    PROVE  Right'
<1> DEFINE w == drains[d]
           k == w.key
<1>1. Reader(d)
  BY ReaderKnows
<1>2. UNCHANGED <<states, controls, lost, shown>>
  BY DEF Leaves
<1>3. v \in DrainOf /\ v # Off /\ drains[d] # Off
  BY <1>1 DEF DrainOf, Off, Long, Working, Reader
<1>4. Shapes(states, k, v)
  BY <1>1, <1>2, <1>3 DEF Shapes, Reader, Settled, Live
<1>5. Knows(states, made, d, k, v)
  BY <1>1, <1>2 DEF Knows, Reader, Live
<1> QED
  BY <1>2, <1>3, <1>4, <1>5, StepKeeps

\* A drain is to read its state again.
LEMMA ReadsAgainKeeps ==
    ASSUME IInv, NEW d \in Drains, Reading(d), NEW e \in Nat, Leaves, Drained, UNCHANGED shown,
           drains' = [drains EXCEPT ![d] = [pc |-> "read", key |-> drains[d].key, exhausted |-> e]]
    PROVE  Right'
<1> DEFINE k == drains[d].key
           v == [pc |-> "read", key |-> k, exhausted |-> e]
<1>1. Reader(d)
  BY ReaderKnows
<1>2. UNCHANGED <<states, controls, lost, shown>>
  BY DEF Leaves
<1>3. v \in DrainOf /\ v # Off /\ v.key = k /\ drains[d] # Off /\ v.pc = "read"
  BY <1>1 DEF DrainOf, Off, Long, Working, Reader
<1> HIDE DEF v
<1>4. Shapes(states, k, v)
  BY <1>1, <1>2, <1>3 DEF Shapes, Reader, Settled, Live
<1>5. Knows(states, made, d, k, v)
  BY <1>3 DEF Knows
<1>6. drains' = [drains EXCEPT ![d] = v]
  BY DEF v
<1> QED
  BY <1>2, <1>3, <1>4, <1>5, <1>6, StepKeeps

\* The state of the key becomes s, with the action a, and the drain goes on as v.
ChangesTo(d, s, a, v) ==
    LET w == drains[d]
        k == w.key
    IN  /\ v \in DrainOf /\ (v # Off => v.key = k) /\ drains' = [drains EXCEPT ![d] = v]
        /\ states' = [states EXCEPT ![k] = s] /\ controls' = [controls EXCEPT ![s.id] = a]
        /\ UNCHANGED <<lost, shown>> /\ Drained
        /\ s.id = w.saw.id /\ s.phase = states[k].phase
        /\ s.scheduled <=> v # Off
        /\ StateRight(s, shown[s.id], a) /\ Settled(s, shown[s.id])
        /\ v.pc \in Working \ {"read"} =>
              v.saw = w.saw /\ ReadFrom(v, s) /\ DrainRight(v, shown[s.id])

\* Such a change keeps the invariant.
LEMMA ChangesKeeps ==
    ASSUME IInv, NEW d \in Drains, Reading(d), Live(drains[d].key), NEW s \in Turn, NEW v,
           NEW a, ChangesTo(d, s, a, v)
    PROVE  Right'
<1> USE DEF ChangesTo
<1> DEFINE k == drains[d].key
           i == drains[d].saw.id
<1>1. /\ Reader(d) /\ k \in DOMAIN states /\ states[k].id = i /\ i \in Ids /\ i <= made
      /\ drains[d] # Off
  BY ReaderKnows DEF Reader
<1> HIDE DEF k, i
<1>2. DOMAIN states' = DOMAIN states /\ states'[k] = s
      /\ \A j \in DOMAIN states : j # k => states'[j] = states[j]
  BY <1>1, AsTheyAre DEF k, Holds
<1>3. controls'[i] = a /\ \A j \in Ids : j # i => controls'[j] = controls[j]
  BY <1>1, AsTheyAre DEF i, TypeInv
<1>4. s.id = i /\ s.phase = states[k].phase
  BY DEF i, k
<1>5. Shapes(states, k, v)
  BY <1>1, <1>2, <1>3, <1>4 DEF Shapes
<1>6. Knows(states, made, d, k, v)
  BY <1>1, <1>2, <1>4 DEF Knows, i
<1>7. \A j \in Ids : \/ shown'[j] = shown[j] /\ controls'[j] = controls[j]
                     \/ Live(k) /\ states[k].id = j
  BY <1>1, <1>3 DEF Live
<1> QED
  BY <1>1, <1>2, <1>5, <1>6, <1>7, StepKeeps DEF k

\* A drain sends and edits only what is not blank; a final state it cannot show is given up.
LEMMA ActsKeeps ==
    ASSUME IInv, NEW d \in Drains, Acts(d)
    PROVE  Right'
<1> DEFINE w == drains[d]
           k == w.key
<1>1. w \in Long /\ w.pc = "act" /\ Drained /\ UNCHANGED shown /\ TypeInv
  BY ActsMeans, AsTheyAre
<1>2. Reading(d)
  BY <1>1 DEF Reading, Working
<1>3. Reader(d)
  BY <1>2, ReaderKnows
<1>4. ASSUME NEW pc \in {"profile", "edit", "send"}, Goes(d, pc)
      PROVE  LET v == [w EXCEPT !.pc = pc]
             IN  /\ v \in Long /\ v.pc = pc /\ v.key = k /\ v.saw = w.saw
                 /\ drains' = [drains EXCEPT ![d] = v]
  <2>1. pc \in Working
    BY DEF Working
  <2>2. /\ [w EXCEPT !.pc = pc] \in Long
        /\ drains' = [drains EXCEPT ![d] = [w EXCEPT !.pc = pc]]
    BY <1>1, <1>4, <2>1, GoesMeans
  <2>3. /\ [w EXCEPT !.pc = pc].pc = pc /\ [w EXCEPT !.pc = pc].key = k
        /\ [w EXCEPT !.pc = pc].saw = w.saw
    BY <1>1 DEF Long
  <2> QED
    BY <2>2, <2>3
<1>5. CASE w.saw.mode = "none" /\ Goes(d, "profile") /\ Leaves
  <2>1. PICK v \in Long : /\ v.pc = "profile" /\ v.key = k /\ v.saw = w.saw
                          /\ drains' = [drains EXCEPT ![d] = v]
    BY <1>4, <1>5
  <2>2. /\ DrainRight(v, shown[v.saw.id]) /\ (Live(k) => ReadFrom(v, states[k]))
        /\ Idle(v) \/ Live(k) \/ v.saw.id \in lost
    BY <1>1, <1>3, <1>5, <2>1 DEF Reader, DrainRight, ReadFrom, Idle, Asking, Working
  <2> QED
    BY <1>1, <1>2, <1>5, <2>1, <2>2, GoesOnKeeps
<1>6. CASE w.saw.mode # "none" /\ w.saw.msg /\ Goes(d, "edit") /\ Leaves
  <2>1. PICK v \in Long : /\ v.pc = "edit" /\ v.key = k /\ v.saw = w.saw
                          /\ drains' = [drains EXCEPT ![d] = v]
    BY <1>4, <1>6
  <2>2. /\ DrainRight(v, shown[v.saw.id]) /\ (Live(k) => ReadFrom(v, states[k]))
        /\ Idle(v) \/ Live(k) \/ v.saw.id \in lost
    BY <1>1, <1>3, <1>6, <2>1 DEF Reader, DrainRight, ReadFrom, Idle, Asking, Working
  <2> QED
    BY <1>1, <1>2, <1>6, <2>1, <2>2, GoesOnKeeps
<1>7. CASE ~Same(d) /\ Ends(d) /\ Leaves
  BY <1>1, <1>3, <1>7, EndsKeeps DEF Reader
<1>8. CASE /\ w.saw.mode # "none" /\ ~w.saw.msg /\ Same(d) /\ Goes(d, "send")
           /\ Becomes([states EXCEPT ![k].sending = TRUE])
  <2>1. PICK v \in Long : /\ v.pc = "send" /\ v.key = k /\ v.saw = w.saw
                          /\ drains' = [drains EXCEPT ![d] = v]
    BY <1>4, <1>8
  <2>2. /\ Live(k) /\ k \in DOMAIN states /\ states[k] \in Turn /\ states[k].scheduled
        /\ states[k].id = w.saw.id /\ ReadFrom(w, states[k])
        /\ StateRight(states[k], shown[w.saw.id], controls[w.saw.id])
        /\ DrainRight(w, shown[w.saw.id])
    BY <1>3, <1>8 DEF Reader
  <2>3. PICK s \in Turn :
           /\ [states EXCEPT ![k].sending = TRUE] = [states EXCEPT ![k] = s]
           /\ s = [states[k] EXCEPT !.sending = TRUE]
           /\ s.id = states[k].id /\ s.phase = states[k].phase
    BY <1>1, <2>2, SetsSending
  <2>4. states' = [states EXCEPT ![k] = s] /\ UNCHANGED <<controls, lost>>
    BY <1>8, <2>3 DEF Becomes
  <2>5. /\ s.sending /\ s.scheduled /\ s.seq = states[k].seq /\ s.msg = states[k].msg
        /\ s.mode = states[k].mode /\ s.rev = states[k].rev /\ s.due = states[k].due
        /\ s.tools = states[k].tools
    BY <2>2, <2>3 DEF Turn
  <2>6. StateRight(s, shown[s.id], controls[s.id]) /\ Settled(s, shown[s.id])
    BY <2>2, <2>3, <2>5 DEF StateRight, Settled
  <2>7. ReadFrom(v, s) /\ DrainRight(v, shown[s.id])
    <3>1. ReadFrom(v, s)
      BY <2>1, <2>2, <2>3, <2>5 DEF ReadFrom
    <3>2. DrainRight(v, shown[w.saw.id]) /\ s.id = w.saw.id
      BY <1>8, <2>1, <2>2, <2>3 DEF DrainRight
    <3> QED
      BY <3>1, <3>2
  <2>8. controls' = [controls EXCEPT ![s.id] = controls[s.id]]
    BY <1>1, <2>4 DEF TypeInv
  <2>9. v \in DrainOf /\ v # Off
    BY <2>1 DEF DrainOf, Off
  <2> QED
    <3>1. ChangesTo(d, s, controls[s.id], v)
      BY <1>1, <2>1, <2>2, <2>3, <2>4, <2>5, <2>6, <2>7, <2>8, <2>9 DEF ChangesTo
    <3> QED
      BY <1>2, <2>2, <3>1, ChangesKeeps
<1>9. ~Blank(w.saw)
  BY <1>3 DEF Reader
<1> QED
  BY <1>1, <1>5, <1>6, <1>7, <1>8, <1>9, ActsMeans

\* The mode that the profile sets is read again before anything is sent.
LEMMA ProfileKeeps ==
    ASSUME IInv, NEW d \in Drains, ProfileAnswers(d)
    PROVE  Right'
<1> DEFINE w == drains[d]
           k == w.key
<1>1. w \in Long /\ w.pc = "profile" /\ Drained /\ UNCHANGED shown /\ TypeInv
  BY ProfileMeans, AsTheyAre
<1>2. Reading(d)
  BY <1>1 DEF Reading, Working
<1>3. Reader(d) /\ w # Off
  BY <1>2, ReaderKnows DEF Reader
<1>4. CASE GivesUp(d)
  BY <1>1, <1>3, <1>4, GivesUpKeeps
<1>5. CASE ~Same(d) /\ Ends(d) /\ Leaves
  BY <1>1, <1>3, <1>5, EndsKeeps DEF Reader
<1>6. ASSUME Same(d), Goes(d, "read"), UNCHANGED <<controls, lost>>, NEW s \in Turn,
             NEW m \in {"card", "registry"}, states' = [states EXCEPT ![k] = s],
             s = [states[k] EXCEPT !.mode = m, !.stop = (m = "registry")],
             s.id = states[k].id, s.phase = states[k].phase
      PROVE  Right'
  <2> DEFINE v == [w EXCEPT !.pc = "read"]
  <2>1. v \in Long /\ drains' = [drains EXCEPT ![d] = v]
    BY <1>1, <1>6, GoesMeans DEF Working
  <2>2. v.pc = "read" /\ v.key = k
    BY <1>1 DEF Long
  <2>3. v \in DrainOf /\ v # Off
    BY <2>1, <2>2 DEF DrainOf, Off
  <2> HIDE DEF v
  <2>4. /\ Live(k) /\ states[k] \in Turn /\ states[k].scheduled
        /\ states[k].id = w.saw.id /\ ReadFrom(w, states[k])
        /\ StateRight(states[k], shown[w.saw.id], controls[w.saw.id])
        /\ DrainRight(w, shown[w.saw.id])
    BY <1>3, <1>6 DEF Reader
  <2>5. /\ s.sending = states[k].sending /\ s.scheduled /\ s.seq = states[k].seq
        /\ s.msg = states[k].msg /\ s.rev = states[k].rev /\ s.due = states[k].due
        /\ s.tools = states[k].tools
    BY <1>6, <2>4 DEF Turn
  <2>6. controls[w.saw.id] = "none"
    BY <1>1, <2>4 DEF DrainRight, ReadFrom, StateRight
  <2>7. StateRight(s, shown[s.id], controls[s.id]) /\ Settled(s, shown[s.id])
    BY <1>6, <2>4, <2>5, <2>6 DEF StateRight, Settled
  <2>8. controls' = [controls EXCEPT ![s.id] = controls[s.id]]
    BY <1>1, <1>6 DEF TypeInv
  <2>9. ChangesTo(d, s, controls[s.id], v)
    BY <1>1, <1>6, <2>1, <2>2, <2>3, <2>4, <2>5, <2>7, <2>8 DEF ChangesTo
  <2> QED
    BY <1>2, <2>4, <2>9, ChangesKeeps
<1>7. \/ GivesUp(d)
      \/ ~Same(d) /\ Ends(d) /\ Leaves
      \/ /\ Same(d) /\ Goes(d, "read") /\ UNCHANGED <<controls, lost>>
         /\ \E m \in {"card", "registry"}, s \in Turn :
               /\ states' = [states EXCEPT ![k] = s]
               /\ s = [states[k] EXCEPT !.mode = m, !.stop = (m = "registry")]
               /\ s.id = states[k].id /\ s.phase = states[k].phase
  BY <1>1, ProfileMeans
<1> HIDE DEF k, w
<1> QED
  BY <1>4, <1>5, <1>6, <1>7

\* What the server takes is never behind what it has.
LEMMA ServerAhead ==
    ASSUME IInv, NEW d \in Drains, ServerTakes(d)
    PROVE  LET w == drains[d]
           IN  /\ w \in Long /\ w.pc \in {"send", "edit"} /\ Reading(d) /\ Reader(d)
               /\ shown' = [shown EXCEPT ![w.saw.id] = Told(w)]
               /\ Told(w).seq = (IF w.pc = "send" THEN 0 ELSE w.saw.seq + 1)
               /\ Told(w).rev = w.saw.rev /\ Told(w).phase = w.saw.phase
               /\ Goes(d, IF w.pc = "send" THEN "sent" ELSE "edited")
               /\ Leaves /\ Drained
<1> DEFINE w == drains[d]
           c == shown[w.saw.id]
<1>1. /\ w \in Long /\ w.pc \in {"send", "edit"}
      /\ \/ Told(w).seq < c.seq /\ shown' = shown
         \/ ~(Told(w).seq < c.seq) /\ shown' = [shown EXCEPT ![w.saw.id] = Told(w)]
      /\ Goes(d, IF w.pc = "send" THEN "sent" ELSE "edited")
      /\ Leaves /\ Drained
  BY AsTheyAre, ServerMeans
<1>2. Reading(d)
  BY <1>1 DEF Reading, Working
<1>3. Reader(d)
  BY <1>2, ReaderKnows
<1>4. /\ Told(w).seq = (IF w.pc = "send" THEN 0 ELSE w.saw.seq + 1)
      /\ Told(w).rev = w.saw.rev /\ Told(w).phase = w.saw.phase
  BY DEF Told
<1>5. ~(Told(w).seq < c.seq)
  <2>1. c.seq \in Nat \union {-1} /\ w.saw.seq \in Nat /\ DrainRight(w, c)
    BY <1>3 DEF Reader
  <2> HIDE DEF c
  <2> QED
    BY <1>1, <1>4, <2>1 DEF DrainRight, Asking
<1> QED
  BY <1>1, <1>2, <1>3, <1>4, <1>5

\* The server's card is then what the drain saw, and the drain knows it.
LEMMA ServerKeeps ==
    ASSUME IInv, NEW d \in Drains, ServerTakes(d)
    PROVE  Right'
<1> DEFINE w == drains[d]
           k == w.key
           i == w.saw.id
           c == Told(w)
           pc == IF w.pc = "send" THEN "sent" ELSE "edited"
           v == [w EXCEPT !.pc = pc]
<1>1. /\ w \in Long /\ w.pc \in {"send", "edit"} /\ Reading(d) /\ Reader(d)
      /\ shown' = [shown EXCEPT ![i] = c]
      /\ c.seq = (IF w.pc = "send" THEN 0 ELSE w.saw.seq + 1)
      /\ c.rev = w.saw.rev /\ c.phase = w.saw.phase
      /\ Goes(d, pc) /\ Leaves /\ Drained
  BY ServerAhead
<1>2. v \in Long /\ drains' = [drains EXCEPT ![d] = v]
  BY <1>1, AsTheyAre, GoesMeans DEF Working
<1>3. v.pc = pc /\ v.key = k /\ v.saw = w.saw
  BY <1>1 DEF Long
<1>4. v \in DrainOf /\ v # Off
  BY <1>2 DEF DrainOf, Off, Long, Working
<1> HIDE DEF v, c
<1>5. UNCHANGED <<states, controls, lost>>
  BY <1>1 DEF Leaves
<1>6. /\ i \in Ids /\ i <= made /\ w # Off /\ w.saw.seq \in Nat /\ DrainRight(w, shown[i])
      /\ Live(k) \/ i \in lost
  BY <1>1 DEF Reader, Idle, Asking, Working
<1>7. shown'[i] = c /\ \A j \in Ids : j # i => shown'[j] = shown[j]
  BY <1>1, <1>6, AsTheyAre DEF TypeInv
<1>8. DrainRight(v, c)
  BY <1>1, <1>3, <1>6 DEF DrainRight, Asking
<1>9. ASSUME Live(k)
      PROVE  /\ k \in DOMAIN states /\ states[k].id = i /\ states[k].scheduled
             /\ ReadFrom(v, states[k]) /\ StateRight(states[k], c, controls[i])
  <2>1. /\ k \in DOMAIN states /\ states[k].id = i /\ states[k].scheduled
        /\ ReadFrom(w, states[k]) /\ StateRight(states[k], shown[i], controls[i])
    BY <1>1, <1>9 DEF Reader
  <2>2. ReadFrom(v, states[k])
    BY <1>1, <1>3, <2>1 DEF ReadFrom
  <2>3. StateRight(states[k], c, controls[i])
    BY <1>1, <1>6, <2>1 DEF StateRight, ReadFrom, DrainRight, Asking
  <2> QED
    BY <2>1, <2>2, <2>3
<1>10. Shapes(states, k, v)
  BY <1>4, <1>5, <1>7, <1>9 DEF Shapes, Settled, Live
<1>11. Knows(states, made, d, k, v)
  BY <1>1, <1>3, <1>5, <1>6, <1>7, <1>8, <1>9 DEF Knows, Live
<1>12. \A j \in Ids : \/ shown'[j] = shown[j] /\ controls'[j] = controls[j]
                      \/ Live(k) /\ states[k].id = j
                      \/ j \in lost /\ Reading(d) /\ w.saw.id = j
  BY <1>1, <1>5, <1>6, <1>7, <1>9
<1> QED
  BY <1>1, <1>2, <1>3, <1>4, <1>5, <1>6, <1>10, <1>11, <1>12, StepKeeps

\* The state as a drain is to settle it, when the card is as the drain saw it.
Answered(d, s, registers) ==
    LET w == drains[d]
        c == shown[s.id]
        o == states[w.key]
    IN  /\ s.id = w.saw.id /\ s.phase = o.phase /\ s.rev = o.rev
        /\ s.rev \in Nat /\ s.due \in Nat /\ s.seq \in Nat
        /\ StateRight(s, c, controls[s.id]) /\ s.msg /\ s.tools = "real"
        /\ c.rev = w.saw.rev /\ c.phase = w.saw.phase
        /\ s.rev = w.saw.rev => s.phase = w.saw.phase
        /\ registers => s.mode = "registry"
        /\ s.mode = "registry" /\ s.phase # "active" => registers

\* The state that is settled stays, and its drain rests when there is no more to show.
Stays(d, s, registers, e, a, kept) ==
    LET k == drains[d].key
        same == s.rev = drains[d].saw.rev
    IN  /\ registers \/ a = controls[s.id]
        /\ same => s.phase = "active"
        /\ states' = [states EXCEPT ![k] = [s EXCEPT !.keep = kept, !.scheduled = ~same]]
        /\ controls' = [controls EXCEPT ![s.id] = a] /\ UNCHANGED lost
        /\ \/ same /\ drains' = [drains EXCEPT ![d] = Off]
           \/ ~same /\ drains' = [drains EXCEPT ![d] =
                                     [pc |-> "read", key |-> k, exhausted |-> e]]

\* It goes with its drain, and b is the action that is left.
IsDropped(d, s, b) ==
    /\ states' = Restrict(states, DOMAIN states \ {drains[d].key})
    /\ controls' = [controls EXCEPT ![s.id] = b] /\ UNCHANGED lost
    /\ drains' = [drains EXCEPT ![d] = Off] /\ Left(shown[s.id], b)

\* If it stays, its drain rests only when the card shows the last revision.
LEMMA StaysKeeps ==
    ASSUME IInv, NEW d \in Drains, Reading(d), Live(drains[d].key), NEW s \in Turn, NEW e \in Nat,
           NEW registers \in BOOLEAN, Answered(d, s, registers), NEW a, NEW kept \in BOOLEAN,
           Stays(d, s, registers, e, a, kept), UNCHANGED shown, Drained
    PROVE  Right'
<1> DEFINE k == drains[d].key
           same == s.rev = drains[d].saw.rev
           next == [s EXCEPT !.keep = kept, !.scheduled = ~same]
           v == IF same THEN Off ELSE [pc |-> "read", key |-> k, exhausted |-> e]
<1>1. Reader(d)
  BY ReaderKnows
<1>2. k \in Keys /\ v \in DrainOf /\ (v # Off => v.key = k) /\ v.pc \notin Working \ {"read"}
      /\ (same <=> v = Off)
  BY <1>1 DEF Reader, Long, DrainOf, Off, Working
<1>3. /\ drains' = [drains EXCEPT ![d] = v] /\ (same => s.phase = "active")
      /\ registers \/ a = controls[s.id]
      /\ states' = [states EXCEPT ![k] = next] /\ controls' = [controls EXCEPT ![s.id] = a]
      /\ UNCHANGED lost
  BY DEF Stays
<1>4. /\ next \in Turn /\ next.id = s.id /\ next.phase = s.phase /\ next.rev = s.rev
      /\ next.due = s.due /\ next.seq = s.seq /\ next.msg = s.msg /\ next.sending = s.sending
      /\ next.mode = s.mode /\ next.tools = s.tools /\ next.scheduled = ~same
  <2> HIDE DEF same
  <2> QED
    BY DEF Turn
<1> HIDE DEF v, next
<1>5. StateRight(next, shown[s.id], a)
  BY <1>3, <1>4 DEF Answered, StateRight
<1>6. Settled(next, shown[s.id])
  BY <1>3, <1>4 DEF Answered, Settled, StateRight
<1>7. ChangesTo(d, next, a, v)
  BY <1>2, <1>3, <1>4, <1>5, <1>6 DEF Answered, ChangesTo
<1> QED
  BY <1>4, <1>7, ChangesKeeps

\* If it goes, its card shows the end.
LEMMA IsDroppedKeeps ==
    ASSUME IInv, NEW d \in Drains, Reading(d), Live(drains[d].key), NEW s \in Turn, NEW b,
           s.id = drains[d].saw.id, IsDropped(d, s, b), UNCHANGED shown, Drained
    PROVE  Right'
<1> DEFINE k == drains[d].key
<1>1. /\ k \in DOMAIN states /\ states[k].id = s.id /\ s.id \in Ids /\ drains[d] # Off
  BY ReaderKnows DEF Reader
<1>2. \A x \in Drains : (x = d => drains'[x] = Off) /\ (x # d => drains'[x] = drains[x])
  BY AsTheyAre DEF TypeInv, IsDropped
<1>3. \A x \in Drains : drains'[x] = Off \/ drains'[x].key # k
  BY <1>1, <1>2, AsTheyAre DEF Core, DrainsRight
<1>4. DOMAIN states' = DOMAIN states \ {k} /\ \A j \in DOMAIN states' : states'[j] = states[j]
  BY DEF Restrict, IsDropped
<1>5. controls'[s.id] = b /\ \A i \in Ids : i # s.id => controls'[i] = controls[i]
  BY <1>1, AsTheyAre DEF TypeInv, IsDropped
<1>6. Cared(states)'
  BY <1>2, <1>4, AsTheyAre DEF Cared, Drained
<1>7. Left(shown[s.id], b) /\ UNCHANGED lost
  BY DEF IsDropped
<1>8. /\ \A j \in DOMAIN states' : Settled(states[j], shown[states[j].id])
      /\ DOMAIN states' \subseteq DOMAIN states
      /\ \A x \in Drains : drains'[x] = Off \/ drains'[x] = drains[x]
  BY <1>2, <1>4, AsTheyAre
<1>9. ASSUME NEW j \in DOMAIN states \ DOMAIN states'
      PROVE  /\ Left(shown[states[j].id], controls'[states[j].id])
             /\ \A x \in Drains : drains'[x] # Off /\ drains'[x].key = j => Idle(drains[x])
  BY <1>1, <1>3, <1>4, <1>5, <1>7
<1>10. \A i \in Ids : controls'[i] = controls[i] \/ controls'[i] = "none"
                      \/ \E j \in DOMAIN states \ DOMAIN states' : states[j].id = i
  BY <1>1, <1>4, <1>5
<1>11. UNCHANGED <<made, begun>>
  BY DEF Drained
<1>12. TypeInv /\ Holds(states) /\ made \in Nat /\ made <= MaxStates
       /\ Numbered(states, made) /\ Core(states, made, begun)
  BY AsTheyAre
<1> HIDE DEF k
<1> QED
  BY <1>4, <1>6, <1>7, <1>8, <1>9, <1>10, <1>11, <1>12, DropKeeps

\* The action that a card keeps at its end is Retry, and its turn ended in an error.
LEMMA EndedAction ==
    ASSUME IInv, NEW d \in Drains, NEW s \in Turn, NEW registers \in BOOLEAN,
           Answered(d, s, registers), s.rev = drains[d].saw.rev, s.phase # "active",
           NEW a, NEW kept \in BOOLEAN,
           \/ registers /\ <<a, kept>> \in Synced(s, drains[d].saw.phase)
           \/ ~registers /\ a = controls[s.id]
    PROVE  Left(shown[s.id], IF s.mode = "registry" /\ ~kept THEN "none" ELSE a)
<1> DEFINE p == drains[d].saw.phase
<1>1. shown[s.id].phase = p /\ s.phase = p
  BY DEF Answered
<1>2. CASE ~registers
  BY <1>1, <1>2 DEF Left, Answered, StateRight
<1>3. CASE registers
  <2>1. CASE kept
    <3>1. a = Control(s, p)
      BY <1>3, <2>1 DEF Synced
    <3>2. a = "none" \/ (a = "retry" /\ p = "error")
      BY <1>1, <3>1 DEF Control
    <3> QED
      BY <1>1, <2>1, <3>2 DEF Left
  <2>2. CASE ~kept
    BY <1>1, <1>3, <2>2 DEF Left, Answered
  <2> QED
    BY <2>1, <2>2
<1> QED
  BY <1>2, <1>3

\* An answer keeps the invariant.
LEMMA SettlesKeeps ==
    ASSUME IInv, NEW d \in Drains, Reading(d), Live(drains[d].key), NEW s \in Turn, NEW e \in Nat,
           NEW registers \in BOOLEAN, Answered(d, s, registers), Settles(d, s, registers, e),
           Drained, UNCHANGED shown
    PROVE  Right'
<1> DEFINE w == drains[d]
           same == s.rev = w.saw.rev
<1>1. PICK a \in {"none", "stop", "retry"}, kept \in BOOLEAN, next \in Turn :
         /\ \/ registers /\ <<a, kept>> \in Synced(s, w.saw.phase)
            \/ ~registers /\ a = controls[s.id] /\ kept = s.keep
         /\ next = [s EXCEPT !.keep = kept, !.scheduled = ~same]
         /\ next.id = s.id /\ next.phase = s.phase
         /\ \/ /\ same /\ s.phase # "active"
               /\ states' = Restrict(states, DOMAIN states \ {w.key})
               /\ controls' = [controls EXCEPT ![s.id] =
                                 IF s.mode = "registry" /\ ~kept THEN "none" ELSE a]
            \/ /\ ~(same /\ s.phase # "active")
               /\ states' = [states EXCEPT ![w.key] = next]
               /\ controls' = [controls EXCEPT ![s.id] = a]
         /\ \/ same /\ drains' = [drains EXCEPT ![d] = Off]
            \/ ~same /\ drains' = [drains EXCEPT ![d] =
                                      [pc |-> "read", key |-> w.key, exhausted |-> e]]
         /\ UNCHANGED lost
  BY DEF Settles
<1>2. CASE ~(same /\ s.phase # "active")
  <2>1. Stays(d, s, registers, e, a, kept)
    BY <1>1, <1>2 DEF Stays
  <2> QED
    BY <2>1, StaysKeeps
<1>3. CASE same /\ s.phase # "active"
  <2> DEFINE b == IF s.mode = "registry" /\ ~kept THEN "none" ELSE a
  <2>1. Left(shown[s.id], b)
    BY <1>1, <1>3, EndedAction
  <2>2. IsDropped(d, s, b)
    BY <1>1, <1>3, <2>1 DEF IsDropped
  <2>3. s.id = w.saw.id
    BY DEF Answered
  <2> HIDE DEF b, w
  <2> QED
    BY <2>2, <2>3, IsDroppedKeeps DEF w
<1> QED
  BY <1>2, <1>3

\* The answer to a send: the state has its card from then on.
LEMMA SendReturnsKeeps ==
    ASSUME IInv, NEW d \in Drains, SendReturns(d)
    PROVE  Right'
<1> DEFINE w == drains[d]
           k == w.key
<1>1. TypeInv /\ Core(states, made, begun)
  BY AsTheyAre
<1>2. w \in Long /\ w.pc = "sent" /\ Drained /\ UNCHANGED shown
  BY <1>1, SendReturnsMeans
<1>3. Reading(d)
  BY <1>2 DEF Reading, Working
<1>4. Reader(d) /\ w # Off
  BY <1>3, ReaderKnows DEF Reader
<1>5. CASE ~Same(d)
  <2>1. Ends(d) /\ Leaves
    BY <1>1, <1>5, SendReturnsMeans
  <2> QED
    BY <1>2, <1>4, <1>5, <2>1, EndsKeeps DEF Reader
<1>6. CASE Same(d)
  <2>1. PICK s \in Turn : /\ s = [states[k] EXCEPT !.sending = FALSE, !.msg = TRUE]
                          /\ Shown(d, s, s.mode = "registry", w.exhausted)
    BY <1>1, <1>6, SendReturnsMeans
  <2>2. /\ Live(k) /\ states[k] \in Turn /\ states[k].id = w.saw.id
        /\ states[k].rev \in Nat /\ states[k].seq \in Nat /\ states[k].due \in Nat
        /\ ReadFrom(w, states[k]) /\ states[k].tools = "real"
        /\ StateRight(states[k], shown[w.saw.id], controls[w.saw.id])
        /\ DrainRight(w, shown[w.saw.id])
        /\ shown[w.saw.id] \in [seq : Nat \union {-1}, rev : Nat, phase : Phases]
    BY <1>4, <1>6 DEF Reader
  <2> DEFINE o == states[k]
             registers == s.mode = "registry"
  <2>3. /\ s.id = o.id /\ s.phase = o.phase /\ s.rev = o.rev /\ s.due = o.due /\ s.seq = o.seq
        /\ s.mode = o.mode /\ s.tools = o.tools /\ s.scheduled = o.scheduled
        /\ s.msg = TRUE /\ s.sending = FALSE
    <3> HIDE DEF o
    <3> QED
      BY <2>1, <2>2 DEF Turn, o
  <2>4. StateRight(s, shown[w.saw.id], controls[w.saw.id])
    BY <2>2, <2>3 DEF StateRight
  <2>5. /\ shown[w.saw.id].rev = w.saw.rev /\ shown[w.saw.id].phase = w.saw.phase
        /\ s.rev = w.saw.rev => s.phase = w.saw.phase
    BY <1>2, <2>2, <2>3 DEF DrainRight, ReadFrom
  <2>6. Answered(d, s, registers)
    BY <2>2, <2>3, <2>4, <2>5 DEF Answered
  <2>7. w.exhausted \in Nat /\ registers \in BOOLEAN
    BY <1>2 DEF Long
  <2> HIDE DEF registers, w
  <2>8. Settles(d, s, registers, w.exhausted)
    BY <1>1, <1>2, <2>1, <2>7, ShownMeans DEF registers, w
  <2> QED
    BY <1>2, <1>3, <2>2, <2>6, <2>7, <2>8, SettlesKeeps DEF w
<1> QED
  BY <1>5, <1>6

\* The answer to an edit: the state has its sequence number.
LEMMA EditReturnsKeeps ==
    ASSUME IInv, NEW d \in Drains, EditReturns(d)
    PROVE  Right'
<1> DEFINE w == drains[d]
           k == w.key
<1>1. TypeInv /\ Core(states, made, begun)
  BY AsTheyAre
<1>2. w \in Long /\ w.pc = "edited" /\ Drained /\ UNCHANGED shown
  BY <1>1, EditReturnsMeans
<1>3. Reading(d)
  BY <1>2 DEF Reading, Working
<1>4. Reader(d) /\ w # Off
  BY <1>3, ReaderKnows DEF Reader
<1>5. CASE ~Same(d)
  <2>1. Ends(d) /\ Leaves
    BY <1>1, <1>5, EditReturnsMeans
  <2> QED
    BY <1>2, <1>4, <1>5, <2>1, EndsKeeps DEF Reader
<1>6. CASE Same(d)
  <2>1. PICK s \in Turn : /\ s = [states[k] EXCEPT !.seq = w.saw.seq + 1]
                          /\ Shown(d, s, s.mode = "registry" /\ Final(k), 0)
    BY <1>1, <1>6, EditReturnsMeans
  <2>2. /\ Live(k) /\ states[k] \in Turn /\ states[k].id = w.saw.id
        /\ states[k].rev \in Nat /\ states[k].seq \in Nat /\ states[k].due \in Nat
        /\ ReadFrom(w, states[k]) /\ states[k].tools = "real"
        /\ StateRight(states[k], shown[w.saw.id], controls[w.saw.id])
        /\ DrainRight(w, shown[w.saw.id]) /\ w.saw.seq \in Nat
        /\ shown[w.saw.id] \in [seq : Nat \union {-1}, rev : Nat, phase : Phases]
    BY <1>4, <1>6 DEF Reader
  <2> DEFINE o == states[k]
             registers == s.mode = "registry" /\ Final(k)
  <2>3. /\ s.id = o.id /\ s.phase = o.phase /\ s.rev = o.rev /\ s.due = o.due
        /\ s.seq = o.seq + 1 /\ s.sending = o.sending
        /\ s.mode = o.mode /\ s.tools = o.tools /\ s.scheduled = o.scheduled /\ s.msg = o.msg
    <3>1. w.saw.seq = o.seq
      BY <2>2 DEF ReadFrom
    <3> HIDE DEF o
    <3> QED
      BY <2>1, <2>2, <3>1 DEF Turn, o
  <2>4. o.msg
    BY <1>2, <2>2 DEF DrainRight, ReadFrom, Asking
  <2>5. StateRight(s, shown[w.saw.id], controls[w.saw.id])
    BY <2>2, <2>3, <2>4 DEF StateRight
  <2>6. /\ shown[w.saw.id].rev = w.saw.rev /\ shown[w.saw.id].phase = w.saw.phase
        /\ s.rev = w.saw.rev => s.phase = w.saw.phase
    BY <1>2, <2>2, <2>3 DEF DrainRight, ReadFrom
  <2>7. s.seq \in Nat
    BY <2>1 DEF Turn
  <2>8. Answered(d, s, registers)
    BY <2>2, <2>3, <2>4, <2>5, <2>6, <2>7 DEF Answered, Final
  <2>9. registers \in BOOLEAN
    OBVIOUS
  <2> HIDE DEF registers, w
  <2>10. Settles(d, s, registers, 0)
    BY <1>1, <1>2, <2>1, <2>9, ShownMeans DEF registers, w
  <2> QED
    BY <1>2, <1>3, <2>2, <2>8, <2>9, <2>10, SettlesKeeps DEF w
<1> QED
  BY <1>5, <1>6

\* A failure: what was seen is tried again, read again or given up.
LEMMA FailsKeeps ==
    ASSUME IInv, NEW d \in Drains, SendFails(d) \/ EditFails(d)
    PROVE  Right'
<1> DEFINE w == drains[d]
           k == w.key
<1>1. TypeInv /\ Core(states, made, begun)
  BY AsTheyAre
<1>2. CASE SendFails(d)
  <2>1. GivesUp(d) /\ Drained /\ UNCHANGED shown /\ drains[d] # Off
    BY <1>2 DEF SendFails, Off
  <2> QED
    BY <2>1, GivesUpKeeps
<1>3. CASE EditFails(d)
  <2>1. w \in Long /\ w.pc \in {"edit", "edited"} /\ Drained /\ UNCHANGED shown
    BY <1>1, <1>3, EditFailsMeans
  <2>2. Reading(d)
    BY <2>1 DEF Reading, Working
  <2>3. Reader(d) /\ w # Off
    BY <2>2, ReaderKnows DEF Reader
  <2>4. CASE GivesUp(d)
    BY <2>1, <2>3, <2>4, GivesUpKeeps
  <2>5. ASSUME NEW v \in Long, v.pc = "edit", v.key = w.key, v.saw = w.saw,
               drains' = [drains EXCEPT ![d] = v], Leaves
        PROVE  Right'
    <3>1. DrainRight(v, shown[v.saw.id])
      BY <2>1, <2>3, <2>5 DEF Reader, DrainRight, Asking
    <3>2. Live(v.key) => ReadFrom(v, states[v.key])
      BY <2>3, <2>5 DEF Reader, ReadFrom
    <3>3. Idle(v) \/ Live(v.key) \/ v.saw.id \in lost
      BY <2>1, <2>3, <2>5 DEF Reader, Idle, Asking, Working
    <3> QED
      BY <2>1, <2>2, <2>5, <3>1, <3>2, <3>3, GoesOnKeeps
  <2>6. ASSUME NEW e \in Nat, Leaves,
               drains' = [drains EXCEPT ![d] = [pc |-> "read", key |-> w.key, exhausted |-> e]]
        PROVE  Right'
    BY <2>1, <2>2, <2>6, ReadsAgainKeeps
  <2> QED
    BY <1>1, <1>3, <2>4, <2>5, <2>6, EditFailsMeans
<1> QED
  BY <1>2, <1>3

-----------------------------------------------------------------------------
(* The invariant holds.                                                    *)

\* At first there is nothing to be right about.
LEMMA RightInit == Init => IInv
<1> SUFFICES ASSUME Init PROVE Right
  BY TypeInit DEF IInv
<1>1. /\ DOMAIN states = {} /\ begun = {} /\ made = 0 /\ lost = {}
      /\ \A d \in Drains : drains[d] = Off
      /\ \A i \in Ids : shown[i] = Unsent /\ controls[i] = "none"
  BY DEF Init
<1>2. \A d \in Drains : ~Reading(d)
  BY <1>1 DEF Reading, Off, Working
<1>3. TurnsRight(states, begun) /\ FreshRight(made) /\ DrainsRight(states) /\ StatesRight(states)
  BY <1>1 DEF TurnsRight, FreshRight, DrainsRight, StatesRight
<1>4. ReadRight(states, made) /\ OneDrain
  BY <1>2 DEF ReadRight, OneDrain, Reading
<1>5. LeftRight(states, made)
  BY <1>1 DEF LeftRight
<1>6. Cared(states) /\ \A k \in DOMAIN states : Settled(states[k], shown[states[k].id])
  BY <1>1 DEF Cared
<1> QED
  BY <1>3, <1>4, <1>5, <1>6 DEF Right, Core

\* Every step keeps the invariant, if turns begin once.
LEMMA RightStep ==
    ASSUME ~Reuse, IInv, [Next]_vars
    PROVE  IInv'
<1>1. TypeInv /\ TInv'
  BY TypeStep DEF IInv, TInv
<1>2. CASE UNCHANGED vars
  <2>1. UNCHANGED vars
    BY <1>2
  <2>2. Cared(states)'
    BY <2>1, AsTheyAre DEF vars, Cared
  <2> QED
    BY <1>1, <2>1, <2>2, LeavesKeeps DEF vars, Leaves, IInv
<1>3. ASSUME NEW t \in Turns, Hooks(t) PROVE Right'
  <2>1. PICK k \in DOMAIN states : states[k].phase = "active" /\ HookStep(k)
    BY <1>1, <1>3, HooksMean
  <2>2. Hook
    BY <1>1, <1>3, HooksMean
  <2> QED
    BY <2>1, <2>2, HookKeeps
<1>4. ASSUME NEW t \in Turns, Begin(t) PROVE Right'
  BY <1>4, BeginKeeps
<1>5. CASE RolloverForInbound
  BY <1>1, <1>5, RolloverKeeps DEF IInv
<1>6. CASE CancelSession \/ Disconnect \/ TakenDown \/ ConnectAgain \/ ResetIdentity
  BY <1>1, <1>6, AdapterKeeps DEF IInv
<1>7. ASSUME NEW d \in Drains, Runs(d) \/ Answers(d) \/ ServerTakes(d) PROVE Right'
  BY <1>7, SpawnedKeeps, ReadsKeeps, ActsKeeps, ProfileKeeps, SendReturnsKeeps,
     EditReturnsKeeps, FailsKeeps, ServerKeeps DEF Runs, Answers
<1> QED
  <2>1. Right' => IInv'
    BY <1>1 DEF IInv
  <2> QED
    BY <1>2, <1>3, <1>4, <1>5, <1>6, <1>7, <2>1 DEF Next, Hooks

-----------------------------------------------------------------------------
(* What it is for.                                                         *)

\* The lock of the controller and the check of the revision after each await serialize the
\* drains: two that are past their read never work on the same state, and what a hook wanted
\* shown has been shown or has a drain that is still to look, whatever the order of hooks,
\* rollovers, answers, failures, disconnections and resets.  A turn begins once.
THEOREM DrainsSerialized ==
    ASSUME ~Reuse
    PROVE  Spec => []DrainsAgree
<1>1. IInv => DrainsAgree
  <2> SUFFICES ASSUME IInv PROVE DrainsAgree
    OBVIOUS
  <2>1. OneDrain
    BY AsTheyAre DEF Core
  <2>2. NothingForgotten
    BY AsTheyAre DEF Cared, Settled, NothingForgotten
  <2> QED
    BY <2>1, <2>2 DEF DrainsAgree
<1>2. IInv /\ [Next]_vars => IInv'
  BY RightStep
<1> QED
  BY <1>1, <1>2, RightInit, PTL DEF Spec

\* A state is dropped, unless it is given up, only when its card shows how the turn ended,
\* and with no action registered but Retry on a card that shows an error: hooks that end a
\* turn while its card is sent or edited are not overtaken by the answer.
THEOREM CardsTellTheTruth ==
    ASSUME ~Reuse
    PROVE  Spec => []CardTellsTheTruth
<1>1. IInv => CardTellsTheTruth
  <2> SUFFICES ASSUME IInv, NEW i \in 1..made, i \notin lost, \A s \in Range(states) : s.id # i
               PROVE  /\ shown[i].seq >= 0 => shown[i].phase # "active"
                      /\ controls[i] = "none" \/ (controls[i] = "retry" /\ shown[i].phase = "error")
    BY DEF CardTellsTheTruth, EndIsShown, ControlIsOffered
  <2>1. \A k \in DOMAIN states : states[k].id # i
    BY DEF Range
  <2>2. Left(shown[i], controls[i])
    BY <2>1, AsTheyAre DEF Core, LeftRight
  <2> QED
    BY <2>2 DEF Left
<1>2. IInv /\ [Next]_vars => IInv'
  BY RightStep
<1> QED
  BY <1>1, <1>2, RightInit, PTL DEF Spec

\* No late request of a drain, in any order of sends, edits and retries, takes the end of
\* the turn off a card that shows it.
THEOREM EndsAreFinal ==
    ASSUME ~Reuse
    PROVE  Spec => EndIsFinal
<1>1. ASSUME IInv, [Next]_vars, NEW i \in Ids, shown[i].phase # "active"
      PROVE  shown'[i].phase = shown[i].phase
  <2>1. CASE UNCHANGED shown
    BY <2>1
  <2>2. ASSUME NEW d \in Drains, ServerTakes(d)
        PROVE  shown'[i].phase = shown[i].phase
    <3> DEFINE w == drains[d]
    <3>1. /\ Reader(d) /\ shown' = [shown EXCEPT ![w.saw.id] = Told(w)]
          /\ Told(w).phase = w.saw.phase
      BY <1>1, <2>2, ServerAhead
    <3>2. shown[w.saw.id].phase # "active" => w.saw.phase = shown[w.saw.id].phase
      BY <3>1 DEF Reader, DrainRight
    <3>3. i \in DOMAIN shown
      BY <1>1, AsTheyAre DEF TypeInv
    <3> HIDE DEF w
    <3> QED
      BY <1>1, <3>1, <3>2, <3>3
  <2>3. ASSUME NEW t \in Turns, Begin(t) \/ Hooks(t)
        PROVE  UNCHANGED shown
    BY <2>3 DEF Begin, Hooks, Hook, ModelStarted, ModelFinished, ToolStarted,
                AuthoringToolStarted, ToolFinished, Complete
  <2>4. CASE RolloverForInbound \/ CancelSession \/ Disconnect \/ TakenDown \/ ConnectAgain
             \/ ResetIdentity
    BY <2>1, <2>4 DEF RolloverForInbound, CancelSession, Disconnect, TakenDown, ConnectAgain,
                      ResetIdentity
  <2>5. ASSUME NEW d \in Drains, Runs(d) \/ Answers(d)
        PROVE  UNCHANGED shown
    BY <2>5 DEF Runs, Answers, Spawned, Reads, Acts, ProfileAnswers, SendReturns, SendFails,
                EditReturns, EditFails
  <2>6. CASE UNCHANGED vars
    BY <2>1, <2>6 DEF vars
  <2> QED
    BY <1>1, <2>1, <2>2, <2>3, <2>4, <2>5, <2>6 DEF Next, Hooks
<1>2. IInv /\ [Next]_vars
        => [\A i \in Ids : shown[i].phase # "active" => shown'[i].phase = shown[i].phase]_vars
  BY <1>1
<1>3. IInv /\ [Next]_vars => IInv'
  BY RightStep
<1> QED
  BY <1>2, <1>3, RightInit, PTL DEF Spec, EndIsFinal

=============================================================================
