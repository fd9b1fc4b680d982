------------------------ MODULE RouteRegistryProofs ------------------------
(***************************************************************************)
(* Proofs about RouteRegistry, for any number of robots, targets, sessions *)
(* and wire ids, any capacity and any bounds on faults.                    *)
(*                                                                         *)
(* Every copy of the maps (in memory, captured by a writer or a plan, in   *)
(* either file) is consistent, and the operators that build a new copy     *)
(* preserve consistency; the reachable states then keep it because every   *)
(* action moves or rebuilds whole copies.                                  *)
(*                                                                         *)
(* From there: the registry keeps the promise of Ownership, the files      *)
(* never hold what the process has given up, and the maps stay within      *)
(* their capacity.                                                         *)
(***************************************************************************)
EXTENDS RouteRegistry, TLAPS, FiniteSetTheorems

USE TopologyAssumption, NullAssumption, BoundAssumption

-----------------------------------------------------------------------------
(* The inductive invariant.                                                *)

\* A routed session follows the owner of its target, and no session of a
\* tombstoned target is left without a tombstone of its own.
Consistent(g) ==
    /\ g \in Registry
    /\ WellKeyed(g)
    /\ \A s \in Sessions :
          g.sroute[s] # NoRobot => g.troute[TargetOf[s]] = g.sroute[s]
    /\ \A s \in Sessions :
          g.sroute[s] # NoRobot /\ TargetOf[s] \in g.tconf => s \in g.sconf

CopiesConsistent ==
    /\ Consistent(reg)
    /\ Consistent(plan.prev)
    /\ Consistent(job.body) /\ Consistent(job.prev)
    /\ Consistent(path.body) /\ Consistent(backup.body)

IInv == TypeOK /\ CopiesConsistent /\ IndexMatchesRoutes

-----------------------------------------------------------------------------
(* The operators that build maps.                                          *)

\* The empty maps of __init__ are consistent.
LEMMA EmptyConsistent == Consistent(EmptyRegistry)
BY DEF Consistent, EmptyRegistry, Registry, WellKeyed, Routed, Owned, MaybeRobot, MaybeWire

\* _body_locked saves consistent maps without loss of consistency.
LEMMA BodyConsistent ==
    ASSUME NEW g, Consistent(g)
    PROVE  Consistent(Body(g))
<1> DEFINE h == Body(g)
<1>1. /\ h.linked = g.linked \intersect Routed(g)
      /\ h.wires = [t \in Targets |-> IF t \in Owned(g) THEN g.wires[t] ELSE NoWire]
      /\ h.sroute = g.sroute /\ h.troute = g.troute /\ h.before = g.before
      /\ h.sconf = g.sconf /\ h.tconf = g.tconf
  BY DEF Consistent, Body, Registry
<1>2. h \in Registry
  BY DEF Consistent, Body, Registry, Owned, MaybeWire
<1>3. WellKeyed(h)
  BY <1>1 DEF Consistent, Registry, WellKeyed, Routed, Owned
<1> QED  BY <1>1, <1>2, <1>3 DEF Consistent

\* forget_target leaves consistent maps.
LEMMA WithoutConsistent ==
    ASSUME NEW g, Consistent(g), NEW t \in Targets
    PROVE  Consistent(Without(g, t))
<1> DEFINE gone == LinkedTo(g, t)
           h == Without(g, t)
<1>1. gone = {s \in Sessions : g.sroute[s] # NoRobot /\ TargetOf[s] = t}
  BY DEF Consistent, WellKeyed, Routed, LinkedTo, Registry
<1>2. h \in Registry
  BY DEF Consistent, Without, Registry, LinkedTo, MaybeRobot, MaybeWire
<1>3. /\ h.sroute = [s \in Sessions |-> IF s \in gone THEN NoRobot ELSE g.sroute[s]]
      /\ h.troute = [g.troute EXCEPT ![t] = NoRobot]
      /\ h.wires = [g.wires EXCEPT ![t] = NoWire]
      /\ h.linked = g.linked \ gone
      /\ h.before = {p \in g.before : {p[1], p[2]} \intersect gone = {}}
      /\ h.sconf = g.sconf /\ h.tconf = g.tconf
  BY DEF Consistent, Without, Registry
<1>4. WellKeyed(h)
  <2>1. Routed(h) = Routed(g) \ gone
    BY <1>1, <1>3 DEF Routed
  <2>2. Owned(h) = Owned(g) \ {t}
    BY <1>3 DEF Owned, Consistent, Registry
  <2> QED  BY <2>1, <2>2, <1>3 DEF WellKeyed, Consistent, Registry
<1>5. \A s \in Sessions : h.sroute[s] # NoRobot => h.troute[TargetOf[s]] = h.sroute[s]
  BY <1>1, <1>3 DEF Consistent, Registry
<1>6. \A s \in Sessions :
         h.sroute[s] # NoRobot /\ TargetOf[s] \in h.tconf => s \in h.sconf
  BY <1>1, <1>3 DEF Consistent, Registry
<1> QED  BY <1>2, <1>4, <1>5, <1>6 DEF Consistent

\* The tombstones of a contested bind leave consistent maps.
LEMMA ContestedConsistent ==
    ASSUME NEW g, Consistent(g), NEW r \in Robots, NEW s \in Sessions,
           NEW w \in MaybeWire
    PROVE  Consistent(Contested(g, r, s, w))
<1> DEFINE h == Contested(g, r, s, w)
           lost == TargetTaken(g, r, s)
                     \/ (~SessionTaken(g, r, s) /\ WireClash(g, s, w))
           T == IF lost THEN {TargetOf[s]} ELSE {}
           S == (IF SessionTaken(g, r, s) THEN {s} ELSE {})
                \union (IF lost THEN LinkedTo(g, TargetOf[s]) ELSE {})
<1>0. /\ h = [g EXCEPT !.tconf = @ \union T, !.sconf = @ \union S]
      /\ T \subseteq Targets /\ S \subseteq Sessions
      /\ T = {} \/ (T = {TargetOf[s]} /\ LinkedTo(g, TargetOf[s]) \subseteq S)
  <2>1. h = [g EXCEPT !.tconf = @ \union T, !.sconf = @ \union S]
    BY DEF Contested, Consistent, Registry
  <2>2. LinkedTo(g, TargetOf[s]) \subseteq Sessions /\ TargetOf[s] \in Targets
    BY DEF LinkedTo, Consistent, Registry
  <2>3. T \subseteq Targets /\ S \subseteq Sessions
    BY <2>2
  <2>4. T = {} \/ (T = {TargetOf[s]} /\ LinkedTo(g, TargetOf[s]) \subseteq S)
    OBVIOUS
  <2> QED  BY <2>1, <2>3, <2>4
<1> HIDE DEF h, T, S, lost
<1>1. h \in Registry
  BY <1>0 DEF Consistent, Registry
<1>2. /\ h.sroute = g.sroute /\ h.troute = g.troute /\ h.wires = g.wires
      /\ h.linked = g.linked /\ h.before = g.before
      /\ g.sconf \subseteq h.sconf
      /\ \/ h.tconf = g.tconf
         \/ /\ h.tconf = g.tconf \union {TargetOf[s]}
            /\ LinkedTo(g, TargetOf[s]) \subseteq h.sconf
  BY <1>0 DEF Consistent, Registry
<1>3. WellKeyed(h)
  BY <1>2 DEF Consistent, WellKeyed, Routed, Owned
<1>4. Consistent(h)
  BY <1>1, <1>2, <1>3 DEF Consistent, WellKeyed, LinkedTo, Routed
<1> QED  BY <1>4 DEF h

\* A wire id filled in for an owned target leaves consistent maps.
LEMMA FillWireConsistent ==
    ASSUME NEW g, Consistent(g), NEW s \in Sessions, NEW w \in MaybeWire,
           TargetOf[s] \in Owned(g)
    PROVE  Consistent(FillWire(g, s, w))
BY SMTT(60) DEF FillWire, Consistent, Registry, WellKeyed, Routed, Owned, MaybeWire

\* Evicting the oldest session leaves consistent maps, the same targets and the
\* same tombstones, and routes no session anew.
LEMMA EvictedConsistent ==
    ASSUME NEW g, Consistent(g)
    PROVE  /\ Consistent(Evicted(g))
           /\ Evicted(g).troute = g.troute /\ Evicted(g).wires = g.wires
           /\ Evicted(g).sconf = g.sconf /\ Evicted(g).tconf = g.tconf
<1> DEFINE o == Oldest(g)
           h == [g EXCEPT !.sroute[o] = NoRobot,
                          !.before = {p \in @ : o \notin {p[1], p[2]}},
                          !.linked = @ \ {o}]
<1> HIDE DEF o
<1>1. /\ h.troute = g.troute /\ h.wires = g.wires
      /\ h.sconf = g.sconf /\ h.tconf = g.tconf
      /\ h.linked = g.linked \ {o}
      /\ h.before = {p \in g.before : o \notin {p[1], p[2]}}
      /\ h.sroute = [g.sroute EXCEPT ![o] = NoRobot]
  BY DEF Consistent, Registry
<1>2. h \in Registry
  BY DEF Consistent, Registry, MaybeRobot
<1>3. WellKeyed(h)
  <2>1. Routed(h) = Routed(g) \ {o}
    BY <1>1 DEF Routed, Consistent, Registry
  <2>2. Owned(h) = Owned(g)
    BY <1>1 DEF Owned
  <2>3. g.before \subseteq Routed(g) \X Routed(g)
    BY DEF Consistent, WellKeyed
  <2>4. h.before \subseteq Routed(h) \X Routed(h)
    BY <2>1, <2>3, <1>1
  <2>5. h.linked = Routed(h)
    BY <2>1, <1>1 DEF Consistent, WellKeyed
  <2>6. \A t \in Targets : h.wires[t] # NoWire => t \in Owned(h)
    BY <2>2, <1>1 DEF Consistent, WellKeyed
  <2> QED  BY <2>4, <2>5, <2>6 DEF WellKeyed
<1>4. Consistent(h)
  <2>1. \A s \in Sessions : h.sroute[s] # NoRobot => h.sroute[s] = g.sroute[s]
    BY <1>1 DEF Consistent, Registry
  <2>2. \A s \in Sessions :
           h.sroute[s] # NoRobot => h.troute[TargetOf[s]] = h.sroute[s]
    BY <2>1, <1>1 DEF Consistent
  <2>3. \A s \in Sessions :
           h.sroute[s] # NoRobot /\ TargetOf[s] \in h.tconf => s \in h.sconf
    BY <2>1, <1>1 DEF Consistent
  <2> QED  BY <1>2, <1>3, <2>2, <2>3 DEF Consistent
<1>5. Evicted(g) = g \/ Evicted(g) = h
  BY DEF Evicted, o
<1> QED  BY <1>1, <1>4, <1>5

\* A bind that is neither refused nor contested leaves consistent maps in which
\* the robot owns the target.
LEMMA EstablishedConsistent ==
    ASSUME NEW g0, Consistent(g0), NEW r \in Robots, NEW s \in Sessions,
           NEW w \in MaybeWire,
           ~Refused(g0, s), ~SessionTaken(g0, r, s), ~TargetTaken(g0, r, s)
    PROVE  /\ Consistent(Established(g0, r, s, w))
           /\ Established(g0, r, s, w).troute = [g0.troute EXCEPT ![TargetOf[s]] = r]
           /\ Established(g0, r, s, w).tconf = g0.tconf
           /\ Established(g0, r, s, w).sconf = g0.sconf
<1> DEFINE t == TargetOf[s]
           g1 == [g0 EXCEPT !.troute[t] = r]
           g2 == FillWire(g1, s, w)
           g == Evicted(g2)
           h == [g EXCEPT !.sroute[s] = r,
                          !.before = @ \union
                              (IF g.sroute[s] = NoRobot THEN Routed(g) \X {s} ELSE {}),
                          !.linked = @ \union {s}]
<1>0. t \in Targets /\ r # NoRobot
  OBVIOUS
<1>1. /\ g1.troute = [g0.troute EXCEPT ![t] = r]
      /\ g1.sroute = g0.sroute /\ g1.wires = g0.wires /\ g1.linked = g0.linked
      /\ g1.before = g0.before /\ g1.sconf = g0.sconf /\ g1.tconf = g0.tconf
  BY DEF Consistent, Registry
<1>2. Consistent(g1) /\ t \in Owned(g1)
  <2>1. g1 \in Registry
    BY <1>0 DEF Consistent, Registry, MaybeRobot
  <2>2. Owned(g1) = Owned(g0) \union {t} /\ Routed(g1) = Routed(g0)
    BY <1>0, <1>1 DEF Owned, Routed, Consistent, Registry
  <2>3. WellKeyed(g1)
    BY <2>2, <1>1 DEF WellKeyed, Consistent
  <2>4. \A x \in Sessions :
           g1.sroute[x] # NoRobot => g1.troute[TargetOf[x]] = g1.sroute[x]
    BY <1>0, <1>1 DEF Consistent, Registry, TargetTaken
  <2>5. \A x \in Sessions :
           g1.sroute[x] # NoRobot /\ TargetOf[x] \in g1.tconf => x \in g1.sconf
    BY <1>1 DEF Consistent
  <2> QED  BY <2>1, <2>2, <2>3, <2>4, <2>5 DEF Consistent
<1> HIDE DEF g1
<1>3. /\ Consistent(g2)
      /\ g2.troute = g1.troute /\ g2.sconf = g1.sconf /\ g2.tconf = g1.tconf
  <2>1. Consistent(g2)
    BY <1>2, FillWireConsistent
  <2> QED  BY <2>1, <1>2 DEF FillWire, Consistent, Registry
<1> HIDE DEF g2
<1>4. /\ Consistent(g)
      /\ g.troute = g2.troute /\ g.sconf = g2.sconf /\ g.tconf = g2.tconf
  BY <1>3, EvictedConsistent
<1>5. h = Established(g0, r, s, w)
  BY DEF Established, g1, g2
<1> HIDE DEF g
<1> DEFINE B == IF g.sroute[s] = NoRobot THEN Routed(g) \X {s} ELSE {}
<1>6. /\ h.sroute = [g.sroute EXCEPT ![s] = r] /\ h.troute = g.troute
      /\ h.wires = g.wires /\ h.linked = g.linked \union {s}
      /\ h.before = g.before \union B
      /\ h.sconf = g.sconf /\ h.tconf = g.tconf
  BY <1>4 DEF Consistent, Registry
<1>7. h \in Registry
  <2>1. B \subseteq Sessions \X Sessions
    BY DEF Routed
  <2> HIDE DEF B
  <2>2. h = [g EXCEPT !.sroute[s] = r, !.before = @ \union B, !.linked = @ \union {s}]
    BY DEF B
  <2> HIDE DEF h
  <2> QED  BY <2>1, <2>2, <1>4, <1>6, ZenonT(60) DEF Consistent, Registry, MaybeRobot
<1>8. WellKeyed(h)
  <2>1. Routed(h) = Routed(g) \union {s}
    BY <1>0, <1>4, <1>6 DEF Routed, Consistent, Registry
  <2>2. Owned(h) = Owned(g)
    BY <1>6 DEF Owned
  <2>3. h.linked = Routed(h)
    BY <2>1, <1>4, <1>6 DEF Consistent, WellKeyed
  <2>4. B \subseteq Routed(h) \X Routed(h)
    BY <2>1
  <2>5. g.before \subseteq Routed(h) \X Routed(h)
    BY <2>1, <1>4 DEF Consistent, WellKeyed
  <2>6. \A x \in Targets : h.wires[x] # NoWire => x \in Owned(h)
    BY <2>2, <1>4, <1>6 DEF Consistent, WellKeyed
  <2> QED  BY <2>3, <2>4, <2>5, <2>6, <1>6 DEF WellKeyed
<1>9. h.troute = [g0.troute EXCEPT ![t] = r] /\ h.tconf = g0.tconf /\ h.sconf = g0.sconf
  BY <1>1, <1>3, <1>4, <1>6
<1>10. \A x \in Sessions : h.sroute[x] # NoRobot => h.troute[TargetOf[x]] = h.sroute[x]
  <2>1. h.troute[t] = r
    BY <1>0, <1>9 DEF Consistent, Registry
  <2>2. \A x \in Sessions \ {s} : h.sroute[x] = g.sroute[x]
    BY <1>4, <1>6 DEF Consistent, Registry
  <2>3. h.sroute[s] = r
    BY <1>4, <1>6 DEF Consistent, Registry
  <2> QED  BY <2>1, <2>2, <2>3, <1>4, <1>6 DEF Consistent
<1>11. \A x \in Sessions :
          h.sroute[x] # NoRobot /\ TargetOf[x] \in h.tconf => x \in h.sconf
  <2>1. t \notin h.tconf
    BY <1>1, <1>3, <1>4, <1>6 DEF Refused
  <2>2. \A x \in Sessions \ {s} : h.sroute[x] = g.sroute[x]
    BY <1>4, <1>6 DEF Consistent, Registry
  <2> QED  BY <2>1, <2>2, <1>4, <1>6 DEF Consistent
<1>12. Consistent(h)
  BY <1>7, <1>8, <1>10, <1>11 DEF Consistent
<1> QED  BY <1>5, <1>9, <1>12

\* bind() establishes a route only when nobody else claims it, and fills in a
\* wire id only for an owned target.
LEMMA BindResultMeans ==
    ASSUME NEW g, NEW r, NEW s, NEW w
    PROVE  /\ BindResult(g, r, s, w) \in
                  {"refused", "conflict", "filled", "idempotent", "capacity", "bound"}
           /\ BindResult(g, r, s, w) = "filled" => Known(g, s)
           /\ BindResult(g, r, s, w) = "bound" =>
                  ~Refused(g, s) /\ ~SessionTaken(g, r, s) /\ ~TargetTaken(g, r, s)
<1>1. CASE Refused(g, s)
  BY <1>1 DEF BindResult
<1>2. CASE ~Refused(g, s) /\ (SessionTaken(g, r, s) \/ TargetTaken(g, r, s)
                              \/ WireClash(g, s, w))
  BY <1>2 DEF BindResult
<1>3. CASE ~Refused(g, s) /\ ~SessionTaken(g, r, s) /\ ~TargetTaken(g, r, s)
           /\ ~WireClash(g, s, w)
  BY <1>3 DEF BindResult
<1> QED  BY <1>1, <1>2, <1>3

\* Whatever bind() decides, the maps stay consistent and the reverse index
\* keeps listing the owners of the targets.
LEMMA AfterBindConsistent ==
    ASSUME NEW g, Consistent(g), NEW r \in Robots, NEW s \in Sessions,
           NEW w \in MaybeWire
    PROVE  /\ Consistent(AfterBind(g, r, s, w))
           /\ IndexAfterBind(g, IndexOf(g), r, s, w) = IndexOf(AfterBind(g, r, s, w))
<1> DEFINE result == BindResult(g, r, s, w)
           h == AfterBind(g, r, s, w)
<1>1. CASE result = "conflict"
  <2>1. h = Contested(g, r, s, w)
    BY <1>1 DEF AfterBind
  <2>2. Contested(g, r, s, w).troute = g.troute
    BY DEF Contested, Consistent, Registry
  <2> QED  BY <1>1, <2>1, <2>2, ContestedConsistent DEF IndexAfterBind, IndexOf
<1>2. CASE result = "filled"
  <2>1. h = FillWire(g, s, w)
    BY <1>2 DEF AfterBind
  <2>2. TargetOf[s] \in Owned(g)
    BY <1>2, BindResultMeans DEF Known, Owned
  <2>3. FillWire(g, s, w).troute = g.troute
    BY DEF FillWire, Consistent, Registry
  <2> QED  BY <1>2, <2>1, <2>2, <2>3, FillWireConsistent DEF IndexAfterBind, IndexOf
<1>3. CASE result = "bound"
  <2>1. h = Established(g, r, s, w)
    BY <1>3 DEF AfterBind
  <2>2. ~Refused(g, s) /\ ~SessionTaken(g, r, s) /\ ~TargetTaken(g, r, s)
    BY <1>3, BindResultMeans
  <2>3. Consistent(h) /\ h.troute = [g.troute EXCEPT ![TargetOf[s]] = r]
    BY <2>1, <2>2, EstablishedConsistent
  <2>4. IndexAfterBind(g, IndexOf(g), r, s, w) = IndexOf(g) \union {<<TargetOf[s], r>>}
    BY <1>3 DEF IndexAfterBind
  <2>5. IndexOf(h) = IndexOf(g) \union {<<TargetOf[s], r>>}
    <3> HIDE DEF h
    <3>1. \A x \in Targets : h.troute[x] = IF x = TargetOf[s] THEN r ELSE g.troute[x]
      BY <2>3 DEF Consistent, Registry
    <3>2. g.troute[TargetOf[s]] \in {NoRobot, r} /\ NoRobot \notin Robots
      BY <2>2 DEF TargetTaken
    <3>3. \A x \in Targets, y \in Robots :
             <<x, y>> \in IndexOf(h) <=> <<x, y>> \in IndexOf(g) \union {<<TargetOf[s], r>>}
      BY <3>1, <3>2 DEF IndexOf
    <3> QED  BY <3>3 DEF IndexOf
  <2> QED  BY <2>3, <2>4, <2>5
<1>4. CASE result \in {"refused", "idempotent", "capacity"}
  BY <1>4 DEF AfterBind, IndexAfterBind
<1> QED  BY <1>1, <1>2, <1>3, <1>4, BindResultMeans

-----------------------------------------------------------------------------
(* Every step preserves the inductive invariant.                           *)

\* load() restores consistent maps.
LEMMA OnDiskConsistent ==
    ASSUME IInv
    PROVE  Consistent(OnDisk)
BY EmptyConsistent DEF IInv, CopiesConsistent, OnDisk

\* A captured, written or rolled back copy is a copy of the right shape.
LEMMA CopyTypes ==
    /\ \A g : Consistent(g) => g \in Registry /\ WellKeyed(g)
    /\ \A g : g \in Registry => Snapshot(g) \in File /\ Snapshot(g).body = g
    /\ NoJob \in Job /\ NoPlan \in Plan
    /\ Missing \in File /\ Corrupted \in File
    /\ \A g : IndexOf(g) \subseteq Targets \X Robots
<1>1. EmptyRegistry \in Registry
  BY EmptyConsistent DEF Consistent
<1> QED
  BY <1>1 DEF Consistent, Snapshot, File, NoJob, Job, NoPlan, Plan, Missing, Corrupted,
              IndexOf

\* The maps, files and index of a fresh installation satisfy the invariant.
LEMMA InitInvariant == Init => IInv
<1> SUFFICES ASSUME Init PROVE IInv
  OBVIOUS
<1>1. IndexOf(EmptyRegistry) = {}
  BY DEF IndexOf, EmptyRegistry
<1>2. TypeOK
  <2>1. reg \in Registry /\ WellKeyed(reg)
    BY EmptyConsistent DEF Init, Consistent
  <2>2. path \in File /\ backup \in File /\ job \in Job /\ plan \in Plan
    BY CopyTypes DEF Init
  <2>3. faults \in 0..MaxFaults /\ crashes \in 0..MaxCrashes
        /\ corruptions \in 0..MaxCorruptions
    BY DEF Init
  <2>4. holders \subseteq Targets \X Robots
    BY DEF Init
  <2> QED  BY <2>1, <2>2, <2>3, <2>4 DEF Init, TypeOK
<1>3. CopiesConsistent
  BY EmptyConsistent DEF Init, CopiesConsistent, NoPlan, NoJob, Missing
<1> QED  BY <1>1, <1>2, <1>3 DEF IInv, IndexMatchesRoutes, Init

\* The end of a write releases _flush_lock and touches no map.
LEMMA AfterWriteKeeps ==
    ASSUME IInv, NEW stillDirty \in BOOLEAN, AfterWrite(stillDirty)
    PROVE  /\ job' \in Job /\ Consistent(job'.body) /\ Consistent(job'.prev)
           /\ plan' \in Plan /\ Consistent(plan'.prev)
           /\ scheduled' \in BOOLEAN
           /\ life' \in {"down", "open", "closing", "closed"}
<1>1. job' \in Job /\ Consistent(job'.body) /\ Consistent(job'.prev)
  BY EmptyConsistent, CopyTypes DEF AfterWrite, NoJob
<1>2. plan' \in Plan /\ Consistent(plan'.prev)
  BY EmptyConsistent, CopyTypes DEF AfterWrite, NoPlan, IInv, TypeOK, CopiesConsistent
<1>3. scheduled' \in BOOLEAN /\ life' \in {"down", "open", "closing", "closed"}
  BY DEF AfterWrite, IInv, TypeOK
<1> QED  BY <1>1, <1>2, <1>3

\* Every step of every thread, every fault and every crash preserves the
\* invariant.
LEMMA StepInvariant == IInv /\ [Next]_vars => IInv'
<1> SUFFICES ASSUME IInv, [Next]_vars PROVE IInv'
  OBVIOUS
<1> USE DEF IInv
<1>0. /\ TypeOK /\ CopiesConsistent /\ IndexMatchesRoutes
      /\ Consistent(reg) /\ Consistent(EmptyRegistry)
  BY EmptyConsistent DEF CopiesConsistent
<1>1. ASSUME NEW r \in Robots, NEW s \in Sessions, NEW w \in WiresOf[TargetOf[s]],
             Bind(r, s, w)
      PROVE  IInv'
  <2>1. w \in MaybeWire
    BY DEF MaybeWire
  <2>2. Consistent(reg') /\ holders' = IndexOf(reg')
    BY <1>0, <1>1, <2>1, AfterBindConsistent DEF Bind, IndexMatchesRoutes
  <2>3. dirty' \in BOOLEAN /\ scheduled' \in BOOLEAN
    BY <1>0, <1>1 DEF Bind, TypeOK
  <2>4. /\ UNCHANGED <<path, backup, restored, corrupt, job, plan, life, faults,
                       crashes, corruptions>>
    BY <1>1 DEF Bind, files, bounds
  <2>5. TypeOK'
    BY <1>0, <2>2, <2>3, <2>4, CopyTypes DEF TypeOK
  <2> QED  BY <1>0, <2>2, <2>4, <2>5 DEF CopiesConsistent, IndexMatchesRoutes
<1>2. ASSUME NEW S \in Plans, PlanStart(S) PROVE IInv'
  <2>1. Consistent(Body(reg))
    BY <1>0, BodyConsistent
  <2>2. plan' \in Plan /\ plan'.prev = Body(reg)
    BY <1>0, <1>2, <2>1, CopyTypes DEF PlanStart, Plan, TypeOK
  <2>3. /\ UNCHANGED <<reg, holders, dirty, restored, corrupt, path, backup, scheduled,
                       job, life, faults, crashes, corruptions>>
    BY <1>2 DEF PlanStart, memory, files, bounds
  <2>4. TypeOK'
    BY <1>0, <2>2, <2>3, CopyTypes DEF TypeOK
  <2> QED  BY <1>0, <2>1, <2>2, <2>3, <2>4 DEF CopiesConsistent, IndexMatchesRoutes, IndexOf
<1>3. ASSUME NEW s \in Sessions, NEW w \in MaybeWire, PlanBind(s, w) PROVE IInv'
  <2>1. Consistent(reg') /\ holders' = IndexOf(reg')
    BY <1>0, <1>3, AfterBindConsistent DEF PlanBind, IndexMatchesRoutes
  <2>2. dirty' \in BOOLEAN
    BY <1>0, <1>3 DEF PlanBind, TypeOK
  <2>3. plan' \in Plan /\ plan'.prev = plan.prev
    BY <1>0, <1>3 DEF PlanBind, Plan, TypeOK
  <2>4. /\ UNCHANGED <<path, backup, restored, corrupt, scheduled, job, life, faults,
                       crashes, corruptions>>
    BY <1>3 DEF PlanBind, files, bounds
  <2>5. TypeOK'
    BY <1>0, <2>1, <2>2, <2>3, <2>4, CopyTypes DEF TypeOK
  <2> QED  BY <1>0, <2>1, <2>3, <2>4, <2>5 DEF CopiesConsistent, IndexMatchesRoutes
<1>4. ASSUME NEW s \in Sessions, NEW w \in MaybeWire, PlanRollback(s, w) PROVE IInv'
  <2>1. Consistent(reg') /\ holders' = IndexOf(reg')
    BY <1>0, <1>4 DEF PlanRollback, CopiesConsistent
  <2>2. dirty' \in BOOLEAN
    BY <1>0, <1>4 DEF PlanRollback, TypeOK, Plan
  <2>3. plan' \in Plan /\ Consistent(plan'.prev)
    BY <1>0, <1>4, CopyTypes DEF PlanRollback, NoPlan
  <2>4. /\ UNCHANGED <<path, backup, restored, corrupt, scheduled, job, life, faults,
                       crashes, corruptions>>
    BY <1>4 DEF PlanRollback, files, bounds
  <2>5. TypeOK'
    BY <1>0, <2>1, <2>2, <2>3, <2>4, CopyTypes DEF TypeOK
  <2> QED  BY <1>0, <2>1, <2>3, <2>4, <2>5 DEF CopiesConsistent, IndexMatchesRoutes
<1>5. ASSUME NEW r \in Robots, NEW t \in Targets, ForgetStart(r, t) PROVE IInv'
  <2>1. Consistent(Without(reg, t))
    BY <1>0, WithoutConsistent
  <2>2. Consistent(Body(reg)) /\ Consistent(Body(Without(reg, t)))
    BY <1>0, <2>1, BodyConsistent
  <2>3. reg' = Without(reg, t) /\ reg.troute[t] = r /\ holders' = holders \ {<<t, r>>}
    BY <1>5 DEF ForgetStart, MayForget
  <2>4. holders' = IndexOf(reg')
    <3>1. Without(reg, t).troute = [reg.troute EXCEPT ![t] = NoRobot]
      BY <1>0 DEF Without, Consistent, Registry
    <3>2. \A x \in Targets :
             Without(reg, t).troute[x] = IF x = t THEN NoRobot ELSE reg.troute[x]
      BY <1>0, <3>1 DEF Consistent, Registry
    <3>3. \A x \in Targets, y \in Robots :
             <<x, y>> \in IndexOf(Without(reg, t))
                <=> <<x, y>> \in IndexOf(reg) \ {<<t, r>>}
      BY <2>3, <3>2 DEF IndexOf
    <3>4. IndexOf(Without(reg, t)) = IndexOf(reg) \ {<<t, r>>}
      BY <3>3 DEF IndexOf
    <3> QED  BY <1>0, <2>3, <3>4 DEF IndexMatchesRoutes
  <2>5. job' \in Job /\ job'.body = Body(Without(reg, t)) /\ job'.prev = Body(reg)
    BY <1>0, <1>5, <2>2, CopyTypes DEF ForgetStart, Job, TypeOK
  <2>6. /\ UNCHANGED <<dirty, path, backup, restored, corrupt, scheduled, plan, life,
                       faults, crashes, corruptions>>
    BY <1>5 DEF ForgetStart, files, bounds
  <2>7. TypeOK'
    BY <1>0, <2>1, <2>3, <2>4, <2>5, <2>6, CopyTypes DEF TypeOK
  <2> QED
    BY <1>0, <2>1, <2>2, <2>3, <2>4, <2>5, <2>6, <2>7
    DEF CopiesConsistent, IndexMatchesRoutes
<1>6. ASSUME NEW k \in FlushKinds, FlushStart(k) PROVE IInv'
  <2>1. Consistent(Body(reg))
    BY <1>0, BodyConsistent
  <2>2. job' \in Job /\ job'.body = Body(reg) /\ job'.prev = EmptyRegistry
    BY <1>0, <1>6, <2>1, CopyTypes DEF FlushStart, Job, FlushKinds
  <2>3. dirty' \in BOOLEAN
    BY <1>6 DEF FlushStart
  <2>4. /\ UNCHANGED <<reg, holders, path, backup, restored, corrupt, scheduled, plan,
                       life, faults, crashes, corruptions>>
    BY <1>6 DEF FlushStart, files, bounds
  <2>5. TypeOK'
    BY <1>0, <2>2, <2>3, <2>4 DEF TypeOK
  <2> QED
    BY <1>0, <2>1, <2>2, <2>4, <2>5 DEF CopiesConsistent, IndexMatchesRoutes
<1>7. ASSUME FlushIdle PROVE IInv'
  BY <1>0, <1>7
  DEF FlushIdle, TypeOK, CopiesConsistent, IndexMatchesRoutes, memory, files, bounds
<1>8. ASSUME Rotate PROVE IInv'
  <2>1. job' \in Job /\ job'.body = job.body /\ job'.prev = job.prev
    BY <1>0, <1>8 DEF Rotate, Job, TypeOK
  <2>2. /\ path' \in File /\ Consistent(path'.body)
        /\ backup' \in File /\ Consistent(backup'.body)
    BY <1>0, <1>8, CopyTypes DEF Rotate, TypeOK, CopiesConsistent, Missing, files
  <2>3. /\ UNCHANGED <<reg, holders, dirty, restored, corrupt, scheduled, plan, life,
                       faults, crashes, corruptions>>
    BY <1>8 DEF Rotate, memory, bounds
  <2>4. TypeOK'
    BY <1>0, <2>1, <2>2, <2>3 DEF TypeOK
  <2> QED
    BY <1>0, <2>1, <2>2, <2>3, <2>4 DEF CopiesConsistent, IndexMatchesRoutes
<1>9. ASSUME Write PROVE IInv'
  <2>1. dirty' \in BOOLEAN /\ restored' \in BOOLEAN /\ corrupt' \in BOOLEAN
    BY <1>0, <1>9 DEF Write, TypeOK
  <2>2. path' \in File /\ Consistent(path'.body)
    BY <1>0, <1>9, CopyTypes DEF Write, CopiesConsistent
  <2>3. AfterWrite(dirty') /\ UNCHANGED <<reg, holders, backup, faults, crashes, corruptions>>
    BY <1>9 DEF Write, bounds
  <2>4. /\ job' \in Job /\ Consistent(job'.body) /\ Consistent(job'.prev)
        /\ plan' \in Plan /\ Consistent(plan'.prev)
        /\ scheduled' \in BOOLEAN /\ life' \in {"down", "open", "closing", "closed"}
    BY <2>1, <2>3, AfterWriteKeeps
  <2>5. TypeOK'
    BY <1>0, <2>1, <2>2, <2>3, <2>4 DEF TypeOK
  <2> QED
    BY <1>0, <2>2, <2>3, <2>4, <2>5 DEF CopiesConsistent, IndexMatchesRoutes
<1>10. ASSUME WriteFails PROVE IInv'
  <2>1. /\ Consistent(reg') /\ holders' = IndexOf(reg')
        /\ dirty' \in BOOLEAN
    BY <1>0, <1>10 DEF WriteFails, CopiesConsistent, IndexMatchesRoutes, TypeOK, Job
  <2>2. faults' \in 0..MaxFaults
    BY <1>0, <1>10 DEF WriteFails, TypeOK
  <2>3. /\ AfterWrite(dirty')
        /\ UNCHANGED <<restored, corrupt, path, backup, crashes, corruptions>>
    BY <1>10 DEF WriteFails, files
  <2>4. /\ job' \in Job /\ Consistent(job'.body) /\ Consistent(job'.prev)
        /\ plan' \in Plan /\ Consistent(plan'.prev)
        /\ scheduled' \in BOOLEAN /\ life' \in {"down", "open", "closing", "closed"}
    BY <2>1, <2>3, AfterWriteKeeps
  <2>5. TypeOK'
    BY <1>0, <2>1, <2>2, <2>3, <2>4, CopyTypes DEF TypeOK
  <2> QED
    BY <1>0, <2>1, <2>3, <2>4, <2>5 DEF CopiesConsistent, IndexMatchesRoutes
<1>11. ASSUME Disconnect \/ Disconnected PROVE IInv'
  BY <1>0, <1>11
  DEF Disconnect, Disconnected, TypeOK, CopiesConsistent, IndexMatchesRoutes, memory,
      files, bounds
<1>12. ASSUME Load PROVE IInv'
  <2>1. Consistent(reg') /\ holders' = IndexOf(reg')
    BY <1>0, <1>12, OnDiskConsistent DEF Load, IndexMatchesRoutes
  <2>2. /\ dirty' \in BOOLEAN /\ restored' \in BOOLEAN /\ corrupt' \in BOOLEAN
        /\ life' = "open"
    BY <1>0, <1>12 DEF Load, TypeOK
  <2>3. UNCHANGED <<path, backup, scheduled, job, plan, faults, crashes, corruptions>>
    BY <1>12 DEF Load, files, bounds
  <2>4. TypeOK'
    BY <1>0, <2>1, <2>2, <2>3, CopyTypes DEF TypeOK
  <2> QED
    BY <1>0, <2>1, <2>3, <2>4 DEF CopiesConsistent, IndexMatchesRoutes
<1>13. ASSUME Crash PROVE IInv'
  <2>1. /\ reg' = EmptyRegistry /\ holders' = {} /\ job' = NoJob /\ plan' = NoPlan
        /\ dirty' = FALSE /\ restored' = FALSE /\ corrupt' = FALSE
        /\ scheduled' = FALSE /\ life' = "down"
        /\ UNCHANGED <<path, backup, faults, corruptions>>
    BY <1>13 DEF Crash, files
  <2>2. crashes' \in 0..MaxCrashes
    BY <1>0, <1>13 DEF Crash, TypeOK
  <2>3. IndexOf(EmptyRegistry) = {}
    BY DEF IndexOf, EmptyRegistry
  <2>4. TypeOK'
    BY <1>0, <2>1, <2>2, CopyTypes DEF TypeOK
  <2> QED
    BY <1>0, <2>1, <2>3, <2>4 DEF CopiesConsistent, IndexMatchesRoutes, NoJob, NoPlan
<1>14. ASSUME CorruptFile PROVE IInv'
  <2>1. /\ path' \in File /\ Consistent(path'.body)
        /\ backup' \in File /\ Consistent(backup'.body)
    BY <1>0, <1>14, CopyTypes DEF CorruptFile, TypeOK, CopiesConsistent, Corrupted
  <2>2. corruptions' \in 0..MaxCorruptions
    BY <1>0, <1>14 DEF CorruptFile, TypeOK
  <2>3. UNCHANGED <<reg, holders, dirty, restored, corrupt, scheduled, job, plan, life,
                    faults, crashes>>
    BY <1>14 DEF CorruptFile, memory
  <2>4. TypeOK'
    BY <1>0, <2>1, <2>2, <2>3 DEF TypeOK
  <2> QED
    BY <1>0, <2>1, <2>3, <2>4 DEF CopiesConsistent, IndexMatchesRoutes
<1>15. ASSUME UNCHANGED vars PROVE IInv'
  BY <1>0, <1>15
  DEF vars, memory, files, bounds, TypeOK, CopiesConsistent, IndexMatchesRoutes
<1> QED
  BY <1>1, <1>2, <1>3, <1>4, <1>5, <1>6, <1>7, <1>8, <1>9, <1>10, <1>11, <1>12, <1>13,
     <1>14, <1>15
  DEF Next, PlanStep

-----------------------------------------------------------------------------
(* The theorems.                                                           *)

\* The inductive invariant holds in every reachable state.
THEOREM InvariantHolds == Spec => []IInv
BY InitInvariant, StepInvariant, PTL DEF Spec

\* Every variable keeps its type, and no session, wire id or order entry
\* outlives the route it belongs to.
THEOREM TypeCorrect == Spec => []TypeOK
<1>1. IInv => TypeOK
  BY DEF IInv
<1> QED  BY <1>1, InvariantHolds, PTL

\* A session that is not tombstoned is routed to the owner of its target, and
\* that target is not tombstoned either.
THEOREM SessionRoutesAgree == Spec => []SessionRouteAgreesWithTarget
<1>1. IInv => SessionRouteAgreesWithTarget
  BY DEF IInv, CopiesConsistent, Consistent, SessionRouteAgreesWithTarget, Routed
<1> QED  BY <1>1, InvariantHolds, PTL

\* The reverse index lists the routed targets and their owners, through binds,
\* plan rollbacks, forgets, failed forgets and reloads.
THEOREM IndexMatches == Spec => []IndexMatchesRoutes
<1>1. IInv => IndexMatchesRoutes
  BY DEF IInv
<1> QED  BY <1>1, InvariantHolds, PTL

-----------------------------------------------------------------------------
(* Memory, files and the copies under way.                                 *)

\* Whatever h says of owners and tombstones, g says too.
Holds(g, h) ==
    /\ \A t \in Owned(h) : g.troute[t] = h.troute[t]
    /\ h.tconf \subseteq g.tconf
    /\ h.sconf \subseteq g.sconf

\* g is h without the owners of targets that are not contested.
Reduces(g, h) ==
    /\ \A t \in Targets : \/ g.troute[t] = h.troute[t]
                          \/ g.troute[t] = NoRobot /\ t \notin h.tconf
    /\ g.tconf = h.tconf /\ g.sconf = h.sconf

\* A writer: what it carries is in memory, and takes nothing back that the files
\* have.  A forget carries the maps without one target, and keeps what the files
\* have for the case that it fails.
WriterRight ==
    /\ job.kind # "none" => Holds(reg, job.body)
    /\ job.kind \notin {"none", "forget"} => Holds(job.body, OnDisk)
    /\ job.kind = "forget" =>
          /\ job.body = Body(reg)
          /\ Holds(job.prev, OnDisk)
          /\ \E t \in Targets :
                /\ t \notin reg.tconf /\ job.prev.troute[t] # NoRobot
                /\ reg.troute = [job.prev.troute EXCEPT ![t] = NoRobot]
                /\ job.prev.tconf = reg.tconf /\ job.prev.sconf = reg.sconf

\* A plan under way may go back to where it began, which has all that the files
\* have and will have.
PlanRight ==
    plan.pc = "bind" =>
        /\ job.kind # "forget"
        /\ Reduces(plan.prev, reg)
        /\ Holds(plan.prev, OnDisk)
        /\ job.kind # "none" => Holds(plan.prev, job.body)

\* A file that was found damaged is remembered as such.
DamageKnown == path.status = "corrupt" => restored \/ corrupt

FilesInv ==
    /\ life = "down" => job.kind = "none" /\ plan.pc = "none"
    /\ life # "down" => /\ job.kind # "forget" => Holds(reg, OnDisk)
                        /\ WriterRight /\ PlanRight /\ DamageKnown

FInv == IInv /\ FilesInv

-----------------------------------------------------------------------------
(* What is held by what.                                                   *)

\* A snapshot says of owners and tombstones what the maps say.
LEMMA BodySays ==
    ASSUME NEW g \in Registry
    PROVE  /\ Body(g).troute = g.troute /\ Body(g).tconf = g.tconf
           /\ Body(g).sconf = g.sconf
BY DEF Body, Registry

\* What binding does to owners and tombstones: it adds to both, an owner only to
\* a target that has none and is not contested.
Grows(g, h) ==
    /\ \A t \in Targets : \/ h.troute[t] = g.troute[t]
                          \/ g.troute[t] = NoRobot /\ t \notin g.tconf
    /\ g.tconf \subseteq h.tconf /\ g.sconf \subseteq h.sconf

LEMMA GrowthHolds ==
    ASSUME NEW g, NEW h, NEW d \in Registry, Holds(g, d), Grows(g, h)
    PROVE  Holds(h, d)
BY DEF Holds, Grows, Owned

\* One bind claims a target that nobody has, contests one that somebody has, or
\* changes neither.
LEMMA BindDoes ==
    ASSUME NEW g, Consistent(g), NEW r \in Robots, NEW s \in Sessions, NEW w \in MaybeWire
    PROVE  /\ Grows(g, AfterBind(g, r, s, w))
           /\ \/ AfterBind(g, r, s, w).troute = g.troute /\ AfterBind(g, r, s, w).tconf = g.tconf
              \/ /\ g.troute[TargetOf[s]] = NoRobot /\ TargetOf[s] \notin g.tconf
                 /\ AfterBind(g, r, s, w).troute = [g.troute EXCEPT ![TargetOf[s]] = r]
                 /\ AfterBind(g, r, s, w).tconf = g.tconf
              \/ /\ g.troute[TargetOf[s]] # NoRobot
                 /\ AfterBind(g, r, s, w).troute = g.troute
                 /\ AfterBind(g, r, s, w).tconf = g.tconf \union {TargetOf[s]}
<1> DEFINE h == AfterBind(g, r, s, w)
           t == TargetOf[s]
           result == BindResult(g, r, s, w)
<1>1. CASE result = "conflict"
  <2>1. h = Contested(g, r, s, w)
    BY <1>1 DEF AfterBind
  <2>2. /\ h.troute = g.troute /\ g.sconf \subseteq h.sconf
        /\ \/ h.tconf = g.tconf
           \/ g.troute[t] # NoRobot /\ h.tconf = g.tconf \union {t}
    BY <2>1 DEF Contested, Consistent, Registry, TargetTaken, WireClash
  <2> QED
    BY <1>1, <2>2 DEF Grows
<1>2. CASE result = "filled"
  <2>1. h.troute = g.troute /\ h.tconf = g.tconf /\ h.sconf = g.sconf
    BY <1>2 DEF AfterBind, FillWire, Consistent, Registry
  <2> QED
    BY <2>1 DEF Grows
<1>3. CASE result = "bound"
  <2>1. h = Established(g, r, s, w)
    BY <1>3 DEF AfterBind
  <2>2. ~Refused(g, s) /\ ~SessionTaken(g, r, s) /\ ~TargetTaken(g, r, s)
    BY <1>3, BindResultMeans
  <2>3. /\ h.troute = [g.troute EXCEPT ![t] = r]
        /\ h.tconf = g.tconf /\ h.sconf = g.sconf
    BY <2>1, <2>2, EstablishedConsistent
  <2>4. g.troute[t] \in {NoRobot, r} /\ t \notin g.tconf
    BY <2>2 DEF TargetTaken, Refused
  <2>5. t \in Targets /\ g.troute \in [Targets -> MaybeRobot]
    BY DEF Consistent, Registry
  <2>6. g.troute[t] = r => h.troute = g.troute
    BY <2>3, <2>5
  <2> HIDE DEF h, t
  <2>7. \A x \in Targets : h.troute[x] = IF x = t THEN r ELSE g.troute[x]
    BY <2>3, <2>5
  <2>8. Grows(g, h)
    BY <2>3, <2>4, <2>7 DEF Grows
  <2> QED
    BY <2>3, <2>4, <2>6, <2>8 DEF h, t
<1>4. CASE result \in {"refused", "idempotent", "capacity"}
  BY <1>4 DEF AfterBind, Grows
<1> QED
  BY <1>1, <1>2, <1>3, <1>4, BindResultMeans
\* Only a contested bind lays tombstones.
LEMMA OthersContestNothing ==
    ASSUME NEW g, Consistent(g), NEW r \in Robots, NEW s \in Sessions, NEW w \in MaybeWire,
           BindResult(g, r, s, w) # "conflict"
    PROVE  AfterBind(g, r, s, w).tconf = g.tconf /\ AfterBind(g, r, s, w).sconf = g.sconf
<1> DEFINE h == AfterBind(g, r, s, w)
           result == BindResult(g, r, s, w)
<1>1. CASE result = "filled"
  BY <1>1 DEF AfterBind, FillWire, Consistent, Registry
<1>2. CASE result = "bound"
  <2>1. h = Established(g, r, s, w)
    BY <1>2 DEF AfterBind
  <2>2. ~Refused(g, s) /\ ~SessionTaken(g, r, s) /\ ~TargetTaken(g, r, s)
    BY <1>2, BindResultMeans
  <2>3. /\ h.troute = [g.troute EXCEPT ![TargetOf[s]] = r]
        /\ h.tconf = g.tconf /\ h.sconf = g.sconf
    BY <2>1, <2>2, EstablishedConsistent
  <2> QED
    BY <2>3
<1>3. CASE result \in {"refused", "idempotent", "capacity"}
  BY <1>3 DEF AfterBind
<1> QED
  BY <1>1, <1>2, <1>3, BindResultMeans

-----------------------------------------------------------------------------
(* Files and memory, step by step.                                         *)

\* The files start empty.
LEMMA FilesInit == Init => FilesInv
BY DEF Init, FilesInv, NoJob, NoPlan

\* Every copy is one.
LEMMA CopiesAreMaps ==
    ASSUME IInv
    PROVE  /\ {reg, OnDisk, job.body, job.prev, plan.prev} \subseteq Registry
           /\ Consistent(reg) /\ Consistent(OnDisk)
           /\ plan \in Plan /\ job \in Job /\ path \in File /\ backup \in File
BY OnDiskConsistent DEF IInv, CopiesConsistent, Consistent, TypeOK

\* Nothing changes for the files while neither they, the writer nor the plan do,
\* and memory only grows.
LEMMA GrowthKeepsFiles ==
    ASSUME FInv, Grows(reg, reg'), job.kind # "forget", life # "down",
           UNCHANGED <<files, restored, corrupt, job, life>>,
           plan'.pc = "bind" => /\ plan.pc = "bind" /\ plan'.prev = plan.prev
                                /\ Reduces(plan.prev, reg')
    PROVE  FilesInv'
<1>1. {reg, OnDisk, job.body, job.prev, plan.prev} \subseteq Registry
  BY CopiesAreMaps DEF FInv
<1>2. OnDisk' = OnDisk
  BY DEF OnDisk, files
<1>3. /\ Holds(reg', OnDisk)
      /\ job.kind # "none" => Holds(reg', job.body)
  BY <1>1, GrowthHolds DEF FInv, FilesInv, WriterRight
<1>4. WriterRight'
  BY <1>2, <1>3 DEF FInv, FilesInv, WriterRight, Holds, Owned
<1>5. PlanRight'
  BY <1>2 DEF FInv, FilesInv, PlanRight, Holds, Owned
<1>6. DamageKnown'
  BY DEF FInv, FilesInv, DamageKnown, files
<1> QED
  BY <1>2, <1>3, <1>4, <1>5, <1>6 DEF FilesInv

\* Binding, for traffic or for a plan.
LEMMA BindKeepsFiles ==
    ASSUME FInv,
           \/ \E r \in Robots, s \in Sessions : \E w \in WiresOf[TargetOf[s]] : Bind(r, s, w)
           \/ \E s \in Sessions, w \in MaybeWire : PlanBind(s, w)
    PROVE  FilesInv'
<1>1. CASE \E r \in Robots, s \in Sessions : \E w \in WiresOf[TargetOf[s]] : Bind(r, s, w)
  <2>1. PICK r \in Robots, s \in Sessions, w \in MaybeWire : Bind(r, s, w)
    BY <1>1 DEF MaybeWire
  <2>2. Grows(reg, reg')
    BY <2>1, BindDoes, CopiesAreMaps DEF Bind, FInv
  <2>3. /\ UNCHANGED <<files, restored, corrupt, job, life, plan>>
        /\ life # "down" /\ job.kind # "forget" /\ plan.pc # "bind"
    BY <2>1 DEF Bind, LockFree
  <2> QED
    BY <2>2, <2>3, GrowthKeepsFiles
<1>2. CASE \E s \in Sessions, w \in MaybeWire : PlanBind(s, w)
  <2>1. PICK s \in Sessions, w \in MaybeWire : PlanBind(s, w)
    BY <1>2
  <2>2. Consistent(reg) /\ plan \in Plan
    BY CopiesAreMaps DEF FInv
  <2>3. /\ Grows(reg, reg') /\ reg'.tconf = reg.tconf /\ reg'.sconf = reg.sconf
    <3>1. /\ reg' = AfterBind(reg, LegacyRobot, s, w)
          /\ BindResult(reg, LegacyRobot, s, w) \in {"filled", "idempotent", "bound"}
      BY <2>1 DEF PlanBind
    <3> DEFINE h == AfterBind(reg, LegacyRobot, s, w)
    <3>2. Grows(reg, h)
      BY <2>2, BindDoes
    <3>3. h.tconf = reg.tconf /\ h.sconf = reg.sconf
      BY <2>2, <3>1, OthersContestNothing
    <3> QED
      BY <3>1, <3>2, <3>3
  <2>4. /\ UNCHANGED <<files, restored, corrupt, job, life>>
        /\ life # "down" /\ job.kind # "forget"
        /\ plan.pc = "bind" /\ plan'.prev = plan.prev /\ Reduces(plan.prev, reg)
    BY <2>1, <2>2 DEF PlanBind, FInv, FilesInv, PlanRight, Plan
  <2>5. Reduces(plan.prev, reg')
    BY <2>3, <2>4 DEF Reduces, Grows
  <2> QED
    BY <2>3, <2>4, <2>5, GrowthKeepsFiles
<1> QED
  BY <1>1, <1>2

\* A plan begins, or goes back.
LEMMA PlanKeepsFiles ==
    ASSUME FInv,
           \/ \E S \in Plans : PlanStart(S)
           \/ \E s \in Sessions, w \in MaybeWire : PlanRollback(s, w)
    PROVE  FilesInv'
<1>1. {reg, OnDisk, job.body, job.prev, plan.prev} \subseteq Registry
  BY CopiesAreMaps DEF FInv
<1>2. CASE \E S \in Plans : PlanStart(S)
  <2>1. /\ UNCHANGED <<reg, files, restored, corrupt, job, life>> /\ plan'.prev = Body(reg)
        /\ life # "down" /\ job.kind # "forget"
    BY <1>2 DEF PlanStart, LockFree, memory
  <2>2. Reduces(plan'.prev, reg) /\ (\A d : Holds(reg, d) => Holds(plan'.prev, d))
    BY <1>1, <2>1, BodySays DEF Reduces, Holds
  <2> QED
    BY <2>1, <2>2 DEF FInv, FilesInv, WriterRight, PlanRight, DamageKnown, files, OnDisk
<1>3. CASE \E s \in Sessions, w \in MaybeWire : PlanRollback(s, w)
  <2>1. /\ plan.pc = "bind" /\ plan' = NoPlan /\ reg' = plan.prev
        /\ UNCHANGED <<files, restored, corrupt, job, life>>
    BY <1>3 DEF PlanRollback
  <2>2. OnDisk' = OnDisk
    BY <2>1 DEF OnDisk, files
  <2>3. life # "down" /\ PlanRight /\ WriterRight
    BY <2>1 DEF FInv, FilesInv
  <2>4. Holds(reg', OnDisk') /\ WriterRight'
    BY <2>1, <2>2, <2>3 DEF WriterRight, PlanRight, Holds, Owned
  <2> QED
    BY <2>1, <2>3, <2>4 DEF FInv, FilesInv, PlanRight, DamageKnown, NoPlan, files
<1> QED
  BY <1>2, <1>3

\* A forget begins, and so does a flush.
LEMMA WriterStarts ==
    ASSUME FInv,
           \/ \E r \in Robots, t \in Targets : ForgetStart(r, t)
           \/ \E k \in FlushKinds : FlushStart(k)
    PROVE  FilesInv'
<1>1. {reg, OnDisk} \subseteq Registry /\ Consistent(reg)
  BY CopiesAreMaps DEF FInv
<1>2. CASE \E k \in FlushKinds : FlushStart(k)
  <2>1. PICK k \in FlushKinds : FlushStart(k)
    BY <1>2
  <2>2. /\ UNCHANGED <<reg, files, restored, corrupt, plan, life>>
        /\ job'.kind = k /\ k \notin {"none", "forget"} /\ job'.body = Body(reg)
        /\ job.kind = "none" /\ plan.pc # "bind" /\ OnDisk' = OnDisk
    BY <2>1 DEF FlushStart, FlushKinds, LockFree, files, OnDisk
  <2>3. life # "down"
    BY <2>1 DEF FlushStart, FlushWanted, FInv, FilesInv
  <2>4. Holds(reg, OnDisk)
    BY <2>2, <2>3 DEF FInv, FilesInv
  <2>5. Holds(reg, job'.body) /\ Holds(job'.body, OnDisk)
    BY <1>1, <2>2, <2>4, BodySays DEF Holds, Owned
  <2> QED
    BY <2>2, <2>3, <2>4, <2>5 DEF FInv, FilesInv, WriterRight, PlanRight, DamageKnown, files
<1>3. CASE \E r \in Robots, t \in Targets : ForgetStart(r, t)
  <2>1. PICK r \in Robots, t \in Targets : ForgetStart(r, t)
    BY <1>3
  <2>2. /\ UNCHANGED <<files, restored, corrupt, plan, life>> /\ reg' = Without(reg, t)
        /\ job'.kind = "forget" /\ job'.body = Body(reg') /\ job'.prev = Body(reg)
        /\ job.kind = "none" /\ plan.pc # "bind" /\ OnDisk' = OnDisk /\ life # "down"
        /\ reg.troute[t] = r /\ t \notin reg.tconf
    BY <2>1 DEF ForgetStart, MayForget, LockFree, files, OnDisk
  <2>3. /\ reg'.troute = [reg.troute EXCEPT ![t] = NoRobot]
        /\ reg'.tconf = reg.tconf /\ reg'.sconf = reg.sconf /\ reg' \in Registry
    <3>1. reg \in Registry /\ reg' = Without(reg, t)
      BY <1>1, <2>2 DEF Consistent
    <3>2. reg' \in Registry
      BY <1>1, <2>2, WithoutConsistent DEF Consistent
    <3>3. reg'.troute = [reg.troute EXCEPT ![t] = NoRobot]
      BY <3>1 DEF Without, Registry
    <3>4. reg'.tconf = reg.tconf /\ reg'.sconf = reg.sconf
      BY <3>1 DEF Without, Registry
    <3> QED
      BY <3>2, <3>3, <3>4
  <2>4. Holds(reg', job'.body)
    BY <2>2, <2>3, BodySays DEF Holds
  <2>5. Holds(job'.prev, OnDisk)
    BY <1>1, <2>2, BodySays DEF Holds, FInv, FilesInv
  <2>6. WriterRight'
    <3>1. /\ t \notin reg'.tconf /\ job'.prev.troute[t] # NoRobot
          /\ reg'.troute = [job'.prev.troute EXCEPT ![t] = NoRobot]
          /\ job'.prev.tconf = reg'.tconf /\ job'.prev.sconf = reg'.sconf
      BY <1>1, <2>2, <2>3, BodySays
    <3> QED
      BY <2>2, <2>4, <2>5, <3>1 DEF WriterRight
  <2> QED
    BY <2>2, <2>6 DEF FInv, FilesInv, PlanRight, DamageKnown, files
<1> QED
  BY <1>2, <1>3

\* load() leaves no writer and no plan, and memory that holds the files.
LEMMA LoadKeepsFiles ==
    ASSUME FInv, Load
    PROVE  FilesInv'
<1>1. /\ OnDisk' = OnDisk /\ UNCHANGED files /\ life' = "open"
      /\ job'.kind = "none" /\ plan'.pc = "none"
  BY DEF Load, OnDisk, files
<1>2. Holds(reg', OnDisk')
  <2>1. CASE path.status = "ok" \/ backup.status = "ok"
    BY <1>1, <2>1 DEF Load, Holds
  <2>2. CASE ~(path.status = "ok" \/ backup.status = "ok")
    <3>1. OnDisk = EmptyRegistry
      BY <2>2 DEF OnDisk
    <3> QED
      BY <1>1, <3>1 DEF Holds, Owned, EmptyRegistry
  <2> QED
    BY <2>1, <2>2
<1>3. DamageKnown'
  BY <1>1 DEF Load, DamageKnown, files, FInv, IInv, TypeOK
<1> QED
  BY <1>1, <1>2, <1>3 DEF FilesInv, WriterRight, PlanRight

\* The rotation leaves a file that holds what would be restored.
LEMMA RotationKeepsDisk ==
    ASSUME FInv, Rotate
    PROVE  OnDisk' = OnDisk /\ DamageKnown'
<1>1. path.status \in {"ok", "missing", "corrupt"} /\ DamageKnown
  BY CopiesAreMaps DEF FInv, File, FilesInv, Rotate
<1> QED
  BY <1>1 DEF Rotate, OnDisk, DamageKnown, Missing, files, memory

LEMMA RotateKeepsFiles ==
    ASSUME FInv, Rotate
    PROVE  FilesInv'
<1>1. OnDisk' = OnDisk /\ DamageKnown'
  BY RotationKeepsDisk
<1>2. /\ job' = [job EXCEPT !.pc = "write"] /\ UNCHANGED <<reg, plan, life>>
      /\ life # "down"
  BY DEF Rotate, memory, FInv, FilesInv
<1>3. job'.kind = job.kind /\ job'.body = job.body /\ job'.prev = job.prev
  BY <1>2, CopiesAreMaps DEF FInv, Job
<1> QED
  BY <1>1, <1>2, <1>3 DEF FInv, FilesInv, WriterRight, PlanRight, Holds, Owned

\* The write puts the copy that the writer carries in place of the files.
LEMMA WriteKeepsFiles ==
    ASSUME FInv, Write
    PROVE  FilesInv'
<1>1. /\ path' = Snapshot(job.body) /\ OnDisk' = job.body /\ job' = NoJob /\ UNCHANGED reg
      /\ job.kind # "none"
  BY DEF Write, AfterWrite, OnDisk, Snapshot
<1>2. life # "down" /\ WriterRight /\ PlanRight
  BY <1>1 DEF FInv, FilesInv
<1>3. plan'.pc = "bind" => UNCHANGED plan
  BY DEF Write, AfterWrite, NoPlan
<1>4. life' # "down" /\ Holds(reg', OnDisk') /\ PlanRight'
  BY <1>1, <1>2, <1>3 DEF Write, AfterWrite, WriterRight, PlanRight, NoJob
<1> QED
  BY <1>1, <1>4 DEF FilesInv, WriterRight, DamageKnown, NoJob, Snapshot

\* A write that fails leaves the files, and memory what it was before a forget.
LEMMA WriteFailsKeepsFiles ==
    ASSUME FInv, WriteFails
    PROVE  FilesInv'
<1>1. /\ job' = NoJob /\ OnDisk' = OnDisk /\ UNCHANGED <<files, restored, corrupt>>
      /\ job.kind # "none" /\ plan.pc # "bind"
  BY DEF WriteFails, AfterWrite, OnDisk, files
<1>2. life # "down" /\ WriterRight /\ (job.kind # "forget" => Holds(reg, OnDisk)) /\ DamageKnown
  BY <1>1 DEF FInv, FilesInv
<1>3. plan'.pc # "bind" /\ life' # "down"
  BY <1>1, <1>2 DEF WriteFails, AfterWrite, NoPlan
<1>4. Holds(reg', OnDisk')
  BY <1>1, <1>2 DEF WriteFails, WriterRight, Holds, Owned
<1> QED
  BY <1>1, <1>2, <1>3, <1>4 DEF FilesInv, WriterRight, PlanRight, DamageKnown, NoJob, files

\* What leaves the maps, the files, the writer and the plan alone, and a process
\* that stops.
LEMMA OthersKeepFiles ==
    ASSUME FInv,
           FlushIdle \/ Disconnect \/ Disconnected \/ Crash \/ CorruptFile \/ UNCHANGED vars
    PROVE  FilesInv'
<1>1. CASE FlushIdle \/ Disconnect \/ Disconnected \/ UNCHANGED vars
  <2>1. /\ UNCHANGED <<reg, restored, corrupt, files, job, plan>> /\ OnDisk' = OnDisk
        /\ life' = "down" <=> life = "down"
    BY <1>1 DEF FlushIdle, Disconnect, Disconnected, vars, memory, files, OnDisk
  <2> QED
    BY <2>1 DEF FInv, FilesInv, WriterRight, PlanRight, DamageKnown, files, Holds, Owned
<1>2. CASE Crash \/ CorruptFile
  BY <1>2 DEF Crash, CorruptFile, FInv, FilesInv, NoJob, NoPlan
<1> QED
  BY <1>1, <1>2

LEMMA FilesStep == FInv /\ [Next]_vars => FInv'
<1> SUFFICES ASSUME FInv, [Next]_vars PROVE FilesInv'
  BY StepInvariant DEF FInv
<1> QED
  BY BindKeepsFiles, PlanKeepsFiles, WriterStarts, LoadKeepsFiles, RotateKeepsFiles,
     WriteKeepsFiles, WriteFailsKeepsFiles, OthersKeepFiles DEF Next, PlanStep

LEMMA FilesInvariant == Spec => []FInv
<1>1. Init => FInv
  BY InitInvariant, FilesInit DEF FInv
<1> QED
  BY <1>1, FilesStep, PTL DEF Spec

\* While a process runs, a restart would restore no owner and no tombstone that the
\* process does not hold, but for the target of the forget under way.
THEOREM DiskNeverAhead == Spec => []DiskNeverAheadOfMemory
<1>1. FInv => DiskNeverAheadOfMemory
  <2> SUFFICES ASSUME FInv, life # "down" PROVE Covers(reg, OnDisk)
    BY DEF DiskNeverAheadOfMemory
  <2>1. CASE job.kind # "forget"
    BY <2>1 DEF FInv, FilesInv, Holds, Covers, Releasing
  <2>2. CASE job.kind = "forget"
    <3>1. Holds(job.prev, OnDisk)
      BY <2>2 DEF FInv, FilesInv, WriterRight
    <3>2. PICK t \in Targets :
             /\ reg.troute = [job.prev.troute EXCEPT ![t] = NoRobot]
             /\ job.prev.troute[t] # NoRobot
             /\ job.prev.tconf = reg.tconf /\ job.prev.sconf = reg.sconf
      BY <2>2 DEF FInv, FilesInv, WriterRight
    <3>3. {reg, job.prev, job.body, OnDisk} \subseteq Registry /\ job.body.troute = reg.troute
      BY <2>2, CopiesAreMaps, BodySays DEF FInv, FilesInv, WriterRight
    <3>4. t \in Releasing
      BY <2>2, <3>2, <3>3 DEF Releasing, Owned, Registry
    <3>5. \A x \in Owned(OnDisk) \ Releasing : reg.troute[x] = OnDisk.troute[x]
      BY <3>1, <3>2, <3>3, <3>4 DEF Holds, Owned, Registry
    <3> QED
      BY <3>1, <3>2, <3>5 DEF Covers, Holds
  <2> QED
    BY <2>1, <2>2
<1> QED
  BY <1>1, FilesInvariant, PTL

-----------------------------------------------------------------------------
(* The promise.                                                            *)

\* Owners are owners and tombstones are tombstones of Ownership.
LEMMA MapsArePromised ==
    ASSUME NEW g \in Registry
    PROVE  /\ g.troute \in Promise!Owners /\ g.tconf \subseteq Targets
           /\ [owner |-> g.troute, contested |-> g.tconf] \in Promise!Books
BY DEF Registry, MaybeRobot, Promise!Owners, Promise!Books

LEMMA PromiseInit == Init => Promise!Init
BY DEF Init, OnDisk, Missing, EmptyRegistry, Promise!Init, Promise!Unowned

\* One bind is a claim, a contest, or nothing of either.
LEMMA BindIsPromised ==
    ASSUME FInv,
           \/ \E r \in Robots, s \in Sessions : \E w \in WiresOf[TargetOf[s]] : Bind(r, s, w)
           \/ \E s \in Sessions, w \in MaybeWire : PlanBind(s, w)
    PROVE  [Promise!Next]_Promise!vars
<1>1. PICK r \in Robots, s \in Sessions, w \in MaybeWire : reg' = AfterBind(reg, r, s, w)
  BY DEF Bind, PlanBind, MaybeWire
<1>2. OnDisk' = OnDisk /\ UNCHANGED life /\ life # "down"
  BY DEF Bind, PlanBind, files, OnDisk, FInv, FilesInv
<1>3. Consistent(reg)
  BY CopiesAreMaps DEF FInv
<1> DEFINE t == TargetOf[s]
<1>4. t \in Targets
  OBVIOUS
<1>5. \/ reg'.troute = reg.troute /\ reg'.tconf = reg.tconf
      \/ /\ reg.troute[t] = NoRobot /\ t \notin reg.tconf
         /\ reg'.troute = [reg.troute EXCEPT ![t] = r] /\ reg'.tconf = reg.tconf
      \/ /\ reg.troute[t] # NoRobot
         /\ reg'.troute = reg.troute /\ reg'.tconf = reg.tconf \union {t}
  BY <1>1, <1>3, BindDoes
<1> HIDE DEF t
<1>6. CASE reg'.troute = reg.troute /\ reg'.tconf = reg.tconf
  BY <1>2, <1>6 DEF Promise!vars
<1>7. CASE /\ reg.troute[t] = NoRobot /\ t \notin reg.tconf
           /\ reg'.troute = [reg.troute EXCEPT ![t] = r] /\ reg'.tconf = reg.tconf
  <2>1. Promise!Claim(t, r)
    BY <1>2, <1>7 DEF Promise!Claim
  <2> QED
    BY <1>4, <2>1 DEF Promise!Next
<1>8. CASE /\ reg.troute[t] # NoRobot
           /\ reg'.troute = reg.troute /\ reg'.tconf = reg.tconf \union {t}
  <2>1. Promise!Contest(t)
    BY <1>2, <1>8 DEF Promise!Contest
  <2> QED
    BY <1>4, <2>1 DEF Promise!Next
<1> QED
  BY <1>5, <1>6, <1>7, <1>8

\* To give up owners of targets that nobody contests is a release.
LEMMA ReductionIsRelease ==
    ASSUME NEW g \in Registry, g.tconf = reg.tconf, reg' = g, reg \in Registry,
           \A t \in Targets : \/ g.troute[t] = reg.troute[t]
                              \/ g.troute[t] = NoRobot /\ t \notin reg.tconf,
           OnDisk' = OnDisk, life # "down", life' # "down"
    PROVE  Promise!Next
<1> DEFINE C == {t \in Targets : g.troute[t] = NoRobot /\ t \notin reg.tconf}
<1>1. C \subseteq Targets /\ C \intersect reg.tconf = {}
  OBVIOUS
<1>2. g.troute = [t \in Targets |-> IF t \in C THEN NoRobot ELSE reg.troute[t]]
  BY DEF Registry
<1> HIDE DEF C
<1>3. Promise!Release(C)
  BY <1>1, <1>2 DEF Promise!Release
<1> QED
  BY <1>1, <1>3 DEF Promise!Next

\* A plan that goes back, and a forget that begins.
LEMMA LettingGoIsPromised ==
    ASSUME FInv,
           \/ \E s \in Sessions, w \in MaybeWire : PlanRollback(s, w)
           \/ \E r \in Robots, t \in Targets : ForgetStart(r, t)
    PROVE  Promise!Next
<1>1. {reg, plan.prev} \subseteq Registry /\ Consistent(reg)
  BY CopiesAreMaps DEF FInv
<1>2. OnDisk' = OnDisk /\ UNCHANGED life /\ life # "down"
  BY DEF PlanRollback, ForgetStart, files, OnDisk, FInv, FilesInv
<1>3. CASE \E s \in Sessions, w \in MaybeWire : PlanRollback(s, w)
  <2>1. reg' = plan.prev /\ Reduces(plan.prev, reg)
    BY <1>2, <1>3 DEF PlanRollback, FInv, FilesInv, PlanRight
  <2> QED
    BY <1>1, <1>2, <2>1, ReductionIsRelease DEF Reduces
<1>4. CASE \E r \in Robots, t \in Targets : ForgetStart(r, t)
  <2>1. PICK t \in Targets : reg' = Without(reg, t) /\ t \notin reg.tconf
    BY <1>4 DEF ForgetStart, MayForget
  <2>2. Without(reg, t) \in Registry
    BY <1>1, WithoutConsistent DEF Consistent
  <2>3. /\ Without(reg, t).troute = [reg.troute EXCEPT ![t] = NoRobot]
        /\ Without(reg, t).tconf = reg.tconf
    BY <1>1 DEF Without, Registry
  <2>4. \A x \in Targets : \/ Without(reg, t).troute[x] = reg.troute[x]
                           \/ Without(reg, t).troute[x] = NoRobot /\ x \notin reg.tconf
    BY <1>1, <2>1, <2>3 DEF Registry
  <2> QED
    BY <1>1, <1>2, <2>1, <2>2, <2>3, <2>4, ReductionIsRelease
<1> QED
  BY <1>3, <1>4

\* The write saves; it takes back no claim that still holds.
LEMMA WriteIsPromised ==
    ASSUME FInv, Write
    PROVE  Promise!Next
<1>1. /\ OnDisk' = job.body /\ UNCHANGED reg /\ job.kind # "none"
      /\ life # "down" /\ life' # "down"
  BY DEF Write, AfterWrite, OnDisk, Snapshot, FInv, FilesInv
<1>2. {reg, OnDisk, job.body, job.prev} \subseteq Registry /\ WriterRight
  BY <1>1, CopiesAreMaps DEF FInv, FilesInv
<1> DEFINE was == [owner |-> OnDisk.troute, contested |-> OnDisk.tconf]
           is == [owner |-> job.body.troute, contested |-> job.body.tconf]
<1>3. is \in Promise!Books
  BY <1>2, MapsArePromised
<1>4. \A c \in Targets : job.body.troute[c] \in {reg.troute[c], NoRobot}
  BY <1>1, <1>2 DEF WriterRight, Holds, Owned
<1>5. /\ \A c \in Targets : reg.troute[c] \in Robots /\ OnDisk.troute[c] = reg.troute[c]
                            => job.body.troute[c] = reg.troute[c]
      /\ OnDisk.tconf \subseteq job.body.tconf /\ job.body.tconf \subseteq reg.tconf
  <2>1. CASE job.kind # "forget"
    BY <1>1, <1>2, <2>1 DEF WriterRight, Holds, Owned
  <2>2. CASE job.kind = "forget"
    <3>1. job.body = Body(reg) /\ Holds(job.prev, OnDisk) /\ job.prev.tconf = reg.tconf
      BY <1>2, <2>2 DEF WriterRight
    <3>2. job.body.troute = reg.troute /\ job.body.tconf = reg.tconf
      BY <1>2, <3>1, BodySays
    <3> QED
      BY <3>1, <3>2 DEF Holds
  <2> QED
    BY <2>1, <2>2
<1>6. Promise!Save
  BY <1>1, <1>3, <1>4, <1>5 DEF Promise!Save
<1> QED
  BY <1>6 DEF Promise!Next

\* The write that fails: nothing happened, or a claim is taken up again.
LEMMA WriteFailsIsPromised ==
    ASSUME FInv, WriteFails
    PROVE  [Promise!Next]_Promise!vars
<1>1. /\ OnDisk' = OnDisk /\ job.kind # "none" /\ life # "down" /\ life' # "down"
  BY DEF WriteFails, AfterWrite, OnDisk, files, FInv, FilesInv
<1>2. {reg, job.prev} \subseteq Registry /\ WriterRight
  BY <1>1, CopiesAreMaps DEF FInv, FilesInv
<1>3. CASE job.kind # "forget"
  BY <1>1, <1>3 DEF WriteFails, Promise!vars
<1>4. CASE job.kind = "forget"
  <2>1. reg' = job.prev
    BY <1>4 DEF WriteFails
  <2>2. PICK t \in Targets :
           /\ t \notin reg.tconf /\ job.prev.troute[t] # NoRobot
           /\ reg.troute = [job.prev.troute EXCEPT ![t] = NoRobot]
           /\ job.prev.tconf = reg.tconf
    BY <1>2, <1>4 DEF WriterRight
  <2> DEFINE r == job.prev.troute[t]
  <2>3. r \in Robots /\ job.prev.troute = [reg.troute EXCEPT ![t] = r] /\ reg.troute[t] = NoRobot
    BY <1>2, <2>2 DEF Registry, MaybeRobot
  <2> HIDE DEF r
  <2>4. Promise!Claim(t, r)
    BY <1>1, <2>1, <2>2, <2>3 DEF Promise!Claim
  <2> QED
    BY <2>3, <2>4 DEF Promise!Next
<1> QED
  BY <1>3, <1>4

\* Starts, stops and damage.
LEMMA LifeIsPromised ==
    ASSUME FInv, FInv', Load \/ Crash \/ CorruptFile
    PROVE  Promise!Next
<1>1. CASE Load
  <2>1. OnDisk' = OnDisk /\ life' # "down"
    BY <1>1 DEF Load, OnDisk, files
  <2>2. \/ reg' = OnDisk
        \/ OnDisk = EmptyRegistry /\ UNCHANGED reg
    BY <1>1 DEF Load, OnDisk
  <2>3. Promise!Reload
    BY <2>1, <2>2 DEF Promise!Reload, Promise!Unowned, EmptyRegistry
  <2> QED
    BY <2>3 DEF Promise!Next
<1>2. CASE Crash
  <2>1. Promise!Crash
    BY <1>2 DEF Crash, Promise!Crash, Promise!Unowned, EmptyRegistry, OnDisk, files
  <2> QED
    BY <2>1 DEF Promise!Next
<1>3. CASE CorruptFile
  <2>1. UNCHANGED <<reg, life>> /\ life = "down" /\ OnDisk' \in Registry
    BY <1>3, EmptyConsistent DEF CorruptFile, memory, OnDisk, FInv, IInv, CopiesConsistent, Consistent
  <2>2. [owner |-> OnDisk'.troute, contested |-> OnDisk'.tconf] \in Promise!Books
    BY <2>1, MapsArePromised
  <2>3. Promise!Damage
    BY <2>1, <2>2 DEF Promise!Damage
  <2> QED
    BY <2>3 DEF Promise!Next
<1> QED
  BY <1>1, <1>2, <1>3

\* What nobody outside notices.
LEMMA RestIsStuttering ==
    ASSUME FInv,
           \/ \E S \in Plans : PlanStart(S)
           \/ \E k \in FlushKinds : FlushStart(k)
           \/ FlushIdle \/ Rotate \/ Disconnect \/ Disconnected \/ UNCHANGED vars
    PROVE  UNCHANGED Promise!vars
<1>1. UNCHANGED reg /\ (life' # "down" <=> life # "down")
  BY DEF PlanStart, FlushStart, FlushIdle, Rotate, Disconnect, Disconnected, vars, memory
<1>2. OnDisk' = OnDisk
  <2>1. CASE Rotate
    BY <2>1, RotationKeepsDisk
  <2>2. CASE UNCHANGED files
    BY <2>2 DEF files, OnDisk
  <2> QED
    BY <2>1, <2>2 DEF PlanStart, FlushStart, FlushIdle, Disconnect, Disconnected, vars
<1> QED
  BY <1>1, <1>2 DEF Promise!vars

LEMMA PromiseStep == FInv /\ FInv' /\ [Next]_vars => [Promise!Next]_Promise!vars
BY BindIsPromised, LettingGoIsPromised, WriteIsPromised, WriteFailsIsPromised, LifeIsPromised,
   RestIsStuttering DEF Next, PlanStep

\* The registry, its files, its threads and its crashes do what Ownership says.
THEOREM KeepsThePromise == Spec => ImplementsOwnership
BY PromiseInit, PromiseStep, FilesInvariant, PTL
   DEF Spec, ImplementsOwnership, Promise!Spec

-----------------------------------------------------------------------------
(* Capacity.                                                               *)

\* Some session of any of these sessions is the oldest of them.
HasOldest(before, sessions) ==
    \A S \in SUBSET sessions : S # {} => \E m \in S : \A x \in S : <<x, m>> \notin before

\* The maps are finite and within their capacity, and some session of any that are
\* routed is the oldest of them, so that there is one to evict.
Fits(g) ==
    /\ IsFiniteSet(Owned(g)) /\ Cardinality(Owned(g)) <= MaxRoutes
    /\ IsFiniteSet(Routed(g)) /\ Cardinality(Routed(g)) <= MaxRoutes
    /\ HasOldest(g.before, Routed(g))

CopiesFit ==
    /\ Fits(reg) /\ Fits(plan.prev) /\ Fits(job.body) /\ Fits(job.prev)
    /\ Fits(path.body) /\ Fits(backup.body)

\* Fewer routes in the same order fit as well.
LEMMA FewerFit ==
    ASSUME NEW g, NEW h, Fits(g), Owned(h) \subseteq Owned(g), Routed(h) \subseteq Routed(g),
           h.before \subseteq g.before
    PROVE  Fits(h)
<1>1. /\ IsFiniteSet(Owned(h)) /\ Cardinality(Owned(h)) <= Cardinality(Owned(g))
      /\ IsFiniteSet(Routed(h)) /\ Cardinality(Routed(h)) <= Cardinality(Routed(g))
  BY FS_Subset DEF Fits
<1>2. /\ Cardinality(Owned(h)) \in Nat /\ Cardinality(Owned(g)) \in Nat
      /\ Cardinality(Routed(h)) \in Nat /\ Cardinality(Routed(g)) \in Nat
  BY <1>1, FS_CardinalityType DEF Fits
<1>3. Cardinality(Owned(h)) <= MaxRoutes /\ Cardinality(Routed(h)) <= MaxRoutes
  BY <1>1, <1>2 DEF Fits
<1>4. HasOldest(h.before, Routed(h))
  BY DEF Fits, HasOldest
<1> QED
  BY <1>1, <1>3, <1>4 DEF Fits

LEMMA EmptyFits == Fits(EmptyRegistry)
<1>1. Owned(EmptyRegistry) = {} /\ Routed(EmptyRegistry) = {}
  BY DEF Owned, Routed, EmptyRegistry
<1>2. IsFiniteSet({}) /\ Cardinality({}) = 0
  BY FS_EmptySet
<1>3. HasOldest(EmptyRegistry.before, Routed(EmptyRegistry))
  BY <1>1 DEF HasOldest
<1> QED
  BY <1>1, <1>2, <1>3 DEF Fits

\* Snapshots take no route away.
LEMMA BodyFits ==
    ASSUME NEW g \in Registry, Fits(g)
    PROVE  Fits(Body(g))
<1>1. Owned(Body(g)) = Owned(g) /\ Routed(Body(g)) = Routed(g) /\ Body(g).before = g.before
  BY DEF Body, Registry, Owned, Routed
<1> QED
  BY <1>1, FewerFit

\* Forgets take routes away only.
LEMMA WithoutFits ==
    ASSUME NEW g \in Registry, Fits(g), NEW t \in Targets
    PROVE  Fits(Without(g, t))
<1>2. /\ Without(g, t).troute = [g.troute EXCEPT ![t] = NoRobot]
      /\ Without(g, t).sroute = [s \in Sessions |-> IF s \in LinkedTo(g, t) THEN NoRobot
                                                   ELSE g.sroute[s]]
      /\ Without(g, t).before \subseteq g.before
  BY DEF Without, Registry
<1>3. Owned(Without(g, t)) \subseteq Owned(g) /\ Routed(Without(g, t)) \subseteq Routed(g)
  BY <1>2 DEF Owned, Routed, Registry
<1> QED
  BY <1>2, <1>3, FewerFit

\* After the eviction there is room for a session.
LEMMA EvictedFits ==
    ASSUME NEW g, Consistent(g), Fits(g)
    PROVE  Fits(Evicted(g)) /\ Cardinality(Routed(Evicted(g))) < MaxRoutes
<1> DEFINE o == Oldest(g)
           h == Evicted(g)
<1>1. Cardinality(Routed(g)) \in Nat /\ IsFiniteSet(Routed(g)) /\ Cardinality(Routed(g)) <= MaxRoutes
  BY FS_CardinalityType DEF Fits
<1>2. CASE Cardinality(Routed(g)) < MaxRoutes
  BY <1>2 DEF Evicted
<1>3. CASE Cardinality(Routed(g)) = MaxRoutes
  <2>1. Routed(g) # {}
    BY <1>3, FS_EmptySet
  <2>2. o \in Routed(g)
    BY <2>1 DEF Fits, HasOldest, Oldest
  <2> HIDE DEF o
  <2>3. h = [g EXCEPT !.sroute[o] = NoRobot,
                      !.before = {p \in @ : o \notin {p[1], p[2]}},
                      !.linked = @ \ {o}]
    BY <1>3 DEF Evicted, o
  <2>4. /\ h.sroute = [g.sroute EXCEPT ![o] = NoRobot] /\ h.troute = g.troute
        /\ h.before \subseteq g.before
    BY <2>3 DEF Consistent, Registry
  <2>5. Owned(h) = Owned(g) /\ Routed(h) = Routed(g) \ {o}
    BY <2>2, <2>4 DEF Owned, Routed, Consistent, Registry
  <2>6. Cardinality(Routed(h)) = MaxRoutes - 1
    <3>1. Cardinality(Routed(g) \ {o}) = Cardinality(Routed(g)) - 1
      BY <1>1, <2>2, FS_RemoveElement
    <3> QED
      BY <1>3, <2>5, <3>1
  <2>7. Fits(h)
    BY <2>4, <2>5, FewerFit
  <2> QED
    BY <2>6, <2>7
<1> QED
  BY <1>1, <1>2, <1>3

\* A contest and a wire id that is filled in route nothing.
LEMMA ContestedAndFilledFit ==
    ASSUME NEW g \in Registry, Fits(g), NEW r, NEW s \in Sessions, NEW w \in MaybeWire
    PROVE  Fits(Contested(g, r, s, w)) /\ Fits(FillWire(g, s, w))
<1>1. /\ Contested(g, r, s, w).troute = g.troute /\ Contested(g, r, s, w).sroute = g.sroute
      /\ Contested(g, r, s, w).before = g.before
  BY DEF Contested, Registry
<1>2. /\ FillWire(g, s, w).troute = g.troute /\ FillWire(g, s, w).sroute = g.sroute
      /\ FillWire(g, s, w).before = g.before
  BY DEF FillWire, Registry
<1> QED
  BY <1>1, <1>2, FewerFit DEF Owned, Routed

\* A session that is added last keeps some session of any the oldest.
LEMMA AddedLast ==
    ASSUME NEW R, NEW B, B \subseteq R \X R, HasOldest(B, R), NEW s, s \notin R
    PROVE  HasOldest(B \union (R \X {s}), R \union {s})
<1> SUFFICES ASSUME NEW S \in SUBSET (R \union {s}), S # {}
             PROVE  \E m \in S : \A x \in S : <<x, m>> \notin B \union (R \X {s})
  BY DEF HasOldest
<1>1. CASE S = {s}
  <2>1. <<s, s>> \notin B
    OBVIOUS
  <2>2. <<s, s>> \notin R \X {s}
    OBVIOUS
  <2> QED
    BY <1>1, <2>1, <2>2
<1>2. CASE S # {s}
  <2> DEFINE T == S \ {s}
  <2>1. T # {} /\ T \in SUBSET R
    BY <1>2
  <2> HIDE DEF T
  <2>2. PICK m \in T : \A x \in T : <<x, m>> \notin B
    BY <2>1 DEF HasOldest
  <2>3. m \in S /\ m # s /\ m \in R
    BY <2>1 DEF T
  <2>4. ASSUME NEW x \in S
        PROVE  <<x, m>> \notin B \union (R \X {s})
    <3>1. <<x, m>> \notin R \X {s}
      BY <2>3
    <3>2. <<x, m>> \notin B
      <4>1. CASE x \in T
        BY <2>2, <4>1
      <4>2. CASE x \notin T
        <5>1. x = s
          BY <4>2 DEF T
        <5> QED
          BY <5>1
      <4> QED
        BY <4>1, <4>2
    <3> QED
      BY <3>1, <3>2
  <2> QED
    BY <2>3, <2>4
<1> QED
  BY <1>1, <1>2

\* A new route takes a place that is free, or that the eviction made.
LEMMA EstablishedFits ==
    ASSUME NEW g0, Consistent(g0), Fits(g0), NEW r \in Robots, NEW s \in Sessions,
           NEW w \in MaybeWire,
           ~Refused(g0, s), ~SessionTaken(g0, r, s), ~TargetTaken(g0, r, s),
           ~Full(g0, s)
    PROVE  Fits(Established(g0, r, s, w))
<1> DEFINE t == TargetOf[s]
           g1 == [g0 EXCEPT !.troute[t] = r]
           g2 == FillWire(g1, s, w)
           g == Evicted(g2)
           h == Established(g0, r, s, w)
<1>0. t \in Targets /\ r # NoRobot
  OBVIOUS
<1>1. /\ g1.troute = [g0.troute EXCEPT ![t] = r]
      /\ g1.sroute = g0.sroute /\ g1.wires = g0.wires /\ g1.linked = g0.linked
      /\ g1.before = g0.before /\ g1.sconf = g0.sconf /\ g1.tconf = g0.tconf
  BY DEF Consistent, Registry
<1>2. Owned(g1) = Owned(g0) \union {t} /\ Routed(g1) = Routed(g0)
  BY <1>0, <1>1 DEF Owned, Routed, Consistent, Registry
<1>3. Consistent(g1) /\ t \in Owned(g1)
  <2>1. g1 \in Registry
    BY <1>0 DEF Consistent, Registry, MaybeRobot
  <2>3. WellKeyed(g1)
    BY <1>2, <1>1 DEF WellKeyed, Consistent
  <2>4. \A x \in Sessions :
           g1.sroute[x] # NoRobot => g1.troute[TargetOf[x]] = g1.sroute[x]
    BY <1>0, <1>1 DEF Consistent, Registry, TargetTaken
  <2>5. \A x \in Sessions :
           g1.sroute[x] # NoRobot /\ TargetOf[x] \in g1.tconf => x \in g1.sconf
    BY <1>1 DEF Consistent
  <2> QED
    BY <1>2, <2>1, <2>3, <2>4, <2>5 DEF Consistent
<1> HIDE DEF g1
<1>4. Fits(g1)
  <2>1. IsFiniteSet(Owned(g0)) /\ Cardinality(Owned(g0)) <= MaxRoutes
    BY DEF Fits
  <2>2. Cardinality(Owned(g0)) \in Nat
    BY <2>1, FS_CardinalityType
  <2>3. t \in Owned(g0) \/ Cardinality(Owned(g0)) < MaxRoutes
    BY <1>0, <2>2 DEF Full, Owned
  <2>4. /\ IsFiniteSet(Owned(g0) \union {t})
        /\ Cardinality(Owned(g0) \union {t}) =
             IF t \in Owned(g0) THEN Cardinality(Owned(g0)) ELSE Cardinality(Owned(g0)) + 1
    BY <2>1, FS_AddElement
  <2>5. IsFiniteSet(Owned(g1)) /\ Cardinality(Owned(g1)) <= MaxRoutes
    BY <1>2, <2>1, <2>2, <2>3, <2>4
  <2> QED
    BY <1>1, <1>2, <2>5 DEF Fits
<1>5. Consistent(g2) /\ Fits(g2)
  <2>1. Consistent(g2)
    BY <1>3, FillWireConsistent
  <2>2. g1 \in Registry
    BY <1>3 DEF Consistent
  <2>3. Fits(g2)
    BY <1>4, <2>2, ContestedAndFilledFit
  <2> QED
    BY <2>1, <2>3
<1> HIDE DEF g2
<1>6. Consistent(g) /\ Fits(g) /\ Cardinality(Routed(g)) < MaxRoutes
  BY <1>5, EvictedConsistent, EvictedFits
<1> DEFINE B == IF g.sroute[s] = NoRobot THEN Routed(g) \X {s} ELSE {}
<1>7. h = [g EXCEPT !.sroute[s] = r, !.before = @ \union B, !.linked = @ \union {s}]
  BY DEF Established, g1, g2
<1> HIDE DEF g, B, h
<1>8. /\ h.sroute = [g.sroute EXCEPT ![s] = r] /\ h.troute = g.troute
      /\ h.before = g.before \union B
  BY <1>6, <1>7 DEF Consistent, Registry
<1>9. Owned(h) = Owned(g) /\ Routed(h) = Routed(g) \union {s}
  BY <1>0, <1>6, <1>8 DEF Owned, Routed, Consistent, Registry
<1>10. IsFiniteSet(Routed(g)) /\ Cardinality(Routed(g)) \in Nat
  BY <1>6, FS_CardinalityType DEF Fits
<1>11. IsFiniteSet(Routed(h)) /\ Cardinality(Routed(h)) <= MaxRoutes
  <2>1. /\ IsFiniteSet(Routed(g) \union {s})
        /\ Cardinality(Routed(g) \union {s}) =
             IF s \in Routed(g) THEN Cardinality(Routed(g)) ELSE Cardinality(Routed(g)) + 1
    BY <1>10, FS_AddElement
  <2> QED
    BY <1>6, <1>9, <1>10, <2>1
<1>12. IsFiniteSet(Owned(h)) /\ Cardinality(Owned(h)) <= MaxRoutes
  BY <1>6, <1>9 DEF Fits
<1>13. HasOldest(h.before, Routed(h))
  <2>1. g.before \subseteq Routed(g) \X Routed(g)
    BY <1>6 DEF Consistent, WellKeyed
  <2>2. HasOldest(g.before, Routed(g))
    BY <1>6 DEF Fits
  <2>3. CASE s \in Routed(g)
    <3>1. Routed(h) = Routed(g)
      BY <1>9, <2>3
    <3>2. h.before = g.before
      BY <1>8, <2>3 DEF Routed, B
    <3> QED
      BY <2>2, <3>1, <3>2
  <2>4. CASE s \notin Routed(g)
    <3>1. h.before = g.before \union (Routed(g) \X {s})
      BY <1>8, <2>4 DEF Routed, B
    <3>2. HasOldest(g.before \union (Routed(g) \X {s}), Routed(g) \union {s})
      BY <2>1, <2>2, <2>4, AddedLast
    <3> QED
      BY <1>9, <3>1, <3>2
  <2> QED
    BY <2>3, <2>4
<1> QED
  BY <1>11, <1>12, <1>13 DEF Fits, h

\* bind() never outgrows the maps.
LEMMA AfterBindFits ==
    ASSUME NEW g, Consistent(g), Fits(g), NEW r \in Robots, NEW s \in Sessions,
           NEW w \in MaybeWire
    PROVE  Fits(AfterBind(g, r, s, w))
<1> DEFINE result == BindResult(g, r, s, w)
<1>1. CASE result = "conflict"
  BY <1>1, ContestedAndFilledFit DEF AfterBind, Consistent
<1>2. CASE result = "filled"
  BY <1>2, ContestedAndFilledFit DEF AfterBind, Consistent
<1>3. CASE result = "bound"
  <2>1. ~Refused(g, s) /\ ~SessionTaken(g, r, s) /\ ~TargetTaken(g, r, s)
    BY <1>3, BindResultMeans
  <2>2. ~Full(g, s)
    BY <1>3, <2>1 DEF BindResult
  <2> QED
    BY <1>3, <2>1, <2>2, EstablishedFits DEF AfterBind
<1>4. CASE result \in {"refused", "idempotent", "capacity"}
  BY <1>4 DEF AfterBind
<1> QED
  BY <1>1, <1>2, <1>3, <1>4, BindResultMeans

CInv == IInv /\ CopiesFit

LEMMA FitsInit == Init => CopiesFit
BY EmptyFits DEF Init, CopiesFit, NoPlan, NoJob, Missing

\* Every action builds maps that fit or moves whole copies.
LEMMA FitsStep == CInv /\ [Next]_vars => CopiesFit'
<1> SUFFICES ASSUME CInv, [Next]_vars
             PROVE  CopiesFit'
  OBVIOUS
<1> USE DEF CInv
<1>0. /\ reg \in Registry /\ Consistent(reg) /\ plan \in Plan /\ job \in Job
      /\ path \in File /\ backup \in File
  BY DEF IInv, TypeOK, CopiesConsistent
<1>1. ASSUME NEW r \in Robots, NEW s \in Sessions, NEW w \in WiresOf[TargetOf[s]], Bind(r, s, w)
      PROVE  CopiesFit'
  <2>1. w \in MaybeWire
    BY DEF MaybeWire
  <2> QED
    BY <1>0, <1>1, <2>1, AfterBindFits DEF Bind, CopiesFit, files
<1>2. ASSUME NEW S \in Plans, PlanStart(S)
      PROVE  CopiesFit'
  <2>1. plan'.prev = Body(reg)
    BY <1>2 DEF PlanStart
  <2>2. Fits(Body(reg))
    BY <1>0, BodyFits DEF CopiesFit
  <2> QED
    BY <1>2, <2>1, <2>2 DEF PlanStart, CopiesFit, files, memory
<1>3. ASSUME NEW s \in Sessions, NEW w \in MaybeWire, PlanBind(s, w)
      PROVE  CopiesFit'
  <2>1. LegacyRobot \in Robots
    OBVIOUS
  <2>2. Fits(reg')
    BY <1>0, <1>3, <2>1, AfterBindFits DEF PlanBind, CopiesFit
  <2>3. plan'.prev = plan.prev
    BY <1>0, <1>3 DEF PlanBind, Plan
  <2> QED
    BY <1>3, <2>2, <2>3 DEF PlanBind, CopiesFit, files
<1>4. ASSUME NEW s \in Sessions, NEW w \in MaybeWire, PlanRollback(s, w)
      PROVE  CopiesFit'
  BY <1>4, EmptyFits DEF PlanRollback, CopiesFit, files, NoPlan
<1>5. ASSUME NEW r \in Robots, NEW t \in Targets, ForgetStart(r, t)
      PROVE  CopiesFit'
  <2>1. Fits(Body(reg)) /\ Fits(Without(reg, t))
    BY <1>0, BodyFits, WithoutFits DEF CopiesFit
  <2>2. Without(reg, t) \in Registry
    BY <1>0, WithoutConsistent DEF Consistent
  <2>3. Fits(Body(Without(reg, t)))
    BY <2>1, <2>2, BodyFits
  <2>4. /\ reg' = Without(reg, t) /\ job'.body = Body(Without(reg, t))
        /\ job'.prev = Body(reg)
    BY <1>5 DEF ForgetStart
  <2> QED
    BY <1>5, <2>1, <2>3, <2>4 DEF ForgetStart, CopiesFit, files
<1>6. ASSUME NEW k \in FlushKinds, FlushStart(k)
      PROVE  CopiesFit'
  <2>1. Fits(Body(reg))
    BY <1>0, BodyFits DEF CopiesFit
  <2>2. job'.body = Body(reg) /\ job'.prev = EmptyRegistry
    BY <1>6 DEF FlushStart
  <2> QED
    BY <1>6, <2>1, <2>2, EmptyFits DEF FlushStart, CopiesFit, files
<1>7. CASE Rotate
  <2>1. job'.body = job.body /\ job'.prev = job.prev
    BY <1>0, <1>7 DEF Rotate, Job
  <2>2. Fits(path'.body) /\ Fits(backup'.body)
    BY <1>7, EmptyFits DEF Rotate, CopiesFit, files, Missing
  <2> QED
    BY <1>7, <2>1, <2>2 DEF Rotate, CopiesFit, memory
<1>8. CASE Write
  <2>1. path'.body = job.body /\ job' = NoJob
    BY <1>8 DEF Write, AfterWrite, Snapshot
  <2>2. plan'.prev = plan.prev \/ plan'.prev = EmptyRegistry
    BY <1>8 DEF Write, AfterWrite, NoPlan
  <2> QED
    BY <1>8, <2>1, <2>2, EmptyFits DEF Write, CopiesFit, NoJob
<1>9. CASE WriteFails
  <2>1. job' = NoJob /\ reg' \in {reg, job.prev} /\ UNCHANGED files
    BY <1>9 DEF WriteFails, AfterWrite
  <2>2. plan'.prev = plan.prev \/ plan'.prev = EmptyRegistry
    BY <1>9 DEF WriteFails, AfterWrite, NoPlan
  <2> QED
    BY <2>1, <2>2, EmptyFits DEF CopiesFit, NoJob, files
<1>10. CASE Load
  <2>1. reg' = reg \/ reg' = OnDisk
    BY <1>10 DEF Load
  <2>2. Fits(OnDisk)
    BY EmptyFits DEF OnDisk, CopiesFit
  <2> QED
    BY <1>10, <2>1, <2>2 DEF Load, CopiesFit, files
<1>11. CASE Crash
  BY <1>11, EmptyFits DEF Crash, CopiesFit, files, NoJob, NoPlan
<1>12. CASE CorruptFile
  BY <1>12, EmptyFits DEF CorruptFile, CopiesFit, Corrupted, memory
<1>13. CASE FlushIdle \/ Disconnect \/ Disconnected \/ UNCHANGED vars
  BY <1>13 DEF FlushIdle, Disconnect, Disconnected, vars, memory, files, CopiesFit
<1> QED
  BY <1>1, <1>2, <1>3, <1>4, <1>5, <1>6, <1>7, <1>8, <1>9, <1>10, <1>11, <1>12, <1>13
     DEF Next, PlanStep

\* Neither map outgrows MAX_PERSISTED_ROUTES, in any order of binds, evictions,
\* rollbacks, forgets, writes and restarts.
THEOREM CapacityKept == Spec => []WithinCapacity
<1>1. Init => CInv
  BY InitInvariant, FitsInit DEF CInv
<1>2. CInv /\ [Next]_vars => CInv'
  BY StepInvariant, FitsStep DEF CInv
<1>3. CInv => WithinCapacity
  BY DEF CInv, CopiesFit, Fits, WithinCapacity
<1> QED
  BY <1>1, <1>2, <1>3, PTL DEF Spec
=============================================================================
