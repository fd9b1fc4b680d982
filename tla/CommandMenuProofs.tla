------------------------- MODULE CommandMenuProofs -------------------------
(***************************************************************************)
(* Proofs about CommandMenu, for any registries, limit and number of bots, *)
(* changes, moves of the token and lost connections.                       *)
(*                                                                         *)
(* The digest is written when an answer arrives, at a time when the bot    *)
(* may be another one.  What makes it true nevertheless is that the taker  *)
(* of a request has its menu, that a runtime that is not astray has the    *)
(* token of its own bot, and that the taker of its request is that bot     *)
(* unless a connect came in between, which forces another publication.     *)
(***************************************************************************)
EXTENDS CommandMenu, TLAPS

-----------------------------------------------------------------------------
(* The inductive invariant: the type invariant by variables, ...           *)

Shown == Menus \union {NoMenu}

GatewayTyped == offered \subseteq Offers /\ used \subseteq Skills /\ menu \in Menus
ServerTyped == bot \in Robots /\ server \in [Robots -> Shown]
RuntimeTyped ==
    /\ robot \in Robots \union {NoRobot} /\ life \in {"down", "joining", "up", "lost"}
    /\ task \in {"none", "waiting", "asking"}
FlagsTyped == event \in BOOLEAN /\ force \in BOOLEAN /\ astray \in BOOLEAN
RequestTyped ==
    digest \in Shown /\ request \in [menu : Shown, taker : Robots \union {NoRobot}]
BoundsTyped == changes \in 0..MaxChanges /\ moves \in 0..MaxMoves /\ breaks \in 0..MaxBreaks

\* ... the loop runs within a session, which knows its bot; only a request under
\* way has a taker; ...
SessionInv ==
    /\ life = "down" => task = "none"
    /\ life # "down" => robot # NoRobot
    /\ task # "asking" => ~Taken

\* ... whoever took the request has its menu; one who is connected and not astray
\* is the bot of the token, and took the request, unless another one is due.
TakerInv ==
    /\ Taken => server[request.taker] = request.menu
    /\ ~astray /\ robot # NoRobot => robot = bot
    /\ life = "up" /\ ~astray /\ ~event /\ Taken => request.taker = bot

IInv ==
    /\ GatewayTyped /\ ServerTyped /\ RuntimeTyped /\ FlagsTyped /\ RequestTyped /\ BoundsTyped
    /\ SessionInv /\ TakerInv /\ DigestIsTruth

-----------------------------------------------------------------------------
(* The steps.                                                              *)

\* What the gateway may offer has a projection.
LEMMA MenuTyped ==
    ASSUME NEW S \in SUBSET Offers, NEW U \in SUBSET Skills
    PROVE  Menu(S, U) \in Menus
<1>1. <<S, U>> \in (SUBSET Offers) \X (SUBSET Skills) /\ <<S, U>>[1] = S /\ <<S, U>>[2] = U
  OBVIOUS
<1> QED
  BY <1>1 DEF Menu, Menus
LEMMA InitInvariant == Init => IInv
<1> SUFFICES ASSUME Init PROVE IInv
  OBVIOUS
<1> USE DEF Init
<1>1. GatewayTyped
  BY MenuAssumption, MenuTyped DEF GatewayTyped
<1>2. ServerTyped /\ RuntimeTyped /\ FlagsTyped
  BY DEF ServerTyped, RuntimeTyped, FlagsTyped, Shown
<1>3. RequestTyped /\ BoundsTyped
  BY MenuBounds DEF RequestTyped, BoundsTyped, Shown, NoRequest
<1>4. SessionInv /\ TakerInv /\ DigestIsTruth
  BY DEF SessionInv, TakerInv, DigestIsTruth, Taken, NoRequest
<1> QED
  BY <1>1, <1>2, <1>3, <1>4 DEF IInv

\* Every step keeps all parts of the invariant.
LEMMA StepInvariant == IInv /\ [Next]_vars => IInv'
<1> SUFFICES ASSUME IInv, [Next]_vars
             PROVE  IInv'
  OBVIOUS
<1> USE MenuBounds, MenuAssumption DEF gateway, octo, loop, bounds
<1>1. ASSUME NEW o \in Offers, Changes(o)
      PROVE  IInv'
  <2>1. RuntimeTyped' /\ FlagsTyped' /\ SessionInv' /\ DigestIsTruth'
    BY <1>1 DEF IInv, RuntimeTyped, FlagsTyped, SessionInv, Taken, DigestIsTruth, Changes
  <2>2. GatewayTyped'
    <3>1. offered' \in SUBSET Offers
      BY <1>1 DEF Changes, SymDiff, IInv, GatewayTyped
    <3> QED
      BY <1>1, <3>1, MenuTyped DEF Changes, IInv, GatewayTyped
  <2>3. ServerTyped'
    BY <1>1 DEF IInv, ServerTyped, Changes
  <2>4. RequestTyped'
    BY <1>1 DEF IInv, RequestTyped, Shown, Changes
  <2>5. BoundsTyped'
    BY <1>1 DEF IInv, BoundsTyped, Changes
  <2>6. TakerInv'
    BY <1>1 DEF IInv, TakerInv, Taken, Changes
  <2> QED
    BY <2>1, <2>2, <2>3, <2>4, <2>5, <2>6 DEF IInv
<1>2. ASSUME NEW n \in Skills, Uses(n)
      PROVE  IInv'
  <2>1. RuntimeTyped' /\ FlagsTyped' /\ SessionInv' /\ DigestIsTruth'
    BY <1>2 DEF IInv, RuntimeTyped, FlagsTyped, SessionInv, Taken, DigestIsTruth, Uses
  <2>2. GatewayTyped'
    <3>1. used' \in SUBSET Skills
      BY <1>2 DEF Uses, SymDiff, IInv, GatewayTyped
    <3> QED
      BY <1>2, <3>1, MenuTyped DEF Uses, IInv, GatewayTyped
  <2>3. ServerTyped'
    BY <1>2 DEF IInv, ServerTyped, Uses
  <2>4. RequestTyped'
    BY <1>2 DEF IInv, RequestTyped, Shown, Uses
  <2>5. BoundsTyped'
    BY <1>2 DEF IInv, BoundsTyped, Uses
  <2>6. TakerInv'
    BY <1>2 DEF IInv, TakerInv, Taken, Uses
  <2> QED
    BY <2>1, <2>2, <2>3, <2>4, <2>5, <2>6 DEF IInv
<1>3. ASSUME NEW r \in Robots, TokenMoves(r)
      PROVE  IInv'
  <2>1. GatewayTyped' /\ RuntimeTyped' /\ RequestTyped' /\ SessionInv'
    BY <1>3 DEF IInv, GatewayTyped, RuntimeTyped, RequestTyped, Shown, SessionInv, Taken,
       TokenMoves
  <2>2. ServerTyped'
    BY <1>3 DEF IInv, ServerTyped, TokenMoves
  <2>3. FlagsTyped'
    BY <1>3 DEF IInv, FlagsTyped, TokenMoves
  <2>4. BoundsTyped'
    BY <1>3 DEF IInv, BoundsTyped, TokenMoves
  <2>5. TakerInv'
    BY <1>3 DEF IInv, TakerInv, Taken, TokenMoves
  <2>6. DigestIsTruth'
    BY <1>3 DEF IInv, DigestIsTruth, Taken, TokenMoves
  <2> QED
    BY <2>1, <2>2, <2>3, <2>4, <2>5, <2>6 DEF IInv
<1>4. CASE Registers
  <2>1. GatewayTyped' /\ ServerTyped' /\ BoundsTyped'
    BY <1>4 DEF IInv, GatewayTyped, ServerTyped, BoundsTyped, Registers
  <2>2. RuntimeTyped'
    BY <1>4 DEF IInv, RuntimeTyped, ServerTyped, Registers
  <2>3. FlagsTyped'
    BY <1>4 DEF IInv, FlagsTyped, Registers
  <2>4. RequestTyped'
    BY <1>4 DEF IInv, RequestTyped, Shown, Registers
  <2>5. SessionInv'
    BY <1>4 DEF IInv, SessionInv, Taken, RuntimeTyped, ServerTyped, RequestTyped, Shown,
       Registers
  <2>6. TakerInv'
    BY <1>4 DEF IInv, TakerInv, Taken, Registers
  <2>7. DigestIsTruth'
    BY <1>4 DEF IInv, DigestIsTruth, Taken, Registers
  <2> QED
    BY <2>1, <2>2, <2>3, <2>4, <2>5, <2>6, <2>7 DEF IInv
<1>5. CASE Welcomed
  <2>1. GatewayTyped' /\ ServerTyped' /\ RequestTyped' /\ BoundsTyped'
    BY <1>5 DEF IInv, GatewayTyped, ServerTyped, RequestTyped, Shown, BoundsTyped, Welcomed
  <2>2. RuntimeTyped'
    BY <1>5 DEF IInv, RuntimeTyped, Welcomed
  <2>3. FlagsTyped'
    BY <1>5 DEF IInv, FlagsTyped, Welcomed
  <2>4. SessionInv'
    BY <1>5 DEF IInv, SessionInv, Taken, Welcomed
  <2>5. TakerInv'
    BY <1>5 DEF IInv, TakerInv, Taken, Welcomed
  <2>6. DigestIsTruth'
    BY <1>5 DEF IInv, DigestIsTruth, Taken, Welcomed
  <2> QED
    BY <2>1, <2>2, <2>3, <2>4, <2>5, <2>6 DEF IInv
<1>6. CASE Lost
  <2>1. GatewayTyped' /\ ServerTyped' /\ FlagsTyped' /\ RequestTyped'
    BY <1>6 DEF IInv, GatewayTyped, ServerTyped, FlagsTyped, RequestTyped, Shown, Lost
  <2>2. RuntimeTyped'
    BY <1>6 DEF IInv, RuntimeTyped, Lost
  <2>3. BoundsTyped'
    BY <1>6 DEF IInv, BoundsTyped, Lost
  <2>4. SessionInv'
    BY <1>6 DEF IInv, SessionInv, Taken, Lost
  <2>5. TakerInv'
    BY <1>6 DEF IInv, TakerInv, Taken, Lost
  <2>6. DigestIsTruth'
    BY <1>6 DEF IInv, DigestIsTruth, Taken, Lost
  <2> QED
    BY <2>1, <2>2, <2>3, <2>4, <2>5, <2>6 DEF IInv
<1>7. CASE Disconnects
  <2>1. GatewayTyped' /\ ServerTyped'
    BY <1>7 DEF IInv, GatewayTyped, ServerTyped, Disconnects, NoRequest
  <2>2. RuntimeTyped'
    BY <1>7 DEF IInv, RuntimeTyped, Disconnects, NoRequest
  <2>3. FlagsTyped'
    BY <1>7 DEF IInv, FlagsTyped, Disconnects, NoRequest
  <2>4. RequestTyped'
    BY <1>7 DEF IInv, RequestTyped, Shown, Disconnects, NoRequest
  <2>5. BoundsTyped'
    BY <1>7 DEF IInv, BoundsTyped, Disconnects, NoRequest
  <2>6. SessionInv'
    BY <1>7 DEF IInv, SessionInv, Taken, Disconnects, NoRequest
  <2>7. TakerInv'
    BY <1>7 DEF IInv, TakerInv, Taken, Disconnects, NoRequest
  <2>8. DigestIsTruth'
    BY <1>7 DEF IInv, DigestIsTruth, Taken, Disconnects, NoRequest
  <2> QED
    BY <2>1, <2>2, <2>3, <2>4, <2>5, <2>6, <2>7, <2>8 DEF IInv
<1>8. ASSUME NEW forced \in BOOLEAN, Unbuilt(forced)
      PROVE  IInv'
  <2>1. /\ GatewayTyped' /\ ServerTyped' /\ RuntimeTyped' /\ RequestTyped' /\ BoundsTyped'
        /\ SessionInv'
    BY <1>8 DEF IInv, GatewayTyped, ServerTyped, RuntimeTyped, RequestTyped, Shown, BoundsTyped,
       SessionInv, Taken, Unbuilt, WaitEnds
  <2>2. FlagsTyped'
    BY <1>8 DEF IInv, FlagsTyped, Unbuilt, WaitEnds
  <2>3. TakerInv'
    BY <1>8 DEF IInv, TakerInv, Taken, ServerTyped, RuntimeTyped, SessionInv, RequestTyped,
       Shown, Unbuilt, WaitEnds
  <2>4. DigestIsTruth'
    BY <1>8 DEF IInv, DigestIsTruth, Taken, Unbuilt, WaitEnds
  <2> QED
    BY <2>1, <2>2, <2>3, <2>4 DEF IInv
<1>9. ASSUME NEW forced \in BOOLEAN, Unchanged(forced)
      PROVE  IInv'
  <2>1. /\ GatewayTyped' /\ ServerTyped' /\ RuntimeTyped' /\ RequestTyped' /\ BoundsTyped'
        /\ SessionInv'
    BY <1>9 DEF IInv, GatewayTyped, ServerTyped, RuntimeTyped, RequestTyped, Shown, BoundsTyped,
       SessionInv, Taken, Unchanged, WaitEnds
  <2>2. FlagsTyped'
    BY <1>9 DEF IInv, FlagsTyped, Unchanged, WaitEnds
  <2>3. TakerInv'
    BY <1>9 DEF IInv, TakerInv, Taken, Unchanged, WaitEnds
  <2>4. DigestIsTruth'
    BY <1>9 DEF IInv, DigestIsTruth, Taken, Unchanged, WaitEnds
  <2> QED
    BY <2>1, <2>2, <2>3, <2>4 DEF IInv
<1>10. ASSUME NEW forced \in BOOLEAN, Publishes(forced)
      PROVE  IInv'
  <2>1. GatewayTyped' /\ ServerTyped' /\ BoundsTyped'
    BY <1>10 DEF IInv, GatewayTyped, ServerTyped, BoundsTyped, Publishes, WaitEnds
  <2>2. RuntimeTyped'
    BY <1>10 DEF IInv, RuntimeTyped, Publishes, WaitEnds
  <2>3. FlagsTyped'
    BY <1>10 DEF IInv, FlagsTyped, Publishes, WaitEnds
  <2>4. RequestTyped'
    BY <1>10 DEF IInv, RequestTyped, Shown, GatewayTyped, ServerTyped, Publishes, WaitEnds
  <2>5. SessionInv'
    BY <1>10 DEF IInv, SessionInv, Taken, Publishes, WaitEnds
  <2>6. TakerInv'
    BY <1>10 DEF IInv, TakerInv, Taken, Publishes, WaitEnds
  <2>7. DigestIsTruth'
    BY <1>10 DEF IInv, DigestIsTruth, Taken, RuntimeTyped, SessionInv, TakerInv, ServerTyped,
       RequestTyped, Shown, Publishes, WaitEnds
  <2> QED
    BY <2>1, <2>2, <2>3, <2>4, <2>5, <2>6, <2>7 DEF IInv
<1>11. CASE ServerTakes
  <2>1. GatewayTyped' /\ RuntimeTyped' /\ FlagsTyped' /\ BoundsTyped'
    BY <1>11 DEF IInv, GatewayTyped, RuntimeTyped, FlagsTyped, BoundsTyped, ServerTakes
  <2>2. ServerTyped'
    BY <1>11 DEF IInv, ServerTyped, RequestTyped, Shown, ServerTakes
  <2>3. RequestTyped'
    BY <1>11 DEF IInv, RequestTyped, Shown, GatewayTyped, ServerTyped, ServerTakes
  <2>4. SessionInv'
    BY <1>11 DEF IInv, SessionInv, Taken, ServerTakes
  <2>5. TakerInv'
    BY <1>11 DEF IInv, TakerInv, Taken, ServerTyped, RuntimeTyped, SessionInv, RequestTyped,
       Shown, ServerTakes
  <2>6. DigestIsTruth'
    BY <1>11 DEF IInv, DigestIsTruth, Taken, RuntimeTyped, SessionInv, TakerInv, ServerTyped,
       RequestTyped, Shown, ServerTakes
  <2> QED
    BY <2>1, <2>2, <2>3, <2>4, <2>5, <2>6 DEF IInv
<1>12. CASE Published
  <2>1. GatewayTyped' /\ ServerTyped' /\ BoundsTyped'
    BY <1>12 DEF IInv, GatewayTyped, ServerTyped, BoundsTyped, Published, NoRequest
  <2>2. RuntimeTyped'
    BY <1>12 DEF IInv, RuntimeTyped, Published, NoRequest
  <2>3. FlagsTyped'
    BY <1>12 DEF IInv, FlagsTyped, Published, NoRequest
  <2>4. RequestTyped'
    BY <1>12 DEF IInv, RequestTyped, Shown, Published, NoRequest
  <2>5. SessionInv'
    BY <1>12 DEF IInv, SessionInv, Taken, Published, NoRequest
  <2>6. TakerInv'
    BY <1>12 DEF IInv, TakerInv, Taken, Published, NoRequest
  <2>7. DigestIsTruth'
    BY <1>12 DEF IInv, DigestIsTruth, Taken, RuntimeTyped, SessionInv, TakerInv, ServerTyped,
       RequestTyped, Shown, Published, NoRequest
  <2> QED
    BY <2>1, <2>2, <2>3, <2>4, <2>5, <2>6, <2>7 DEF IInv
<1>13. CASE Fails
  <2>1. GatewayTyped' /\ ServerTyped' /\ BoundsTyped'
    BY <1>13 DEF IInv, GatewayTyped, ServerTyped, BoundsTyped, Fails, NoRequest
  <2>2. RuntimeTyped'
    BY <1>13 DEF IInv, RuntimeTyped, Fails, NoRequest
  <2>3. FlagsTyped'
    BY <1>13 DEF IInv, FlagsTyped, Fails, NoRequest
  <2>4. RequestTyped'
    BY <1>13 DEF IInv, RequestTyped, Shown, Fails, NoRequest
  <2>5. SessionInv'
    BY <1>13 DEF IInv, SessionInv, Taken, Fails, NoRequest
  <2>6. TakerInv'
    BY <1>13 DEF IInv, TakerInv, Taken, Fails, NoRequest
  <2>7. DigestIsTruth'
    BY <1>13 DEF IInv, DigestIsTruth, Taken, Fails, NoRequest
  <2> QED
    BY <2>1, <2>2, <2>3, <2>4, <2>5, <2>6, <2>7 DEF IInv
<1>14. CASE UNCHANGED vars
  BY <1>14 DEF IInv, GatewayTyped, ServerTyped, RuntimeTyped, FlagsTyped, RequestTyped, Shown,
     BoundsTyped, SessionInv, Taken, TakerInv, DigestIsTruth, vars
<1> QED
  BY <1>1, <1>2, <1>3, <1>4, <1>5, <1>6, <1>7, <1>8, <1>9, <1>10, <1>11, <1>12, <1>13,
     <1>14 DEF Next, Reconcile

-----------------------------------------------------------------------------
(* The theorems.                                                           *)

\* All parts of the invariant hold of every state.
THEOREM InvariantHolds == Spec => []IInv
  BY InitInvariant, StepInvariant, PTL DEF Spec

\* What is published and what is remembered of it are projections of what the
\* gateway can offer, and the loop runs only while there is a session
\* (_wake_command_menu_sync, _finalize_disconnect_resources).
THEOREM TypeCorrect == Spec => []TypeOK
<1>1. IInv => TypeOK
  BY DEF IInv, TypeOK, GatewayTyped, ServerTyped, RuntimeTyped, FlagsTyped, RequestTyped,
         BoundsTyped, SessionInv, Shown
<1> QED
  BY <1>1, InvariantHolds, PTL

\* While no forced publication is due the digest says what the present bot's menu
\* is: the periodic poll of _reconcile_command_menu, which compares nothing else,
\* never leaves a bot with a menu that is not the digest's, whichever answers
\* were late or lost and whenever _reset_identity_scoped_state ran.
THEOREM DigestTrue == Spec => []DigestIsTruth
<1>1. IInv => DigestIsTruth
  BY DEF IInv
<1> QED
  BY <1>1, InvariantHolds, PTL
=============================================================================
