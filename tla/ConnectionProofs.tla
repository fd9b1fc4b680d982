-------------------------- MODULE ConnectionProofs --------------------------
(***************************************************************************)
(* Proofs about Connection, for any number of tasks, websockets and calls. *)
(*                                                                         *)
(* The argument is about who knows of whom.  Every task that runs is the   *)
(* one its field names, or one the holder of the lock waits for; a cleanup *)
(* waits for all of them, and nobody starts another meanwhile, because a   *)
(* cleanup that goes on to retry finds no receive loop, and under any      *)
(* other _need_reconnect is FALSE.                                         *)
(***************************************************************************)
EXTENDS Connection, TLAPS

USE ConnectionAssumption

-----------------------------------------------------------------------------
(* The inductive invariant.                                                *)

Attempt == {"register", "open", "handshake", "beats", "loops"}
Cleanup == {"gather", "finish"}

LoopsDead == \A l \in Loops : loops[l].pc = "dead"
ReconnectsDead == \A r \in Reconnects : rpc[r] = "dead"

\* What the holder of _lifecycle_lock is doing.
HolderInv ==
    /\ step \in Cleanup => lock \in {"connect", "disconnect"}
    /\ lock = "disconnect" => step \in Cleanup /\ after = "close" /\ ~need /\ ~connected
    /\ after = "close" => lock = "disconnect"
    /\ step = "close" => lock \in Reconnects
    /\ step \notin {"gather", "loops"} => owned = Nobody

\* Which websocket and session there are: an attempt begins without a websocket.
LinkInv ==
    /\ OneConnection
    /\ step \in {"register", "open"} => ws = None
    /\ step \in Attempt => http

\* No reconnect task but the one the runtime or the cleanup knows of.
ReconnectInv ==
    /\ \A r \in Reconnects : rpc[r] # "dead" => r = rtask
    /\ step = "gather" => \A r \in Reconnects : rpc[r] # "dead" => r = owned.r
    /\ step = "finish" => ReconnectsDead

\* No receive task but the one the runtime, an attempt or the cleanup knows of.
LoopInv ==
    /\ \A l \in Loops : loops[l].pc # "dead" => l \in {ltask, owned.l}
    /\ step = "gather" => \A l \in Loops : loops[l].pc # "dead" => l = owned.l
    /\ step = "loops" => ltask = None
    /\ step = "finish" => LoopsDead
    /\ ~http => LoopsDead
    /\ lock = "connect" /\ step \in Attempt => LoopsDead
    /\ step \in Cleanup /\ need => LoopsDead

\* A cleanup stops the heartbeats first.
HeartInv ==
    /\ step \in Cleanup => heart # "on" /\ ~others
    /\ step = "finish" => heart = "off"

ClosedInv == DisconnectIsFinal /\ (closed => conn = "idle")

IInv == Flags /\ Places /\ HolderInv /\ LinkInv /\ ReconnectInv /\ LoopInv /\ HeartInv /\ ClosedInv

-----------------------------------------------------------------------------
(* The steps.                                                              *)

\* _spawn_reconnect_task starts one new task at most, and none beside another.
LEMMA SpawnDoes ==
    ASSUME NEW p, NEW t, Spawn(p, t)
    PROVE  \/ rtask' = t /\ rpc' = p
           \/ /\ need /\ (t = None \/ p[t] = "dead")
              /\ \E r \in Reconnects \ {disc, owned.r} :
                    rtask' = r /\ rpc' = [p EXCEPT ![r] = "new"]
BY DEF Spawn, Idle

LEMMA InitInvariant == Init => IInv
<1> USE DEF Init, Over, Loop, Nobody
<1>1. Init => Flags
  BY DEF Flags
<1>2. Init => Places
  BY DEF Places, Holders, Steps
<1>3. Init => HolderInv /\ LinkInv /\ HeartInv
  BY DEF HolderInv, LinkInv, OneConnection, HeartInv, Cleanup, Attempt
<1>4. Init => ReconnectInv /\ LoopInv /\ ClosedInv
  BY DEF ReconnectInv, ReconnectsDead, LoopInv, LoopsDead, ClosedInv, DisconnectIsFinal,
     Cleanup, Attempt
<1> QED
  BY <1>1, <1>2, <1>3, <1>4 DEF IInv

\* Every step keeps all parts of the invariant.
LEMMA StepInvariant == IInv /\ [Next]_vars => IInv'
<1> SUFFICES ASSUME IInv, [Next]_vars
             PROVE  IInv'
  OBVIOUS
<1> USE DEF Pending, Alive, Loop, Over, Nobody, Holders, Steps, Cleanup, Attempt, link, tasks,
     calls
<1>1. CASE ReconnectCloses
  <2>1. Flags'
    BY <1>1 DEF IInv, Flags, ReconnectCloses
  <2>2. Places'
    BY <1>1 DEF IInv, Places, ReconnectCloses
  <2>3. HolderInv'
    BY <1>1 DEF IInv, HolderInv, ReconnectCloses
  <2>4. LinkInv'
    BY <1>1 DEF IInv, LinkInv, OneConnection, ReconnectCloses
  <2>5. ReconnectInv'
    BY <1>1 DEF IInv, ReconnectInv, ReconnectsDead, ReconnectCloses
  <2>6. LoopInv'
    BY <1>1 DEF IInv, LoopInv, LoopsDead, Places, HolderInv, LinkInv, OneConnection,
       ReconnectCloses
  <2>7. HeartInv'
    BY <1>1 DEF IInv, HeartInv, ReconnectCloses
  <2>8. ClosedInv'
    BY <1>1 DEF IInv, ClosedInv, DisconnectIsFinal, HolderInv, Places, LinkInv, OneConnection,
       ReconnectCloses
  <2> QED
    BY <2>1, <2>2, <2>3, <2>4, <2>5, <2>6, <2>7, <2>8 DEF IInv
<1>2. CASE Gathered
  <2>1. Flags' /\ ClosedInv'
    BY <1>2 DEF IInv, Flags, ClosedInv, DisconnectIsFinal, Gathered
  <2>2. Places'
    BY <1>2 DEF IInv, Places, Gathered
  <2>3. HolderInv'
    BY <1>2 DEF IInv, HolderInv, Gathered
  <2>4. LinkInv'
    BY <1>2 DEF IInv, LinkInv, OneConnection, Gathered
  <2>5. ReconnectInv'
    BY <1>2 DEF IInv, ReconnectInv, ReconnectsDead, Gathered
  <2>6. LoopInv'
    BY <1>2 DEF IInv, LoopInv, LoopsDead, Gathered
  <2>7. HeartInv'
    BY <1>2 DEF IInv, HeartInv, Gathered
  <2> QED
    BY <2>1, <2>2, <2>3, <2>4, <2>5, <2>6, <2>7 DEF IInv
<1>3. CASE ConnectBegins
  <2>1. Flags'
    BY <1>3 DEF IInv, Flags, ConnectBegins
  <2>2. Places'
    BY <1>3 DEF IInv, Places, ConnectBegins
  <2>3. HolderInv'
    BY <1>3 DEF IInv, HolderInv, ConnectBegins
  <2>4. LinkInv'
    BY <1>3 DEF IInv, LinkInv, OneConnection, ConnectBegins
  <2>5. ReconnectInv'
    BY <1>3 DEF IInv, ReconnectInv, ReconnectsDead, ConnectBegins
  <2>6. LoopInv'
    BY <1>3 DEF IInv, LoopInv, LoopsDead, ConnectBegins
  <2>7. HeartInv'
    BY <1>3 DEF IInv, HeartInv, ConnectBegins
  <2>8. ClosedInv'
    BY <1>3 DEF IInv, ClosedInv, DisconnectIsFinal, HolderInv, Places, LinkInv, OneConnection,
       ConnectBegins
  <2> QED
    BY <2>1, <2>2, <2>3, <2>4, <2>5, <2>6, <2>7, <2>8 DEF IInv
<1>4. CASE ConnectFails
  <2>1. Flags'
    BY <1>4, SpawnDoes DEF IInv, Flags, ConnectFails, Unlock, Release
  <2>2. Places'
    BY <1>4, SpawnDoes DEF IInv, Places, HolderInv, ConnectFails, Unlock, Release
  <2>3. HolderInv'
    BY <1>4, SpawnDoes DEF IInv, HolderInv, ConnectFails, Unlock, Release
  <2>4. LinkInv'
    BY <1>4, SpawnDoes DEF IInv, LinkInv, OneConnection, ConnectFails, Unlock, Release
  <2>5. ReconnectInv'
    BY <1>4, SpawnDoes DEF IInv, ReconnectInv, ReconnectsDead, Places, HolderInv, LoopInv,
       LoopsDead, ConnectFails, Unlock, Release
  <2>6. LoopInv'
    BY <1>4, SpawnDoes DEF IInv, LoopInv, LoopsDead, ConnectFails, Unlock, Release
  <2>7. HeartInv'
    BY <1>4, SpawnDoes DEF IInv, HeartInv, ConnectFails, Unlock, Release
  <2>8. ClosedInv'
    BY <1>4, SpawnDoes DEF IInv, ClosedInv, DisconnectIsFinal, ConnectFails, Unlock, Release
  <2> QED
    BY <2>1, <2>2, <2>3, <2>4, <2>5, <2>6, <2>7, <2>8 DEF IInv
<1>5. CASE DisconnectReturns
  <2>1. Flags'
    BY <1>5 DEF IInv, Flags, DisconnectReturns, Unlock, Release
  <2>2. Places'
    BY <1>5 DEF IInv, Places, HolderInv, DisconnectReturns, Unlock, Release
  <2>3. HolderInv'
    BY <1>5 DEF IInv, HolderInv, DisconnectReturns, Unlock, Release
  <2>4. LinkInv'
    BY <1>5 DEF IInv, LinkInv, OneConnection, DisconnectReturns, Unlock, Release
  <2>5. ReconnectInv'
    BY <1>5 DEF IInv, ReconnectInv, ReconnectsDead, DisconnectReturns, Unlock, Release
  <2>6. LoopInv'
    BY <1>5 DEF IInv, LoopInv, LoopsDead, DisconnectReturns, Unlock, Release
  <2>7. HeartInv'
    BY <1>5 DEF IInv, HeartInv, DisconnectReturns, Unlock, Release
  <2>8. ClosedInv'
    BY <1>5 DEF IInv, ClosedInv, DisconnectIsFinal, HolderInv, Places, LinkInv, OneConnection,
       Flags, ReconnectInv, ReconnectsDead, LoopInv, LoopsDead, HeartInv, DisconnectReturns,
       Unlock, Release
  <2> QED
    BY <2>1, <2>2, <2>3, <2>4, <2>5, <2>6, <2>7, <2>8 DEF IInv
<1>6. CASE BeatsStopped
  <2>1. Flags'
    BY <1>6 DEF IInv, Flags, BeatsStopped, StartReceiving, Connected, Unlock, Ends, Gone
  <2>2. Places'
    BY <1>6 DEF IInv, Places, HolderInv, BeatsStopped, StartReceiving, Connected, Unlock, Ends,
       Gone
  <2>3. HolderInv'
    BY <1>6 DEF IInv, HolderInv, BeatsStopped, StartReceiving, Connected, Unlock, Ends, Gone
  <2>4. LinkInv'
    BY <1>6 DEF IInv, LinkInv, OneConnection, BeatsStopped, StartReceiving, Connected, Unlock,
       Ends, Gone
  <2>5. ReconnectInv'
    BY <1>6 DEF IInv, ReconnectInv, ReconnectsDead, Places, HolderInv, LoopInv, LoopsDead,
       BeatsStopped, StartReceiving, Connected, Unlock, Ends, Gone
  <2>6. LoopInv'
    BY <1>6 DEF IInv, LoopInv, LoopsDead, Places, HolderInv, LinkInv, OneConnection,
       BeatsStopped, StartReceiving, Connected, Unlock, Ends, Gone
  <2>7. HeartInv'
    BY <1>6 DEF IInv, HeartInv, BeatsStopped, StartReceiving, Connected, Unlock, Ends, Gone
  <2>8. ClosedInv'
    BY <1>6 DEF IInv, ClosedInv, DisconnectIsFinal, HolderInv, Places, LinkInv, OneConnection,
       BeatsStopped, StartReceiving, Connected, Unlock, Ends, Gone
  <2> QED
    BY <2>1, <2>2, <2>3, <2>4, <2>5, <2>6, <2>7, <2>8 DEF IInv
<1>7. CASE LoopStopped
  <2>1. Flags'
    BY <1>7 DEF IInv, Flags, LoopStopped, Connected, Unlock, Ends, Gone
  <2>2. Places'
    BY <1>7 DEF IInv, Places, HolderInv, LoopStopped, Connected, Unlock, Ends, Gone
  <2>3. HolderInv'
    BY <1>7 DEF IInv, HolderInv, LoopStopped, Connected, Unlock, Ends, Gone
  <2>4. LinkInv'
    BY <1>7 DEF IInv, LinkInv, OneConnection, LoopStopped, Connected, Unlock, Ends, Gone
  <2>5. ReconnectInv'
    BY <1>7 DEF IInv, ReconnectInv, ReconnectsDead, Places, HolderInv, LoopInv, LoopsDead,
       LoopStopped, Connected, Unlock, Ends, Gone
  <2>6. LoopInv'
    BY <1>7 DEF IInv, LoopInv, LoopsDead, Places, HolderInv, LinkInv, OneConnection,
       LoopStopped, Connected, Unlock, Ends, Gone
  <2>7. HeartInv'
    BY <1>7 DEF IInv, HeartInv, LoopStopped, Connected, Unlock, Ends, Gone
  <2>8. ClosedInv'
    BY <1>7 DEF IInv, ClosedInv, DisconnectIsFinal, HolderInv, Places, LinkInv, OneConnection,
       LoopStopped, Connected, Unlock, Ends, Gone
  <2> QED
    BY <2>1, <2>2, <2>3, <2>4, <2>5, <2>6, <2>7, <2>8 DEF IInv
<1>8. CASE Drained
  <2>1. /\ Flags' /\ HolderInv' /\ LinkInv' /\ ReconnectInv' /\ LoopInv' /\ HeartInv'
        /\ ClosedInv'
    BY <1>8 DEF IInv, Flags, HolderInv, LinkInv, OneConnection, ReconnectInv, ReconnectsDead,
       LoopInv, LoopsDead, HeartInv, ClosedInv, DisconnectIsFinal, Drained
  <2>2. Places'
    BY <1>8 DEF IInv, Places, Drained
  <2> QED
    BY <2>1, <2>2 DEF IInv
<1>9. ASSUME NEW r \in Reconnects, StartReconnect(r)
      PROVE  IInv'
  <2>1. HolderInv' /\ LinkInv' /\ LoopInv' /\ HeartInv'
    BY <1>9 DEF IInv, HolderInv, LinkInv, OneConnection, LoopInv, LoopsDead, HeartInv,
       StartReconnect, Ends, Gone
  <2>2. Flags'
    BY <1>9 DEF IInv, Flags, StartReconnect, Ends, Gone
  <2>3. Places'
    BY <1>9 DEF IInv, Places, StartReconnect, Ends, Gone
  <2>4. ReconnectInv'
    BY <1>9 DEF IInv, ReconnectInv, ReconnectsDead, Places, HolderInv, LoopInv, LoopsDead,
       StartReconnect, Ends, Gone
  <2>5. ClosedInv'
    BY <1>9 DEF IInv, ClosedInv, DisconnectIsFinal, StartReconnect, Ends, Gone
  <2> QED
    BY <2>1, <2>2, <2>3, <2>4, <2>5 DEF IInv
<1>10. ASSUME NEW r \in Reconnects, Wake(r)
      PROVE  IInv'
  <2>1. HolderInv' /\ LinkInv' /\ LoopInv' /\ HeartInv'
    BY <1>10 DEF IInv, HolderInv, LinkInv, OneConnection, LoopInv, LoopsDead, HeartInv, Wake,
       Ends, Gone
  <2>2. Flags'
    BY <1>10 DEF IInv, Flags, Wake, Ends, Gone
  <2>3. Places'
    BY <1>10 DEF IInv, Places, Wake, Ends, Gone
  <2>4. ReconnectInv'
    BY <1>10 DEF IInv, ReconnectInv, ReconnectsDead, Places, HolderInv, LoopInv, LoopsDead,
       Wake, Ends, Gone
  <2>5. ClosedInv'
    BY <1>10 DEF IInv, ClosedInv, DisconnectIsFinal, Wake, Ends, Gone
  <2> QED
    BY <2>1, <2>2, <2>3, <2>4, <2>5 DEF IInv
<1>11. ASSUME NEW r \in Reconnects, ReconnectCancelled(r)
      PROVE  IInv'
  <2>1. Flags'
    BY <1>11 DEF IInv, Flags, ReconnectCancelled, Ends, Gone, Unlock
  <2>2. Places'
    BY <1>11 DEF IInv, Places, ReconnectCancelled, Ends, Gone, Unlock
  <2>3. HolderInv'
    BY <1>11 DEF IInv, HolderInv, ReconnectCancelled, Ends, Gone, Unlock
  <2>4. LinkInv'
    BY <1>11 DEF IInv, LinkInv, OneConnection, ReconnectCancelled, Ends, Gone, Unlock
  <2>5. ReconnectInv'
    BY <1>11 DEF IInv, ReconnectInv, ReconnectsDead, Places, HolderInv, LoopInv, LoopsDead,
       ReconnectCancelled, Ends, Gone, Unlock
  <2>6. LoopInv'
    BY <1>11 DEF IInv, LoopInv, LoopsDead, Places, HolderInv, LinkInv, OneConnection,
       ReconnectCancelled, Ends, Gone, Unlock
  <2>7. HeartInv'
    BY <1>11 DEF IInv, HeartInv, ReconnectCancelled, Ends, Gone, Unlock
  <2>8. ClosedInv'
    BY <1>11 DEF IInv, ClosedInv, DisconnectIsFinal, ReconnectCancelled, Ends, Gone, Unlock
  <2> QED
    BY <2>1, <2>2, <2>3, <2>4, <2>5, <2>6, <2>7, <2>8 DEF IInv
<1>12. ASSUME NEW r \in Reconnects, ReconnectLocks(r)
      PROVE  IInv'
  <2>1. Flags'
    BY <1>12 DEF IInv, Flags, ReconnectLocks, Ends, Gone
  <2>2. Places'
    BY <1>12 DEF IInv, Places, ReconnectLocks, Ends, Gone
  <2>3. HolderInv'
    BY <1>12 DEF IInv, HolderInv, Places, ReconnectLocks, Ends, Gone
  <2>4. LinkInv'
    BY <1>12 DEF IInv, LinkInv, OneConnection, ReconnectLocks, Ends, Gone
  <2>5. ReconnectInv'
    BY <1>12 DEF IInv, ReconnectInv, ReconnectsDead, Places, HolderInv, LoopInv, LoopsDead,
       ReconnectLocks, Ends, Gone
  <2>6. LoopInv'
    BY <1>12 DEF IInv, LoopInv, LoopsDead, ReconnectLocks, Ends, Gone
  <2>7. HeartInv'
    BY <1>12 DEF IInv, HeartInv, ReconnectLocks, Ends, Gone
  <2>8. ClosedInv'
    BY <1>12 DEF IInv, ClosedInv, DisconnectIsFinal, ReconnectLocks, Ends, Gone
  <2> QED
    BY <2>1, <2>2, <2>3, <2>4, <2>5, <2>6, <2>7, <2>8 DEF IInv
<1>13. CASE CallConnect
  <2>1. HolderInv' /\ LinkInv' /\ ReconnectInv' /\ LoopInv' /\ HeartInv'
    BY <1>13 DEF IInv, HolderInv, LinkInv, OneConnection, ReconnectInv, ReconnectsDead, LoopInv,
       LoopsDead, HeartInv, CallConnect, Spends
  <2>2. Flags'
    BY <1>13 DEF IInv, Flags, CallConnect, Spends
  <2>3. Places'
    BY <1>13 DEF IInv, Places, CallConnect, Spends
  <2>4. ClosedInv'
    BY <1>13 DEF IInv, ClosedInv, DisconnectIsFinal, CallConnect, Spends
  <2> QED
    BY <2>1, <2>2, <2>3, <2>4 DEF IInv
<1>14. CASE ConnectLocks
  <2>1. Flags'
    BY <1>14 DEF IInv, Flags, ConnectLocks, Gather
  <2>2. Places'
    BY <1>14 DEF IInv, Places, ConnectLocks, Gather
  <2>3. HolderInv'
    BY <1>14 DEF IInv, HolderInv, Places, ConnectLocks, Gather
  <2>4. LinkInv'
    BY <1>14 DEF IInv, LinkInv, OneConnection, ConnectLocks, Gather
  <2>5. ReconnectInv'
    BY <1>14 DEF IInv, ReconnectInv, ReconnectsDead, ConnectLocks, Gather
  <2>6. LoopInv'
    BY <1>14 DEF IInv, LoopInv, LoopsDead, Places, HolderInv, LinkInv, OneConnection,
       ConnectLocks, Gather
  <2>7. HeartInv'
    BY <1>14 DEF IInv, HeartInv, ConnectLocks, Gather
  <2>8. ClosedInv'
    BY <1>14 DEF IInv, ClosedInv, DisconnectIsFinal, ConnectLocks, Gather
  <2> QED
    BY <2>1, <2>2, <2>3, <2>4, <2>5, <2>6, <2>7, <2>8 DEF IInv
<1>15. CASE CancelConnect
  <2>1. Flags'
    BY <1>15 DEF IInv, Flags, CancelConnect, Gather, Spends
  <2>2. Places'
    BY <1>15 DEF IInv, Places, CancelConnect, Gather, Spends
  <2>3. HolderInv'
    BY <1>15 DEF IInv, HolderInv, Places, CancelConnect, Gather, Spends
  <2>4. LinkInv'
    BY <1>15 DEF IInv, LinkInv, OneConnection, CancelConnect, Gather, Spends
  <2>5. ReconnectInv'
    BY <1>15 DEF IInv, ReconnectInv, ReconnectsDead, CancelConnect, Gather, Spends
  <2>6. LoopInv'
    BY <1>15 DEF IInv, LoopInv, LoopsDead, Places, HolderInv, LinkInv, OneConnection,
       CancelConnect, Gather, Spends
  <2>7. HeartInv'
    BY <1>15 DEF IInv, HeartInv, CancelConnect, Gather, Spends
  <2>8. ClosedInv'
    BY <1>15 DEF IInv, ClosedInv, DisconnectIsFinal, CancelConnect, Gather, Spends
  <2> QED
    BY <2>1, <2>2, <2>3, <2>4, <2>5, <2>6, <2>7, <2>8 DEF IInv
<1>16. CASE CallDisconnect
  <2>1. LinkInv' /\ ReconnectInv' /\ HeartInv'
    BY <1>16 DEF IInv, LinkInv, OneConnection, ReconnectInv, ReconnectsDead, HeartInv,
       CallDisconnect, Spends
  <2>2. Flags'
    BY <1>16 DEF IInv, Flags, CallDisconnect, Spends
  <2>3. Places'
    BY <1>16 DEF IInv, Places, CallDisconnect, Spends
  <2>4. HolderInv'
    BY <1>16 DEF IInv, HolderInv, CallDisconnect, Spends
  <2>5. LoopInv'
    BY <1>16 DEF IInv, LoopInv, LoopsDead, CallDisconnect, Spends
  <2>6. ClosedInv'
    BY <1>16 DEF IInv, ClosedInv, DisconnectIsFinal, CallDisconnect, Spends
  <2> QED
    BY <2>1, <2>2, <2>3, <2>4, <2>5, <2>6 DEF IInv
<1>17. CASE DisconnectLocks
  <2>1. Flags'
    BY <1>17 DEF IInv, Flags, DisconnectLocks, Gather
  <2>2. Places'
    BY <1>17 DEF IInv, Places, DisconnectLocks, Gather
  <2>3. HolderInv'
    BY <1>17 DEF IInv, HolderInv, DisconnectLocks, Gather
  <2>4. LinkInv'
    BY <1>17 DEF IInv, LinkInv, OneConnection, DisconnectLocks, Gather
  <2>5. ReconnectInv'
    BY <1>17 DEF IInv, ReconnectInv, ReconnectsDead, DisconnectLocks, Gather
  <2>6. LoopInv'
    BY <1>17 DEF IInv, LoopInv, LoopsDead, Places, HolderInv, LinkInv, OneConnection,
       DisconnectLocks, Gather
  <2>7. HeartInv'
    BY <1>17 DEF IInv, HeartInv, DisconnectLocks, Gather
  <2>8. ClosedInv'
    BY <1>17 DEF IInv, ClosedInv, DisconnectIsFinal, DisconnectLocks, Gather
  <2> QED
    BY <2>1, <2>2, <2>3, <2>4, <2>5, <2>6, <2>7, <2>8 DEF IInv
<1>18. CASE Register
  <2>1. Flags' /\ ClosedInv'
    BY <1>18 DEF IInv, Flags, ClosedInv, DisconnectIsFinal, Register
  <2>2. Places'
    BY <1>18 DEF IInv, Places, Register
  <2>3. HolderInv'
    BY <1>18 DEF IInv, HolderInv, Register
  <2>4. LinkInv'
    BY <1>18 DEF IInv, LinkInv, OneConnection, Register
  <2>5. ReconnectInv'
    BY <1>18 DEF IInv, ReconnectInv, ReconnectsDead, Register
  <2>6. LoopInv'
    BY <1>18 DEF IInv, LoopInv, LoopsDead, Register
  <2>7. HeartInv'
    BY <1>18 DEF IInv, HeartInv, Register
  <2> QED
    BY <2>1, <2>2, <2>3, <2>4, <2>5, <2>6, <2>7 DEF IInv
<1>19. CASE RegisterConflict
  <2>1. Flags'
    BY <1>19 DEF IInv, Flags, RegisterConflict, Gather, Unlock, Ends, Gone
  <2>2. Places'
    BY <1>19 DEF IInv, Places, HolderInv, RegisterConflict, Gather, Unlock, Ends, Gone
  <2>3. HolderInv'
    BY <1>19 DEF IInv, HolderInv, RegisterConflict, Gather, Unlock, Ends, Gone
  <2>4. LinkInv'
    BY <1>19 DEF IInv, LinkInv, OneConnection, RegisterConflict, Gather, Unlock, Ends, Gone
  <2>5. ReconnectInv'
    BY <1>19 DEF IInv, ReconnectInv, ReconnectsDead, Places, HolderInv, LoopInv, LoopsDead,
       RegisterConflict, Gather, Unlock, Ends, Gone
  <2>6. LoopInv'
    BY <1>19 DEF IInv, LoopInv, LoopsDead, Places, HolderInv, LinkInv, OneConnection,
       RegisterConflict, Gather, Unlock, Ends, Gone
  <2>7. HeartInv'
    BY <1>19 DEF IInv, HeartInv, RegisterConflict, Gather, Unlock, Ends, Gone
  <2>8. ClosedInv'
    BY <1>19 DEF IInv, ClosedInv, DisconnectIsFinal, HolderInv, Places, LinkInv, OneConnection,
       RegisterConflict, Gather, Unlock, Ends, Gone
  <2> QED
    BY <2>1, <2>2, <2>3, <2>4, <2>5, <2>6, <2>7, <2>8 DEF IInv
<1>20. CASE Open
  <2>1. Flags'
    BY <1>20 DEF IInv, Flags, Open, Free
  <2>2. Places'
    BY <1>20 DEF IInv, Places, Open, Free
  <2>3. HolderInv'
    BY <1>20 DEF IInv, HolderInv, Open, Free
  <2>4. LinkInv'
    BY <1>20 DEF IInv, LinkInv, OneConnection, Places, Open, Free
  <2>5. ReconnectInv'
    BY <1>20 DEF IInv, ReconnectInv, ReconnectsDead, Open, Free
  <2>6. LoopInv'
    BY <1>20 DEF IInv, LoopInv, LoopsDead, Open, Free
  <2>7. HeartInv'
    BY <1>20 DEF IInv, HeartInv, Open, Free
  <2>8. ClosedInv'
    BY <1>20 DEF IInv, ClosedInv, DisconnectIsFinal, HolderInv, Places, LinkInv, OneConnection,
       Open, Free
  <2> QED
    BY <2>1, <2>2, <2>3, <2>4, <2>5, <2>6, <2>7, <2>8 DEF IInv
<1>21. CASE AttemptFails
  <2>a. lock # "connect" => /\ lock \in Reconnects /\ rtask = lock
                            /\ step \notin Cleanup
    BY <1>21 DEF AttemptFails, IInv, Places, HolderInv, ReconnectInv
  <2>0. \/ lock = "connect" /\ Gather("retry") /\ UNCHANGED <<lock, rtask, rpc, busy>>
        \/ /\ lock # "connect" /\ Unlock /\ busy' = FALSE /\ UNCHANGED <<heart, others>>
           /\ cancelled' = cancelled \ {lock}
           /\ \/ rtask' = None /\ rpc' = [rpc EXCEPT ![lock] = "dead"]
              \/ \E r \in Reconnects \ {disc, owned.r} :
                    rtask' = r /\ rpc' = [rpc EXCEPT ![lock] = "dead", ![r] = "new"]
    <3>1. CASE lock = "connect"
      BY <1>21, <3>1 DEF AttemptFails, Fail
    <3>2. CASE lock # "connect"
      <4>1. /\ Unlock /\ busy' = FALSE /\ UNCHANGED <<heart, others>>
            /\ cancelled' = cancelled \ {lock} /\ Spawn([rpc EXCEPT ![lock] = "dead"], None)
        BY <1>21, <2>a, <3>2 DEF AttemptFails, Fail, Retry, Gone
      <4> QED
        BY <3>2, <4>1, SpawnDoes
    <3> QED
      BY <3>1, <3>2
  <2>1. Flags'
    BY <1>21, <2>a, <2>0 DEF IInv, Flags, AttemptFails, Gather, Unlock
  <2>2. Places'
    BY <1>21, <2>a, <2>0 DEF IInv, Places, AttemptFails, Gather, Unlock
  <2>3. HolderInv'
    BY <1>21, <2>a, <2>0 DEF IInv, HolderInv, AttemptFails, Gather, Unlock
  <2>4. LinkInv'
    BY <1>21, <2>a, <2>0 DEF IInv, LinkInv, OneConnection, AttemptFails, Gather, Unlock
  <2>5. ReconnectInv'
    BY <1>21, <2>a, <2>0 DEF IInv, ReconnectInv, ReconnectsDead, Places, HolderInv, LoopInv,
       LoopsDead, AttemptFails, Gather, Unlock
  <2>6. LoopInv'
    BY <1>21, <2>a, <2>0 DEF IInv, LoopInv, LoopsDead, Places, HolderInv, LinkInv,
       OneConnection, AttemptFails, Gather, Unlock
  <2>7. HeartInv'
    BY <1>21, <2>a, <2>0 DEF IInv, HeartInv, AttemptFails, Gather, Unlock
  <2>8. ClosedInv'
    BY <1>21, <2>a, <2>0 DEF IInv, ClosedInv, DisconnectIsFinal, HolderInv, Places, LinkInv,
       OneConnection, AttemptFails, Gather, Unlock
  <2> QED
    BY <2>1, <2>2, <2>3, <2>4, <2>5, <2>6, <2>7, <2>8 DEF IInv
<1>22. CASE Handshake
  <2>1. Flags'
    BY <1>22 DEF IInv, Flags, Handshake, StartReceiving, Connected, Unlock, Ends, Gone
  <2>2. Places'
    BY <1>22 DEF IInv, Places, HolderInv, Handshake, StartReceiving, Connected, Unlock, Ends,
       Gone
  <2>3. HolderInv'
    BY <1>22 DEF IInv, HolderInv, Handshake, StartReceiving, Connected, Unlock, Ends, Gone
  <2>4. LinkInv'
    BY <1>22 DEF IInv, LinkInv, OneConnection, Handshake, StartReceiving, Connected, Unlock,
       Ends, Gone
  <2>5. ReconnectInv'
    BY <1>22 DEF IInv, ReconnectInv, ReconnectsDead, Places, HolderInv, LoopInv, LoopsDead,
       Handshake, StartReceiving, Connected, Unlock, Ends, Gone
  <2>6. LoopInv'
    BY <1>22 DEF IInv, LoopInv, LoopsDead, Places, HolderInv, LinkInv, OneConnection, Handshake,
       StartReceiving, Connected, Unlock, Ends, Gone
  <2>7. HeartInv'
    BY <1>22 DEF IInv, HeartInv, Handshake, StartReceiving, Connected, Unlock, Ends, Gone
  <2>8. ClosedInv'
    BY <1>22 DEF IInv, ClosedInv, DisconnectIsFinal, Handshake, StartReceiving, Connected,
       Unlock, Ends, Gone
  <2> QED
    BY <2>1, <2>2, <2>3, <2>4, <2>5, <2>6, <2>7, <2>8 DEF IInv
<1>23. ASSUME NEW l \in Loops, LoopReads(l)
      PROVE  IInv'
  <2>1. Flags' /\ ReconnectInv' /\ HeartInv'
    BY <1>23 DEF IInv, Flags, ReconnectInv, ReconnectsDead, HeartInv, LoopReads
  <2>2. Places'
    BY <1>23 DEF IInv, Places, LoopReads
  <2>3. HolderInv'
    BY <1>23 DEF IInv, HolderInv, LoopReads
  <2>4. LinkInv'
    BY <1>23 DEF IInv, LinkInv, OneConnection, LoopReads
  <2>5. LoopInv'
    BY <1>23 DEF IInv, LoopInv, LoopsDead, LoopReads
  <2>6. ClosedInv'
    BY <1>23 DEF IInv, ClosedInv, DisconnectIsFinal, LoopReads
  <2> QED
    BY <2>1, <2>2, <2>3, <2>4, <2>5, <2>6 DEF IInv
<1>24. ASSUME NEW l \in Loops, LoopEnds(l)
      PROVE  IInv'
  <2>0. \/ UNCHANGED <<rtask, rpc>>
        \/ /\ need /\ (rtask = None \/ rpc[rtask] = "dead") /\ l = ltask
           /\ \E r \in Reconnects \ {disc, owned.r} :
                 rtask' = r /\ rpc' = [rpc EXCEPT ![r] = "new"]
    BY <1>24, SpawnDoes DEF LoopEnds, Leave
  <2>1. HeartInv'
    BY <1>24 DEF IInv, HeartInv, LoopEnds, Leave
  <2>2. Flags'
    BY <1>24, <2>0 DEF IInv, Flags, LoopEnds, Leave
  <2>3. Places'
    <3>1. loops' = [loops EXCEPT ![l] = [pc |-> "dead", on |-> None]] /\ cancelled' \subseteq cancelled
      BY <1>24 DEF LoopEnds, Leave
    <3>2. loops' \in [Loops -> [pc : {"dead", "top", "recv", "handle"},
                                on : Sockets \union {None}]]
      BY <3>1 DEF IInv, Places
    <3>3. /\ rtask' \in Reconnects \union {None}
          /\ rpc' \in [Reconnects -> {"dead", "new", "sleep", "lock", "in"}]
          /\ \A r \in Reconnects : rpc'[r] = "in" <=> lock = r
      <4>1. CASE UNCHANGED <<rtask, rpc>>
        BY <4>1 DEF IInv, Places
      <4>2. CASE \E r \in Reconnects \ {disc, owned.r} :
                    rtask' = r /\ rpc' = [rpc EXCEPT ![r] = "new"]
        BY <2>0, <4>2 DEF IInv, Places, ReconnectInv
      <4> QED
        BY <2>0, <4>1, <4>2
    <3> QED
      BY <1>24, <3>1, <3>2, <3>3 DEF IInv, Places, LoopEnds
  <2>4. HolderInv'
    BY <1>24, <2>0 DEF IInv, HolderInv, LoopEnds, Leave
  <2>5. LinkInv'
    BY <1>24, <2>0 DEF IInv, LinkInv, OneConnection, LoopEnds, Leave
  <2>6. ReconnectInv'
    BY <1>24, <2>0 DEF IInv, ReconnectInv, ReconnectsDead, Places, HolderInv, LoopInv,
       LoopsDead, LoopEnds, Leave
  <2>7. LoopInv'
    BY <1>24, <2>0 DEF IInv, LoopInv, LoopsDead, LoopEnds, Leave
  <2>8. ClosedInv'
    BY <1>24, <2>0 DEF IInv, ClosedInv, DisconnectIsFinal, LoopEnds, Leave
  <2> QED
    BY <2>1, <2>2, <2>3, <2>4, <2>5, <2>6, <2>7, <2>8 DEF IInv
<1>25. ASSUME NEW l \in Loops, LoopGets(l)
      PROVE  IInv'
  <2>1. Flags' /\ ReconnectInv' /\ HeartInv'
    BY <1>25 DEF IInv, Flags, ReconnectInv, ReconnectsDead, HeartInv, LoopGets
  <2>2. Places'
    BY <1>25 DEF IInv, Places, LoopGets
  <2>3. HolderInv'
    BY <1>25 DEF IInv, HolderInv, LoopGets
  <2>4. LinkInv'
    BY <1>25 DEF IInv, LinkInv, OneConnection, LoopGets
  <2>5. LoopInv'
    BY <1>25 DEF IInv, LoopInv, LoopsDead, LoopGets
  <2>6. ClosedInv'
    BY <1>25 DEF IInv, ClosedInv, DisconnectIsFinal, LoopGets
  <2> QED
    BY <2>1, <2>2, <2>3, <2>4, <2>5, <2>6 DEF IInv
<1>26. ASSUME NEW l \in Loops, LoopHandles(l)
      PROVE  IInv'
  <2>1. Flags' /\ ReconnectInv' /\ HeartInv'
    BY <1>26 DEF IInv, Flags, ReconnectInv, ReconnectsDead, HeartInv, LoopHandles
  <2>2. Places'
    BY <1>26 DEF IInv, Places, LoopHandles
  <2>3. HolderInv'
    BY <1>26 DEF IInv, HolderInv, LoopHandles
  <2>4. LinkInv'
    BY <1>26 DEF IInv, LinkInv, OneConnection, LoopHandles
  <2>5. LoopInv'
    BY <1>26 DEF IInv, LoopInv, LoopsDead, LoopHandles
  <2>6. ClosedInv'
    BY <1>26 DEF IInv, ClosedInv, DisconnectIsFinal, LoopHandles
  <2> QED
    BY <2>1, <2>2, <2>3, <2>4, <2>5, <2>6 DEF IInv
<1>27. ASSUME NEW l \in Loops, Kicked(l)
      PROVE  IInv'
  <2>1. ReconnectInv' /\ HeartInv'
    BY <1>27 DEF IInv, ReconnectInv, ReconnectsDead, HeartInv, Kicked
  <2>2. Flags'
    BY <1>27 DEF IInv, Flags, Kicked
  <2>3. Places'
    BY <1>27 DEF IInv, Places, Kicked
  <2>4. HolderInv'
    BY <1>27 DEF IInv, HolderInv, Kicked
  <2>5. LinkInv'
    BY <1>27 DEF IInv, LinkInv, OneConnection, Kicked
  <2>6. LoopInv'
    BY <1>27 DEF IInv, LoopInv, LoopsDead, Kicked
  <2>7. ClosedInv'
    BY <1>27 DEF IInv, ClosedInv, DisconnectIsFinal, Kicked
  <2> QED
    BY <2>1, <2>2, <2>3, <2>4, <2>5, <2>6, <2>7 DEF IInv
<1>28. CASE PingTimeout
  <2>1. ReconnectInv'
    BY <1>28 DEF IInv, ReconnectInv, ReconnectsDead, PingTimeout
  <2>2. Flags'
    BY <1>28 DEF IInv, Flags, PingTimeout
  <2>3. Places'
    BY <1>28 DEF IInv, Places, PingTimeout
  <2>4. HolderInv'
    BY <1>28 DEF IInv, HolderInv, PingTimeout
  <2>5. LinkInv'
    BY <1>28 DEF IInv, LinkInv, OneConnection, PingTimeout
  <2>6. LoopInv'
    BY <1>28 DEF IInv, LoopInv, LoopsDead, PingTimeout
  <2>7. HeartInv'
    BY <1>28 DEF IInv, HeartInv, PingTimeout
  <2>8. ClosedInv'
    BY <1>28 DEF IInv, ClosedInv, DisconnectIsFinal, PingTimeout
  <2> QED
    BY <2>1, <2>2, <2>3, <2>4, <2>5, <2>6, <2>7, <2>8 DEF IInv
<1>29. CASE HeartStops
  <2>1. Flags' /\ HolderInv' /\ LinkInv' /\ ReconnectInv' /\ LoopInv'
    BY <1>29 DEF IInv, Flags, HolderInv, LinkInv, OneConnection, ReconnectInv, ReconnectsDead,
       LoopInv, LoopsDead, HeartStops
  <2>2. Places'
    BY <1>29 DEF IInv, Places, HeartStops
  <2>3. HeartInv'
    BY <1>29 DEF IInv, HeartInv, HeartStops
  <2>4. ClosedInv'
    BY <1>29 DEF IInv, ClosedInv, DisconnectIsFinal, HeartStops
  <2> QED
    BY <2>1, <2>2, <2>3, <2>4 DEF IInv
<1>30. CASE Lost
  <2>1. Flags' /\ HolderInv' /\ ReconnectInv' /\ HeartInv'
    BY <1>30 DEF IInv, Flags, HolderInv, ReconnectInv, ReconnectsDead, HeartInv, Lost
  <2>2. Places'
    BY <1>30 DEF IInv, Places, Lost
  <2>3. LinkInv'
    BY <1>30 DEF IInv, LinkInv, OneConnection, Lost
  <2>4. LoopInv'
    BY <1>30 DEF IInv, LoopInv, LoopsDead, Lost
  <2>5. ClosedInv'
    BY <1>30 DEF IInv, ClosedInv, DisconnectIsFinal, Lost
  <2> QED
    BY <2>1, <2>2, <2>3, <2>4, <2>5 DEF IInv
<1>31. CASE UNCHANGED vars
  BY <1>31 DEF IInv, Flags, Places, HolderInv, LinkInv, OneConnection, ReconnectInv,
     ReconnectsDead, LoopInv, LoopsDead, HeartInv, ClosedInv, DisconnectIsFinal, vars
<1> QED
  BY <1>1, <1>2, <1>3, <1>4, <1>5, <1>6, <1>7, <1>8, <1>9, <1>10, <1>11, <1>12, <1>13, <1>14,
     <1>15, <1>16, <1>17, <1>18, <1>19, <1>20, <1>21, <1>22, <1>23, <1>24, <1>25, <1>26, <1>27,
     <1>28, <1>29, <1>30, <1>31 DEF Next, Hold, Runs

-----------------------------------------------------------------------------
(* The theorems.                                                           *)

\* Every reachable state satisfies the invariant: who holds _lifecycle_lock, who
\* waits for which task, and which tasks and websockets there can be.
THEOREM InvariantHolds == Spec => []IInv
BY InitInvariant, StepInvariant, PTL DEF Spec

\* The fields have their types, and whoever is inside connect(), disconnect() or
\* a reconnect's critical section is the one that holds _lifecycle_lock.
THEOREM TypeCorrect == Spec => []TypeOK
<1>1. IInv => TypeOK
  BY DEF IInv, TypeOK
<1> QED
  BY <1>1, InvariantHolds, PTL

\* At most one websocket is open and at most one reconnect task runs, whatever
\* interleaving of connects, reconnects, cancellations, failures and old loops:
\* the server never has to end one connection of a runtime for another.
THEOREM NoConnectionKicksAnother == Spec => []NoSelfKick
<1>1. IInv => NoSelfKick
  BY DEF IInv, LinkInv, ReconnectInv, NoSelfKick, OneReconnect
<1> QED
  BY <1>1, InvariantHolds, PTL

\* Once disconnect() has returned and nobody has connected since, no task, no
\* websocket and no session of the runtime is left.
THEOREM NothingSurvivesDisconnect == Spec => []DisconnectIsFinal
<1>1. IInv => DisconnectIsFinal
  BY DEF IInv, ClosedInv
<1> QED
  BY <1>1, InvariantHolds, PTL
=============================================================================
