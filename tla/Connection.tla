----------------------------- MODULE Connection -----------------------------
(***************************************************************************)
(* The connection of one bot: IdentityRuntime's connect, disconnect and    *)
(* reconnect, its receive loop and its heartbeat (adapter.py).             *)
(*                                                                         *)
(* connect() and disconnect() of the gateway and the reconnect task share  *)
(* _lifecycle_lock; whoever holds it registers, opens a websocket, shakes  *)
(* hands and starts the loops, or takes everything down.  All of them are  *)
(* tasks of one event loop: a step here is what runs between two awaits,   *)
(* and a cancellation is a request that its task meets at its next await.  *)
(*                                                                         *)
(* Both heartbeat loops are one task here, and so are the poller, the menu *)
(* loop, the prefetch and the cache cleanup ("others").  _disconnecting is *)
(* left out: it is the negation of _need_reconnect where it is read.  A    *)
(* cancelled disconnect() goes on behind its shields, so that cancelling   *)
(* it changes nothing.                                                     *)
(***************************************************************************)
EXTENDS Integers, FiniteSets

CONSTANTS
    Reconnects,     \* reconnect tasks
    Loops,          \* receive tasks
    Sockets,        \* websockets
    None,           \* no task, no socket
    MaxConnects,    \* bound: calls of connect()
    MaxDisconnects, \* bound: calls of disconnect()
    MaxCancels      \* bound: cancelled calls of connect()

ASSUME ConnectionAssumption ==
    /\ None \notin Reconnects \union Loops \union Sockets
    /\ Reconnects \intersect {"free", "connect", "disconnect", "idle", "lock", "in"} = {}
    /\ {MaxConnects, MaxDisconnects, MaxCancels} \subseteq Nat

VARIABLES
    need,       \* _need_reconnect
    connected,  \* _connected
    http,       \* _http_session is open
    ws,         \* _ws
    open,       \* the websockets that are open
    lock,       \* who holds _lifecycle_lock
    step,       \* where the holder is
    after,      \* what follows the holder's cleanup
    owned,      \* the tasks that the holder waits for
    rtask,      \* _reconnect_task
    rpc,        \* where each reconnect task is
    busy,       \* _reconnect_in_progress
    ltask,      \* _recv_task
    loops,      \* where each receive task is, and the socket it reads
    cancelled,  \* tasks with a cancellation they have not met
    heart,      \* the heartbeat tasks: off, on, stopping
    others,     \* the other tasks of a connected runtime are there
    conn, disc, \* where the callers of connect() and disconnect() are
    closed,     \* history: disconnect() has returned and no connect() since
    wanted,     \* history: connected once, not disconnected, refused or given up
    spent       \* calls and cancellations so far

link  == <<connected, http, ws, open>>
tasks == <<rtask, rpc, busy, ltask, loops, cancelled, heart, others>>
calls == <<conn, disc, closed, wanted, spent>>
vars  == <<need, link, lock, step, after, owned, tasks, calls>>

-----------------------------------------------------------------------------
Holders == {"connect", "disconnect"} \union Reconnects
Steps == {"idle", "close", "register", "open", "handshake", "beats", "loops",
          "gather", "finish"}
Loop(pc, s) == [pc |-> pc, on |-> s]
Over == Loop("dead", None)

Alive(l) == l # None /\ loops[l].pc # "dead"
Pending(r) == r # None /\ rpc[r] # "dead"

Flags == {need, connected, http, busy, others, closed, wanted} \subseteq BOOLEAN

\* Where everybody is; the lock is held by whoever is inside, and by nobody else.
Places ==
    /\ ws \in Sockets \union {None} /\ open \subseteq Sockets
    /\ lock \in Holders \union {"free"} /\ step \in Steps
    /\ (lock = "free") = (step = "idle")
    /\ after \in {"none", "begin", "retry", "raise", "close"}
    /\ owned \in [r : Reconnects \union {None}, l : Loops \union {None}]
    /\ rtask \in Reconnects \union {None} /\ ltask \in Loops \union {None}
    /\ rpc \in [Reconnects -> {"dead", "new", "sleep", "lock", "in"}]
    /\ loops \in [Loops -> [pc : {"dead", "top", "recv", "handle"},
                            on : Sockets \union {None}]]
    /\ cancelled \subseteq Reconnects \union Loops
    /\ heart \in {"off", "on", "stopping"}
    /\ conn \in {"idle", "lock", "in"} /\ disc \in {"idle", "lock", "in"} \union Reconnects
    /\ \A r \in Reconnects : rpc[r] = "in" <=> lock = r
    /\ conn = "in" <=> lock = "connect"
    /\ disc = "in" <=> lock = "disconnect"

TypeOK == Flags /\ Places

Nobody == [r |-> None, l |-> None]

Init ==
    /\ need = TRUE /\ connected = FALSE /\ http = FALSE
    /\ ws = None /\ open = {}
    /\ lock = "free" /\ step = "idle" /\ after = "none" /\ owned = Nobody
    /\ rtask = None /\ rpc = [r \in Reconnects |-> "dead"] /\ busy = FALSE
    /\ ltask = None /\ loops = [l \in Loops |-> Over]
    /\ cancelled = {} /\ heart = "off" /\ others = FALSE
    /\ conn = "idle" /\ disc = "idle"
    /\ closed = FALSE /\ wanted = FALSE
    /\ spent = [connects |-> 0, disconnects |-> 0, cancels |-> 0]

Spends(b, max) == spent[b] < max /\ spent' = [spent EXCEPT ![b] = @ + 1]

Unlock == lock' = "free" /\ step' = "idle" /\ after' = "none" /\ owned' = Nobody

-----------------------------------------------------------------------------
(* Reconnect tasks.                                                        *)

\* A new task is none that somebody still waits for.
Idle(p) == {r \in Reconnects : p[r] = "dead" /\ r \notin {disc, owned.r}}

SpawnAlways(p, t) ==  \* mutant: no look at the task that is there
    LET idle == Idle(p)
    IN  IF need /\ idle # {}
        THEN LET r == CHOOSE x \in idle : TRUE
             IN  rtask' = r /\ rpc' = [p EXCEPT ![r] = "new"]
        ELSE rtask' = t /\ rpc' = p

\* _spawn_reconnect_task, when p and t are rpc and _reconnect_task: a task that
\* is not done is kept.
Spawn(p, t) ==
    LET idle == Idle(p)
    IN  IF need /\ (t = None \/ p[t] = "dead") /\ idle # {}
        THEN LET r == CHOOSE x \in idle : TRUE
             IN  rtask' = r /\ rpc' = [p EXCEPT ![r] = "new"]
        ELSE rtask' = t /\ rpc' = p

Gone(r) == IF rtask = r THEN None ELSE rtask

\* The task ends, its done callback forgets it.
Ends(r) ==
    /\ rpc' = [rpc EXCEPT ![r] = "dead"]
    /\ rtask' = Gone(r)
    /\ cancelled' = cancelled \ {r}

StartReconnect(r) ==
    /\ rpc[r] = "new" /\ r \notin cancelled
    /\ IF busy \/ ~need
       THEN Ends(r) /\ UNCHANGED busy
       ELSE busy' = TRUE /\ rpc' = [rpc EXCEPT ![r] = "sleep"]
            /\ UNCHANGED <<rtask, cancelled>>
    /\ UNCHANGED <<need, link, lock, step, after, owned, ltask, loops, heart, others, calls>>

\* The delay is over.
Wake(r) ==
    /\ rpc[r] = "sleep" /\ r \notin cancelled
    /\ IF need
       THEN rpc' = [rpc EXCEPT ![r] = "lock"] /\ UNCHANGED <<rtask, cancelled, busy>>
       ELSE Ends(r) /\ busy' = FALSE
    /\ UNCHANGED <<need, link, lock, step, after, owned, ltask, loops, heart, others, calls>>

ReconnectLocksOnly(r) ==  \* mutant: the old websocket is forgotten, not closed
    /\ rpc[r] = "lock" /\ r \notin cancelled /\ lock = "free" /\ need
    /\ lock' = r /\ rpc' = [rpc EXCEPT ![r] = "in"]
    /\ step' = "register" /\ http' = TRUE
    /\ UNCHANGED <<need, connected, ws, open, after, owned, rtask, busy, ltask, loops,
                   cancelled, heart, others, calls>>

\* The reconnect task has the lock: an old websocket is closed first.
ReconnectLocks(r) ==
    /\ rpc[r] = "lock" /\ r \notin cancelled /\ lock = "free"
    /\ IF need
       THEN /\ lock' = r /\ rpc' = [rpc EXCEPT ![r] = "in"]
            /\ step' = IF ws = None THEN "register" ELSE "close"
            /\ http' = (http \/ ws = None)
            /\ UNCHANGED <<rtask, cancelled, busy>>
       ELSE Ends(r) /\ busy' = FALSE /\ UNCHANGED <<lock, step, http>>
    /\ UNCHANGED <<need, connected, ws, open, after, owned, ltask, loops, heart, others, calls>>

ReconnectCloses ==
    /\ step = "close" /\ lock \notin cancelled
    /\ open' = open \ {ws} /\ ws' = None /\ http' = TRUE
    /\ step' = "register"
    /\ UNCHANGED <<need, connected, lock, after, owned, tasks, calls>>

\* A cancelled task leaves at its next await, with the lock if it has it, unless
\* it waits for the loops of the previous connection: there the cancellation is
\* taken for theirs.
ReconnectCancelled(r) ==
    /\ r \in cancelled /\ rpc[r] # "dead"
    /\ IF lock = r /\ step \in {"beats", "loops"}
       THEN /\ cancelled' = cancelled \ {r}
            /\ UNCHANGED <<rpc, rtask, busy, lock, step, after, owned>>
       ELSE /\ Ends(r)
            /\ busy' = (busy /\ rpc[r] = "new")
            /\ IF lock = r THEN Unlock ELSE UNCHANGED <<lock, step, after, owned>>
    /\ UNCHANGED <<need, link, ltask, loops, heart, others, calls>>

-----------------------------------------------------------------------------
(* Taking everything down: _finalize_disconnect_resources.                 *)

GatherLate(then) ==  \* mutant: the receive task is not cancelled
    /\ step' = "gather" /\ after' = then
    /\ owned' = [r |-> rtask, l |-> ltask]
    /\ cancelled' = cancelled \union {r \in {rtask} : Pending(r)}
    /\ heart' = IF heart = "on" THEN "stopping" ELSE heart
    /\ others' = FALSE

\* Every task the runtime knows of is cancelled, and awaited.
Gather(then) ==
    /\ step' = "gather" /\ after' = then
    /\ owned' = [r |-> rtask, l |-> ltask]
    /\ cancelled' = cancelled \union {r \in {rtask} : Pending(r)}
                              \union {l \in {ltask} : Alive(l)}
    /\ heart' = IF heart = "on" THEN "stopping" ELSE heart
    /\ others' = FALSE

GatheredSoon ==  \* mutant: the receive task is cancelled and not awaited
    /\ step = "gather"
    /\ ~Pending(owned.r) /\ heart = "off"
    /\ rtask' = None /\ ltask' = None
    /\ step' = "finish" /\ owned' = Nobody
    /\ UNCHANGED <<need, link, lock, after, rpc, busy, loops, cancelled, heart, others, calls>>

Gathered ==
    /\ step = "gather"
    /\ ~Pending(owned.r) /\ ~Alive(owned.l) /\ heart = "off"
    /\ rtask' = None /\ ltask' = None
    /\ step' = "finish" /\ owned' = Nobody
    /\ UNCHANGED <<need, link, lock, after, rpc, busy, loops, cancelled, heart, others, calls>>

Release == http' = FALSE /\ ws' = None /\ open' = open \ {ws}

-----------------------------------------------------------------------------
(* connect() and disconnect().                                             *)

CallConnect ==
    /\ conn = "idle" /\ Spends("connects", MaxConnects)
    /\ conn' = "lock" /\ closed' = FALSE
    /\ UNCHANGED <<need, link, lock, step, after, owned, tasks, disc, wanted>>

\* _connect_locked begins: what an earlier connection left is taken down first.
ConnectLocks ==
    /\ conn = "lock" /\ lock = "free"
    /\ conn' = "in" /\ lock' = "connect"
    /\ IF http \/ ws # None
       THEN /\ need' = FALSE /\ connected' = FALSE
            /\ Gather("begin")
            /\ UNCHANGED <<http, wanted>>
       ELSE /\ need' = TRUE /\ http' = TRUE /\ wanted' = (disc = "idle")
            /\ step' = "register"
            /\ UNCHANGED <<connected, after, owned, cancelled, heart, others>>
    /\ UNCHANGED <<ws, open, rtask, rpc, busy, ltask, loops, disc, closed, spent>>

ConnectBegins ==
    /\ step = "finish" /\ after = "begin"
    /\ ws' = None /\ open' = open \ {ws} /\ http' = TRUE
    /\ wanted' = (disc = "idle")
    /\ need' = TRUE /\ step' = "register" /\ after' = "none"
    /\ UNCHANGED <<connected, lock, owned, tasks, conn, disc, closed, spent>>

\* Cleaned up after a failure; unless somebody disconnects, the runtime retries.
ConnectFails ==
    /\ step = "finish" /\ after \in {"retry", "raise"}
    /\ Release
    /\ IF after = "retry" THEN Spawn(rpc, rtask) ELSE UNCHANGED <<rtask, rpc>>
    /\ conn' = "idle" /\ Unlock
    /\ UNCHANGED <<need, connected, busy, ltask, loops, cancelled, heart, others,
                   disc, closed, wanted, spent>>

\* The caller of connect() gives up.  Cleanups are shielded.
CancelConnect ==
    /\ conn # "idle" /\ Spends("cancels", MaxCancels)
    /\ \/ /\ conn = "lock" /\ conn' = "idle"
          /\ UNCHANGED <<step, after, owned, cancelled, heart, others, wanted>>
       \/ /\ conn = "in" /\ step \in {"register", "open", "handshake"}
          /\ Gather("raise") /\ wanted' = FALSE /\ UNCHANGED conn
       \/ /\ conn = "in" /\ step \in {"gather", "finish"}
          /\ after' = "raise" /\ wanted' = FALSE
          /\ UNCHANGED <<step, owned, cancelled, heart, others, conn>>
    /\ UNCHANGED <<need, link, lock, rtask, rpc, busy, ltask, loops, disc, closed>>

\* disconnect() cancels a reconnect before it waits for the lock.
CallDisconnect ==
    /\ disc = "idle" /\ Spends("disconnects", MaxDisconnects)
    /\ need' = FALSE /\ wanted' = FALSE
    /\ disc' = IF Pending(rtask) THEN rtask ELSE "lock"
    /\ cancelled' = cancelled \union {r \in {rtask} : Pending(r)}
    /\ UNCHANGED <<link, lock, step, after, owned, rtask, rpc, busy, ltask, loops, heart,
                   others, conn, closed>>

\* The reconnect task that was cancelled has ended.
Drained ==
    /\ disc \in Reconnects /\ ~Pending(disc)
    /\ disc' = "lock"
    /\ UNCHANGED <<need, link, lock, step, after, owned, tasks, conn, closed, wanted, spent>>

DisconnectLocks ==
    /\ disc = "lock" /\ lock = "free"
    /\ disc' = "in" /\ lock' = "disconnect"
    /\ need' = FALSE /\ connected' = FALSE /\ wanted' = FALSE
    /\ Gather("close")
    /\ UNCHANGED <<http, ws, open, rtask, rpc, busy, ltask, loops, conn, closed, spent>>

KeepsTheLock ==  \* mutant: disconnect() returns without a release
    /\ step = "finish" /\ after = "close"
    /\ Release
    /\ disc' = "idle" /\ closed' = (conn = "idle")
    /\ UNCHANGED <<need, connected, lock, step, after, owned, tasks, conn, wanted, spent>>

DisconnectReturns ==
    /\ step = "finish" /\ after = "close"
    /\ Release /\ Unlock
    /\ disc' = "idle" /\ closed' = (conn = "idle")
    /\ UNCHANGED <<need, connected, tasks, conn, wanted, spent>>

-----------------------------------------------------------------------------
(* _do_connect, run by connect() or by a reconnect task under the lock.    *)

Free(s) == s \notin open \union {ws} \union {loops[l].on : l \in Loops}

\* A failed reconnect makes room for the next one before it ends.
Retry(r) == Spawn([rpc EXCEPT ![r] = "dead"], Gone(r)) /\ cancelled' = cancelled \ {r}

Fail ==
    IF lock = "connect"
    THEN /\ Gather("retry") /\ UNCHANGED <<lock, rtask, rpc, busy>>
    ELSE /\ Unlock /\ Retry(lock) /\ busy' = FALSE
         /\ UNCHANGED <<heart, others>>

Register ==
    /\ step = "register" /\ lock \notin cancelled
    /\ step' = "open"
    /\ UNCHANGED <<need, link, lock, after, owned, tasks, calls>>

\* The robot is taken by another runtime: this one never retries.
RegisterConflict ==
    /\ step = "register" /\ lock \notin cancelled
    /\ need' = FALSE /\ wanted' = FALSE
    /\ IF lock = "connect"
       THEN Gather("raise") /\ UNCHANGED <<lock, rtask, rpc, busy>>
       ELSE /\ Unlock /\ Ends(lock) /\ busy' = FALSE /\ UNCHANGED <<heart, others>>
    /\ UNCHANGED <<link, ltask, loops, conn, disc, closed, spent>>

Open ==
    /\ step = "open" /\ lock \notin cancelled
    /\ \E s \in Sockets :
          /\ Free(s) /\ s = CHOOSE x \in Sockets : Free(x)
          /\ open' = open \union {s} /\ ws' = s
    /\ step' = "handshake"
    /\ UNCHANGED <<need, connected, http, lock, after, owned, tasks, calls>>

\* The registration, the websocket or the handshake fails.  A websocket whose
\* CONNACK did not come in time is closed, one that was refused stays open; a
\* CONNACK before a frame that cannot be read has already set _connected.
AttemptFails ==
    /\ step \in {"register", "open", "handshake"} /\ lock \notin cancelled
    /\ Fail
    /\ \/ UNCHANGED <<connected, open>>
       \/ step = "handshake" /\ open' = open \ {ws} /\ UNCHANGED connected
       \/ step = "handshake" /\ connected' = TRUE /\ UNCHANGED open
    /\ UNCHANGED <<need, http, ws, ltask, loops, calls>>

\* The connection has loops of its own: connect() returns, or the task ends.
Connected ==
    /\ connected' = TRUE /\ others' = TRUE
    /\ \E l \in Loops :
          /\ loops[l].pc = "dead" /\ l = CHOOSE x \in Loops : loops[x].pc = "dead"
          /\ ltask' = l /\ loops' = [loops EXCEPT ![l] = Loop("top", None)]
    /\ Unlock
    /\ IF lock = "connect"
       THEN conn' = "idle" /\ UNCHANGED <<rpc, rtask, cancelled, busy>>
       ELSE Ends(lock) /\ busy' = FALSE /\ UNCHANGED conn

\* _start_receive_task: the old loop is cancelled and awaited.
StartReceiving ==
    IF Alive(ltask)
    THEN /\ step' = "loops" /\ owned' = [r |-> None, l |-> ltask]
         /\ ltask' = None /\ cancelled' = cancelled \union {ltask}
         /\ connected' = TRUE
         /\ UNCHANGED <<lock, after, rtask, rpc, busy, loops, others, conn>>
    ELSE Connected

\* CONNACK, unless an old loop reads the new websocket in this task's place;
\* _start_heartbeat_task cancels and awaits the old heartbeats first.
Handshake ==
    /\ step = "handshake" /\ lock \notin cancelled
    /\ ws \in open /\ \A l \in Loops : loops[l].on # ws
    /\ IF heart = "off"
       THEN heart' = "on" /\ StartReceiving
       ELSE /\ step' = "beats" /\ heart' = "stopping" /\ connected' = TRUE
            /\ UNCHANGED <<lock, after, owned, rtask, rpc, busy, ltask, loops, cancelled,
                           others, conn>>
    /\ UNCHANGED <<need, http, ws, open, disc, closed, wanted, spent>>

BeatsStopped ==
    /\ step = "beats" /\ heart = "off"
    /\ heart' = "on" /\ StartReceiving
    /\ UNCHANGED <<need, http, ws, open, disc, closed, wanted, spent>>

LoopStopped ==
    /\ step = "loops" /\ ~Alive(owned.l)
    /\ Connected
    /\ UNCHANGED <<need, http, ws, open, heart, disc, closed, wanted, spent>>

-----------------------------------------------------------------------------
(* The receive loop and the heartbeats.                                    *)

LeaveQuietly(l) ==  \* mutant: the loop ends and the runtime stays connected
    /\ loops' = [loops EXCEPT ![l] = Over] /\ cancelled' = cancelled \ {l}
    /\ UNCHANGED <<connected, rtask, rpc>>

\* The loop ends: if it is still the runtime's own, the connection is over.
Leave(l) ==
    /\ loops' = [loops EXCEPT ![l] = Over] /\ cancelled' = cancelled \ {l}
    /\ IF l = ltask
       THEN connected' = FALSE /\ Spawn(rpc, rtask)
       ELSE UNCHANGED <<connected, rtask, rpc>>

\* The loop reads whatever websocket the runtime has now.
LoopReads(l) ==
    /\ loops[l].pc = "top" /\ l \notin cancelled
    /\ connected /\ ws # None
    /\ loops' = [loops EXCEPT ![l] = Loop("recv", ws)]
    /\ UNCHANGED <<need, link, lock, step, after, owned, rtask, rpc, busy, ltask, cancelled,
                   heart, others, calls>>

\* It ends: cancelled, no longer connected, its websocket closed, or the reader
\* of a handshake on the same websocket was there before.
LoopEnds(l) ==
    /\ loops[l].pc # "dead"
    /\ \/ l \in cancelled
       \/ loops[l].pc = "top" /\ (~connected \/ ws = None)
       \/ loops[l].pc = "recv" /\ loops[l].on \notin open
       \/ loops[l].pc = "recv" /\ step = "handshake" /\ loops[l].on = ws
    /\ Leave(l)
    /\ UNCHANGED <<need, http, ws, open, lock, step, after, owned, busy, ltask, heart, others, calls>>

LoopGets(l) ==
    /\ loops[l].pc = "recv" /\ loops[l].on \in open /\ l \notin cancelled
    /\ loops' = [loops EXCEPT ![l] = Loop("handle", None)]
    /\ UNCHANGED <<need, link, lock, step, after, owned, rtask, rpc, busy, ltask, cancelled,
                   heart, others, calls>>

LoopHandles(l) ==
    /\ loops[l].pc = "handle" /\ l \notin cancelled
    /\ loops' = [loops EXCEPT ![l] = Loop("top", None)]
    /\ UNCHANGED <<need, link, lock, step, after, owned, rtask, rpc, busy, ltask, cancelled,
                   heart, others, calls>>

\* The server's DISCONNECT: the websocket the runtime has now is closed.
Kicked(l) ==
    /\ loops[l].pc = "recv" /\ loops[l].on \in open /\ l \notin cancelled
    /\ loops' = [loops EXCEPT ![l] = Loop("handle", None)]
    /\ connected' = FALSE /\ open' = open \ {ws}
    /\ UNCHANGED <<need, http, ws, lock, step, after, owned, rtask, rpc, busy, ltask,
                   cancelled, heart, others, calls>>

\* Too many pings without an answer.
PingTimeout ==
    /\ heart = "on"
    /\ connected' = FALSE /\ open' = open \ {ws} /\ heart' = "off"
    /\ UNCHANGED <<need, http, ws, lock, step, after, owned, rtask, rpc, busy, ltask, loops,
                   cancelled, others, calls>>

\* The heartbeats end: cancelled, no longer connected, or a ping that fails.
HeartStops ==
    /\ \/ heart = "stopping"
       \/ heart = "on" /\ (~connected \/ ws \notin open)
    /\ heart' = "off"
    /\ UNCHANGED <<need, link, lock, step, after, owned, rtask, rpc, busy, ltask, loops,
                   cancelled, others, calls>>

\* The network or the server ends a websocket.
Lost ==
    /\ \E s \in open : open' = open \ {s}
    /\ UNCHANGED <<need, connected, http, ws, lock, step, after, owned, tasks, calls>>

-----------------------------------------------------------------------------
\* What the holder of the lock does without the server.
Hold ==
    \/ ReconnectCloses \/ Gathered \/ ConnectBegins \/ ConnectFails \/ DisconnectReturns
    \/ BeatsStopped \/ LoopStopped

Runs(r) == StartReconnect(r) \/ Wake(r) \/ ReconnectCancelled(r)

Next ==
    \/ Hold \/ Drained
    \/ \E r \in Reconnects : Runs(r) \/ ReconnectLocks(r)
    \/ CallConnect \/ ConnectLocks \/ CancelConnect \/ CallDisconnect \/ DisconnectLocks
    \/ Register \/ RegisterConflict \/ Open \/ AttemptFails \/ Handshake
    \/ \E l \in Loops : LoopReads(l) \/ LoopEnds(l) \/ LoopGets(l) \/ LoopHandles(l) \/ Kicked(l)
    \/ PingTimeout \/ HeartStops \/ Lost

Spec == Init /\ [][Next]_vars

\* The event loop runs every task that can run, and the lock is handed on in the
\* order of its waiters.  A server that is asked again and again answers at
\* last, at each of the three stages; nothing obliges anybody to call, to cancel
\* or to break a connection.
Fairness ==
    /\ WF_vars(Hold) /\ WF_vars(Drained) /\ WF_vars(HeartStops)
    /\ \A r \in Reconnects : WF_vars(Runs(r)) /\ SF_vars(ReconnectLocks(r))
    /\ \A l \in Loops : WF_vars(LoopEnds(l)) /\ WF_vars(LoopHandles(l))
    /\ SF_vars(ConnectLocks) /\ SF_vars(DisconnectLocks)
    /\ WF_vars(AttemptFails \/ Register \/ Open \/ Handshake)
    /\ SF_vars(Register) /\ SF_vars(Open) /\ SF_vars(Handshake)

FairSpec == Spec /\ Fairness

-----------------------------------------------------------------------------
(* Properties.                                                             *)

\* When disconnect() has returned and nobody connected since, nothing of the
\* runtime is left: no task, not one that it has lost sight of, no websocket, no
\* HTTP session.
DisconnectIsFinal ==
    closed => /\ \A r \in Reconnects : rpc[r] = "dead"
              /\ \A l \in Loops : loops[l].pc = "dead"
              /\ heart = "off" /\ ~others
              /\ open = {} /\ ~http /\ ~connected /\ ~need

\* "One connection per uid+device_flag": a second websocket would make the server
\* end the first, so at most one is open, the one the runtime knows.
OneConnection == open \subseteq {ws}

\* _reconnect_in_progress and _spawn_reconnect_task: no two reconnects race.
OneReconnect == \A r, q \in Reconnects : rpc[r] # "dead" /\ rpc[q] # "dead" => r = q

NoSelfKick == OneConnection /\ OneReconnect

\* A runtime that was connected, or whose connect() failed, has a connection and
\* its receive loop again unless it is told to disconnect or finds its robot taken.
Serves == connected /\ Alive(ltask)
Reconnected == (wanted /\ ~Serves) ~> (Serves \/ ~wanted)

\* disconnect() and a reconnect never wait on each other for ever.
DisconnectEnds == (disc # "idle") ~> (disc = "idle")
=============================================================================
