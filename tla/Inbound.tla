------------------------------ MODULE Inbound ------------------------------
(***************************************************************************)
(* From the bytes of a websocket to a turn of the gateway: the framing of   *)
(* src/hermes_octo_plugin/protocol.py, and the receive loop, the handling   *)
(* of a message and the gates of its adapter.py.                            *)
(*                                                                         *)
(* A frame is cut in two, so that a websocket message may end inside it; a  *)
(* ping is one byte.  The life of connections is modelled in Connection,    *)
(* what a message does to the caches of a group in GroupScope.              *)
(***************************************************************************)
EXTENDS Conversations

CONSTANTS
    Messages,    \* [place, from, mention, body] that the server may send
    Ping         \* its ping

ASSUME InboundAssumption ==
    /\ Messages \subseteq
          [place : {"group", "dm", "space"}, from : Users,
           mention : {"none", "bot", "ais", "all", "humans", "name"},
           body : {"text", "file", "media", "empty", "event", "bad"}]
    /\ Ping \notin Messages
    \* bounds: what the server sends, and how many frames
    /\ \A s \in Settings : s.messages \subseteq Messages \union {Ping} /\ s.frames \in Nat

VARIABLES
    stream,   \* the parts of the frames the server sent on the present connection
    got,      \* how many of them have arrived
    buffer,   \* _temp_buffer
    taken,    \* history: the parts of the frames that were cut out of it
    loop,     \* whether a receive loop runs
    handler,  \* the message that _handle_recv is at, and what it waits for
    flags,    \* _group_robot_map of the group
    asked,    \* _group_cache_timestamps has the group
    named,    \* _uid_to_name has the bot's own name
    turns,    \* turns that were given to the gateway: robot, message, chat
    sent      \* frames so far

socket == <<stream, got, buffer, taken, loop, sent>>
roster == <<flags, asked, named>>
inbound == <<socket, handler, roster, turns>>

Units(m) == IF m = Ping THEN <<<<m, 0>>>> ELSE <<<<m, 1>>, <<m, 2>>>>
Idle == [pc |-> "idle"]
Waits == {"file", "roster", "stale", "context", "media"}
Unknown == [u \in Users |-> "unknown"]

ChatId(r, m) ==
    CASE m.place = "group" -> Group
      [] m.place = "space" -> Space(r)
      [] m.place = "dm"    -> IF setting.sole \/ r = Primary THEN Plain ELSE Scoped(r)

InboundTypeOK ==
    /\ stream \in [Robots -> Seq((Messages \union {Ping}) \X (0..2))] /\ sent \in 0..setting.frames
    /\ \A r \in Robots : got[r] \in 0..Len(stream[r])
    /\ loop \in [Robots -> BOOLEAN]
    /\ handler \in [Robots -> {Idle} \union [pc : Waits, msg : Messages]]
    /\ \A r \in Robots : handler[r] # Idle => loop[r]
    /\ flags \in [Robots -> [Users -> {"human", "bot", "unknown"}]]
    /\ {asked, named} \subseteq [Robots -> BOOLEAN]
    /\ \A t \in turns : t.chat = ChatId(t.robot, t.msg)

InboundInit ==
    /\ stream = [r \in Robots |-> <<>>] /\ got = [r \in Robots |-> 0]
    /\ buffer = [r \in Robots |-> <<>>] /\ taken = [r \in Robots |-> <<>>]
    /\ loop = [r \in Robots |-> FALSE] /\ handler = [r \in Robots |-> Idle]
    /\ flags = [r \in Robots |-> Unknown]
    /\ asked = [r \in Robots |-> FALSE] /\ named = [r \in Robots |-> FALSE]
    /\ turns = {} /\ sent = 0

-----------------------------------------------------------------------------
(* Connections and bytes.                                                  *)

\* try_unpack_one: the length of the first frame, 0 while it is incomplete.
FrameLength(b) ==
    IF b = <<>> THEN 0
    ELSE IF b[1][2] = 0 THEN 1
    ELSE IF Len(b) >= 2 THEN 2 ELSE 0

\* Where frames of b start and where the last one ends: at 0, and after each frame
\* that is complete.
Starts(b) ==
    LET After(i) == i + FrameLength(SubSeq(b, i + 1, Len(b)))
    IN  {i \in 0..Len(b) : \A S \in SUBSET (0..Len(b)) :
            0 \in S /\ (\A j \in S : After(j) \in S) => i \in S}

\* The frames of b, one after the other, and what is left of it.
Cut(b) == LET n == Max(Starts(b))
          IN  [whole |-> SubSeq(b, 1, n), rest |-> SubSeq(b, n + 1, Len(b))]

OpensBeside(r) ==  \* mutant: what is left of the old connection stays
    /\ life[r] = "down" /\ life' = [life EXCEPT ![r] = "opening"]
    /\ stream' = [stream EXCEPT ![r] = <<>>] /\ got' = [got EXCEPT ![r] = 0]
    /\ taken' = [taken EXCEPT ![r] = <<>>]
    /\ UNCHANGED <<setting, members, memory, routes, troubles,
                   buffer, loop, handler, roster, turns, sent>>

\* _do_connect up to the CONNECT packet.
Opens(r) ==
    /\ life[r] = "down" /\ life' = [life EXCEPT ![r] = "opening"]
    /\ stream' = [stream EXCEPT ![r] = <<>>] /\ got' = [got EXCEPT ![r] = 0]
    /\ buffer' = [buffer EXCEPT ![r] = <<>>] /\ taken' = [taken EXCEPT ![r] = <<>>]
    /\ UNCHANGED <<setting, members, memory, routes, troubles,
                   loop, handler, roster, turns, sent>>

Sends(r, m) ==
    /\ sent < setting.frames /\ sent' = sent + 1
    /\ life[r] \in {"opening", "open"} /\ (setting.sole => r = Primary)
    /\ stream' = [stream EXCEPT ![r] = @ \o Units(m)]
    /\ UNCHANGED <<conversations, got, buffer, taken, loop, handler, roster, turns>>

\* The next n parts that are on their way to r.
Arriving(r, n) ==
    /\ got[r] + n <= Len(stream[r]) /\ got' = [got EXCEPT ![r] = @ + n]
Arrived(r, n) == SubSeq(stream[r], got[r] + 1, got[r] + n)

\* CONNACK, and what the same websocket message carries behind it: the loop of
\* the handshake takes whole frames and looks at none.  The old receive loop is
\* cancelled, with the message it is at.
Welcomed(r, n) ==
    /\ life[r] = "opening" /\ life' = [life EXCEPT ![r] = "open"]
    /\ Arriving(r, n)
    /\ LET cut == Cut(buffer[r] \o Arrived(r, n))
       IN  /\ buffer' = [buffer EXCEPT ![r] = cut.rest]
           /\ taken' = [taken EXCEPT ![r] = @ \o cut.whole]
    /\ loop' = [loop EXCEPT ![r] = TRUE] /\ handler' = [handler EXCEPT ![r] = Idle]
    /\ UNCHANGED <<setting, members, memory, routes, troubles, stream, roster, turns, sent>>

\* The connection is lost; _connected says so at once, after a ping timeout, or
\* when the receive loop ends.  A handshake fails.
Breaks(r) ==
    /\ Trouble
    /\ \/ life[r] = "open" /\ life' \in {[life EXCEPT ![r] = "lost"], [life EXCEPT ![r] = "down"]}
       \/ life[r] = "opening" /\ life' = [life EXCEPT ![r] = "down"]
    /\ UNCHANGED <<setting, members, memory, routes, inbound>>

LoopEnds(r) ==
    /\ loop[r] /\ handler[r] = Idle /\ FrameLength(buffer[r]) = 0
    /\ life[r] \in {"down", "lost"} /\ life' = [life EXCEPT ![r] = "down"]
    /\ loop' = [loop EXCEPT ![r] = FALSE]
    /\ UNCHANGED <<setting, members, memory, routes, troubles,
                   stream, got, buffer, taken, handler, roster, turns, sent>>

DisconnectsBeside(r) ==  \* mutant: the message goes on
    /\ Trouble
    /\ loop[r] /\ loop' = [loop EXCEPT ![r] = FALSE]
    /\ life' = [life EXCEPT ![r] = "down"] /\ UNCHANGED handler
    /\ UNCHANGED <<setting, members, memory, routes,
                   stream, got, buffer, taken, roster, turns, sent>>

\* disconnect() cancels the loop and the message it is at.
Disconnects(r) ==
    /\ Trouble
    /\ loop[r] /\ loop' = [loop EXCEPT ![r] = FALSE]
    /\ life' = [life EXCEPT ![r] = "down"] /\ handler' = [handler EXCEPT ![r] = Idle]
    /\ UNCHANGED <<setting, members, memory, routes,
                   stream, got, buffer, taken, roster, turns, sent>>

\* A websocket message is read when the loop has handled what it could.
Receives(r, n) ==
    /\ life[r] = "open" /\ loop[r] /\ handler[r] = Idle
    /\ FrameLength(buffer[r]) = 0
    /\ n > 0 /\ Arriving(r, n)
    /\ buffer' = [buffer EXCEPT ![r] = @ \o Arrived(r, n)]
    /\ UNCHANGED <<conversations, stream, taken, loop, sent, handler, roster, turns>>

-----------------------------------------------------------------------------
(* _handle_frame and _handle_recv, up to each of their awaits.             *)

Takes(r, frame) ==
    /\ loop[r] /\ handler[r] = Idle
    /\ FrameLength(buffer[r]) # 0 /\ frame = SubSeq(buffer[r], 1, FrameLength(buffer[r]))
    /\ buffer' = [buffer EXCEPT ![r] = SubSeq(@, Len(frame) + 1, Len(@))]
    /\ taken' = [taken EXCEPT ![r] = @ \o frame]

\* What is handled: no ping, nothing that cannot be decoded or decrypted, not the
\* bot's own messages and not the events of documents.
Reads(r, frame, m) == frame = Units(m) /\ m.from # r /\ m.body \notin {"bad", "event"}

TakesToPass(r, frame) ==
    /\ Takes(r, frame) /\ ~\E m \in Messages : Reads(r, frame, m)
    /\ UNCHANGED <<conversations, stream, got, loop, sent, handler, roster, turns>>

\* What the first part of _handle_recv remembers of a chat.
Remembers(r, c) ==
    /\ kinds' = [kinds EXCEPT ![r] = @ \union {c}]
    /\ targets' = [targets EXCEPT ![r] = IF c = Group THEN @ ELSE @ \union {c}]

\* The next await: the roster for a group, the sender's name and the context.
GoesOn(r, m) == handler' = [handler EXCEPT ![r] =
    [pc |-> IF m.place = "group" THEN "roster" ELSE "context", msg |-> m]]

\* Nothing that the agent could read comes out of _resolve_content.
Empty(m) == m.body = "empty"

TakesMessage(r, frame, m) ==
    /\ Takes(r, frame) /\ Reads(r, frame, m)
    /\ Remembers(r, ChatId(r, m))
    /\ CASE Empty(m) -> UNCHANGED handler
         [] m.body = "file" -> handler' = [handler EXCEPT ![r] = [pc |-> "file", msg |-> m]]
         [] ~Empty(m) /\ m.body # "file" -> GoesOn(r, m)
    /\ UNCHANGED <<setting, members, life, routes, troubles,
                   stream, got, loop, sent, roster, turns>>

FileLoaded(r) ==
    /\ handler[r].pc = "file"
    /\ GoesOn(r, handler[r].msg)
    /\ UNCHANGED <<conversations, socket, roster, turns>>

\* Mention detection; f is the roster's classification, n whether the bot's name
\* is known.
Mentioned(m, n) ==
    \/ m.mention = "bot"
    \/ ~setting.ignore /\ m.mention \in {"ais", "all"}
    \/ m.mention = "name" /\ n /\ m.body = "text"

AdmitsUnknown(m, f, n) ==  \* mutant: only a confirmed bot is refused
    \/ Mentioned(m, n)
    \/ ~setting.strict /\ f[m.from] # "bot"

\* The gates: an unmentioned message only becomes history, or in the relaxed
\* mode is dropped unless the roster says that a person sent it.
Admits(m, f, n) ==
    \/ Mentioned(m, n)
    \/ ~setting.strict /\ f[m.from] = "human"

Gate(r, f, n) == handler' = [handler EXCEPT ![r] =
    IF Admits(@.msg, f, n) THEN [pc |-> "context", msg |-> @.msg] ELSE Idle]

\* _refresh_group_member_cache: what it has is recent, the server answers with
\* flags or without, or it does not, or with nothing.
RosterRecent(r) ==
    /\ handler[r].pc = "roster" /\ asked[r]
    /\ Gate(r, flags[r], named[r])
    /\ UNCHANGED <<conversations, socket, roster, turns>>

Flags(known) == [u \in Users |-> IF ~known \/ u \notin members THEN "unknown"
                                 ELSE IF u \in Robots THEN "bot" ELSE "human"]

RosterFetched(r, known) ==
    /\ handler[r].pc = "roster"
    /\ flags' = [flags EXCEPT ![r] = Flags(known)]
    /\ asked' = [asked EXCEPT ![r] = TRUE] /\ named' = [named EXCEPT ![r] = TRUE]
    /\ Gate(r, Flags(known), TRUE)
    /\ UNCHANGED <<conversations, socket, turns>>

RosterFails(r) ==
    /\ handler[r].pc = "roster"
    /\ flags' = [flags EXCEPT ![r] = Unknown] /\ asked' = [asked EXCEPT ![r] = TRUE]
    /\ Gate(r, Unknown, named[r])
    /\ UNCHANGED <<conversations, socket, named, turns>>

\* An answer from before the group went away is not taken.
RosterStale(r) ==
    /\ handler[r].pc = "stale"
    /\ Gate(r, flags[r], named[r])
    /\ UNCHANGED <<conversations, socket, roster, turns>>

\* The sender's name and the history are there; media are downloaded.
ContextBuilt(r) ==
    /\ handler[r].pc = "context" /\ handler[r].msg.body = "media"
    /\ handler' = [handler EXCEPT ![r].pc = "media"]
    /\ UNCHANGED <<conversations, socket, roster, turns>>

\* The route is bound before the gateway sees the message.
Dispatches(r) ==
    LET m == handler[r].msg
        c == ChatId(r, m)
    IN  /\ handler[r].pc \in {"context", "media"}
        /\ m.body = "media" => handler[r].pc = "media"
        /\ Binds(r, c)
        /\ turns' = IF Granted(r, c) THEN turns \union {[robot |-> r, msg |-> m, chat |-> c]}
                    ELSE turns
        /\ handler' = [handler EXCEPT ![r] = Idle]
        /\ UNCHANGED <<setting, members, life, memory, disk, troubles, socket, roster>>

ForgetsRoster(r) ==
    flags' = [flags EXCEPT ![r] = Unknown] /\ asked' = [asked EXCEPT ![r] = FALSE]

\* _cleanup_caches: nothing of a chat happened for an hour.
Evicts(r, c) ==
    /\ Trouble
    /\ c \in kinds[r] /\ (handler[r] # Idle => ChatId(r, handler[r].msg) # c)
    /\ kinds' = [kinds EXCEPT ![r] = @ \ {c}] /\ targets' = [targets EXCEPT ![r] = @ \ {c}]
    /\ IF c = Group THEN ForgetsRoster(r) ELSE UNCHANGED <<flags, asked>>
    /\ UNCHANGED <<setting, members, life, routes, socket, handler, named, turns>>

\* _evict_group_scope: the server's list of groups has it no more.
GroupGone(r) ==
    /\ Trouble
    /\ Group \in kinds[r] /\ kinds' = [kinds EXCEPT ![r] = @ \ {Group}]
    /\ ForgetsRoster(r)
    /\ handler' = [handler EXCEPT ![r] =
          IF @.pc = "roster" THEN [@ EXCEPT !.pc = "stale"] ELSE @]
    /\ UNCHANGED <<setting, members, life, targets, routes, socket, named, turns>>

Frames(r) == {SubSeq(buffer[r], 1, n) : n \in {FrameLength(buffer[r])}}

Handles(r) ==
    \/ \E frame \in Frames(r) : TakesToPass(r, frame)
                               \/ \E m \in Messages : TakesMessage(r, frame, m)
    \/ FileLoaded(r)
    \/ RosterRecent(r) \/ RosterFails(r) \/ RosterStale(r)
    \/ \E known \in BOOLEAN : RosterFetched(r, known)
    \/ ContextBuilt(r)
    \/ Dispatches(r)

InboundNext ==
    \/ \E r \in Robots, m \in setting.messages : Sends(r, m)
    \/ \E r \in Robots, n \in 0..(2 * setting.frames) : Welcomed(r, n) \/ Receives(r, n)
    \/ \E r \in Robots : Opens(r) \/ Breaks(r) \/ LoopEnds(r) \/ Disconnects(r)
    \/ \E r \in Robots : GroupGone(r) \/ Handles(r)
    \/ \E r \in Robots, c \in Chats : Evicts(r, c)

-----------------------------------------------------------------------------
(* Properties.                                                             *)

\* Whatever a websocket message is cut into, and whatever a lost connection left
\* behind, the frames taken on a connection and the bytes that wait are what the
\* server sent on it, in order (_receive_loop, _do_connect, try_unpack_one).  Whole
\* frames behind the CONNACK count as taken: the handshake drops them unread.
FramesInOrder ==
    \A r \in Robots : taken[r] \o buffer[r] = SubSeq(stream[r], 1, got[r])

\* No turn starts from a group message that did not address the bot, unless the
\* bot was configured to listen and a person sent it: two bots cannot talk to each
\* other, whatever the roster request brought ("Only a confirmed human may use the
\* relaxed path").
Addresses(m) == m.mention \in {"bot", "name"} \/ (~setting.ignore /\ m.mention \in {"ais", "all"})
BotsNeedMention ==
    \A t \in turns : \/ t.chat # Group \/ Addresses(t.msg)
                     \/ ~setting.strict /\ t.msg.from \in People
=============================================================================
