-------------------------- MODULE MessagingProofs --------------------------
(***************************************************************************)
(* Proofs about Messaging, for any number of bots, people and messages, any *)
(* settings and any bounds: whom a turn answers, which bot an answer leaves *)
(* from, where it goes, whom it mentions and what is reported of it; that   *)
(* the frames of a connection stay whole; and the types.                    *)
(***************************************************************************)
EXTENDS Messaging, TLAPS, SequenceTheorems, WellFoundedInduction

USE ConversationsAssumption, InboundAssumption, OutboundAssumption

-----------------------------------------------------------------------------
(* The inductive invariant.                                                *)

\* The configuration, and who may be in the group.
World == setting \in Settings /\ members \subseteq Users

\* No route exists without several identities.
RoutesAgree ==
    /\ owner \in Owners /\ disk.owner \in Owners
    /\ setting.sole => \A c \in Chats : owner[c] = Nobody /\ disk.owner[c] = Nobody

\* Whoever remembers the kind of a DM remembers its wire target too.
MemoryAgrees ==
    /\ kinds \in [Robots -> SUBSET Chats] /\ targets \in [Robots -> SUBSET Chats]
    /\ \A r \in Robots : kinds[r] \ {Group} \subseteq targets[r]

\* A roster calls nobody human who is a bot.
Classes == {"human", "bot", "unknown"}
RostersRight ==
    /\ flags \in [Robots -> [Users -> Classes]] /\ named \in [Robots -> BOOLEAN]
    /\ \A r \in Robots, u \in Users : flags[r][u] = "human" => u \in People

Listened(s, m) ==
    \/ m.mention \in {"bot", "name"} \/ (~s.ignore /\ m.mention \in {"ais", "all"})
    \/ ~s.strict /\ m.from \in People

\* A message whose context is built has passed its gate.
HandlersGated ==
    /\ handler \in [Robots -> {Idle} \union [pc : Waits, msg : Messages]]
    /\ \A r \in Robots : handler[r].pc \in {"context", "media"} /\ handler[r].msg.place = "group"
                         => Listened(setting, handler[r].msg)

\* The delivery, while it was not refused: it has a sender and a place, and its
\* mentions were verified.
DeliveryRight ==
    /\ delivery.robot \in Robots
    /\ delivery.told \/ (delivery.chat = Plain /\ delivery.origin.via # "alone")
           => delivery.to = HomeOf(delivery.chat)
    /\ delivery.claim \in {Nobody, delivery.robot}
    /\ delivery.origin.via = "turn" /\ ~setting.sole => delivery.robot = delivery.origin.robot
    /\ delivery.uids \subseteq (IF delivery.chat = Group THEN delivery.insiders ELSE {})

\* What was posted is a beginning of the delivery.
PostedRight ==
    /\ Len(posted) <= Len(Pieces(delivery.form))
    /\ \A i \in DOMAIN posted :
          /\ posted[i].robot = delivery.robot /\ posted[i].to = delivery.to
          /\ posted[i].piece = Pieces(delivery.form)[i]
          /\ posted[i].uids \subseteq delivery.uids
    /\ delivery.pc \in {"roster", "load", "upload"} => posted = <<>>
    /\ delivery.pc = "post" => Len(posted) < Len(Pieces(delivery.form))
    /\ delivery.result = "sent" => Len(posted) = Len(Pieces(delivery.form))

DeliveryInv ==
    /\ posted \in Seq([robot : Robots, to : Places, piece : {"text", "rich", "media"},
                       uids : SUBSET Users])
    /\ delivery = None \/ delivery.result = "refused" => posted = <<>>
    /\ delivery = None \/ delivery \in Deliveries
    /\ delivery # None =>
          /\ members \subseteq delivery.insiders
          /\ delivery.pc = "done" <=> delivery.result # "none"
          /\ delivery.result # "refused" => DeliveryRight /\ PostedRight

\* (InboundInv: what receiving keeps.)
InboundInv == World /\ RoutesAgree /\ MemoryAgrees /\ RostersRight /\ HandlersGated
                    /\ BotsNeedMention
IInv == InboundInv /\ DeliveryInv

-----------------------------------------------------------------------------
(* Operators.                                                              *)

\* The chats of messages are chats, and only a message of the group has its chat.
LEMMA ChatOfMessage ==
    ASSUME NEW r \in Robots, NEW m \in Messages
    PROVE  ChatId(r, m) \in Chats /\ (ChatId(r, m) = Group <=> m.place = "group")
<1>1. m.place \in {"group", "dm", "space"}
  OBVIOUS
<1>2. Group # Plain /\ Scoped(r) # Group /\ Space(r) # Group
  BY DEF Group, Plain, Scoped, Space
<1> QED
  BY <1>1, <1>2 DEF ChatId, Chats

\* A gate lets through what addresses the bot, or what a person said to a bot that
\* listens.
LEMMA AdmitsListened ==
    ASSUME NEW m \in Messages, NEW f \in [Users -> Classes], NEW n \in BOOLEAN,
           \A u \in Users : f[u] = "human" => u \in People,
           Admits(m, f, n)
    PROVE  Listened(setting, m)
<1>1. m.from \in Users
  OBVIOUS
<1> QED
  BY <1>1 DEF Admits, Mentioned, Listened

\* Whoever sends is a bot, which no other bot's claim contradicts.
LEMMA SenderFits ==
    ASSUME NEW o \in Origins \ [via : {"alone"}], NEW c \in Chats, RoutesAgree,
           Sender(o, c) # Nobody
    PROVE  /\ Sender(o, c) \in Robots
           /\ owner[c] \in {Nobody, Sender(o, c)}
           /\ o.via = "turn" /\ ~setting.sole => Sender(o, c) = o.robot
<1>1. CASE setting.sole
  BY <1>1 DEF Sender, RoutesAgree
<1>2. CASE ~setting.sole
  <2> DEFINE ctx == Context(o)
             r == IF ctx # Nobody THEN ctx
                  ELSE IF LookedUp(Routes, c) THEN owner[c]
                  ELSE IF c = HomeChannel THEN Primary ELSE Nobody
  <2>1. o.via = "turn" => o.robot \in Robots /\ ctx = o.robot
    BY DEF Origins, Context
  <2>2. ctx \in Robots \union {Nobody}
    BY <2>1 DEF Origins, Context, RoutesAgree, Owners
  <2>3. r \in Robots \union {Nobody}
    BY <2>2 DEF RoutesAgree, Owners
  <2>4. Sender(o, c) = r /\ (IF LookedUp(Routes, c) THEN owner[c] = r ELSE ~HasState(Routes, c))
    BY <1>2 DEF Sender
  <2>5. owner[c] \in {Nobody, r}
    BY <2>4 DEF HasState, Routes
  <2>6. o.via = "turn" => r = o.robot
    BY <2>1 DEF Users
  <2> HIDE DEF r
  <2> QED
    BY <1>2, <2>3, <2>4, <2>5, <2>6
<1> QED
  BY <1>1, <1>2
-----------------------------------------------------------------------------
(* The initial states.                                                     *)

LEMMA InitInvariant == Init => IInv
<1> SUFFICES ASSUME Init PROVE IInv
  OBVIOUS
<1> USE DEF Init, ConversationsInit, InboundInit, OutboundInit
<1>1. World
  BY DEF World
<1>2. RoutesAgree
  BY DEF RoutesAgree, Books
<1>3. MemoryAgrees
  BY DEF MemoryAgrees
<1>4. RostersRight
  BY DEF RostersRight, Unknown, Classes
<1>5. HandlersGated
  BY DEF HandlersGated, Idle
<1>6. BotsNeedMention
  BY DEF BotsNeedMention
<1>7. DeliveryInv
  BY DEF DeliveryInv, None
<1> QED
  BY <1>1, <1>2, <1>3, <1>4, <1>5, <1>6, <1>7 DEF IInv, InboundInv

-----------------------------------------------------------------------------
(* Receiving.                                                              *)

\* What most actions leave alone.
facts == <<setting, members, memory, routes, roster, turns>>

\* A gate keeps the messages in work what they are, and the context is built only
\* for those it lets through.
LEMMA GateKeeps ==
    ASSUME World, HandlersGated, NEW r \in Robots, NEW f \in [Users -> Classes],
           NEW n \in BOOLEAN, \A u \in Users : f[u] = "human" => u \in People,
           handler[r].pc \in {"roster", "stale"}, Gate(r, f, n), UNCHANGED setting
    PROVE  HandlersGated'
<1>1. handler[r] \in [pc : Waits, msg : Messages]
  BY DEF HandlersGated, Idle
<1>2. Admits(handler[r].msg, f, n) => Listened(setting, handler[r].msg)
  BY <1>1, AdmitsListened
<1> DEFINE next == IF Admits(handler[r].msg, f, n)
                   THEN [pc |-> "context", msg |-> handler[r].msg] ELSE Idle
<1>3. handler' = [handler EXCEPT ![r] = next]
  BY DEF Gate
<1>4. next \in {Idle} \union [pc : Waits, msg : Messages]
  BY <1>1 DEF Waits
<1>5. next.pc \in {"context", "media"} => next.msg = handler[r].msg /\ Listened(setting, handler[r].msg)
  BY <1>2 DEF Idle
<1> HIDE DEF next
<1>6. handler' \in [Robots -> {Idle} \union [pc : Waits, msg : Messages]]
  BY <1>3, <1>4 DEF HandlersGated
<1>7. ASSUME NEW q \in Robots, handler'[q].pc \in {"context", "media"},
             handler'[q].msg.place = "group"
      PROVE  Listened(setting', handler'[q].msg)
  <2>1. CASE q = r
    BY <1>1, <1>3, <1>5, <1>7, <2>1 DEF HandlersGated
  <2>2. CASE q # r
    BY <1>3, <1>7, <2>2 DEF HandlersGated
  <2> QED
    BY <2>1, <2>2
<1> QED
  BY <1>6, <1>7 DEF HandlersGated

\* What stays when neither the world nor the routes, the memory, the roster or the
\* turns change, and every handler is where it was or not behind its gate.
LEMMA HandlersMove ==
    ASSUME InboundInv, UNCHANGED facts,
           handler' \in [Robots -> {Idle} \union [pc : Waits, msg : Messages]],
           \A q \in Robots : \/ handler'[q] = handler[q]
                             \/ handler'[q].pc \notin {"context", "media"}
                             \/ handler'[q].msg.place # "group"
                             \/ handler[q].pc \in {"context", "media"} /\ handler'[q].msg = handler[q].msg
    PROVE  InboundInv'
<1> USE DEF InboundInv, facts
<1>1. World' /\ RoutesAgree' /\ MemoryAgrees' /\ RostersRight'
  BY DEF World, RoutesAgree, MemoryAgrees, RostersRight, memory, routes, roster
<1>2. HandlersGated'
  BY DEF HandlersGated, Listened
<1>3. BotsNeedMention'
  BY DEF BotsNeedMention, Addresses
<1> QED
  BY <1>1, <1>2, <1>3

\* Nothing of a message is looked at: bytes, and connections that come or go.
LEMMA BytesKeep ==
    ASSUME InboundInv, NEW r \in Robots,
           \/ \E m \in setting.messages : Sends(r, m)
           \/ \E n \in 0..(2 * setting.frames) : Welcomed(r, n) \/ Receives(r, n)
           \/ Opens(r) \/ Breaks(r) \/ LoopEnds(r) \/ Disconnects(r)
           \/ \E frame \in Frames(r) : TakesToPass(r, frame)
    PROVE  InboundInv'
<1>1. UNCHANGED facts
  BY DEF Sends, Welcomed, Receives, Opens, Breaks, LoopEnds, Disconnects, TakesToPass,
         facts, conversations, inbound
<1>2. handler' \in {handler, [handler EXCEPT ![r] = Idle]}
  BY DEF Sends, Welcomed, Receives, Opens, Breaks, LoopEnds, Disconnects, TakesToPass,
         inbound
<1>3. handler' \in [Robots -> {Idle} \union [pc : Waits, msg : Messages]]
  BY <1>2 DEF InboundInv, HandlersGated
<1>4. \A q \in Robots : handler'[q] = handler[q] \/ handler'[q].pc \notin {"context", "media"}
  BY <1>2 DEF InboundInv, HandlersGated, Idle
<1> QED
  BY <1>1, <1>3, <1>4, HandlersMove

\* The wait for a file, and for media.
LEMMA WaitsKeep ==
    ASSUME InboundInv, NEW r \in Robots, FileLoaded(r) \/ ContextBuilt(r)
    PROVE  InboundInv'
<1>1. UNCHANGED facts
  BY DEF FileLoaded, ContextBuilt, facts, conversations
<1>2. handler[r] \in [pc : Waits, msg : Messages]
  BY DEF FileLoaded, ContextBuilt, InboundInv, HandlersGated, Idle
<1>3. CASE FileLoaded(r)
  <2>1. handler' = [handler EXCEPT ![r] =
            [pc |-> IF handler[r].msg.place = "group" THEN "roster" ELSE "context",
             msg |-> handler[r].msg]]
    BY <1>3 DEF FileLoaded, GoesOn
  <2>2. handler' \in [Robots -> {Idle} \union [pc : Waits, msg : Messages]]
    BY <1>2, <2>1 DEF InboundInv, HandlersGated, Waits
  <2>3. handler'[r].pc \notin {"context", "media"} \/ handler'[r].msg.place # "group"
    BY <2>1 DEF InboundInv, HandlersGated
  <2>4. \A q \in Robots \ {r} : handler'[q] = handler[q]
    BY <2>1 DEF InboundInv, HandlersGated
  <2> QED
    BY <1>1, <2>2, <2>3, <2>4, HandlersMove
<1>4. CASE ContextBuilt(r)
  <2> DEFINE on == [handler[r] EXCEPT !.pc = "media"]
  <2>1. handler[r].pc = "context" /\ handler' = [handler EXCEPT ![r] = on]
    BY <1>4 DEF ContextBuilt
  <2>2. on = [pc |-> "media", msg |-> handler[r].msg]
    BY <1>2
  <2> HIDE DEF on
  <2>3. handler' \in [Robots -> {Idle} \union [pc : Waits, msg : Messages]]
    BY <1>2, <2>1, <2>2 DEF InboundInv, HandlersGated, Waits
  <2>4. \A q \in Robots : handler'[q] = handler[q] \/ (q = r /\ handler'[q].msg = handler[q].msg)
    BY <2>1, <2>2 DEF InboundInv, HandlersGated
  <2> QED
    BY <1>1, <2>1, <2>3, <2>4, HandlersMove
<1> QED
  BY <1>3, <1>4

\* A message that is read: the bot remembers its chat.
LEMMA TakesKeep ==
    ASSUME InboundInv, NEW r \in Robots, NEW frame, NEW m \in Messages, TakesMessage(r, frame, m)
    PROVE  InboundInv'
<1> DEFINE c == ChatId(r, m)
<1>1. Remembers(r, c) /\ UNCHANGED <<setting, members, routes, roster, turns>>
  BY DEF TakesMessage
<1>2. c \in Chats /\ (c = Group <=> m.place = "group")
  BY ChatOfMessage
<1>3. World' /\ RoutesAgree' /\ RostersRight'
  BY <1>1 DEF InboundInv, World, RoutesAgree, RostersRight, routes, roster
<1>4. MemoryAgrees'
  <2> HIDE DEF c
  <2>1. kinds' \in [Robots -> SUBSET Chats] /\ targets' \in [Robots -> SUBSET Chats]
    BY <1>1, <1>2 DEF Remembers, InboundInv, MemoryAgrees
  <2>2. ASSUME NEW q \in Robots PROVE kinds'[q] \ {Group} \subseteq targets'[q]
    BY <1>1, <1>2 DEF Remembers, InboundInv, MemoryAgrees
  <2> QED
    BY <2>1, <2>2 DEF MemoryAgrees
<1>5. HandlersGated'
  <2> DEFINE at == [pc |-> "file", msg |-> m]
             on == [pc |-> IF m.place = "group" THEN "roster" ELSE "context", msg |-> m]
  <2>1. handler' \in {handler, [handler EXCEPT ![r] = at], [handler EXCEPT ![r] = on]}
    BY DEF TakesMessage, GoesOn
  <2>2. {at, on} \subseteq [pc : Waits, msg : Messages]
    BY DEF Waits
  <2>3. /\ at.pc \notin {"context", "media"}
        /\ on.pc \notin {"context", "media"} \/ on.msg.place # "group"
    OBVIOUS
  <2> HIDE DEF at, on
  <2>4. handler' \in [Robots -> {Idle} \union [pc : Waits, msg : Messages]]
    BY <2>1, <2>2 DEF InboundInv, HandlersGated
  <2>5. \A q \in Robots : handler'[q].pc \in {"context", "media"} /\ handler'[q].msg.place = "group"
                          => handler'[q] = handler[q]
    BY <2>1, <2>3 DEF InboundInv, HandlersGated
  <2> QED
    BY <1>1, <2>4, <2>5 DEF InboundInv, HandlersGated, Listened
<1>6. BotsNeedMention'
  BY <1>1 DEF InboundInv, BotsNeedMention, Addresses
<1> QED
  BY <1>3, <1>4, <1>5, <1>6 DEF InboundInv

\* The roster: what it has, what the server says, or nothing.
LEMMA RosterKeeps ==
    ASSUME InboundInv, NEW r \in Robots,
           RosterRecent(r) \/ RosterFails(r) \/ RosterStale(r)
           \/ \E known \in BOOLEAN : RosterFetched(r, known)
    PROVE  InboundInv'
<1> DEFINE Right(f) == /\ f \in [Users -> Classes]
                       /\ \A u \in Users : f[u] = "human" => u \in People
<1>1. Right(flags[r]) /\ Right(Unknown)
  BY DEF InboundInv, RostersRight, Unknown, Classes
<1>2. \A known \in BOOLEAN : Right(Flags(known))
  BY DEF Flags, Classes, Users
<1>3. UNCHANGED <<conversations, turns>> /\ handler[r].pc \in {"roster", "stale"}
  BY DEF RosterRecent, RosterFails, RosterStale, RosterFetched, roster
<1>4. PICK f \in {flags[r], Unknown} \union {Flags(known) : known \in BOOLEAN}, n \in BOOLEAN :
         flags' \in {flags, [flags EXCEPT ![r] = f]} /\ Gate(r, f, n)
  BY DEF RosterRecent, RosterFails, RosterStale, RosterFetched, roster, InboundInv, RostersRight
<1>5. Right(f)
  BY <1>1, <1>2, <1>4
<1>6. HandlersGated'
  BY <1>3, <1>4, <1>5, GateKeeps DEF InboundInv, conversations
<1>7. RostersRight'
  <2>1. named' \in [Robots -> BOOLEAN]
    BY DEF RosterRecent, RosterFails, RosterStale, RosterFetched, roster, InboundInv, RostersRight
  <2> QED
    BY <1>4, <1>5, <2>1 DEF InboundInv, RostersRight
<1>8. World' /\ RoutesAgree' /\ MemoryAgrees' /\ BotsNeedMention'
  BY <1>3 DEF InboundInv, World, RoutesAgree, MemoryAgrees, BotsNeedMention, Addresses,
              conversations, routes, memory
<1> QED
  BY <1>6, <1>7, <1>8 DEF InboundInv

\* The turn: its route is bound, and what it answers has passed the gate.
LEMMA DispatchesKeep ==
    ASSUME InboundInv, NEW r \in Robots, Dispatches(r)
    PROVE  InboundInv'
<1> DEFINE m == handler[r].msg
           c == ChatId(r, m)
           t == [robot |-> r, msg |-> m, chat |-> c]
<1>1. m \in Messages /\ handler[r].pc \in {"context", "media"}
  BY DEF Dispatches, InboundInv, HandlersGated, Idle
<1>2. c \in Chats /\ (c = Group <=> m.place = "group")
  BY <1>1, ChatOfMessage
<1>3. UNCHANGED <<setting, members, memory, disk, roster>> /\ Binds(r, c)
      /\ handler' = [handler EXCEPT ![r] = Idle] /\ turns' \in {turns, turns \union {t}}
  BY DEF Dispatches
<1>4. c = Group => Listened(setting, m)
  BY <1>1, <1>2 DEF InboundInv, HandlersGated
<1> HIDE DEF c
<1>5. World' /\ MemoryAgrees' /\ RostersRight'
  BY <1>3 DEF InboundInv, World, MemoryAgrees, RostersRight, memory, roster
<1>6. RoutesAgree'
  BY <1>2, <1>3 DEF Binds, Granted, InboundInv, RoutesAgree, Owners
<1>7. HandlersGated'
  BY <1>3 DEF InboundInv, HandlersGated, Idle
<1>8. BotsNeedMention'
  <2>1. t.chat = c /\ t.msg = m
    OBVIOUS
  <2> HIDE DEF t, m
  <2>2. c # Group \/ Addresses(m) \/ (~setting.strict /\ m.from \in People)
    BY <1>4 DEF Listened, Addresses
  <2> QED
    BY <1>3, <2>1, <2>2 DEF InboundInv, BotsNeedMention, Addresses
<1> QED
  BY <1>5, <1>6, <1>7, <1>8 DEF InboundInv

\* What time and the server take away.
LEMMA ForgettingKeeps ==
    ASSUME InboundInv, NEW r \in Robots, GroupGone(r) \/ \E c \in Chats : Evicts(r, c)
    PROVE  InboundInv'
<1>1. UNCHANGED <<setting, members, routes, turns, named>>
  BY DEF GroupGone, Evicts
<1>2. World' /\ RoutesAgree' /\ BotsNeedMention'
  BY <1>1 DEF InboundInv, World, RoutesAgree, BotsNeedMention, Addresses, routes
<1>3. RostersRight'
  <2>1. flags' \in {flags, [flags EXCEPT ![r] = Unknown]}
    BY DEF GroupGone, Evicts, ForgetsRoster
  <2> QED
    BY <1>1, <2>1, SMTT(60) DEF InboundInv, RostersRight, Unknown, Classes
<1>4. MemoryAgrees'
  <2>1. CASE GroupGone(r)
    BY <2>1 DEF GroupGone, InboundInv, MemoryAgrees
  <2>2. ASSUME NEW c \in Chats, Evicts(r, c) PROVE MemoryAgrees'
    BY <2>2 DEF Evicts, InboundInv, MemoryAgrees
  <2> QED
    BY <2>1, <2>2
<1>5. HandlersGated'
  <2>1. CASE GroupGone(r)
    <3> DEFINE next == IF handler[r].pc = "roster" THEN [handler[r] EXCEPT !.pc = "stale"]
                       ELSE handler[r]
    <3>1. handler' = [handler EXCEPT ![r] = next]
      BY <2>1 DEF GroupGone
    <3>2. next \in {Idle} \union [pc : Waits, msg : Messages]
      BY DEF InboundInv, HandlersGated, Idle, Waits
    <3>3. next = handler[r] \/ next.pc = "stale"
      BY DEF InboundInv, HandlersGated, Idle
    <3> HIDE DEF next
    <3> QED
      BY <1>1, <3>1, <3>2, <3>3 DEF InboundInv, HandlersGated, Listened
  <2>2. CASE UNCHANGED handler
    BY <1>1, <2>2 DEF InboundInv, HandlersGated, Listened
  <2> QED
    BY <2>1, <2>2 DEF Evicts
<1> QED
  BY <1>2, <1>3, <1>4, <1>5 DEF InboundInv

\* Whatever is received.
LEMMA ReceivingKeeps ==
    ASSUME InboundInv, InboundNext
    PROVE  InboundInv'
<1>1. ASSUME NEW r \in Robots, Handles(r) PROVE InboundInv'
  BY <1>1, BytesKeep, TakesKeep, WaitsKeep, RosterKeeps, DispatchesKeep DEF Handles
<1> QED
  BY <1>1, BytesKeep, ForgettingKeeps DEF InboundNext

-----------------------------------------------------------------------------
(* Sending.                                                                *)

\* A delivery as it stands: it does not depend on what receiving changes.
LEMMA DeliveryKept ==
    ASSUME DeliveryInv, UNCHANGED <<setting, members, outbound>>
    PROVE  DeliveryInv'
BY DEF DeliveryInv, DeliveryRight, PostedRight, Deliveries, outbound

\* The place is the chat's own whenever the sender knows the chat, or guesses
\* right.
LEMMA PlaceFits ==
    ASSUME NEW r \in Robots, NEW c \in Chats, NEW routed \in BOOLEAN, NEW known,
           MemoryAgrees, known = Refreshed(r, c, routed)[r],
           routed \/ c \in kinds[r] \/ c = Plain
    PROVE  PlaceOf(KindOf(r, c, routed), c, known) = HomeOf(c)
<1>1. Group # Plain
  BY DEF Group, Plain
<1>2. CASE c = Group
  BY <1>1, <1>2 DEF PlaceOf, KindOf, HomeOf, GroupPlace, DmPlace
<1>3. CASE c # Group
  <2>1. KindOf(r, c, routed) = "dm"
    BY <1>1, <1>3 DEF KindOf, HomeOf, DmPlace, Guess
  <2>2. c \in known \/ c = Plain
    BY <1>3 DEF Refreshed, MemoryAgrees
  <2> QED
    BY <1>3, <2>1, <2>2 DEF PlaceOf, HomeOf, DmPlace
<1> QED
  BY <1>2, <1>3

\* Every form has a piece, and its pieces are messages.
LEMMA PiecesOfForms ==
    ASSUME NEW form \in {"short", "long", "picture", "media"}
    PROVE  /\ Len(Pieces(form)) \in Nat \ {0}
           /\ \A i \in 1..Len(Pieces(form)) : Pieces(form)[i] \in {"text", "rich", "media"}
<1>1. CASE form = "short"
  BY <1>1 DEF Pieces
<1>2. CASE form = "long"
  BY <1>2 DEF Pieces
<1>3. CASE form = "picture"
  BY <1>3 DEF Pieces
<1>4. CASE form = "media"
  BY <1>4 DEF Pieces
<1> QED
  BY <1>1, <1>2, <1>3, <1>4

\* A delivery that begins has posted nothing yet.
LEMMA BeginningRight ==
    ASSUME World, NEW d \in Deliveries, delivery' = d, posted' = <<>>,
           UNCHANGED <<setting, members>>, d.insiders = members,
           \/ d.pc = "done" /\ d.result = "refused"
           \/ d.pc \in {"roster", "load", "post"} /\ d.result = "none" /\ DeliveryRight'
    PROVE  DeliveryInv'
<1>1. d.form \in {"short", "long", "picture", "media"}
  BY DEF Deliveries, World, OutboundAssumption
<1>2. Len(posted') = 0 /\ DOMAIN posted' = {}
  OBVIOUS
<1>3. PostedRight' \/ d.result = "refused"
  BY <1>1, <1>2, PiecesOfForms DEF PostedRight
<1>4. delivery' # None
  BY DEF Deliveries, None
<1>5. delivery' \in Deliveries'
  BY DEF Deliveries
<1> QED
  BY <1>3, <1>4, <1>5 DEF DeliveryInv

\* Beginning changes nothing of what is received but a wire target, which a route
\* brings back.
LEMMA BeginsKeepsInbound ==
    ASSUME InboundInv, UNCHANGED <<setting, members, kinds, routes, inbound>>,
           targets' = targets \/ \E r \in Robots, c \in Chats :
               targets' = [targets EXCEPT ![r] = @ \union {c}]
    PROVE  InboundInv'
<1> USE DEF InboundInv, inbound
<1>1. MemoryAgrees'
  BY DEF MemoryAgrees
<1>2. World' /\ RoutesAgree' /\ RostersRight' /\ HandlersGated' /\ BotsNeedMention'
  BY DEF World, RoutesAgree, RostersRight, HandlersGated, BotsNeedMention, Addresses,
         Listened, routes, roster
<1> QED
  BY <1>1, <1>2

\* A delivery inside the gateway begins, or is refused.
LEMMA BeginsKeeps ==
    ASSUME IInv, NEW o \in Origins \ [via : {"alone"}], NEW c \in Chats,
           NEW form \in setting.forms, NEW who \in People \union {Nobody},
           Begins(o, c, form, who), UNCHANGED inbound
    PROVE  IInv'
<1> DEFINE r == Sender(o, c)
           routed == ~setting.sole /\ LookedUp(Routes, c)
           kind == KindOf(r, c, routed)
           known == Refreshed(r, c, routed)
           told == r # Nobody /\ (routed \/ c \in kinds[r])
           d == [pc |-> "post", origin |-> o, chat |-> c, form |-> form, who |-> who,
                 robot |-> r, to |-> GroupPlace, uids |-> {}, result |-> "none",
                 claim |-> owner[c], told |-> told, insiders |-> members]
           go == [d EXCEPT !.pc = FirstAwait(who, kind, form), !.to = PlaceOf(kind, c, known[r])]
<1>1. posted' = <<>> /\ UNCHANGED <<setting, members, kinds, routes, inbound>>
  BY DEF Begins
<1>2. \/ delivery' = Refused(d) /\ (UNCHANGED targets \/ (r # Nobody /\ targets' = known))
      \/ r # Nobody /\ delivery' = go /\ targets' = known
  BY DEF Begins
<1>3. r # Nobody => /\ r \in Robots /\ owner[c] \in {Nobody, r}
                    /\ o.via = "turn" /\ ~setting.sole => r = o.robot
  BY SenderFits, ZenonT(60) DEF IInv, InboundInv
<1>4. routed \in BOOLEAN
  OBVIOUS
<1>5. r # Nobody /\ (routed \/ c \in kinds[r] \/ c = Plain)
          => PlaceOf(kind, c, known[r]) = HomeOf(c)
  BY <1>3, <1>4, PlaceFits, ZenonT(60) DEF IInv, InboundInv
<1>6. r # Nobody => /\ FirstAwait(who, kind, form) \in {"roster", "load", "post"}
                    /\ PlaceOf(kind, c, known[r]) \in Places
  <2>1. r # Nobody => kind \in {"group", "dm"}
    BY DEF KindOf, HomeOf, GroupPlace, DmPlace, Guess
  <2> HIDE DEF kind, known
  <2>2. FirstAwait(who, kind, form) \in {"roster", "load", "post"}
    BY DEF FirstAwait, AfterRoster
  <2>3. r # Nobody => PlaceOf(kind, c, known[r]) \in Places
    BY <2>1 DEF PlaceOf, Places
  <2> QED
    BY <2>2, <2>3
<1>7. owner[c] \in Robots \union {Nobody} /\ r \in Robots \union {Nobody}
  BY <1>3 DEF IInv, InboundInv, RoutesAgree, Owners
<1>8. InboundInv'
  <2>1. UNCHANGED targets \/ (r # Nobody /\ targets' = known)
    BY <1>2
  <2>2. known = targets \/ known = [targets EXCEPT ![r] = @ \union {c}]
    BY DEF Refreshed
  <2> HIDE DEF known, r
  <2> QED
    BY <1>1, <1>3, <2>1, <2>2, BeginsKeepsInbound DEF IInv
<1>9. told \in BOOLEAN /\ (told => r # Nobody /\ (routed \/ c \in kinds[r]))
  OBVIOUS
<1> HIDE DEF r, routed, kind, known, told
<1>10. Refused(d) \in Deliveries
  BY <1>7, <1>9 DEF Refused, Deliveries, Users, Places, GroupPlace, IInv, InboundInv, World
<1>11. r # Nobody => go \in Deliveries
  BY <1>6, <1>7, <1>9 DEF Deliveries, Users, IInv, InboundInv, World
<1>12. CASE delivery' = Refused(d)
  <2>1. Refused(d).pc = "done" /\ Refused(d).result = "refused" /\ Refused(d).insiders = members
    BY DEF Refused
  <2> QED
    BY <1>1, <1>8, <1>10, <1>12, <2>1, BeginningRight DEF IInv, InboundInv
<1>13. CASE r # Nobody /\ delivery' = go
  <2> DEFINE place == PlaceOf(kind, c, known[r])
  <2>1. /\ go.pc \in {"roster", "load", "post"} /\ go.result = "none" /\ go.insiders = members
        /\ go.robot = r /\ go.told = told /\ go.chat = c /\ go.origin = o /\ go.to = place
        /\ go.claim = owner[c] /\ go.uids = {}
    BY <1>6, <1>13
  <2>2. told \/ (c = Plain /\ o.via # "alone") => place = HomeOf(c)
    BY <1>5, <1>9, <1>13
  <2> HIDE DEF go, d, place
  <2>3. DeliveryRight'
    BY <1>1, <1>3, <1>13, <2>1, <2>2 DEF DeliveryRight
  <2> QED
    BY <1>1, <1>8, <1>11, <1>13, <2>1, <2>3, BeginningRight DEF IInv, InboundInv
<1> QED
  BY <1>2, <1>12, <1>13

\* A delivery of a process of its own begins, or is refused.
LEMMA BeginsAloneKeeps ==
    ASSUME IInv, NEW c \in Chats, NEW who \in People \union {Nobody},
           BeginsAlone(c, who), UNCHANGED inbound
    PROVE  IInv'
<1> DEFINE r == StandaloneSender(c)
           routed == ~setting.sole /\ LookedUp(disk, c)
           to == IF routed THEN HomeOf(c) ELSE GroupPlace
           d == [pc |-> "post", origin |-> [via |-> "alone"], chat |-> c, form |-> "short",
                 who |-> who, robot |-> r, to |-> to, uids |-> {}, result |-> "none",
                 claim |-> disk.owner[c], told |-> routed, insiders |-> members]
           go == [d EXCEPT !.pc = IF who = Nobody THEN "post" ELSE "roster"]
<1>1. posted' = <<>> /\ UNCHANGED <<conversations, inbound>>
  BY DEF BeginsAlone
<1>2. delivery' = Refused(d) \/ (r # Nobody /\ delivery' = go)
  BY DEF BeginsAlone
<1>3. disk.owner[c] \in Robots \union {Nobody} /\ (setting.sole => disk.owner[c] = Nobody)
  BY DEF IInv, InboundInv, RoutesAgree, Owners
<1>4. r \in Robots \union {Nobody} /\ (r # Nobody => disk.owner[c] \in {Nobody, r})
  BY <1>3 DEF StandaloneSender, LookedUp, HasState
<1>5. routed \in BOOLEAN /\ (routed => to = HomeOf(c)) /\ to \in Places
  BY DEF HomeOf, GroupPlace, DmPlace, Places
<1>6. InboundInv'
  BY <1>1, BeginsKeepsInbound DEF IInv, conversations, memory
<1>7. [via |-> "alone"] \in Origins
  BY DEF Origins
<1> HIDE DEF r, routed, to
<1>8. Refused(d) \in Deliveries
  BY <1>3, <1>4, <1>5, <1>7 DEF Refused, Deliveries, Users, IInv, InboundInv, World
<1>9. go \in Deliveries
  BY <1>3, <1>4, <1>5, <1>7 DEF Deliveries, Users, IInv, InboundInv, World
<1>10. CASE delivery' = Refused(d)
  <2>1. Refused(d).pc = "done" /\ Refused(d).result = "refused" /\ Refused(d).insiders = members
    BY DEF Refused
  <2> QED
    BY <1>1, <1>6, <1>8, <1>10, <2>1, BeginningRight DEF IInv, InboundInv, conversations
<1>11. CASE r # Nobody /\ delivery' = go
  <2>1. /\ go.pc \in {"roster", "post"} /\ go.result = "none" /\ go.insiders = members
        /\ go.robot = r /\ go.told = routed /\ go.chat = c /\ go.origin.via = "alone"
        /\ go.to = to /\ go.claim = disk.owner[c] /\ go.uids = {}
    OBVIOUS
  <2> HIDE DEF go, d
  <2>2. DeliveryRight'
    BY <1>4, <1>5, <1>11, <2>1 DEF DeliveryRight
  <2> QED
    BY <1>1, <1>6, <1>9, <1>11, <2>1, <2>2, BeginningRight DEF IInv, InboundInv, conversations
<1> QED
  BY <1>2, <1>10, <1>11

\* Until something is posted, a delivery goes on or fails, and says nothing else.
LEMMA AwaitsKeep ==
    ASSUME DeliveryInv, World, NEW pc \in {"load", "upload", "post", "done"},
           NEW uids \in SUBSET Users,
           delivery.pc \in {"roster", "load", "upload"},
           delivery' = [delivery EXCEPT !.pc = pc, !.uids = uids,
                                        !.result = IF pc = "done" THEN "failed" ELSE @],
           uids \subseteq (IF delivery.chat = Group THEN delivery.insiders ELSE {}),
           UNCHANGED <<setting, members, posted>>
    PROVE  DeliveryInv'
<1>1. delivery \in Deliveries /\ delivery # None
  BY DEF DeliveryInv, None
<1>2. delivery.result = "none" /\ members \subseteq delivery.insiders /\ DeliveryRight
      /\ PostedRight /\ posted = <<>>
  BY <1>1 DEF DeliveryInv, PostedRight, Deliveries
<1>3. /\ delivery'.pc = pc /\ delivery'.uids = uids
      /\ delivery'.result = IF pc = "done" THEN "failed" ELSE "none"
      /\ delivery'.robot = delivery.robot /\ delivery'.to = delivery.to
      /\ delivery'.chat = delivery.chat /\ delivery'.origin = delivery.origin
      /\ delivery'.claim = delivery.claim /\ delivery'.told = delivery.told
      /\ delivery'.form = delivery.form /\ delivery'.insiders = delivery.insiders
  BY <1>1, <1>2 DEF Deliveries
<1>4. delivery' \in Deliveries'
  BY <1>1, <1>2, ZenonT(60) DEF Deliveries
<1>5. DeliveryRight'
  BY <1>2, <1>3 DEF DeliveryRight
<1>6. PostedRight'
  <2>1. delivery.form \in {"short", "long", "picture", "media"}
    BY <1>1 DEF Deliveries, World, OutboundAssumption
  <2>2. Len(posted') = 0 /\ DOMAIN posted' = {}
    BY <1>2
  <2> QED
    BY <1>2, <1>3, <2>1, <2>2, PiecesOfForms DEF PostedRight
<1>7. posted' = <<>> /\ delivery'.result # "refused"
  BY <1>2, <1>3
<1>8. delivery' # None
  BY <1>4 DEF Deliveries, None
<1> QED
  BY <1>2, <1>3, <1>4, <1>5, <1>6, <1>7, <1>8 DEF DeliveryInv

\* Members that are asked for, media that are loaded and uploaded.
LEMMA PreparingKeeps ==
    ASSUME DeliveryInv, World, UNCHANGED <<setting, members>>,
           \/ \E answered \in BOOLEAN : RosterAnswered(answered)
           \/ \E ok \in BOOLEAN : Loaded(ok) \/ Uploaded(ok)
    PROVE  DeliveryInv'
<1>1. delivery.pc \in {"roster", "load", "upload"} /\ UNCHANGED posted
  BY DEF RosterAnswered, Loaded, Uploaded
<1>2. delivery \in Deliveries
  BY <1>1 DEF DeliveryInv, None
<1>3. members \subseteq delivery.insiders /\ DeliveryRight /\ delivery.uids \in SUBSET Users
  BY <1>1, <1>2 DEF DeliveryInv, None, Deliveries
<1>4. ASSUME NEW answered \in BOOLEAN, RosterAnswered(answered) PROVE DeliveryInv'
  <2> DEFINE uids == Verified(delivery.who, delivery.chat, answered)
             pc == AfterRoster(delivery.form)
  <2>1. /\ uids \in SUBSET Users
        /\ uids \subseteq (IF delivery.chat = Group THEN delivery.insiders ELSE {})
    BY <1>3 DEF Verified, World
  <2>2. pc \in {"load", "post"}
    BY DEF AfterRoster
  <2> HIDE DEF uids, pc
  <2>3. delivery' = [delivery EXCEPT !.uids = uids, !.pc = pc]
    BY <1>4 DEF RosterAnswered, uids, pc
  <2>4. delivery' = [delivery EXCEPT !.pc = pc, !.uids = uids,
                                     !.result = IF pc = "done" THEN "failed" ELSE @]
    BY <1>2, <2>2, <2>3 DEF Deliveries
  <2> QED
    BY <1>1, <2>1, <2>2, <2>4, AwaitsKeep
<1>5. ASSUME NEW ok \in BOOLEAN, Loaded(ok) \/ Uploaded(ok) PROVE DeliveryInv'
  <2>1. PICK pc \in {"upload", "post", "done"} :
            delivery' = IF pc = "done" THEN Failed(delivery) ELSE [delivery EXCEPT !.pc = pc]
    BY <1>5 DEF Loaded, Uploaded
  <2>2. delivery' = [delivery EXCEPT !.pc = pc, !.uids = delivery.uids,
                                     !.result = IF pc = "done" THEN "failed" ELSE @]
    BY <1>2, <2>1 DEF Deliveries, Failed
  <2> QED
    BY <1>1, <1>3, <2>2, AwaitsKeep DEF DeliveryRight
<1> QED
  BY <1>4, <1>5

\* What the server may have taken after the next request.
LEMMA NextPieceFits ==
    ASSUME DeliveryInv, World, delivery.pc = "post",
           NEW p, p \in {posted, Append(posted, NextPiece)}
    PROVE  /\ p \in Seq([robot : Robots, to : Places, piece : {"text", "rich", "media"},
                         uids : SUBSET Users])
           /\ Len(p) <= Len(Pieces(delivery.form))
           /\ \A i \in DOMAIN p :
                 /\ p[i].robot = delivery.robot /\ p[i].to = delivery.to
                 /\ p[i].piece = Pieces(delivery.form)[i]
                 /\ p[i].uids \subseteq delivery.uids
<1> DEFINE n == Len(posted) + 1
           piece == Pieces(delivery.form)[n]
           Sent == [robot : Robots, to : Places, piece : {"text", "rich", "media"},
                    uids : SUBSET Users]
<1>1. delivery \in Deliveries
  BY DEF DeliveryInv, None
<1>2. DeliveryRight /\ PostedRight /\ posted \in Seq(Sent)
  BY <1>1 DEF DeliveryInv, None, Deliveries
<1>3. Len(posted) \in Nat /\ DOMAIN posted = 1..Len(posted)
  BY <1>2
<1>4. /\ Len(Pieces(delivery.form)) \in Nat
      /\ \A i \in 1..Len(Pieces(delivery.form)) : Pieces(delivery.form)[i] \in {"text", "rich", "media"}
  BY <1>1, PiecesOfForms, ZenonT(60) DEF Deliveries, World, OutboundAssumption
<1>5. n \in 1..Len(Pieces(delivery.form)) /\ piece \in {"text", "rich", "media"}
  BY <1>2, <1>3, <1>4 DEF PostedRight
<1> HIDE DEF piece
<1>6. NextPiece = [robot |-> delivery.robot, to |-> delivery.to, piece |-> piece,
                   uids |-> MentionsOf(piece)]
  BY DEF NextPiece, Message, piece
<1>7. MentionsOf(piece) \subseteq delivery.uids /\ MentionsOf(piece) \in SUBSET Users
  BY <1>1 DEF MentionsOf, Deliveries
<1>8. NextPiece \in Sent
  BY <1>1, <1>2, <1>5, <1>6, <1>7 DEF Deliveries, DeliveryRight
<1>9. CASE p = posted
  BY <1>2, <1>9 DEF PostedRight
<1>10. CASE p = Append(posted, NextPiece)
  <2> HIDE DEF Sent
  <2>1. p \in Seq(Sent) /\ Len(p) = n
    BY <1>2, <1>3, <1>8, <1>10
  <2>2. \A i \in 1..Len(posted) : p[i] = posted[i]
    BY <1>2, <1>3, <1>10
  <2>3. p[n] = NextPiece
    BY <1>2, <1>3, <1>10
  <2>4. ASSUME NEW i \in DOMAIN p
        PROVE  /\ p[i].robot = delivery.robot /\ p[i].to = delivery.to
               /\ p[i].piece = Pieces(delivery.form)[i]
               /\ p[i].uids \subseteq delivery.uids
    <3>1. CASE i \in 1..Len(posted)
      BY <1>2, <1>3, <2>2, <3>1 DEF PostedRight
    <3>2. CASE i = n
      BY <1>6, <1>7, <2>3, <3>2 DEF piece
    <3> QED
      BY <1>3, <2>1, <3>1, <3>2
  <2>5. Len(p) <= Len(Pieces(delivery.form))
    BY <1>3, <1>4, <1>5, <2>1
  <2> QED
    BY <2>1, <2>4, <2>5 DEF Sent
<1> QED
  BY <1>9, <1>10

\* A piece is posted, or fails.
LEMMA PostingKeeps ==
    ASSUME DeliveryInv, World, UNCHANGED <<setting, members>>, Posted \/ PostFails
    PROVE  DeliveryInv'
<1>1. delivery.pc = "post" /\ posted' \in {posted, Append(posted, NextPiece)}
  BY DEF Posted, PostFails
<1>2. delivery \in Deliveries
  BY <1>1 DEF DeliveryInv, None
<1>3. /\ delivery.result = "none" /\ members \subseteq delivery.insiders
      /\ DeliveryRight /\ PostedRight
  BY <1>1, <1>2 DEF DeliveryInv, None, Deliveries
<1>4. PICK result \in {"none", "failed", "sent"} :
         /\ delivery' = IF result = "none" THEN delivery
                        ELSE [delivery EXCEPT !.pc = "done", !.result = result]
         /\ result = "none" => Len(posted') # Len(Pieces(delivery.form))
         /\ result = "sent" => Len(posted') = Len(Pieces(delivery.form))
  BY DEF Posted, PostFails, Failed
<1>5. /\ delivery'.pc = (IF result = "none" THEN "post" ELSE "done")
      /\ delivery'.result = result /\ delivery'.uids = delivery.uids
      /\ delivery'.robot = delivery.robot /\ delivery'.to = delivery.to
      /\ delivery'.chat = delivery.chat /\ delivery'.origin = delivery.origin
      /\ delivery'.claim = delivery.claim /\ delivery'.told = delivery.told
      /\ delivery'.form = delivery.form /\ delivery'.insiders = delivery.insiders
  BY <1>1, <1>2, <1>3, <1>4 DEF Deliveries
<1>6. delivery' \in Deliveries'
  BY <1>2, <1>4 DEF Deliveries
<1>7. delivery' # None /\ DeliveryRight'
  BY <1>3, <1>5, <1>6 DEF DeliveryRight, Deliveries, None
<1>8. PostedRight' /\ posted' \in Seq([robot : Robots, to : Places,
                                       piece : {"text", "rich", "media"}, uids : SUBSET Users])
  <2>1. Len(Pieces(delivery.form)) \in Nat
    BY <1>2, PiecesOfForms DEF Deliveries, World, OutboundAssumption
  <2>2. /\ posted' \in Seq([robot : Robots, to : Places, piece : {"text", "rich", "media"},
                            uids : SUBSET Users])
        /\ Len(posted') <= Len(Pieces(delivery.form))
        /\ \A i \in DOMAIN posted' :
              /\ posted'[i].robot = delivery.robot /\ posted'[i].to = delivery.to
              /\ posted'[i].piece = Pieces(delivery.form)[i]
              /\ posted'[i].uids \subseteq delivery.uids
    BY <1>1, NextPieceFits
  <2>3. Len(posted') \in Nat
    BY <2>2
  <2>4. /\ delivery'.pc = "post" => Len(posted') < Len(Pieces(delivery.form))
        /\ delivery'.result = "sent" => Len(posted') = Len(Pieces(delivery.form))
        /\ delivery'.pc \notin {"roster", "load", "upload"}
    BY <1>4, <1>5, <2>1, <2>2, <2>3
  <2> QED
    BY <1>5, <2>2, <2>4 DEF PostedRight
<1> QED
  BY <1>3, <1>5, <1>6, <1>7, <1>8 DEF DeliveryInv

-----------------------------------------------------------------------------
(* Every step.                                                             *)

\* Routes are written and released, people come and go.
LEMMA SurroundingsKeep ==
    ASSUME IInv,
           \/ (Flush \/ \E r \in Robots, c \in Chats : Forget(r, c)) /\ UNCHANGED <<inbound, outbound>>
           \/ \E u \in People : Moves(u)
    PROVE  IInv'
<1>1. CASE (Flush \/ \E r \in Robots, c \in Chats : Forget(r, c)) /\ UNCHANGED <<inbound, outbound>>
  <2>1. UNCHANGED <<setting, members, memory, inbound, outbound>>
    BY <1>1 DEF Flush, Forget
  <2>2. RoutesAgree'
    BY <1>1 DEF Flush, Forget, IInv, InboundInv, RoutesAgree, Routes, Owners
  <2>3. World' /\ MemoryAgrees' /\ RostersRight' /\ HandlersGated' /\ BotsNeedMention'
    BY <2>1 DEF IInv, InboundInv, World, MemoryAgrees, RostersRight, HandlersGated, BotsNeedMention,
                Addresses, Listened, memory, inbound, roster
  <2>4. DeliveryInv'
    BY <2>1, DeliveryKept DEF IInv
  <2> QED
    BY <2>2, <2>3, <2>4 DEF IInv, InboundInv
<1>2. ASSUME NEW u \in People, Moves(u) PROVE IInv'
  <2>1. /\ members' \subseteq Users /\ UNCHANGED <<setting, memory, routes, inbound, posted>>
        /\ delivery' = IF delivery = None THEN None
                       ELSE [delivery EXCEPT !.insiders = @ \union members']
    BY <1>2 DEF Moves, SymDiff, IInv, InboundInv, World, Users
  <2>2. InboundInv'
    BY <2>1 DEF IInv, InboundInv, World, RoutesAgree, MemoryAgrees, RostersRight, HandlersGated,
                BotsNeedMention, Addresses, Listened, memory, routes, inbound, roster
  <2>3. CASE delivery = None
    <3>1. UNCHANGED <<delivery, posted>> /\ posted = <<>>
      BY <2>1, <2>3 DEF IInv, DeliveryInv
    <3> QED
      BY <2>2, <2>3, <3>1 DEF IInv, DeliveryInv
  <2>4. CASE delivery # None
    <3>1. delivery \in Deliveries
      BY <2>4 DEF IInv, DeliveryInv
    <3>2. /\ delivery'.insiders = delivery.insiders \union members'
          /\ delivery'.pc = delivery.pc /\ delivery'.result = delivery.result
          /\ delivery'.uids = delivery.uids
          /\ delivery'.robot = delivery.robot /\ delivery'.to = delivery.to
          /\ delivery'.chat = delivery.chat /\ delivery'.origin = delivery.origin
          /\ delivery'.claim = delivery.claim /\ delivery'.told = delivery.told
          /\ delivery'.form = delivery.form
      BY <2>1, <2>4, <3>1 DEF Deliveries
    <3>3. delivery' \in Deliveries'
      BY <2>1, <2>4, <3>1 DEF Deliveries
    <3>4. delivery.result # "refused" => DeliveryRight' /\ PostedRight'
      BY <2>1, <2>4, <3>2 DEF IInv, DeliveryInv, DeliveryRight, PostedRight
    <3>5. delivery' # None
      BY <3>3 DEF Deliveries, None
    <3>6. UNCHANGED posted /\ members' \subseteq delivery'.insiders
      BY <2>1, <3>2
    <3> QED
      BY <2>2, <2>4, <3>2, <3>3, <3>4, <3>5, <3>6 DEF IInv, DeliveryInv
  <2> QED
    BY <2>2, <2>3, <2>4 DEF IInv
<1> QED
  BY <1>1, <1>2

\* One step per way to take one.
LEMMA StepInvariant == IInv /\ [Next]_vars => IInv'
<1> SUFFICES ASSUME IInv, [Next]_vars PROVE IInv'
  OBVIOUS
<1>1. CASE InboundNext /\ UNCHANGED outbound
  <2>1. InboundInv'
    BY <1>1, ReceivingKeeps DEF IInv
  <2>2. UNCHANGED <<setting, members>>
    BY <1>1 DEF InboundNext, Handles, Sends, Welcomed, Receives, Opens, Breaks, LoopEnds,
         Disconnects, GroupGone, Evicts, TakesToPass, TakesMessage, FileLoaded, RosterRecent,
         RosterFails, RosterStale, RosterFetched, ContextBuilt, Dispatches, conversations
  <2> QED
    BY <1>1, <2>1, <2>2, DeliveryKept DEF IInv
<1>2. CASE Delivery /\ UNCHANGED inbound
  <2>1. CASE Delivers
    <3>1. UNCHANGED conversations
      BY <2>1 DEF Delivers, RosterAnswered, Loaded, Uploaded, Posted, PostFails
    <3>2. InboundInv'
      BY <1>2, <3>1, BeginsKeepsInbound DEF IInv, conversations, memory
    <3>3. DeliveryInv'
      BY <2>1, <3>1, PreparingKeeps, PostingKeeps DEF Delivers, IInv, InboundInv, conversations
    <3> QED
      BY <3>2, <3>3 DEF IInv
  <2> QED
    BY <1>2, <2>1, BeginsKeeps, BeginsAloneKeeps DEF Delivery
<1>3. CASE (Flush \/ \E r \in Robots, c \in Chats : Forget(r, c)) /\ UNCHANGED <<inbound, outbound>>
  BY <1>3, SurroundingsKeep
<1>4. CASE \E u \in People : Moves(u)
  BY <1>4, SurroundingsKeep
<1>5. CASE UNCHANGED vars
  <2>1. InboundInv'
    BY <1>5, BeginsKeepsInbound DEF IInv, vars, conversations, memory
  <2> QED
    BY <1>5, <2>1, DeliveryKept DEF IInv, vars, conversations
<1> QED
  BY <1>1, <1>2, <1>3, <1>4, <1>5 DEF Next

\* The invariant that everything rests on.
LEMMA Invariant == Spec => []IInv
BY InitInvariant, StepInvariant, PTL DEF Spec

-----------------------------------------------------------------------------
(* The bytes of a connection.                                              *)

\* What was taken and what waits is what has arrived, and no more than was sent.
Parts == (Messages \union {Ping}) \X (0..2)
StreamsRight ==
    /\ stream \in [Robots -> Seq(Parts)]
    /\ buffer \in [Robots -> Seq(Parts)] /\ taken \in [Robots -> Seq(Parts)]
    /\ got \in [Robots -> Nat] /\ \A r \in Robots : got[r] <= Len(stream[r])
    /\ FramesInOrder

\* A frame is a sequence of parts.
LEMMA UnitsAreParts ==
    ASSUME NEW m \in Messages \union {Ping}
    PROVE  Units(m) \in Seq(Parts)
<1>1. {<<m, 0>>, <<m, 1>>, <<m, 2>>} \subseteq Parts
  BY DEF Parts
<1>2. <<<<m, 0>>>> \in Seq(Parts) /\ <<<<m, 1>>, <<m, 2>>>> \in Seq(Parts)
  BY <1>1
<1> QED
  BY <1>2 DEF Units

\* However parts are grouped, they make the same bytes.
LEMMA PartsAssociate ==
    ASSUME NEW a \in Seq(Parts), NEW b \in Seq(Parts), NEW c \in Seq(Parts)
    PROVE  (a \o b) \o c = a \o (b \o c)
BY ConcatAssociative

\* A sequence is what it begins with and what is left of it.
LEMMA SplitAnywhere ==
    ASSUME NEW b \in Seq(Parts), NEW n \in 0..Len(b)
    PROVE  /\ SubSeq(b, 1, n) \in Seq(Parts) /\ SubSeq(b, n + 1, Len(b)) \in Seq(Parts)
           /\ SubSeq(b, 1, n) \o SubSeq(b, n + 1, Len(b)) = b
           /\ Len(SubSeq(b, 1, n)) = n
<1>1. Len(b) \in Nat /\ \A i \in 1..Len(b) : b[i] \in Parts
  OBVIOUS
<1>2. SubSeq(b, 1, n) \in Seq(Parts) /\ Len(SubSeq(b, 1, n)) = n
  BY <1>1, SubSeqProperties
<1>3. SubSeq(b, n + 1, Len(b)) \in Seq(Parts)
  BY <1>1, SubSeqProperties
<1>4. SubSeq(b, 1, n) \o SubSeq(b, n + 1, Len(b)) = SubSeq(b, 1, Len(b))
  <2>1. 1 \in 1..Len(b) + 1 /\ n \in (1 - 1)..Len(b) /\ Len(b) \in n..Len(b)
    BY <1>1
  <2> QED
    BY <2>1, ConcatAdjacentSubSeq, ZenonT(30)
<1> QED
  BY <1>2, <1>3, <1>4, SubSeqFull

\* A frame that is complete lies in the buffer.
LEMMA FrameFits ==
    ASSUME NEW b \in Seq(Parts)
    PROVE  FrameLength(b) \in 0..Len(b)
<1>1. Len(b) \in Nat /\ (b # <<>> => Len(b) >= 1)
  OBVIOUS
<1> QED
  BY <1>1 DEF FrameLength

\* A set of positions has a last one.
LEMMA HasLast ==
    ASSUME NEW n \in Nat, NEW S \in SUBSET (0..n), S # {}
    PROVE  \E last \in S : \A m \in S : last >= m
<1> DEFINE R == OpToRel(<, Nat)
           T == {n - m : m \in S}
<1>1. IsWellFoundedOn(R, Nat)
  BY NatLessThanWellFounded, Zenon
<1>2. \A x, y \in Nat : <<x, y>> \in R <=> x < y
  BY DEF OpToRel
<1> HIDE DEF R
<1>3. T \subseteq Nat /\ T # {}
  <2>1. \A m \in S : n - m \in Nat
    OBVIOUS
  <2>2. T \subseteq Nat
    BY <2>1, Zenon
  <2>3. PICK m : m \in S
    OBVIOUS
  <2>4. n - m \in T
    BY <2>3
  <2> QED
    BY <2>2, <2>4
<1>4. PICK x \in T : \A y \in T : ~(<<y, x>> \in R)
  <2> HIDE DEF T
  <2> QED
    BY <1>1, <1>3, WFMin
<1>5. PICK last \in S : x = n - last
  BY <1>4
<1>6. ASSUME NEW m \in S PROVE last >= m
  <2>1. n - m \in T /\ n - m \in Nat /\ x \in Nat
    BY <1>3, <1>4
  <2>2. ~(n - m < x)
    <3> HIDE DEF T
    <3> QED
      BY <1>2, <1>4, <2>1
  <2> QED
    BY <1>5, <2>1, <2>2
<1> QED
  BY <1>6

\* Cutting loses no part and moves none.
LEMMA CutSplits ==
    ASSUME NEW b \in Seq(Parts)
    PROVE  /\ Cut(b).whole \in Seq(Parts) /\ Cut(b).rest \in Seq(Parts)
           /\ Cut(b).whole \o Cut(b).rest = b
<1> DEFINE n == Max(Starts(b))
           whole == SubSeq(b, 1, n)
           rest == SubSeq(b, n + 1, Len(b))
<1>1. Len(b) \in Nat
  OBVIOUS
<1>2. Starts(b) \in SUBSET (0..Len(b)) /\ 0 \in Starts(b)
  BY <1>1 DEF Starts
<1>3. n \in Starts(b)
  BY <1>1, <1>2, HasLast DEF Max
<1>4. n \in 0..Len(b)
  BY <1>2, <1>3
<1>5. Cut(b) = [whole |-> whole, rest |-> rest]
  BY DEF Cut
<1> HIDE DEF n
<1>6. whole \in Seq(Parts) /\ rest \in Seq(Parts) /\ whole \o rest = b
  BY <1>4, SplitAnywhere
<1> HIDE DEF whole, rest
<1> QED
  BY <1>5, <1>6

\* What arrives next continues what has arrived.
LEMMA ArrivedContinues ==
    ASSUME StreamsRight, NEW r \in Robots, NEW n \in Nat, got[r] + n <= Len(stream[r])
    PROVE  /\ Arrived(r, n) \in Seq(Parts)
           /\ (taken[r] \o buffer[r]) \o Arrived(r, n) = SubSeq(stream[r], 1, got[r] + n)
<1> DEFINE s == stream[r]
           g == got[r]
<1>1. s \in Seq(Parts) /\ Len(s) \in Nat /\ g \in Nat /\ g + n <= Len(s)
  BY DEF StreamsRight
<1>2. taken[r] \o buffer[r] = SubSeq(s, 1, g) /\ Arrived(r, n) = SubSeq(s, g + 1, g + n)
  BY DEF StreamsRight, FramesInOrder, Arrived
<1> HIDE DEF s, g
<1>3. \A i \in (g + 1)..(g + n) : s[i] \in Parts
  BY <1>1
<1>4. SubSeq(s, g + 1, g + n) \in Seq(Parts)
  BY <1>1, <1>3, SubSeqProperties
<1>5. 1 \in 1..Len(s) + 1 /\ g \in (1 - 1)..Len(s) /\ g + n \in g..Len(s)
  BY <1>1
<1>6. SubSeq(s, 1, g) \o SubSeq(s, g + 1, g + n) = SubSeq(s, 1, g + n)
  BY <1>1, <1>5, ConcatAdjacentSubSeq, ZenonT(30)
<1> QED
  BY <1>2, <1>4, <1>6 DEF s, g

\* A step that concerns one bot.
LEMMA StreamsMove ==
    ASSUME StreamsRight, NEW r \in Robots,
           NEW s \in Seq(Parts), NEW g \in Nat, NEW b \in Seq(Parts), NEW t \in Seq(Parts),
           g <= Len(s), t \o b = SubSeq(s, 1, g),
           stream' = [stream EXCEPT ![r] = s], got' = [got EXCEPT ![r] = g],
           buffer' = [buffer EXCEPT ![r] = b], taken' = [taken EXCEPT ![r] = t]
    PROVE  StreamsRight'
<1>1. /\ stream' \in [Robots -> Seq(Parts)] /\ got' \in [Robots -> Nat]
      /\ buffer' \in [Robots -> Seq(Parts)] /\ taken' \in [Robots -> Seq(Parts)]
  BY DEF StreamsRight
<1>2. stream'[r] = s /\ got'[r] = g /\ buffer'[r] = b /\ taken'[r] = t
  BY DEF StreamsRight
<1>3. ASSUME NEW q \in Robots, q # r
      PROVE  stream'[q] = stream[q] /\ got'[q] = got[q] /\ buffer'[q] = buffer[q]
             /\ taken'[q] = taken[q]
  BY <1>3 DEF StreamsRight
<1>4. ASSUME NEW q \in Robots
      PROVE  got'[q] <= Len(stream'[q]) /\ taken'[q] \o buffer'[q] = SubSeq(stream'[q], 1, got'[q])
  <2>1. CASE q = r
    BY <1>2, <2>1
  <2>2. CASE q # r
    BY <1>3, <2>2 DEF StreamsRight, FramesInOrder
  <2> QED
    BY <2>1, <2>2
<1> QED
  BY <1>1, <1>4 DEF StreamsRight, FramesInOrder

\* The same when nothing is sent.
LEMMA BytesMove ==
    ASSUME StreamsRight, NEW r \in Robots, NEW n \in Nat, got[r] + n <= Len(stream[r]),
           NEW b \in Seq(Parts), NEW t \in Seq(Parts),
           t \o b = (taken[r] \o buffer[r]) \o Arrived(r, n),
           stream' = stream, got' = [got EXCEPT ![r] = @ + n],
           buffer' = [buffer EXCEPT ![r] = b], taken' = [taken EXCEPT ![r] = t]
    PROVE  StreamsRight'
<1>1. t \o b = SubSeq(stream[r], 1, got[r] + n)
  BY ArrivedContinues
<1>2. stream[r] \in Seq(Parts) /\ stream' = [stream EXCEPT ![r] = stream[r]]
  BY DEF StreamsRight
<1>3. got[r] + n \in Nat
  BY DEF StreamsRight
<1> QED
  BY <1>1, <1>2, <1>3, StreamsMove

\* A new connection begins with nothing.
LEMMA OpensStream ==
    ASSUME StreamsRight, NEW r \in Robots, Opens(r)
    PROVE  StreamsRight'
<1>1. <<>> \in Seq(Parts) /\ Len(<<>>) = 0
  OBVIOUS
<1>2. <<>> \o <<>> = <<>> /\ SubSeq(<<>>, 1, 0) = <<>>
  OBVIOUS
<1>3. stream' = [stream EXCEPT ![r] = <<>>] /\ got' = [got EXCEPT ![r] = 0]
      /\ buffer' = [buffer EXCEPT ![r] = <<>>] /\ taken' = [taken EXCEPT ![r] = <<>>]
  BY DEF Opens
<1>4. 0 \in Nat /\ 0 <= Len(<<>>)
  BY <1>1
<1> QED
  BY <1>1, <1>2, <1>3, <1>4, StreamsMove, ZenonT(30)

\* What is sent comes after what was sent.
LEMMA SendsStream ==
    ASSUME World, StreamsRight, NEW r \in Robots, NEW m \in setting.messages, Sends(r, m)
    PROVE  StreamsRight'
<1> DEFINE s == stream[r]
           g == got[r]
<1>1. Units(m) \in Seq(Parts)
  BY UnitsAreParts DEF World
<1>2. s \in Seq(Parts) /\ Len(s) \in Nat /\ g \in Nat /\ g <= Len(s)
      /\ buffer[r] \in Seq(Parts) /\ taken[r] \in Seq(Parts)
      /\ taken[r] \o buffer[r] = SubSeq(s, 1, g)
  BY DEF StreamsRight, FramesInOrder
<1>3. stream' = [stream EXCEPT ![r] = s \o Units(m)] /\ UNCHANGED <<got, buffer, taken>>
  BY DEF Sends
<1>4. got' = [got EXCEPT ![r] = g] /\ buffer' = [buffer EXCEPT ![r] = buffer[r]]
      /\ taken' = [taken EXCEPT ![r] = taken[r]]
  BY <1>3 DEF StreamsRight
<1> HIDE DEF s, g
<1>5. s \o Units(m) \in Seq(Parts) /\ Len(s \o Units(m)) >= Len(s)
  BY <1>1, <1>2
<1>6. SubSeq(s \o Units(m), 1, g) = SubSeq(s, 1, g)
  <2>1. CASE g = 0
    BY <2>1, SubSeqEmpty
  <2>2. CASE g # 0
    <3>1. 1 \in 1..Len(s) /\ g \in 1..Len(s)
      BY <1>2, <2>2
    <3> HIDE DEF s, g
    <3> DEFINE more == Units(m)
    <3>2. more \in Seq(Parts)
      BY <1>1
    <3> HIDE DEF more
    <3>3. SubSeq(s \o more, 1, g) = SubSeq(s, 1, g)
      BY <1>2, <3>1, <3>2, SubSeqOfConcat1
    <3> QED
      BY <3>3 DEF more
  <2> QED
    BY <2>1, <2>2
<1>7. g <= Len(s \o Units(m))
  BY <1>1, <1>2
<1>8. taken[r] \o buffer[r] = SubSeq(s \o Units(m), 1, g)
  BY <1>2, <1>6
<1> QED
  <2> DEFINE on == s \o Units(m)
  <2> HIDE DEF on
  <2>1. on \in Seq(Parts) /\ g <= Len(on) /\ taken[r] \o buffer[r] = SubSeq(on, 1, g)
        /\ stream' = [stream EXCEPT ![r] = on]
    BY <1>3, <1>5, <1>7, <1>8 DEF on
  <2> QED
    BY <1>2, <1>4, <2>1, StreamsMove

\* The handshake takes the frames that came with its answer, and leaves the rest.
LEMMA WelcomedStream ==
    ASSUME StreamsRight, NEW r \in Robots, NEW n \in Nat, Welcomed(r, n)
    PROVE  StreamsRight'
<1> DEFINE e == Arrived(r, n)
           cut == Cut(buffer[r] \o e)
<1>1. got[r] + n <= Len(stream[r]) /\ got' = [got EXCEPT ![r] = @ + n] /\ stream' = stream
  BY DEF Welcomed, Arriving
<1>2. e \in Seq(Parts)
  BY <1>1, ArrivedContinues
<1>3. buffer[r] \in Seq(Parts) /\ taken[r] \in Seq(Parts)
  BY DEF StreamsRight
<1>4. /\ buffer' = [buffer EXCEPT ![r] = cut.rest]
      /\ taken' = [taken EXCEPT ![r] = taken[r] \o cut.whole]
  BY DEF Welcomed
<1> HIDE DEF e
<1>5. buffer[r] \o e \in Seq(Parts)
  BY <1>2, <1>3
<1>6. cut.whole \in Seq(Parts) /\ cut.rest \in Seq(Parts) /\ cut.whole \o cut.rest = buffer[r] \o e
  BY <1>5, CutSplits
<1> DEFINE whole == cut.whole
           rest == cut.rest
<1> HIDE DEF whole, rest
<1>7. whole \in Seq(Parts) /\ rest \in Seq(Parts) /\ whole \o rest = buffer[r] \o e
      /\ buffer' = [buffer EXCEPT ![r] = rest] /\ taken' = [taken EXCEPT ![r] = taken[r] \o whole]
  BY <1>4, <1>6 DEF whole, rest
<1>8. taken[r] \o whole \in Seq(Parts)
  BY <1>3, <1>7
<1>9. (taken[r] \o whole) \o rest = (taken[r] \o buffer[r]) \o e
  <2>1. (taken[r] \o whole) \o rest = taken[r] \o (whole \o rest)
    BY <1>3, <1>7, PartsAssociate
  <2>2. (taken[r] \o buffer[r]) \o e = taken[r] \o (buffer[r] \o e)
    BY <1>2, <1>3, PartsAssociate
  <2> QED
    BY <1>7, <2>1, <2>2, Zenon
<1> QED
  BY <1>1, <1>7, <1>8, <1>9, BytesMove DEF e

\* A websocket message fills the buffer.
LEMMA ReceivesStream ==
    ASSUME StreamsRight, NEW r \in Robots, NEW n \in Nat, Receives(r, n)
    PROVE  StreamsRight'
<1> DEFINE e == Arrived(r, n)
<1>1. got[r] + n <= Len(stream[r]) /\ got' = [got EXCEPT ![r] = @ + n] /\ stream' = stream
      /\ buffer' = [buffer EXCEPT ![r] = buffer[r] \o e] /\ UNCHANGED taken
  BY DEF Receives, Arriving
<1>2. e \in Seq(Parts)
  BY <1>1, ArrivedContinues
<1>3. buffer[r] \in Seq(Parts) /\ taken[r] \in Seq(Parts) /\ taken' = [taken EXCEPT ![r] = taken[r]]
  BY <1>1 DEF StreamsRight
<1> HIDE DEF e
<1>4. buffer[r] \o e \in Seq(Parts)
  BY <1>2, <1>3
<1>5. taken[r] \o (buffer[r] \o e) = (taken[r] \o buffer[r]) \o e
  BY <1>2, <1>3, PartsAssociate
<1> QED
  BY <1>1, <1>3, <1>4, <1>5, BytesMove DEF e

\* A frame is cut off.
LEMMA TakesStream ==
    ASSUME StreamsRight, NEW r \in Robots, NEW frame, Takes(r, frame), UNCHANGED <<stream, got>>
    PROVE  StreamsRight'
<1> DEFINE b == buffer[r]
           n == FrameLength(b)
           rest == SubSeq(b, n + 1, Len(b))
<1>1. b \in Seq(Parts) /\ taken[r] \in Seq(Parts)
  BY DEF StreamsRight
<1>2. n \in 0..Len(b)
  BY <1>1, FrameFits
<1>3. frame = SubSeq(b, 1, n)
  BY DEF Takes
<1> HIDE DEF n
<1>4. /\ frame \in Seq(Parts) /\ rest \in Seq(Parts) /\ frame \o rest = b /\ Len(frame) = n
  BY <1>1, <1>2, <1>3, SplitAnywhere
<1>5. buffer' = [buffer EXCEPT ![r] = rest] /\ taken' = [taken EXCEPT ![r] = taken[r] \o frame]
  BY <1>4 DEF Takes
<1> HIDE DEF rest
<1>6. taken[r] \o frame \in Seq(Parts)
  BY <1>1, <1>4
<1>7. (taken[r] \o frame) \o rest = taken[r] \o (frame \o rest)
  BY <1>1, <1>4, PartsAssociate
<1>8. stream[r] \in Seq(Parts) /\ got[r] \in Nat /\ got[r] <= Len(stream[r])
      /\ taken[r] \o b = SubSeq(stream[r], 1, got[r])
      /\ stream' = [stream EXCEPT ![r] = stream[r]] /\ got' = [got EXCEPT ![r] = got[r]]
  BY DEF StreamsRight, FramesInOrder
<1> HIDE DEF b
<1> QED
  BY <1>4, <1>5, <1>6, <1>7, <1>8, StreamsMove

\* Nothing else touches them.
LEMMA StreamsStep ==
    ASSUME World, StreamsRight, [Next]_vars
    PROVE  StreamsRight'
<1>1. CASE UNCHANGED <<stream, got, buffer, taken>>
  BY <1>1 DEF StreamsRight, FramesInOrder
<1>2. CASE UNCHANGED inbound
  BY <1>1, <1>2 DEF inbound, socket
<1>3. ASSUME NEW r \in Robots, NEW m \in setting.messages, Sends(r, m) PROVE StreamsRight'
  BY <1>3, SendsStream
<1>4. ASSUME NEW r \in Robots, NEW n \in 0..(2 * setting.frames), Welcomed(r, n) \/ Receives(r, n)
      PROVE  StreamsRight'
  BY <1>4, WelcomedStream, ReceivesStream
<1>5. ASSUME NEW r \in Robots, Opens(r) PROVE StreamsRight'
  BY <1>5, OpensStream
<1>6. ASSUME NEW r \in Robots, Breaks(r) \/ LoopEnds(r) \/ Disconnects(r) \/ GroupGone(r)
      PROVE  StreamsRight'
  BY <1>1, <1>6 DEF Breaks, LoopEnds, Disconnects, GroupGone, inbound, socket
<1>7. ASSUME NEW r \in Robots, NEW c \in Chats, Evicts(r, c) PROVE StreamsRight'
  BY <1>1, <1>7 DEF Evicts, socket
<1>8. ASSUME NEW r \in Robots, Handles(r) PROVE StreamsRight'
  <2>1. ASSUME NEW frame, TakesToPass(r, frame) \/ \E m \in Messages : TakesMessage(r, frame, m)
        PROVE  StreamsRight'
    BY <2>1, TakesStream DEF TakesToPass, TakesMessage
  <2>2. CASE UNCHANGED socket
    BY <1>1, <2>2 DEF socket
  <2> QED
    BY <1>8, <2>1, <2>2 DEF Handles, FileLoaded, RosterRecent, RosterFails, RosterStale,
       RosterFetched, ContextBuilt, Dispatches
<1>9. CASE InboundNext
  BY <1>3, <1>4, <1>5, <1>6, <1>7, <1>8, <1>9 DEF InboundNext
<1>10. CASE \E u \in People : Moves(u)
  BY <1>2, <1>10 DEF Moves
<1> QED
  BY <1>2, <1>9, <1>10 DEF Next, vars

LEMMA StreamsInvariant == Spec => []StreamsRight
<1>1. Init => StreamsRight
  <2> SUFFICES ASSUME Init PROVE StreamsRight
    OBVIOUS
  <2>1. /\ stream = [r \in Robots |-> <<>>] /\ got = [r \in Robots |-> 0]
        /\ buffer = [r \in Robots |-> <<>>] /\ taken = [r \in Robots |-> <<>>]
    BY DEF Init, InboundInit
  <2>2. <<>> \in Seq(Parts) /\ Len(<<>>) = 0 /\ <<>> \o <<>> = <<>> /\ SubSeq(<<>>, 1, 0) = <<>>
    OBVIOUS
  <2> QED
    BY <2>1, <2>2 DEF StreamsRight, FramesInOrder
<1>2. IInv /\ StreamsRight /\ [Next]_vars => StreamsRight'
  BY StreamsStep DEF IInv, InboundInv
<1> QED
  BY <1>1, <1>2, Invariant, PTL DEF Spec

-----------------------------------------------------------------------------
(* Types.                                                                  *)

\* What the other parts of the invariant do not say: the routes and the snapshot
\* name chats, nothing exceeds its bound, and a message is only in work while its
\* receive loop runs.
Lives == {"down", "opening", "open", "lost"}
RoutesTyped ==
    /\ owner \in Owners /\ contested \in SUBSET Chats /\ wired \in SUBSET Chats
    /\ disk \in Books
Counted == troubles \in 0..setting.troubles /\ sent \in 0..setting.frames
           /\ begun \in 0..setting.deliveries
LoopsRight ==
    /\ life \in [Robots -> Lives] /\ loop \in [Robots -> BOOLEAN] /\ asked \in [Robots -> BOOLEAN]
    /\ \A r \in Robots : handler[r] # Idle => loop[r]
TurnsPlaced == \A t \in turns : t.chat = ChatId(t.robot, t.msg)
TypesRight == RoutesTyped /\ Counted /\ LoopsRight /\ TurnsPlaced

\* What a delivery leaves alone: it counts when it begins.
LEMMA DeliveryLeaves ==
    ASSUME Delivery
    PROVE  /\ UNCHANGED <<setting, members, life, kinds, routes, troubles>>
           /\ UNCHANGED begun \/ (begun < setting.deliveries /\ begun' = begun + 1)
<1> DEFINE Same == UNCHANGED <<setting, members, life, kinds, routes, troubles>>
           Counts == UNCHANGED begun \/ (begun < setting.deliveries /\ begun' = begun + 1)
<1>1. ASSUME NEW o, NEW c, NEW form, NEW who, Begins(o, c, form, who) PROVE Same /\ Counts
  BY <1>1 DEF Begins
<1>2. ASSUME NEW c, NEW who, BeginsAlone(c, who) PROVE Same /\ Counts
  BY <1>2 DEF BeginsAlone, conversations, memory
<1>3. CASE Delivers
  BY <1>3 DEF Delivers, RosterAnswered, Loaded, Uploaded, Posted, PostFails, conversations, memory
<1> HIDE DEF Same, Counts
<1>4. Same /\ Counts
  <2>1. CASE Delivers
    BY <1>3, <2>1 DEF Same, Counts
  <2> QED
    BY <1>1, <1>2, <2>1 DEF Delivery
<1> QED
  BY <1>4 DEF Same, Counts

\* What the handling of a message leaves alone.
LEMMA HandlesLeaves ==
    ASSUME NEW r \in Robots, Handles(r)
    PROVE  UNCHANGED <<setting, members, life, disk, troubles, stream, got, loop, sent>>
<1>1. ASSUME NEW frame, TakesToPass(r, frame) \/ \E m \in Messages : TakesMessage(r, frame, m)
      PROVE  UNCHANGED <<setting, members, life, disk, troubles, stream, got, loop, sent>>
  BY <1>1 DEF TakesToPass, TakesMessage, conversations, routes
<1>2. CASE FileLoaded(r) \/ ContextBuilt(r) \/ Dispatches(r)
  BY <1>2 DEF FileLoaded, ContextBuilt, Dispatches, conversations, routes, socket
<1>3. CASE RosterRecent(r) \/ RosterFails(r) \/ RosterStale(r)
           \/ \E known \in BOOLEAN : RosterFetched(r, known)
  BY <1>3 DEF RosterRecent, RosterFails, RosterStale, RosterFetched, conversations, routes, socket
<1> QED
  BY <1>1, <1>2, <1>3 DEF Handles

\* A step of receiving counts a trouble or a frame, or nothing.
LEMMA InboundCounts ==
    ASSUME InboundNext
    PROVE  /\ UNCHANGED setting
           /\ UNCHANGED troubles \/ Trouble
           /\ UNCHANGED sent \/ (sent < setting.frames /\ sent' = sent + 1)
<1> DEFINE Done == /\ UNCHANGED setting
                   /\ UNCHANGED troubles \/ Trouble
                   /\ UNCHANGED sent \/ (sent < setting.frames /\ sent' = sent + 1)
<1>1. ASSUME NEW r \in Robots, NEW m, Sends(r, m) PROVE Done
  BY <1>1 DEF Sends, conversations
<1>2. ASSUME NEW r \in Robots, NEW n, Welcomed(r, n) \/ Receives(r, n) PROVE Done
  BY <1>2 DEF Welcomed, Receives, conversations
<1>3. ASSUME NEW r \in Robots, Opens(r) \/ LoopEnds(r) PROVE Done
  BY <1>3 DEF Opens, LoopEnds
<1>4. ASSUME NEW r \in Robots, Breaks(r) \/ Disconnects(r) \/ GroupGone(r) PROVE Done
  BY <1>4 DEF Breaks, Disconnects, GroupGone, inbound, socket
<1>5. ASSUME NEW r \in Robots, NEW c, Evicts(r, c) PROVE Done
  BY <1>5 DEF Evicts, socket
<1>6. ASSUME NEW r \in Robots, Handles(r) PROVE Done
  BY <1>6, HandlesLeaves
<1> HIDE DEF Done
<1>7. Done
  BY <1>1, <1>2, <1>3, <1>4, <1>5, <1>6 DEF InboundNext
<1> QED
  BY <1>7 DEF Done

\* A bind, the write of the snapshot and a release leave routes of chats.
LEMMA RoutesStep ==
    ASSUME IInv, RoutesTyped, [Next]_vars
    PROVE  RoutesTyped'
<1>1. CASE UNCHANGED routes
  BY <1>1 DEF RoutesTyped, routes
<1>2. ASSUME NEW r \in Robots, Dispatches(r) PROVE RoutesTyped'
  <2> DEFINE c == ChatId(r, handler[r].msg)
  <2>1. handler[r].msg \in Messages
    BY <1>2 DEF Dispatches, IInv, InboundInv, HandlersGated, Idle
  <2>2. c \in Chats
    BY <2>1, ChatOfMessage
  <2>3. Binds(r, c) /\ UNCHANGED disk
    BY <1>2 DEF Dispatches
  <2> HIDE DEF c
  <2> QED
    BY <2>2, <2>3 DEF Binds, RoutesTyped, Owners
<1>3. CASE Flush
  BY <1>3 DEF Flush, RoutesTyped, Routes, Books
<1>4. ASSUME NEW r \in Robots, NEW c \in Chats, Forget(r, c) PROVE RoutesTyped'
  <2>1. owner' \in Owners /\ wired' \in SUBSET Chats /\ UNCHANGED contested
    BY <1>4 DEF Forget, RoutesTyped, Owners
  <2>2. disk' = [owner |-> owner', contested |-> contested, wired |-> wired']
    BY <1>4 DEF Forget
  <2> QED
    BY <2>1, <2>2 DEF RoutesTyped, Books
<1>5. CASE InboundNext
  <2>1. ASSUME NEW r \in Robots, Handles(r) PROVE UNCHANGED routes \/ Dispatches(r)
    BY <2>1 DEF Handles, TakesToPass, TakesMessage, FileLoaded, RosterRecent, RosterFails,
       RosterStale, RosterFetched, ContextBuilt, conversations
  <2>2. UNCHANGED routes \/ \E r \in Robots : Dispatches(r)
    BY <1>5, <2>1 DEF InboundNext, Sends, Welcomed, Receives, Opens, Breaks, LoopEnds,
       Disconnects, GroupGone, Evicts, conversations
  <2> QED
    BY <1>1, <1>2, <2>2
<1>6. CASE Delivery
  BY <1>1, <1>6, DeliveryLeaves
<1>7. CASE \E u \in People : Moves(u)
  BY <1>1, <1>7 DEF Moves
<1> QED
  BY <1>1, <1>3, <1>4, <1>5, <1>6, <1>7 DEF Next, vars, conversations

\* Only a trouble, a frame and a delivery count, each below its bound.
LEMMA CountsStep ==
    ASSUME IInv, Counted, [Next]_vars
    PROVE  Counted'
<1>1. setting.troubles \in Nat /\ setting.frames \in Nat /\ setting.deliveries \in Nat
  BY DEF IInv, InboundInv, World
<1>2. /\ UNCHANGED setting
      /\ UNCHANGED troubles \/ Trouble
      /\ UNCHANGED sent \/ (sent < setting.frames /\ sent' = sent + 1)
      /\ UNCHANGED begun \/ (begun < setting.deliveries /\ begun' = begun + 1)
  <2>1. CASE InboundNext /\ UNCHANGED outbound
    BY <2>1, InboundCounts DEF outbound
  <2>2. CASE Delivery /\ UNCHANGED inbound
    BY <2>2, DeliveryLeaves DEF inbound, socket
  <2>3. CASE (Flush \/ \E r \in Robots, c \in Chats : Forget(r, c)) /\ UNCHANGED <<inbound, outbound>>
    BY <2>3 DEF Flush, Forget, inbound, socket, outbound
  <2>4. CASE \E u \in People : Moves(u)
    BY <2>4 DEF Moves, inbound, socket
  <2>5. CASE UNCHANGED vars
    BY <2>5 DEF vars, conversations, inbound, socket, outbound
  <2> QED
    BY <2>1, <2>2, <2>3, <2>4, <2>5 DEF Next
<1> QED
  BY <1>1, <1>2 DEF Counted, Trouble

\* A loop that ends has no message in work, or its message is cancelled with it.
LEMMA LoopsStep ==
    ASSUME IInv, LoopsRight, [Next]_vars
    PROVE  LoopsRight'
<1> USE DEF LoopsRight
<1>1. handler \in [Robots -> {Idle} \union [pc : Waits, msg : Messages]]
  BY DEF IInv, InboundInv, HandlersGated
<1>2. CASE UNCHANGED <<life, loop, asked, handler>>
  BY <1>2
<1>3. ASSUME NEW r \in Robots, handler'[r] = Idle \/ loop[r],
             UNCHANGED <<life, loop>>,
             asked' \in {asked} \union {[asked EXCEPT ![r] = a] : a \in BOOLEAN},
             \A q \in Robots \ {r} : handler'[q] = handler[q]
      PROVE  LoopsRight'
  BY <1>3
<1>4. ASSUME NEW r \in Robots, NEW new, handler' = [handler EXCEPT ![r] = new]
      PROVE  handler'[r] = new /\ \A q \in Robots \ {r} : handler'[q] = handler[q]
  BY <1>1, <1>4
<1>5. ASSUME NEW r \in Robots, handler[r].pc # "idle" PROVE loop[r]
  BY <1>5 DEF Idle
<1>6. ASSUME NEW r \in Robots, NEW m \in setting.messages, Sends(r, m) PROVE LoopsRight'
  BY <1>2, <1>6 DEF Sends, conversations, roster
<1>7. ASSUME NEW r \in Robots, NEW n, Welcomed(r, n) PROVE LoopsRight'
  BY <1>1, <1>7 DEF Welcomed, roster, Lives
<1>8. ASSUME NEW r \in Robots, NEW n, Receives(r, n) PROVE LoopsRight'
  BY <1>2, <1>8 DEF Receives, conversations, roster
<1>9. ASSUME NEW r \in Robots, Opens(r) \/ Breaks(r) PROVE LoopsRight'
  BY <1>9 DEF Opens, Breaks, roster, inbound, socket, Lives
<1>10. ASSUME NEW r \in Robots, LoopEnds(r) PROVE LoopsRight'
  BY <1>10 DEF LoopEnds, roster, Lives
<1>11. ASSUME NEW r \in Robots, Disconnects(r) PROVE LoopsRight'
  BY <1>1, <1>11 DEF Disconnects, roster, Lives
<1>12. ASSUME NEW r \in Robots, GroupGone(r) PROVE LoopsRight'
  <2>1. handler' = [handler EXCEPT ![r] = IF handler[r].pc = "roster"
                        THEN [handler[r] EXCEPT !.pc = "stale"] ELSE handler[r]]
    BY <1>12 DEF GroupGone
  <2>2. handler'[r] = Idle \/ loop[r]
    BY <1>4, <1>5, <2>1
  <2> QED
    BY <1>3, <1>4, <1>12, <2>1, <2>2 DEF GroupGone, ForgetsRoster, socket
<1>13. ASSUME NEW r \in Robots, NEW c \in Chats, Evicts(r, c) PROVE LoopsRight'
  BY <1>13 DEF Evicts, ForgetsRoster, socket
<1>14. ASSUME NEW r \in Robots, Handles(r) PROVE LoopsRight'
  <2>1. ASSUME NEW frame, TakesToPass(r, frame) PROVE LoopsRight'
    BY <1>2, <2>1 DEF TakesToPass, conversations, roster
  <2>2. ASSUME NEW frame, NEW m \in Messages, TakesMessage(r, frame, m) PROVE LoopsRight'
    <3>1. loop[r] /\ UNCHANGED <<life, loop, asked>>
      BY <2>2 DEF TakesMessage, Takes, roster
    <3>2. UNCHANGED handler \/ \E new : handler' = [handler EXCEPT ![r] = new]
      BY <2>2 DEF TakesMessage, GoesOn
    <3> QED
      BY <1>2, <1>3, <1>4, <3>1, <3>2
  <2>3. CASE FileLoaded(r) \/ ContextBuilt(r) \/ Dispatches(r)
    <3>1. loop[r] /\ UNCHANGED <<life, loop, asked>>
      BY <1>5, <2>3 DEF FileLoaded, ContextBuilt, Dispatches, conversations, socket, roster
    <3>2. \E new : handler' = [handler EXCEPT ![r] = new]
      BY <2>3 DEF FileLoaded, ContextBuilt, Dispatches, GoesOn
    <3> QED
      BY <1>3, <1>4, <3>1, <3>2
  <2>4. CASE RosterRecent(r) \/ RosterFails(r) \/ RosterStale(r)
             \/ \E known \in BOOLEAN : RosterFetched(r, known)
    <3>1. loop[r] /\ UNCHANGED <<life, loop>> /\ asked' \in {asked, [asked EXCEPT ![r] = TRUE]}
      BY <1>5, <2>4 DEF RosterRecent, RosterFails, RosterStale, RosterFetched, conversations,
         socket, roster
    <3>2. PICK f, n : Gate(r, f, n)
      BY <2>4 DEF RosterRecent, RosterFails, RosterStale, RosterFetched
    <3>3. handler' = [handler EXCEPT ![r] =
             IF Admits(handler[r].msg, f, n) THEN [pc |-> "context", msg |-> handler[r].msg]
             ELSE Idle]
      BY <3>2 DEF Gate
    <3>4. \A q \in Robots \ {r} : handler'[q] = handler[q]
      BY <1>4, <3>3
    <3>5. asked' \in {asked} \union {[asked EXCEPT ![r] = a] : a \in BOOLEAN}
      BY <3>1
    <3> QED
      BY <1>3, <3>1, <3>4, <3>5
  <2> QED
    BY <1>14, <2>1, <2>2, <2>3, <2>4 DEF Handles
<1>15. CASE InboundNext
  <2> HIDE DEF LoopsRight
  <2> QED
    BY <1>6, <1>7, <1>8, <1>9, <1>10, <1>11, <1>12, <1>13, <1>14, <1>15 DEF InboundNext
<1>16. CASE Delivery /\ UNCHANGED inbound
  BY <1>2, <1>16, DeliveryLeaves DEF inbound, socket, roster
<1>17. CASE (Flush \/ \E r \in Robots, c \in Chats : Forget(r, c)) /\ UNCHANGED inbound
  BY <1>2, <1>17 DEF Flush, Forget, inbound, socket, roster
<1>18. CASE \E u \in People : Moves(u)
  BY <1>2, <1>18 DEF Moves, inbound, socket, roster
<1>19. CASE UNCHANGED vars
  BY <1>2, <1>19 DEF vars, conversations, inbound, socket, roster
<1> QED
  BY <1>15, <1>16, <1>17, <1>18, <1>19 DEF Next

\* A turn has the chat that its message belongs to.
LEMMA TurnsStep ==
    ASSUME IInv, TurnsPlaced, [Next]_vars
    PROVE  TurnsPlaced'
<1>1. \/ UNCHANGED turns
      \/ \E r \in Robots : turns' = turns \union
            {[robot |-> r, msg |-> handler[r].msg, chat |-> ChatId(r, handler[r].msg)]}
  <2>1. ASSUME NEW r \in Robots, Handles(r)
        PROVE  \/ UNCHANGED turns
               \/ turns' = turns \union
                     {[robot |-> r, msg |-> handler[r].msg, chat |-> ChatId(r, handler[r].msg)]}
    BY <2>1 DEF Handles, TakesToPass, TakesMessage, FileLoaded, RosterRecent, RosterFails,
       RosterStale, RosterFetched, ContextBuilt, Dispatches
  <2>2. UNCHANGED turns \/ \E r \in Robots : Handles(r)
    BY DEF Next, InboundNext, Sends, Welcomed, Receives, Opens, Breaks, LoopEnds,
       Disconnects, GroupGone, Evicts, Moves, inbound, vars
  <2> QED
    BY <2>1, <2>2
<1>2. UNCHANGED setting
  BY InboundCounts, DeliveryLeaves DEF Next, Flush, Forget, Moves, vars, conversations
<1>3. \A r, m : ChatId(r, m)' = ChatId(r, m)
  BY <1>2 DEF ChatId
<1> QED
  BY <1>1, <1>3 DEF TurnsPlaced

LEMMA TypesInvariant == Spec => []TypesRight
<1>1. Init => TypesRight
  <2> SUFFICES ASSUME Init PROVE TypesRight
    OBVIOUS
  <2> USE DEF Init, ConversationsInit, InboundInit, OutboundInit
  <2>1. disk \in Books /\ owner = disk.owner /\ contested = disk.contested /\ wired = disk.wired
    OBVIOUS
  <2>2. RoutesTyped
    BY <2>1 DEF RoutesTyped, Books
  <2>3. Counted /\ LoopsRight /\ TurnsPlaced
    BY DEF Counted, LoopsRight, TurnsPlaced, Lives
  <2> QED
    BY <2>2, <2>3 DEF TypesRight
<1>2. IInv /\ TypesRight /\ [Next]_vars => TypesRight'
  BY RoutesStep, CountsStep, LoopsStep, TurnsStep DEF TypesRight
<1> QED
  BY <1>1, <1>2, Invariant, PTL DEF Spec

-----------------------------------------------------------------------------
(* Theorems.                                                               *)

\* Every piece goes to the real place of its chat whenever a route or the sending
\* bot's memory knows it, and no bot answers for another (resolve_outbound,
\* _resolve_channel_type, _outbound_channel_id, _standalone_send).
THEOREM AnswersGoHome == Spec => []AnswerGoesHome
<1>1. IInv => AnswerGoesHome
  BY DEF IInv, DeliveryInv, DeliveryRight, PostedRight, AnswerGoesHome, PiecesGoHome,
         NobodyAnswersForAnother
<1> QED
  BY <1>1, Invariant, PTL

\* What is reported as sent has reached the server, every piece once and in order,
\* and of what is refused nothing has (send, send_image, send_document, send_voice,
\* send_video).
THEOREM ReportsAreTrue == Spec => []SuccessIsDelivered
<1>1. IInv => SuccessIsDelivered
  BY DEF IInv, DeliveryInv, DeliveryRight, PostedRight, SuccessIsDelivered, None
<1> QED
  BY <1>1, Invariant, PTL

\* Nobody is mentioned who was not in the group during the delivery
\* (_mention_uid_allowlist).
THEOREM MentionsAreMembers == Spec => []OnlyMembersMentioned
<1>1. IInv => OnlyMembersMentioned
  BY DEF IInv, DeliveryInv, DeliveryRight, PostedRight, OnlyMembersMentioned
<1> QED
  BY <1>1, Invariant, PTL

\* No turn starts from a group message that neither addressed the bot nor was said
\* by a person to a bot that listens (_handle_recv).
THEOREM BotsAreAddressed == Spec => []BotsNeedMention
<1>1. IInv => BotsNeedMention
  BY DEF IInv, InboundInv
<1> QED
  BY <1>1, Invariant, PTL

\* The frames that were taken on a connection and the bytes that wait are what the
\* server sent on it, in order, whatever a websocket message is cut into and
\* whatever a lost connection left behind (_receive_loop, _do_connect,
\* try_unpack_one).
THEOREM FramesStayWhole == Spec => []FramesInOrder
<1>1. StreamsRight => FramesInOrder
  BY DEF StreamsRight
<1> QED
  BY <1>1, StreamsInvariant, PTL

\* Everything has its type; a delivery is done exactly when it has a result, a
\* message is in work only while its receive loop runs, and a turn has its
\* message's chat (_handle_recv, _disconnect_locked, send).
THEOREM TypeCorrect == Spec => []TypeOK
<1> SUFFICES ASSUME IInv, StreamsRight, TypesRight PROVE TypeOK
  BY Invariant, StreamsInvariant, TypesInvariant, PTL
<1>1. ConversationsTypeOK
  BY DEF IInv, InboundInv, World, MemoryAgrees, TypesRight, RoutesTyped, Counted, LoopsRight,
         Lives, ConversationsTypeOK
<1>2. InboundTypeOK
  <2>1. \A r \in Robots : got[r] \in 0..Len(stream[r])
    BY DEF StreamsRight
  <2> QED
    BY <2>1 DEF IInv, InboundInv, RostersRight, Classes, HandlersGated, StreamsRight, Parts,
           TypesRight, Counted, LoopsRight, TurnsPlaced, InboundTypeOK
<1>3. OutboundTypeOK
  <2>1. delivery = None \/ delivery \in Deliveries
    BY DEF IInv, DeliveryInv
  <2>2. delivery.pc = "done" <=> delivery.result \in {"refused", "failed", "sent"}
    BY DEF IInv, DeliveryInv, Deliveries, None
  <2>3. \A i \in DOMAIN posted : posted[i] \in
            [robot : Robots, to : Places, piece : {"text", "rich", "media"}, uids : SUBSET Users]
    <3> DEFINE Sent == [robot : Robots, to : Places, piece : {"text", "rich", "media"},
                        uids : SUBSET Users]
    <3>1. posted \in Seq(Sent)
      BY DEF IInv, DeliveryInv
    <3> HIDE DEF Sent
    <3>2. \A i \in DOMAIN posted : posted[i] \in Sent
      BY <3>1
    <3> QED
      BY <3>2 DEF Sent
  <2>4. begun \in 0..setting.deliveries
    BY DEF TypesRight, Counted
  <2> QED
    BY <2>1, <2>2, <2>3, <2>4, Zenon DEF OutboundTypeOK
<1> QED
  BY <1>1, <1>2, <1>3 DEF TypeOK
=============================================================================
