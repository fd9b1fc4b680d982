----------------------------- MODULE Outbound ------------------------------
(***************************************************************************)
(* From an answer of the gateway to the messages of a chat: which bot sends *)
(* it, where to, whom it mentions and in which pieces                       *)
(* (src/hermes_octo_plugin/adapter.py, api.py).                             *)
(*                                                                         *)
(* A delivery is asked for by a turn of a bot, by a session of the gateway, *)
(* by code that knows nothing but the chat, or by a process of its own.     *)
(***************************************************************************)
EXTENDS Conversations

CONSTANTS
    HomeChannel   \* the configured home channel

ASSUME OutboundAssumption ==
    /\ HomeChannel \in Chats
    \* bounds: what is delivered, see Pieces, and how many deliveries there are
    /\ \A s \in Settings : /\ s.forms \subseteq {"short", "long", "picture", "media"}
                           /\ s.deliveries \in Nat

VARIABLES
    delivery,  \* the present delivery
    posted,    \* history: its pieces that reached the server
    begun      \* deliveries so far

outbound == <<delivery, posted, begun>>

\* A long text has two chunks; a picture of known size carries its caption in one
\* message, other media have theirs behind them.
Pieces(form) == CASE form = "short"   -> <<"text">>
                  [] form = "long"    -> <<"text", "text">>
                  [] form = "picture" -> <<"rich">>
                  [] form = "media"   -> <<"media", "text">>

Origins ==
    [via : {"turn"}, robot : Robots] \union [via : {"session"}, chat : Chats]
    \union [via : {"chat", "alone"}]

None == [pc |-> "none", result |-> "none"]

Deliveries ==
    [pc : {"roster", "load", "upload", "post", "done"}, origin : Origins, chat : Chats,
     form : setting.forms \union {"short"}, who : Users \union {Nobody}, robot : Robots \union {Nobody},
     to : Places, uids : SUBSET Users, result : {"none", "refused", "failed", "sent"},
     claim : Robots \union {Nobody}, told : BOOLEAN, insiders : SUBSET Users]

OutboundTypeOK ==
    /\ delivery = None \/ delivery \in Deliveries
    /\ begun \in 0..setting.deliveries
    /\ delivery.pc = "done" <=> delivery.result \in {"refused", "failed", "sent"}
    /\ \A i \in DOMAIN posted :
          posted[i] \in [robot : Robots, to : Places, piece : {"text", "rich", "media"},
                         uids : SUBSET Users]

OutboundInit == delivery = None /\ posted = <<>> /\ begun = 0

-----------------------------------------------------------------------------
(* Who sends.                                                              *)

\* current_robot_id, or the route of the session.
Context(o) ==
    CASE o.via = "turn"    -> o.robot
      [] o.via = "session" -> owner[o.chat]
      [] o.via = "chat"    -> Nobody

SenderUnchecked(o, c) ==  \* mutant: the context alone decides
    IF setting.sole THEN Primary
    ELSE IF Context(o) # Nobody THEN Context(o)
    ELSE IF LookedUp(Routes, c) THEN owner[c] ELSE Nobody

\* resolve_outbound.  A route that is contested, owned by another bot or without
\* a wire id refuses; only a chat that no route knows is left to the context, or
\* to the legacy primary when it is the home channel.
Sender(o, c) ==
    LET ctx == Context(o)
        r == IF ctx # Nobody THEN ctx
             ELSE IF LookedUp(Routes, c) THEN owner[c]
             ELSE IF c = HomeChannel THEN Primary ELSE Nobody
        fits == IF LookedUp(Routes, c) THEN owner[c] = r ELSE ~HasState(Routes, c)
        clash == o.via = "session" /\ o.chat \in contested
    IN  IF setting.sole THEN Primary
        ELSE IF r # Nobody /\ ~clash /\ fits /\ Connected(r) THEN r ELSE Nobody

\* The same for a process of its own, which has the files only; it asks the
\* server which token is whose, and may get no answer.
StandaloneSender(c) ==
    IF setting.sole THEN Primary
    ELSE IF LookedUp(disk, c) THEN disk.owner[c]
    ELSE IF ~HasState(disk, c) /\ c = HomeChannel THEN Primary ELSE Nobody

-----------------------------------------------------------------------------
(* Where to.                                                               *)

\* _resolve_channel_type without any knowledge: a uid has the form of a uid,
\* everything else is taken for a group.
Guess(c) == IF c = Plain THEN "dm" ELSE "group"

KindOf(r, c, routed) == IF routed \/ c \in kinds[r] THEN HomeOf(c).kind ELSE Guess(c)

\* _outbound_channel_id: a plain id is the peer's uid.
PlaceOf(kind, c, known) ==
    [kind |-> kind,
     id |-> IF kind = "dm" /\ (c \in known \/ c = Plain) THEN "peer" ELSE "own"]

RefreshesNothing(r, c, routed) == targets  \* mutant

\* A route that was looked up brings the wire target of a DM back.
Refreshed(r, c, routed) ==
    IF routed /\ c # Group THEN [targets EXCEPT ![r] = @ \union {c}] ELSE targets

\* The awaits of send_image, send_document, send_voice and send_video, and of a text:
\* a mention of somebody in a group asks for the members, media are loaded and
\* uploaded, and then the pieces are posted.
AfterRoster(form) == IF form \in {"picture", "media"} THEN "load" ELSE "post"
FirstAwait(who, kind, form) ==
    IF who # Nobody /\ kind = "group" THEN "roster" ELSE AfterRoster(form)

Refused(d) == [d EXCEPT !.pc = "done", !.result = "refused"]
Failed(d) == [d EXCEPT !.pc = "done", !.result = "failed"]

\* A runtime that has no session refuses as well.
Begins(o, c, form, who) ==
    LET r == Sender(o, c)
        routed == ~setting.sole /\ LookedUp(Routes, c)
        kind == KindOf(r, c, routed)
        d == [pc |-> "post", origin |-> o, chat |-> c, form |-> form, who |-> who,
              robot |-> r, to |-> GroupPlace, uids |-> {}, result |-> "none",
              claim |-> owner[c], told |-> r # Nobody /\ (routed \/ c \in kinds[r]),
              insiders |-> members]
    IN  /\ begun < setting.deliveries /\ begun' = begun + 1
        /\ delivery.pc \in {"none", "done"} /\ posted' = <<>>
        /\ IF r = Nobody
           THEN delivery' = Refused(d) /\ UNCHANGED targets
           ELSE /\ targets' = Refreshed(r, c, routed)
                /\ \/ delivery' = [d EXCEPT !.pc = FirstAwait(who, kind, form),
                                            !.to = PlaceOf(kind, c, targets'[r])]
                   \/ life[r] # "open" /\ delivery' = Refused(d)
        /\ UNCHANGED <<setting, members, life, kinds, routes, troubles>>

\* _standalone_send: one text, however long; without a route every chat but a
\* thread is taken for a group.
BeginsAlone(c, who) ==
    LET r == StandaloneSender(c)
        routed == ~setting.sole /\ LookedUp(disk, c)
        d == [pc |-> "post", origin |-> [via |-> "alone"], chat |-> c, form |-> "short",
              who |-> who, robot |-> r, to |-> IF routed THEN HomeOf(c) ELSE GroupPlace,
              uids |-> {}, result |-> "none", claim |-> disk.owner[c], told |-> routed,
              insiders |-> members]
    IN  /\ begun < setting.deliveries /\ begun' = begun + 1
        /\ delivery.pc \in {"none", "done"} /\ posted' = <<>>
        /\ delivery' \in (IF r = Nobody THEN {} ELSE
                             {[d EXCEPT !.pc = IF who = Nobody THEN "post" ELSE "roster"]})
                         \union {Refused(d)}
        /\ UNCHANGED conversations

-----------------------------------------------------------------------------
(* Whom it mentions, and in which pieces.                                  *)

VerifiedBySender(who, c, answered) ==  \* mutant: the uid of the model is taken
    {who}

\* _mention_uid_allowlist: who is in the group now, nobody when the request fails
\* or there is no such group.
Verified(who, c, answered) ==
    IF answered /\ c = Group THEN {who} \intersect members ELSE {}
RosterAnswered(answered) ==
    /\ delivery.pc = "roster"
    /\ delivery' = [delivery EXCEPT
          !.uids = Verified(delivery.who, delivery.chat, answered),
          !.pc = AfterRoster(delivery.form)]
    /\ UNCHANGED <<conversations, posted, begun>>

\* Media that cannot be read, checked or uploaded fail before anything is posted.
Loaded(ok) ==
    /\ delivery.pc = "load"
    /\ delivery' = IF ok THEN [delivery EXCEPT !.pc = "upload"] ELSE Failed(delivery)
    /\ UNCHANGED <<conversations, posted, begun>>

Uploaded(ok) ==
    /\ delivery.pc = "upload"
    /\ delivery' = IF ok THEN [delivery EXCEPT !.pc = "post"] ELSE Failed(delivery)
    /\ UNCHANGED <<conversations, posted, begun>>

\* Media have no mentions, their caption has.
MentionsOf(piece) == IF piece = "media" THEN {} ELSE delivery.uids

Message(piece) ==
    [robot |-> delivery.robot, to |-> delivery.to, piece |-> piece, uids |-> MentionsOf(piece)]
NextPiece == Message(Pieces(delivery.form)[Len(posted) + 1])

Posted ==
    /\ delivery.pc = "post"
    /\ posted' = Append(posted, NextPiece)
    /\ delivery' = IF Len(posted') = Len(Pieces(delivery.form))
                   THEN [delivery EXCEPT !.pc = "done", !.result = "sent"] ELSE delivery
    /\ UNCHANGED <<conversations, begun>>

PostFailsQuietly ==  \* mutant: only the last answer counts
    /\ delivery.pc = "post"
    /\ posted' \in {posted, Append(posted, NextPiece)}
    /\ delivery' = [delivery EXCEPT !.pc = "done",
                        !.result = IF Len(posted) + 1 = Len(Pieces(delivery.form))
                                   THEN "failed" ELSE "sent"]
    /\ UNCHANGED <<conversations, begun>>

\* The request fails, or its answer has no message id: the rest is not sent.
PostFails ==
    /\ delivery.pc = "post"
    /\ posted' \in {posted, Append(posted, NextPiece)}
    /\ delivery' = Failed(delivery)
    /\ UNCHANGED <<conversations, begun>>

Delivers ==
    \/ \E answered \in BOOLEAN : RosterAnswered(answered)
    \/ \E ok \in BOOLEAN : Loaded(ok) \/ Uploaded(ok)
    \/ Posted
    \/ PostFails

-----------------------------------------------------------------------------
(* Properties.                                                             *)

\* Every piece goes to the real place of its chat whenever a route or the memory
\* of the sending bot knows it, also when the memory was evicted or the delivery
\* comes from elsewhere; without either, when the guess is right.
PiecesGoHome ==
    \A i \in DOMAIN posted :
        delivery.told \/ (delivery.chat = Plain /\ delivery.origin.via # "alone")
            => posted[i].to = HomeOf(delivery.chat)

\* No bot answers for another: not in a conversation that another bot owns, as far
\* as the sending process can know, not in the turn of another bot.
NobodyAnswersForAnother ==
    \A i \in DOMAIN posted :
        /\ delivery.claim \in {Nobody, posted[i].robot}
        /\ delivery.origin.via = "turn" /\ ~setting.sole
               => posted[i].robot = delivery.origin.robot

AnswerGoesHome == PiecesGoHome /\ NobodyAnswersForAnother

\* What has reached the server is a beginning of the pieces, in order and none
\* twice; all of them when the gateway was told that it was sent, none when it was
\* refused.
SuccessIsDelivered ==
    /\ \A i \in DOMAIN posted : posted[i].piece = Pieces(delivery.form)[i]
    /\ delivery.result = "sent" => Len(posted) = Len(Pieces(delivery.form))
    /\ delivery.result = "refused" => posted = <<>>

\* Whoever is mentioned was in the group at some moment of the delivery, and
\* nobody is mentioned outside of a group.
OnlyMembersMentioned ==
    \A i \in DOMAIN posted :
        posted[i].uids \subseteq (IF delivery.chat = Group THEN delivery.insiders ELSE {})
=============================================================================
