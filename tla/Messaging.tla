----------------------------- MODULE Messaging -----------------------------
(***************************************************************************)
(* Receiving and sending together: the turns that messages start are the    *)
(* origins of deliveries, while connections break, caches are evicted, the  *)
(* owner releases routes and people leave and join the group.               *)
(***************************************************************************)
EXTENDS Inbound, Outbound

vars == <<conversations, inbound, outbound>>

TypeOK == ConversationsTypeOK /\ InboundTypeOK /\ OutboundTypeOK

Init == ConversationsInit /\ InboundInit /\ OutboundInit

\* A turn may deliver at any time after it began, to its own chat or, through a
\* tool, to another.
Asks(o) == o.via = "turn" => \E t \in turns : t.robot = o.robot

Delivery ==
    \/ \E o \in Origins \ [via : {"alone"}], c \in Chats, form \in setting.forms,
          who \in People \union {Nobody} : Asks(o) /\ Begins(o, c, form, who)
    \/ \E c \in Chats, who \in People \union {Nobody} : BeginsAlone(c, who)
    \/ Delivers

\* Somebody leaves the group or joins it.
Moves(u) ==
    /\ Trouble
    /\ members' = SymDiff(members, {u})
    /\ delivery' = IF delivery = None THEN None
                   ELSE [delivery EXCEPT !.insiders = @ \union members']
    /\ UNCHANGED <<setting, life, memory, routes, inbound, posted, begun>>

Next ==
    \/ InboundNext /\ UNCHANGED outbound
    \/ Delivery /\ UNCHANGED inbound
    \/ (Flush \/ \E r \in Robots, c \in Chats : Forget(r, c)) /\ UNCHANGED <<inbound, outbound>>
    \/ \E u \in People : Moves(u)

Spec == Init /\ [][Next]_vars
=============================================================================
