--------------------------- MODULE MCCardActions ---------------------------
(***************************************************************************)
(* Small instances of CardActions: two or three events on one or two cards *)
(* of one bot.                                                             *)
(***************************************************************************)
EXTENDS CardActions, TLC

CONSTANTS cardA, reason

\* Two presses of one card.
TwoOnOneCard == 1 :> cardA @@ 2 :> cardA
BothMatch == 1 :> "action" @@ 2 :> "action"

\* A press, one of a reasoning card, one by another user than the bound one, and
\* an event that cannot be parsed.
MixedCards == 1 :> cardA @@ 2 :> reason @@ 3 :> cardA @@ 4 :> cardA
MixedKinds == 1 :> "action" @@ 2 :> "action" @@ 3 :> "mismatch" @@ 4 :> "malformed"
=============================================================================
