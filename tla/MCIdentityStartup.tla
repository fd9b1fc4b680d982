------------------------- MODULE MCIdentityStartup -------------------------
(***************************************************************************)
(* IdentityStartup for TLC: two tokens, two bots, one group and one peer.  *)
(***************************************************************************)
EXTENDS IdentityStartup, TLC

CONSTANTS t1, t2

AnyRobot == Permutations(Robots)

OneThenTwo   == {<<t1>>, <<t1, t2>>}
AnyOrder     == {<<t1>>, <<t2>>, <<t1, t2>>, <<t2, t1>>}
TwoOrders    == {<<t1>>, <<t1, t2>>, <<t2, t1>>}
Silence == {}
Everybody == Conversations
=============================================================================
