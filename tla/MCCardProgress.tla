--------------------------- MODULE MCCardProgress ---------------------------
(***************************************************************************)
(* CardProgress for TLC: one turn that an inbound message may split in two,*)
(* and a drain for each segment.                                           *)
(***************************************************************************)
EXTENDS CardProgress, TLC

CONSTANTS t1, d1, d2
=============================================================================
