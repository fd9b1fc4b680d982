---------------------------- MODULE MCGroupScope ----------------------------
(***************************************************************************)
(* GroupScope for TLC: a group with one thread, and two document requests  *)
(* at a time.                                                              *)
(***************************************************************************)
EXTENDS GroupScope, TLC

CONSTANTS g, t, f1, f2

Symmetry == Permutations({f1, f2})
=============================================================================
