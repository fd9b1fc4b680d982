---------------------------- MODULE MCConnection ----------------------------
(***************************************************************************)
(* Connection for TLC: three of each kind of task and three websockets,    *)
(* which is more than the code should ever have at a time.                 *)
(***************************************************************************)
EXTENDS Connection, TLC

CONSTANTS r1, r2, r3, l1, l2, l3, s1, s2, s3
=============================================================================
