---------------------------- MODULE MCBlockQueue ----------------------------
(***************************************************************************)
(* Instances of the ready queue in blocks for TLC.                         *)
(***************************************************************************)
EXTENDS BlockQueue

CONSTANTS t1, t2, t3, a, b
=============================================================================
