------------------------------- MODULE MCQueue -------------------------------
(***************************************************************************)
(* Instances of the ready queue for TLC.                                   *)
(***************************************************************************)
EXTENDS MPMCQueue

CONSTANTS t1, t2, a, b
=============================================================================
