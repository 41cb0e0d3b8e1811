------------------------------ MODULE MCRuntime ------------------------------
(***************************************************************************)
(* Instances of the runtime facade for TLC.                                *)
(***************************************************************************)
EXTENDS Runtime, TLC

CONSTANTS drone, lead

BlueprintSymmetry == Permutations({drone, lead})
=============================================================================
