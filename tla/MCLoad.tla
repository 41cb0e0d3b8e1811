------------------------------- MODULE MCLoad -------------------------------
(***************************************************************************)
(* Instances of load(): texts of small programs, plain and damaged, and    *)
(* small graphs built by hand; documents, whole and damaged.               *)
(***************************************************************************)
EXTENDS Load, SmallBlueprints

P == INSTANCE SmallPrograms
D == INSTANCE SmallTexts
O == INSTANCE SmallDocuments

SmallTexts == {P!Dump(p) : p \in P!SmallProgramSet} \cup D!SmallTextSet
SmallDocuments == O!SmallDocumentSet
FaderTexts == {P!Dump(p) : p \in P!FaderPrograms}
=============================================================================
