------------------------------ MODULE MCEngine ------------------------------
(***************************************************************************)
(* Instances of the engine for TLC.                                        *)
(***************************************************************************)
EXTENDS EngineProperties

Policy(kind, ttl, silence) == [kind |-> kind, ttl_blocks |-> ttl, silence_blocks |-> silence]

\* Voices that live until they are killed, or finish on their own.
PlainPolicies == {Policy("until_finished", 0, 0)}
Endless == {Policy("permanent", 0, 0)}
\* Voices reaped by their policy: at once, after two blocks, after two silent
\* ones.  Any of them may also say that it has finished.
MixedPolicies == {Policy("timed", 0, 0), Policy("timed", 2, 0), Policy("until_silent", 0, 2)}

\* A host that also kills the handle of a spawn that failed: null_handle.
NullKillSpec == Init /\ [][Next \/ Kill(null_handle)]_vars
=============================================================================
