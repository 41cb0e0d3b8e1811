--------------------------- MODULE VoiceLifecycle ---------------------------
(***************************************************************************)
(* What the engine promises of its voices, without queues, slots or        *)
(* threads.  A voice is named by the generation of its handle.  It is      *)
(* spawned, it plays, it ends, its storage is reclaimed: in that order,    *)
(* each once, never going back; and no more voices hold storage at one     *)
(* time than the pool has slots.                                           *)
(***************************************************************************)
EXTENDS Integers, FiniteSets

CONSTANTS Voices, Capacity

VARIABLE stage

Stages == {"unborn", "spawned", "playing", "ended", "reclaimed"}

Holding(st) == {v \in Voices : st[v] \in {"spawned", "playing", "ended"}}

Init == stage = [v \in Voices |-> "unborn"]

Move(v, from, to) == stage[v] = from /\ stage' = [stage EXCEPT ![v] = to]

Spawn(v) == Cardinality(Holding(stage)) < Capacity /\ Move(v, "unborn", "spawned")
Activate(v) == Move(v, "spawned", "playing")
End(v) == Move(v, "playing", "ended")
Reclaim(v) == Move(v, "ended", "reclaimed")

Next == \E v \in Voices : Spawn(v) \/ Activate(v) \/ End(v) \/ Reclaim(v)

\* A spawned voice comes to play; an ended voice's storage comes back.
Fairness == \A v \in Voices : WF_stage(Activate(v)) /\ WF_stage(Reclaim(v))

Spec == Init /\ [][Next]_stage
FairSpec == Spec /\ Fairness
=============================================================================
