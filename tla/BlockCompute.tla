---------------------------- MODULE BlockCompute ----------------------------
(***************************************************************************)
(* What an executor of the engine promises of one block (engine.hpp,       *)
(* engine::process): every active instance is computed exactly once, and   *)
(* only after every instance routed into it, so that its inputs are those  *)
(* of this block.  Instances own disjoint buffers, so this determines the  *)
(* block's output: two executors that keep it are bit-identical.  No order *)
(* serves an instance that a cycle of routes feeds: it is computed once,   *)
(* at any time (engine::compute_order's fallback).                         *)
(***************************************************************************)
EXTENDS Sequences

CONSTANT Graphs   \* what may be active, and routed, when a block starts

VARIABLES graph, computing, done

vars == <<graph, computing, done>>

Active(g) == {g.active[i] : i \in DOMAIN g.active}
Upstream(g, s) == {g.routes[i].src : i \in {j \in DOMAIN g.routes : g.routes[j].dst = s}}

\* On a cycle of routes, or fed by one: some set of instances holds s, and a
\* source of each of its members.
FedByCycle(g, s) ==
  \E C \in SUBSET Active(g) : s \in C /\ \A c \in C : Upstream(g, c) \cap C # {}

Init == graph \in Graphs /\ ~computing /\ done = {}

Begin == ~computing /\ computing' = TRUE /\ graph' \in Graphs /\ done' = {}

Compute(s) ==
  /\ computing /\ s \in Active(graph) \ done
  /\ Upstream(graph, s) \subseteq done \/ FedByCycle(graph, s)
  /\ done' = done \cup {s}
  /\ UNCHANGED <<graph, computing>>

End == computing /\ done = Active(graph) /\ computing' = FALSE /\ UNCHANGED <<graph, done>>

Next == Begin \/ End \/ \E s \in Active(graph) : Compute(s)

\* A block that began ends.
Fairness == WF_vars(End) /\ \A s \in UNION {Active(g) : g \in Graphs} : WF_vars(Compute(s))

Spec == Init /\ [][Next]_vars /\ Fairness
=============================================================================
