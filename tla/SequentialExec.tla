--------------------------- MODULE SequentialExec ---------------------------
(***************************************************************************)
(* The steps of the sequential executor (engine.cpp's compute_order and    *)
(* compute_sequential): order_scratch is built by counting down unmet      *)
(* routes from the instances that have none, in the order of active_list;  *)
(* instances a cycle keeps out of it follow in that order; then each is    *)
(* computed.  ParallelExec takes these steps when a block is computed by   *)
(* the audio thread alone, and says what computing an instance does.       *)
(***************************************************************************)
EXTENDS Integers, Sequences, FiniteSets

CONSTANT Slots     \* the slots of the pool

VARIABLES
  graph,      \* active_list and routes
  phase,      \* the loop the executor is in
  i, k,       \* indices of that loop and of the loop inside it
  indeg,      \* indeg_scratch
  order       \* order_scratch; cleared before it is used, so shown empty between blocks

Init ==
  /\ phase = "idle" /\ i = 1 /\ k = 1
  /\ indeg = [s \in Slots |-> 0] /\ order = << >>

\* compute_order's first two loops: indeg := number of routes into an instance.
Begin(g) ==
  /\ phase = "idle"
  /\ graph' = g
  /\ indeg' = [s \in Slots |->
                 Cardinality({j \in DOMAIN g.routes : g.routes[j].dst = s})]
  /\ order' = << >>
  /\ phase' = "roots" /\ i' = 1 /\ k' = 1

Roots ==
  /\ phase = "roots" /\ i <= Len(graph.active)
  /\ order' = IF indeg[graph.active[i]] = 0 THEN Append(order, graph.active[i]) ELSE order
  /\ i' = i + 1
  /\ UNCHANGED <<graph, phase, k, indeg>>

RootsDone ==
  /\ phase = "roots" /\ i > Len(graph.active)
  /\ phase' = "follow" /\ i' = 1 /\ k' = 1
  /\ UNCHANGED <<graph, indeg, order>>

\* Mutant of Follow: an instance is ordered after the first of its upstreams.
FollowFirst ==
  /\ phase = "follow" /\ i <= Len(order) /\ k <= Len(graph.routes)
  /\ LET r == graph.routes[k] IN
     IF r.src = order[i]
       THEN /\ indeg' = [indeg EXCEPT ![r.dst] = 0]
            /\ order' = IF indeg[r.dst] > 0 THEN Append(order, r.dst) ELSE order
       ELSE UNCHANGED <<indeg, order>>
  /\ k' = k + 1
  /\ UNCHANGED <<graph, phase, i>>

\* The route k of the instance at `head`: who loses its last unmet route is next.
Follow ==
  /\ phase = "follow" /\ i <= Len(order) /\ k <= Len(graph.routes)
  /\ LET r == graph.routes[k] IN
     IF r.src = order[i]
       THEN /\ indeg' = [indeg EXCEPT ![r.dst] = @ - 1]
            /\ order' = IF indeg[r.dst] = 1 THEN Append(order, r.dst) ELSE order
       ELSE UNCHANGED <<indeg, order>>
  /\ k' = k + 1
  /\ UNCHANGED <<graph, phase, i>>

NextHead ==
  /\ phase = "follow" /\ i <= Len(order) /\ k > Len(graph.routes)
  /\ i' = i + 1 /\ k' = 1
  /\ UNCHANGED <<graph, phase, indeg, order>>

FollowDone ==
  /\ phase = "follow" /\ i > Len(order)
  /\ phase' = IF Len(order) < Len(graph.active) THEN "rest" ELSE "compute"
  /\ i' = 1 /\ k' = 1
  /\ UNCHANGED <<graph, indeg, order>>

\* Mutant of Rest: whatever the routes left uncounted is dropped.
RestDropped ==
  /\ phase = "rest" /\ i <= Len(graph.active)
  /\ i' = i + 1
  /\ UNCHANGED <<graph, phase, k, indeg, order>>

\* The instances on a cycle, or after one, in the order of active_list.
Rest ==
  /\ phase = "rest" /\ i <= Len(graph.active)
  /\ order' = IF indeg[graph.active[i]] > 0 THEN Append(order, graph.active[i]) ELSE order
  /\ i' = i + 1
  /\ UNCHANGED <<graph, phase, k, indeg>>

RestDone ==
  /\ phase = "rest" /\ i > Len(graph.active)
  /\ phase' = "compute" /\ i' = 1
  /\ UNCHANGED <<graph, k, indeg, order>>

\* compute_order.
Order == Roots \/ RootsDone \/ Follow \/ NextHead \/ FollowDone \/ Rest \/ RestDone

\* compute_sequential: gather_inputs and process() of the next instance.
Compute ==
  /\ phase = "compute" /\ i <= Len(order)
  /\ i' = i + 1
  /\ UNCHANGED <<graph, phase, k, indeg, order>>

End ==
  /\ phase = "compute" /\ i > Len(order)
  /\ phase' = "idle" /\ i' = 1 /\ order' = << >>
  /\ UNCHANGED <<graph, k, indeg>>
=============================================================================
