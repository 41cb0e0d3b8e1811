------------------------- MODULE ParallelProperties -------------------------
(***************************************************************************)
(* What makes the executors of module ParallelExec correct.                *)
(***************************************************************************)
EXTENDS ParallelExec

InTask == {"gather", "process", "release", "push"}
Outside == {"idle", "alone", "count", "remaining", "open", "close"}
InBlock == {"count", "remaining", "open", "seed", "help", "pop", "close"} \cup InTask
Labels == InBlock \cup {"idle", "alone", "loop", "check", "exited"}

\* Every variable has its type; the two counters never fall under 0.
TypeOK ==
  /\ graph \in Available
  /\ dep \in [Slots -> Nat] /\ queue \in Seq(Slots) /\ tasks_remaining \in Nat
  /\ block_active \in BOOLEAN /\ running \in BOOLEAN /\ pool \in {"none", "up", "joining", "gone"}
  /\ seeded \in Nat
  /\ phase \in {"idle", "roots", "follow", "rest", "compute"} /\ at \in Nat /\ over \in Nat
  /\ indeg \in [Slots -> Nat] /\ order \in Seq(Slots)
  /\ pc \in [Threads -> Labels]
  /\ task \in [Threads -> Slots] /\ k \in [Threads -> Nat \ {0}]
  /\ output \in [Slots -> {"old", "writing", "done"}] /\ runs \in [Slots -> Nat]

\* No instance is computed twice in a block, though the thread that counts its
\* last route down and the seeding loop may both see its dep at 0.
OncePerBlock == \A s \in Slots : runs[s] <= 1

\* A task that reads its upstream instances' buffers finds this block's output
\* in all of them: none is of the last block or being written by another thread.
InputsComplete ==
  \A t \in Threads : pc[t] = "process" =>
    \A i \in Into(task[t]) : output[graph.routes[i].src] = "done"

\* The barrier: when the audio thread leaves compute_parallel every active
\* instance has its output, no task is queued and no worker is in one, so that
\* draining, routing and reaping have the engine to themselves until the next
\* block opens.
BarrierHolds ==
  /\ pc[audio] \in Outside =>
       queue = << >> /\ \A w \in Workers : pc[w] \notin InTask
  /\ pc[audio] = "close" =>
       \A s \in Active : output[s] = "done"

\* The order the audio thread computes in alone is one of all active instances,
\* each once, whatever the routes are: parallel edges, loops and cycles included
\* (order_scratch has room for no more, and one left out would play old audio).
OrderIsPermutation ==
  phase = "compute" =>
    /\ \A m, n \in DOMAIN order : order[m] = order[n] => m = n
    /\ {order[n] : n \in DOMAIN order} = Active

\* Every block that begins ends: the audio thread returns from process().
BlockEnds == pc[audio] # "idle" ~> pc[audio] = "idle"

\* engine::stop() joins every worker and returns.
StopReturns == pool = "joining" ~> pool = "gone"

Block == INSTANCE BlockCompute
  WITH Graphs <- AllGraphs,
       computing <- pc[audio] # "idle", done <- {s \in Slots : output[s] = "done"}

\* Both executors compute every active instance once per block, after all that
\* are routed into it unless a cycle feeds it, and end the block then ("parallel
\* output is bit-identical to sequential", engine.hpp).
ImplementsBlock == Block!Spec

\* The audio thread never uses a worker pool that engine::stop() destroyed.
PoolOutlivesBlock == pool = "gone" => pc[audio] \notin InBlock
-----------------------------------------------------------------------------
(* The inductive invariant.                                                *)

Elements(s) == {s[n] : n \in DOMAIN s}
Before(s, n) == {s[m] : m \in {l \in DOMAIN s : l < n}}
Distinct(s) == \A m, n \in DOMAIN s : s[m] = s[n] => m = n

\* Voices are only spawned into older ones: a route leads from an instance of
\* active_list to an earlier one.
SpawnedIntoOlder ==
  \A g \in Graphs : \A j \in DOMAIN g.routes : \A m, n \in DOMAIN g.active :
    g.active[m] = g.routes[j].src /\ g.active[n] = g.routes[j].dst => m > n

\* The audio thread alone.  While `order` grows, route j was counted down if its
\* source was passed, or is at the head and j came before.
Passed(j) == \E m \in DOMAIN order :
  order[m] = graph.routes[j].src /\ (m < at \/ (m = at /\ j < over))
Sourced(m) == \A j \in Into(order[m]) : \E n \in 1..m-1 : order[n] = graph.routes[j].src

Ordered == phase # "idle" =>
  /\ Distinct(order) /\ Elements(order) \subseteq Active
  /\ \A m \in DOMAIN order : indeg[order[m]] = 0 => Sourced(m)
Rooted == phase = "roots" =>
  /\ \A s \in Slots : indeg[s] = Cardinality(Into(s))
  /\ Elements(order) = {s \in Before(graph.active, at) : indeg[s] = 0}
Following == phase = "follow" =>
  /\ \A s \in Slots : indeg[s] = Cardinality({j \in Into(s) : ~Passed(j)})
  /\ Elements(order) = {s \in Active : indeg[s] = 0}
\* What was not ordered waits for something that was not: a cycle feeds it.
Left == phase \in {"rest", "compute"} =>
  \A s \in Active : indeg[s] # 0 => \E j \in Into(s) : indeg[graph.routes[j].src] # 0
Resting == phase = "rest" =>
  Elements(order) = {s \in Active : indeg[s] = 0 \/ s \in Before(graph.active, at)}
AloneTyped ==
  /\ graph \in AllGraphs /\ order \in Seq(Slots) /\ indeg \in [Slots -> Nat]
  /\ at \in Nat \ {0} /\ over \in Nat \ {0}
  /\ phase \in {"idle", "roots", "follow", "rest", "compute"}
  /\ pc \in [Threads -> Labels] /\ (phase = "idle" <=> pc[audio] # "alone")
AloneInv ==
  /\ AloneTyped /\ Ordered /\ Rooted /\ Following /\ Left /\ Resting
  /\ phase = "compute" => Elements(order) = Active

\* Nobody else computes meanwhile.
ComputedAlone == phase # "idle" =>
  {s \in Slots : output[s] = "done"} = IF phase = "compute" THEN Before(order, at) ELSE {}

\* The tasks.  A task is about to be pushed, or queued, or some thread's, or it
\* ran.  Route j is followed when the task of its source has counted it down.
Holds(t, s) == pc[t] \in InTask /\ task[t] = s
Pushes(t, s) == pc[t] = "push" /\ graph.routes[k[t]].dst = s
Ready(s) == s \in Elements(queue) \/ runs[s] > 0 \/ \E t \in Threads : Holds(t, s) \/ Pushes(t, s)
Finished(s) == runs[s] > 0 /\ \A t \in Threads : ~Holds(t, s)
Followed(j) ==
  /\ runs[graph.routes[j].src] > 0
  /\ \A t \in Threads : Holds(t, graph.routes[j].src) =>
       pc[t] \in {"release", "push"} /\ (j < k[t] \/ (j = k[t] /\ pc[t] = "push"))
Unmet(s) == {j \in Into(s) : ~Followed(j)}

\* A task is in one place.
OnePlace ==
  /\ Distinct(queue)
  /\ \A t, u \in Threads : \A s \in Slots : Holds(t, s) /\ Holds(u, s) => t = u
  /\ \A t, u \in Threads : \A s \in Slots : Pushes(t, s) /\ Pushes(u, s) => t = u
  /\ \A s \in Elements(queue) : runs[s] = 0 /\ \A t \in Threads : ~Holds(t, s) /\ ~Pushes(t, s)
  /\ \A t, u \in Threads : \A s \in Slots : Pushes(t, s) => runs[s] = 0 /\ ~Holds(u, s)
\* How far a task has come, and its output with it.
Tasks ==
  /\ \A t \in Threads :
       /\ pc[t] = "gather" => runs[task[t]] = 0
       /\ pc[t] = "process" => runs[task[t]] > 0 /\ output[task[t]] = "writing"
       /\ pc[t] \in {"release", "push"} => runs[task[t]] > 0 /\ output[task[t]] = "done"
       /\ pc[t] = "push" => k[t] \in DOMAIN graph.routes /\ graph.routes[k[t]].src = task[t]
  /\ \A s \in Slots : /\ Finished(s) => output[s] = "done"
                      /\ runs[s] = 0 => output[s] = "old"
\* What is ready has all its inputs, and the seeding loop is past it: it was
\* pushed there, or because of an instance later in active_list.
Seeded == \A s \in Slots : Ready(s) =>
  /\ pc[audio] \in {"seed", "help", "pop", "close"} \cup InTask
  /\ Unmet(s) = {}
  /\ s \in Before(graph.active, seeded + 1)
Counted ==
  /\ pc[audio] # "count" => \A s \in Active : dep[s] = Cardinality(Unmet(s))
  /\ pc[audio] \notin {"count", "remaining"} =>
       tasks_remaining = Cardinality({s \in Active : ~Finished(s)})
  /\ pc[audio] = "close" => tasks_remaining = 0
BlockInv ==
  /\ pc[audio] \in InBlock => graph \in Graphs /\ OnePlace /\ Tasks /\ Seeded /\ Counted
  /\ pc[audio] \notin InBlock => queue = << >> /\ \A t \in Threads : pc[t] \notin InTask

IInv == TypeOK /\ AloneInv /\ ComputedAlone /\ BlockInv

\* ImplementsBlock but for its fairness.
BlockSafe == Block!Init /\ [][Block!Next]_(Block!vars)
==============================================================================
