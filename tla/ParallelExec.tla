---------------------------- MODULE ParallelExec ----------------------------
(***************************************************************************)
(* The executors of engine.cpp.  With two active instances or more and a   *)
(* worker pool, compute_parallel (execute_instance_task, worker_pool.hpp): *)
(* each active instance is a task; the audio thread counts every           *)
(* instance's unmet routes in `dep`, pushes the instances that have none,  *)
(* and drains the ready queue together with the spinning workers until     *)
(* tasks_remaining is 0.  Otherwise compute_sequential: SequentialExec.    *)
(*                                                                         *)
(* A step is one access to what the threads share: an atomic, the queue,   *)
(* or an instance's buffers.  The active list and the routes change only   *)
(* between blocks (drain_commands and reap_pass run on the audio thread    *)
(* outside compute_parallel), so a block starts with any graph of Graphs.  *)
(*                                                                         *)
(* Abstracted: a push and a pop of the ready queue are one step each (the  *)
(* steps inside them, and pops that fail while a push is under way, are    *)
(* MPMCQueue's and BlockQueue's subject); an instance's output is of an    *)
(* old block, being written, or of this one; `routes` holds the live       *)
(* routes between instances only.                                          *)
(***************************************************************************)
EXTENDS Integers, Sequences, FiniteSets

CONSTANTS
  Slots,           \* the slots of the pool
  Workers,         \* the worker threads
  Graphs,          \* what a block may find: its active_list and its routes
  AloneGraphs,     \* the same, in an engine that was given no workers
  Backend          \* "offline": the control thread itself asks for blocks
                   \* (offline_backend); "hardware": another thread does

audio == "audio"
Threads == {audio} \cup Workers

ASSUME ThreadsAssumption == audio \notin Workers /\ Backend \in {"offline", "hardware"}
AllGraphs == Graphs \cup AloneGraphs

ASSUME SlotsAssumption == Slots # {} /\ IsFiniteSet(Slots)
ASSUME GraphsAssumption ==
  \A g \in AllGraphs :
    /\ g.active \in Seq(Slots)
    /\ \A i, j \in DOMAIN g.active : g.active[i] = g.active[j] => i = j
    /\ g.routes \in Seq([src : Slots, dst : Slots])
    /\ \A i \in DOMAIN g.routes : \E j, k \in DOMAIN g.active :
         g.active[j] = g.routes[i].src /\ g.active[k] = g.routes[i].dst

PowersOf2(n) == {2^i : i \in 0..n}
\* The smallest power of two that is n or more.
NextPow2(n) == CHOOSE p \in PowersOf2(n) : p >= n /\ \A q \in PowersOf2(n) : q >= n => q >= p

\* engine::start sizes the ready queue after the pool.
QueueCapacity == NextPow2(IF Cardinality(Slots) > 2 THEN Cardinality(Slots) ELSE 2)

VARIABLES
  graph,             \* active_list and routes
  dep, queue, tasks_remaining, block_active,
  running, pool,     \* worker_pool::running; is engine::workers there?
  phase, at, over, indeg, order,   \* SequentialExec's
  seeded,            \* how far compute_parallel's seeding loop has come
  pc, task, k,       \* per thread: where it is, its task, its route loop
  output, runs       \* per slot: its output buffers; how often it ran

blockVars == <<graph, dep, tasks_remaining, block_active, seeded>>
taskVars == <<task, k, output, runs>>
stopVars == <<running, pool>>
aloneVars == <<phase, at, over, indeg, order>>
vars == <<blockVars, queue, pc, taskVars, stopVars, aloneVars>>

Alone == INSTANCE SequentialExec WITH i <- at, k <- over

Active == {graph.active[i] : i \in DOMAIN graph.active}
Into(s) == {i \in DOMAIN graph.routes : graph.routes[i].dst = s}

NoTask == CHOOSE s \in Slots : TRUE

\* start() makes no pool for num_workers = 0.
Available == IF pool = "none" THEN AloneGraphs ELSE Graphs

Init ==
  /\ pool \in {"none", "up"} /\ graph \in Available /\ Alone!Init
  /\ dep = [s \in Slots |-> 0] /\ queue = << >> /\ tasks_remaining = 0
  /\ block_active = FALSE /\ running = TRUE /\ seeded = 0
  /\ pc = [t \in Threads |-> IF t = audio THEN "idle" ELSE IF pool = "up" THEN "loop" ELSE "exited"]
  /\ task = [t \in Threads |-> NoTask] /\ k = [t \in Threads |-> 1]
  /\ output = [s \in Slots |-> "old"] /\ runs = [s \in Slots |-> 0]

Goto(t, label) == pc' = [pc EXCEPT ![t] = label]

-----------------------------------------------------------------------------
(* The audio thread: process() and compute_parallel(). *)

\* What is active, and how it is routed, is settled; the outputs are of the last
\* block until each instance is computed.
NothingComputed == runs' = [s \in Slots |-> 0] /\ output' = [s \in Slots |-> "old"]
CanStart == pc[audio] = "idle" /\ (Backend = "offline" => pool # "joining")
InParallel(g) == pool \in {"up", "joining"} /\ Len(g.active) >= 2

StartBlock(g) ==
  /\ CanStart /\ InParallel(g)
  /\ graph' = g /\ NothingComputed
  /\ Goto(audio, "count")
  /\ UNCHANGED <<dep, queue, tasks_remaining, block_active, seeded, task, k, stopVars, aloneVars>>

StartAlone(g) ==
  /\ CanStart /\ ~InParallel(g)
  /\ Alone!Begin(g) /\ NothingComputed
  /\ Goto(audio, "alone")
  /\ UNCHANGED <<dep, queue, tasks_remaining, block_active, seeded, task, k, stopVars>>

OrderAlone == Alone!Order /\ UNCHANGED <<blockVars, queue, pc, taskVars, stopVars>>

ComputeAlone ==
  /\ Alone!Compute
  /\ output' = [output EXCEPT ![order[at]] = "done"]
  /\ runs' = [runs EXCEPT ![order[at]] = @ + 1]
  /\ UNCHANGED <<blockVars, queue, pc, task, k, stopVars>>

EndAlone ==
  /\ Alone!End
  /\ Goto(audio, "idle")
  /\ UNCHANGED <<blockVars, queue, taskVars, stopVars>>

\* dep := number of live routes into each active instance.
CountDeps ==
  /\ pc[audio] = "count"
  /\ dep' = [s \in Slots |-> IF s \in Active THEN Cardinality(Into(s)) ELSE dep[s]]
  /\ Goto(audio, "remaining")
  /\ UNCHANGED <<graph, tasks_remaining, block_active, seeded, queue, taskVars, stopVars, aloneVars>>

SetRemaining ==
  /\ pc[audio] = "remaining"
  /\ tasks_remaining' = Len(graph.active)
  /\ Goto(audio, "open")
  /\ UNCHANGED <<graph, dep, block_active, seeded, queue, taskVars, stopVars, aloneVars>>

OpenBlock ==
  /\ pc[audio] = "open"
  /\ block_active' = TRUE
  /\ seeded' = 0
  /\ Goto(audio, "seed")
  /\ UNCHANGED <<graph, dep, tasks_remaining, queue, taskVars, stopVars, aloneVars>>

\* push() on a full queue returns false, which no caller looks at.
Push(s) == queue' = IF Len(queue) < QueueCapacity THEN Append(queue, s) ELSE queue

\* One iteration of the seeding loop: dep is loaded while tasks already run.
SeedOne ==
  /\ pc[audio] = "seed" /\ seeded < Len(graph.active)
  /\ LET s == graph.active[seeded + 1] IN IF dep[s] = 0 THEN Push(s) ELSE UNCHANGED queue
  /\ seeded' = seeded + 1
  /\ UNCHANGED <<graph, dep, tasks_remaining, block_active, pc, taskVars, stopVars, aloneVars>>

SeedDone ==
  /\ pc[audio] = "seed" /\ seeded = Len(graph.active)
  /\ Goto(audio, "help")
  /\ UNCHANGED <<blockVars, queue, taskVars, stopVars, aloneVars>>

\* Mutant of Help: leaves the loop while the last task may still run.
HelpButLast ==
  /\ pc[audio] = "help"
  /\ IF tasks_remaining > 1 THEN Goto(audio, "pop") ELSE Goto(audio, "close")
  /\ UNCHANGED <<blockVars, queue, taskVars, stopVars, aloneVars>>

\* while (tasks_remaining > 0): the audio thread is one more worker.
Help ==
  /\ pc[audio] = "help"
  /\ IF tasks_remaining > 0 THEN Goto(audio, "pop") ELSE Goto(audio, "close")
  /\ UNCHANGED <<blockVars, queue, taskVars, stopVars, aloneVars>>

CloseBlock ==
  /\ pc[audio] = "close"
  /\ block_active' = FALSE
  /\ Goto(audio, "idle")
  /\ UNCHANGED <<graph, dep, tasks_remaining, seeded, queue, taskVars, stopVars, aloneVars>>

-----------------------------------------------------------------------------
(* A worker: worker_pool::loop(). *)

\* Mutant of Loop: the worker does not look at `running`.
LoopForever(w) ==
  /\ pc[w] = "loop"
  /\ Goto(w, "check")
  /\ UNCHANGED <<blockVars, queue, taskVars, stopVars, aloneVars>>

Loop(w) ==
  /\ pc[w] = "loop"
  /\ IF running THEN Goto(w, "check") ELSE Goto(w, "exited")
  /\ UNCHANGED <<blockVars, queue, taskVars, stopVars, aloneVars>>

CheckBlock(w) ==
  /\ pc[w] = "check"
  /\ IF block_active THEN Goto(w, "pop") ELSE Goto(w, "loop")
  /\ UNCHANGED <<blockVars, queue, taskVars, stopVars, aloneVars>>

-----------------------------------------------------------------------------
(* Any thread: a pop, and execute_instance_task. *)

\* The loop a thread returns to after a pop that failed or a task that ran.
Again(t) == IF t = audio THEN "help" ELSE "loop"

PopEmpty(t) ==
  /\ pc[t] = "pop" /\ queue = << >>
  /\ Goto(t, Again(t))
  /\ UNCHANGED <<blockVars, queue, taskVars, stopVars, aloneVars>>

Pop(t) ==
  /\ pc[t] = "pop" /\ queue # << >>
  /\ task' = [task EXCEPT ![t] = Head(queue)]
  /\ queue' = Tail(queue)
  /\ Goto(t, "gather")
  /\ UNCHANGED <<blockVars, k, output, runs, stopVars, aloneVars>>

\* gather_inputs: reads the outputs of every instance routed into this one.
Gather(t) ==
  /\ pc[t] = "gather"
  /\ runs' = [runs EXCEPT ![task[t]] = @ + 1]
  /\ output' = [output EXCEPT ![task[t]] = "writing"]
  /\ Goto(t, "process")
  /\ UNCHANGED <<blockVars, queue, task, k, stopVars, aloneVars>>

Process(t) ==
  /\ pc[t] = "process"
  /\ output' = [output EXCEPT ![task[t]] = "done"]
  /\ k' = [k EXCEPT ![t] = 1]
  /\ Goto(t, "release")
  /\ UNCHANGED <<blockVars, queue, task, runs, stopVars, aloneVars>>

\* Mutant of Release: the destination of every route followed is pushed.
ReleaseAlways(t) ==
  /\ pc[t] = "release" /\ k[t] <= Len(graph.routes)
  /\ LET r == graph.routes[k[t]] IN
     IF r.src = task[t]
       THEN /\ dep' = [dep EXCEPT ![r.dst] = @ - 1]
            /\ Goto(t, "push") /\ UNCHANGED k
       ELSE k' = [k EXCEPT ![t] = @ + 1] /\ UNCHANGED <<dep, pc>>
  /\ UNCHANGED <<graph, tasks_remaining, block_active, seeded, queue, task, output, runs, stopVars, aloneVars>>

\* The loop over the routes: fetch_sub on the destination's dep; who takes it
\* to 0 pushes the destination.
Release(t) ==
  /\ pc[t] = "release" /\ k[t] <= Len(graph.routes)
  /\ LET r == graph.routes[k[t]] IN
     IF r.src = task[t]
       THEN /\ dep' = [dep EXCEPT ![r.dst] = @ - 1]
            /\ IF dep[r.dst] = 1 THEN Goto(t, "push") /\ UNCHANGED k
                                 ELSE k' = [k EXCEPT ![t] = @ + 1] /\ UNCHANGED pc
       ELSE k' = [k EXCEPT ![t] = @ + 1] /\ UNCHANGED <<dep, pc>>
  /\ UNCHANGED <<graph, tasks_remaining, block_active, seeded, queue, task, output, runs, stopVars, aloneVars>>

PushReady(t) ==
  /\ pc[t] = "push"
  /\ Push(graph.routes[k[t]].dst)
  /\ k' = [k EXCEPT ![t] = @ + 1]
  /\ Goto(t, "release")
  /\ UNCHANGED <<blockVars, task, output, runs, stopVars, aloneVars>>

Finish(t) ==
  /\ pc[t] = "release" /\ k[t] > Len(graph.routes)
  /\ tasks_remaining' = tasks_remaining - 1
  /\ Goto(t, Again(t))
  /\ UNCHANGED <<graph, dep, block_active, seeded, queue, taskVars, stopVars, aloneVars>>

-----------------------------------------------------------------------------
(* The control thread: engine::stop(), up to the end of the pool.  It stops the
   workers first and the backend last: with a hardware backend process() may
   be anywhere when it is called. *)

Stop ==
  /\ pool = "up" /\ (Backend = "offline" => pc[audio] = "idle")
  /\ running' = FALSE /\ pool' = "joining"
  /\ UNCHANGED <<blockVars, queue, pc, taskVars, aloneVars>>

\* Every thread is joined; workers.reset().
Joined ==
  /\ pool = "joining" /\ \A w \in Workers : pc[w] = "exited"
  /\ pool' = "gone"
  /\ UNCHANGED <<blockVars, queue, pc, taskVars, running, aloneVars>>

-----------------------------------------------------------------------------
TaskStep(t) == PopEmpty(t) \/ Pop(t) \/ Gather(t) \/ Process(t) \/ Release(t)
               \/ PushReady(t) \/ Finish(t)

AudioStep == \/ OrderAlone \/ ComputeAlone \/ EndAlone \/ CountDeps \/ SetRemaining \/ OpenBlock \/ SeedOne
             \/ SeedDone \/ Help \/ CloseBlock \/ TaskStep(audio)
WorkerStep(w) == Loop(w) \/ CheckBlock(w) \/ TaskStep(w)

Next ==
  \/ \E g \in Available : StartBlock(g) \/ StartAlone(g)
  \/ AudioStep
  \/ \E w \in Workers : WorkerStep(w)
  \/ Stop \/ Joined

\* The operating system runs every thread that can run; whether the backend
\* asks for another block is its own affair.
Fairness == WF_vars(AudioStep) /\ WF_vars(Joined) /\ \A w \in Workers : WF_vars(WorkerStep(w))

Spec == Init /\ [][Next]_vars
FairSpec == Spec /\ Fairness
=============================================================================
