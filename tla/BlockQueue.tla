----------------------------- MODULE BlockQueue -----------------------------
(***************************************************************************)
(* The ready queue as compute_parallel uses it: in a block every slot is   *)
(* pushed once, by some thread, and the next block starts when every task  *)
(* was popped and run.  Workers keep popping across that boundary.         *)
(*                                                                         *)
(* ParallelExec treats push and pop as one step each and may do so because *)
(* of what is checked here.                                                *)
(***************************************************************************)
EXTENDS MPMCQueue

VARIABLES
  todo,          \* slots not yet pushed in this block
  done           \* slots popped, and so run, in this block

blockVars == <<todo, done>>

BlockInit == Init /\ todo = {} /\ done = Values

\* tasks_remaining has reached 0: every task ran.
NextBlock ==
  /\ done = Values
  /\ enqueue_pos + Cardinality(Values) <= MaxPushes
  /\ todo' = Values /\ done' = {}
  /\ UNCHANGED vars

\* The audio thread seeds a slot, or a thread releases it after its last input.
PushTask(t, s) == s \in todo /\ PushCall(t, s) /\ todo' = todo \ {s} /\ UNCHANGED done

\* pop returned s: execute(s).
RunTask(t) == PopFree(t) /\ done' = done \cup {v[t]} /\ UNCHANGED todo

\* A step of a call in progress, or a new look for a task.
Look(t) ==
  \/ (PopCall(t) \/ CallStep(t)) /\ UNCHANGED blockVars
  \/ RunTask(t)

BlockNext ==
  \/ NextBlock
  \/ \E t \in Threads :
       \/ Look(t)
       \/ \E s \in Values : PushTask(t, s)

BlockSpec == BlockInit /\ [][BlockNext]_<<vars, blockVars>>

\* Every thread keeps running: the workers spin, the audio thread helps.
FairBlockSpec == BlockSpec /\ \A t \in Threads : WF_<<vars, blockVars>>(Look(t))

-----------------------------------------------------------------------------
\* What is pushed in a block is run in that block: no push is refused although a
\* pop is slow to free its cell (compute_parallel and execute_instance_task
\* ignore push's result, and a lost task would leave tasks_remaining above 0 for
\* ever), and a pop that found the queue empty because an earlier push has claimed
\* its cell but not filled it looks again.
TasksAreRun == \A s \in Values : s \notin todo ~> s \in done
=============================================================================
