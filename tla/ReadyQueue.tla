----------------------------- MODULE ReadyQueue -----------------------------
(***************************************************************************)
(* What the executor relies on in its ready queue (mpmc_queue.hpp): a      *)
(* bounded FIFO from which each value is taken by one thread, which gets   *)
(* the very value that was pushed.                                         *)
(***************************************************************************)
EXTENDS Integers, Sequences

CONSTANTS Threads, Values, Capacity, NoValue

VARIABLES queue, taken   \* taken[t]: the value thread t is popping

vars == <<queue, taken>>

Init == queue = << >> /\ taken = [t \in Threads |-> NoValue]

Push(v) == Len(queue) < Capacity /\ queue' = Append(queue, v) /\ UNCHANGED taken

Take(t) ==
  /\ queue # << >> /\ taken[t] = NoValue
  /\ taken' = [taken EXCEPT ![t] = Head(queue)]
  /\ queue' = Tail(queue)

\* pop returns the value.
Return(t) == taken[t] # NoValue /\ taken' = [taken EXCEPT ![t] = NoValue] /\ UNCHANGED queue

Next == (\E v \in Values : Push(v)) \/ (\E t \in Threads : Take(t) \/ Return(t))

Spec == Init /\ [][Next]_vars
=============================================================================
