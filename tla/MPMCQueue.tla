------------------------------ MODULE MPMCQueue ------------------------------
(***************************************************************************)
(* The ready queue (mpmc_queue.hpp, after Vyukov), one step per access to  *)
(* an atomic or to a cell's value.  Positions count up; position p lives   *)
(* in cell p % Capacity, whose `seq` says which position may be written    *)
(* (seq = p), read (seq = p + 1), or written next (seq = p + Capacity).    *)
(*                                                                         *)
(* Abstracted: positions do not wrap (they are 64 bits wide).  A relaxed   *)
(* load that returns an old position is a load made earlier: nothing the   *)
(* thread does in between depends on it.                                   *)
(***************************************************************************)
EXTENDS Integers, Sequences, FiniteSets

CONSTANTS
  Threads,       \* the audio thread and the workers: all push and pop
  Values,        \* payloads: slot indices
  Capacity,      \* a power of two
  MaxPushes,     \* bound on the positions that are ever claimed
  WeakCAS        \* may compare_exchange_weak fail for no reason?

NoValue == "none"

ASSUME CapacityAssumption ==
  Capacity \in Nat /\ Capacity >= 2 /\ \E n \in 1..Capacity : Capacity = 2^n
ASSUME ValuesAssumption == NoValue \notin Values /\ MaxPushes \in Nat /\ WeakCAS \in BOOLEAN

VARIABLES
  seq, val,                    \* per cell
  enqueue_pos, dequeue_pos,
  pc, pos, v                   \* per thread: its place in push or pop, its locals

shared == <<seq, val, enqueue_pos, dequeue_pos>>
vars == <<shared, pc, pos, v>>

Cell(p) == p % Capacity

\* init(): every cell may be written by the position of its own index.
Init ==
  /\ seq = [c \in 0..Capacity-1 |-> c]
  /\ val = [c \in 0..Capacity-1 |-> NoValue]
  /\ enqueue_pos = 0 /\ dequeue_pos = 0
  /\ pc = [t \in Threads |-> "idle"] /\ pos = [t \in Threads |-> 0]
  /\ v = [t \in Threads |-> NoValue]

Goto(t, label) == pc' = [pc EXCEPT ![t] = label]

\* push or pop returns; its locals are gone.
Return(t) ==
  /\ Goto(t, "idle")
  /\ pos' = [pos EXCEPT ![t] = 0] /\ v' = [v EXCEPT ![t] = NoValue]

-----------------------------------------------------------------------------
(* push(v) *)

\* Pushes that have not claimed a position yet (for the bound).
Pushing == {t \in Threads : pc[t] \in {"push_seq", "push_cas", "push_reload"}}

PushCall(t, value) ==
  /\ pc[t] = "idle" /\ enqueue_pos + Cardinality(Pushing) < MaxPushes
  /\ v' = [v EXCEPT ![t] = value]
  /\ pos' = [pos EXCEPT ![t] = enqueue_pos]
  /\ Goto(t, "push_seq")
  /\ UNCHANGED shared

\* seq is loaded and compared with pos.
PushSeq(t) ==
  /\ pc[t] = "push_seq"
  /\ LET dif == seq[Cell(pos[t])] - pos[t] IN
     \/ dif = 0 /\ Goto(t, "push_cas")
     \/ dif > 0 /\ Goto(t, "push_reload")
  /\ UNCHANGED <<shared, pos, v>>

\* Full: push returns false.
PushFull(t) ==
  /\ pc[t] = "push_seq" /\ seq[Cell(pos[t])] < pos[t]
  /\ Return(t)
  /\ UNCHANGED shared

\* Mutant of PushReload: it compares the old position again.
PushReloadStale(t) ==
  /\ pc[t] = "push_reload"
  /\ Goto(t, "push_seq")
  /\ UNCHANGED <<shared, pos, v>>

\* seq is ahead: pos is an old position.
PushReload(t) ==
  /\ pc[t] = "push_reload"
  /\ pos' = [pos EXCEPT ![t] = enqueue_pos]
  /\ Goto(t, "push_seq")
  /\ UNCHANGED <<shared, v>>

\* Mutant of PushClaim: the position is stored, not compared and exchanged.
PushStore(t) ==
  /\ pc[t] = "push_cas"
  /\ enqueue_pos' = pos[t] + 1
  /\ Goto(t, "push_val")
  /\ UNCHANGED <<seq, val, dequeue_pos, pos, v>>

\* compare_exchange_weak succeeds: position pos is this thread's.
PushClaim(t) ==
  /\ pc[t] = "push_cas" /\ enqueue_pos = pos[t]
  /\ enqueue_pos' = pos[t] + 1
  /\ Goto(t, "push_val")
  /\ UNCHANGED <<seq, val, dequeue_pos, pos, v>>

\* It fails and reloads pos: another thread claimed the position.
PushLost(t) ==
  /\ pc[t] = "push_cas" /\ (WeakCAS \/ enqueue_pos # pos[t])
  /\ pos' = [pos EXCEPT ![t] = enqueue_pos]
  /\ Goto(t, "push_seq")
  /\ UNCHANGED <<shared, v>>

PushVal(t) ==
  /\ pc[t] = "push_val"
  /\ val' = [val EXCEPT ![Cell(pos[t])] = v[t]]
  /\ Goto(t, "push_pub")
  /\ UNCHANGED <<seq, enqueue_pos, dequeue_pos, pos, v>>

\* Mutant of PushPublish: the cell's turn is not advanced.
PushPublishTurn(t) ==
  /\ pc[t] = "push_pub"
  /\ seq' = [seq EXCEPT ![Cell(pos[t])] = pos[t]]
  /\ Return(t)
  /\ UNCHANGED <<val, enqueue_pos, dequeue_pos>>

\* The store that publishes the cell; push returns true.
PushPublish(t) ==
  /\ pc[t] = "push_pub"
  /\ seq' = [seq EXCEPT ![Cell(pos[t])] = pos[t] + 1]
  /\ Return(t)
  /\ UNCHANGED <<val, enqueue_pos, dequeue_pos>>

-----------------------------------------------------------------------------
(* pop(v) *)

PopCall(t) ==
  /\ pc[t] = "idle"
  /\ pos' = [pos EXCEPT ![t] = dequeue_pos]
  /\ Goto(t, "pop_seq")
  /\ UNCHANGED <<shared, v>>

PopSeq(t) ==
  /\ pc[t] = "pop_seq"
  /\ LET dif == seq[Cell(pos[t])] - (pos[t] + 1) IN
     \/ dif = 0 /\ Goto(t, "pop_cas")
     \/ dif > 0 /\ Goto(t, "pop_reload")
  /\ UNCHANGED <<shared, pos, v>>

\* Empty: pop returns false.
PopEmpty(t) ==
  /\ pc[t] = "pop_seq" /\ seq[Cell(pos[t])] < pos[t] + 1
  /\ Return(t)
  /\ UNCHANGED shared

PopReload(t) ==
  /\ pc[t] = "pop_reload"
  /\ pos' = [pos EXCEPT ![t] = dequeue_pos]
  /\ Goto(t, "pop_seq")
  /\ UNCHANGED <<shared, v>>

\* Mutant of PopClaim: the position is stored, but not compared.
PopStore(t) ==
  /\ pc[t] = "pop_cas"
  /\ dequeue_pos' = pos[t] + 1
  /\ Goto(t, "pop_val")
  /\ UNCHANGED <<seq, val, enqueue_pos, pos, v>>

PopClaim(t) ==
  /\ pc[t] = "pop_cas" /\ dequeue_pos = pos[t]
  /\ dequeue_pos' = pos[t] + 1
  /\ Goto(t, "pop_val")
  /\ UNCHANGED <<seq, val, enqueue_pos, pos, v>>

PopLost(t) ==
  /\ pc[t] = "pop_cas" /\ (WeakCAS \/ dequeue_pos # pos[t])
  /\ pos' = [pos EXCEPT ![t] = dequeue_pos]
  /\ Goto(t, "pop_seq")
  /\ UNCHANGED <<shared, v>>

PopVal(t) ==
  /\ pc[t] = "pop_val"
  /\ v' = [v EXCEPT ![t] = val[Cell(pos[t])]]
  /\ Goto(t, "pop_free")
  /\ UNCHANGED <<shared, pos>>

\* Mutant of PopFree: the cell is freed for a position before the next.
PopFreeEarly(t) ==
  /\ pc[t] = "pop_free"
  /\ seq' = [seq EXCEPT ![Cell(pos[t])] = pos[t] + (Capacity - 1)]
  /\ Return(t)
  /\ UNCHANGED <<val, enqueue_pos, dequeue_pos>>

\* The cell is freed for position pos + mask + 1; pop returns true.
PopFree(t) ==
  /\ pc[t] = "pop_free"
  /\ seq' = [seq EXCEPT ![Cell(pos[t])] = pos[t] + Capacity]
  /\ Return(t)
  /\ UNCHANGED <<val, enqueue_pos, dequeue_pos>>

-----------------------------------------------------------------------------
\* A step of a call in progress, but for the last one of a pop that succeeds.
CallStep(t) ==
  \/ PushSeq(t) \/ PushFull(t) \/ PushReload(t) \/ PushClaim(t) \/ PushLost(t)
  \/ PushVal(t) \/ PushPublish(t)
  \/ PopSeq(t) \/ PopEmpty(t) \/ PopReload(t) \/ PopClaim(t) \/ PopLost(t)
  \/ PopVal(t)
Step(t) == CallStep(t) \/ PopFree(t)

\* A thread waits outside push when the bound is reached; it may still pop.
Next == \E t \in Threads :
  PopCall(t) \/ Step(t) \/ \E value \in Values : PushCall(t, value)

Spec == Init /\ [][Next]_vars

-----------------------------------------------------------------------------
Labels == {"idle", "push_seq", "push_cas", "push_reload", "push_val", "push_pub",
           "pop_seq", "pop_cas", "pop_reload", "pop_val", "pop_free"}

\* Every variable has its type.
TypeOK ==
  /\ seq \in [0..Capacity-1 -> Nat] /\ val \in [0..Capacity-1 -> Values \cup {NoValue}]
  /\ enqueue_pos \in 0..MaxPushes /\ dequeue_pos \in 0..enqueue_pos
  /\ pc \in [Threads -> Labels] /\ pos \in [Threads -> 0..MaxPushes]
  /\ v \in [Threads -> Values \cup {NoValue}]

\* No two threads are at one cell's value at the same time: `val` is no atomic,
\* so the claims and `seq` must keep every write and read of it apart.
CellIsExclusive ==
  \A t, u \in Threads :
    /\ t # u /\ pc[t] \in {"push_val", "push_pub", "pop_val", "pop_free"}
    /\ pc[u] \in {"push_val", "push_pub", "pop_val", "pop_free"}
    => Cell(pos[t]) # Cell(pos[u])

\* push refuses a value only if the cell it needs still belongs to the position
\* Capacity before: nobody took that value, or a pop that took it has not freed
\* the cell (so one stalled pop may refuse pushes into a nearly empty queue).
OnlyFullRefuses ==
  [][\A t \in Threads : PushFull(t) =>
       LET before == pos[t] - Capacity IN
       \/ before \in dequeue_pos..enqueue_pos-1
       \/ \E u \in Threads : pc[u] \in {"pop_val", "pop_free"} /\ pos[u] = before]_vars

\* Neither call ever waits for another thread: a call of a thread that keeps
\* running, and whose exchanges do not fail for no reason for ever, returns, even
\* if every other thread stops in the middle of a push or a pop (the number of
\* pushes is bounded: unbounded ones could starve it).
NeverWaitsForOthers ==
  \A t \in Threads :
    WF_vars(Step(t)) /\ SF_vars(PushClaim(t)) /\ SF_vars(PopClaim(t))
      => (pc[t] # "idle" ~> pc[t] = "idle")

\* Each value is taken once, in the order of the claims, and whole: the queue
\* implements ReadyQueue.  A push takes effect when it claims its position, with
\* its value on the way, and a pop when it claims the oldest.
Writer(p) == {t \in Threads : pc[t] \in {"push_val", "push_pub"} /\ pos[t] = p}
ValueAt(p) ==
  IF Writer(p) # {} THEN v[CHOOSE t \in Writer(p) : TRUE] ELSE val[Cell(p)]

Queue == INSTANCE ReadyQueue
  WITH queue <- [i \in 1..enqueue_pos - dequeue_pos |-> ValueAt(dequeue_pos + i - 1)],
       taken <- [t \in Threads |-> CASE pc[t] = "pop_val" -> val[Cell(pos[t])]
                                      [] pc[t] = "pop_free" -> v[t]
                                      [] OTHER -> NoValue]
ImplementsFifo == Queue!Spec
-----------------------------------------------------------------------------
(* The inductive invariant.  Positions dequeue_pos..enqueue_pos-1 are in   *)
(* the queue, the next ones up to dequeue_pos+Capacity-1 are empty: these  *)
(* Capacity positions have a cell each, and its `seq` says how far the     *)
(* position's push, or the pop of the position before it, has come.        *)

Writing(t) == pc[t] \in {"push_val", "push_pub"}
Reading(t) == pc[t] \in {"pop_val", "pop_free"}

\* A thread between its claim and its last store owns its position's cell.
WritersHold == \A t \in Threads : Writing(t) =>
  pos[t] \in dequeue_pos..enqueue_pos-1 /\ seq[Cell(pos[t])] = pos[t]
ReadersHold == \A t \in Threads : Reading(t) =>
  pos[t] < dequeue_pos /\ enqueue_pos <= pos[t] + Capacity /\ seq[Cell(pos[t])] = pos[t] + 1
ClaimedOnce == \A t, u \in Threads :
  /\ pos[t] = pos[u]
  /\ (Writing(t) /\ Writing(u)) \/ (Reading(t) /\ Reading(u))
  => t = u

\* What a thread has loaded is an old position, or what it found still holds.
Attempts == \A t \in Threads :
  /\ pc[t] \in {"push_seq", "push_cas", "push_reload"} => pos[t] <= enqueue_pos
  /\ pc[t] = "push_cas" /\ pos[t] = enqueue_pos => seq[Cell(pos[t])] = pos[t]
  /\ pc[t] \in {"pop_seq", "pop_cas", "pop_reload"} => pos[t] <= dequeue_pos
  /\ pc[t] = "pop_cas" /\ pos[t] = dequeue_pos => seq[Cell(pos[t])] = pos[t] + 1

Window == dequeue_pos <= enqueue_pos /\ enqueue_pos <= dequeue_pos + Capacity
Queued == \A p \in dequeue_pos..enqueue_pos-1 :
  \/ seq[Cell(p)] = p + 1 /\ val[Cell(p)] \in Values
  \/ seq[Cell(p)] = p /\ \E t \in Threads : Writing(t) /\ pos[t] = p
Empty == \A p \in enqueue_pos..dequeue_pos+Capacity-1 :
  \/ seq[Cell(p)] = p
  \/ seq[Cell(p)] = p + 1 - Capacity /\ \E t \in Threads : Reading(t) /\ pos[t] + Capacity = p
Passed == \A p \in 0..dequeue_pos-1 : seq[Cell(p)] > p

\* The value a thread carries is one that was pushed.
Payloads == \A t \in Threads :
  /\ pc[t] \in {"push_seq", "push_cas", "push_reload", "push_val", "push_pub", "pop_free"} =>
       v[t] \in Values
  /\ pc[t] = "push_pub" => val[Cell(pos[t])] = v[t]
  /\ pc[t] = "pop_val" => val[Cell(pos[t])] \in Values

\* The bound of the model: what was claimed and what may still be.
Bounded == IsFiniteSet(Pushing) /\ enqueue_pos + Cardinality(Pushing) <= MaxPushes

IInv ==
  /\ TypeOK /\ WritersHold /\ ReadersHold /\ ClaimedOnce /\ Attempts
  /\ Window /\ Queued /\ Empty /\ Passed /\ Payloads /\ Bounded
=============================================================================
