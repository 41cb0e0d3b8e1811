---------------------------- MODULE MPMCQueue_proofs ----------------------------
(***************************************************************************)
(* Proofs about the ready queue, for any number of threads, any capacity   *)
(* and any bound on the pushes: no two threads are at one cell's value, a  *)
(* push is refused only for the position Capacity before, and the queue    *)
(* implements ReadyQueue.                                                  *)
(***************************************************************************)
EXTENDS MPMCQueue, FiniteSetTheorems, SequenceTheorems, TLAPS

-----------------------------------------------------------------------------
(* Positions and cells. *)

LEMMA CapacityType == Capacity \in Nat /\ Capacity >= 2
BY CapacityAssumption

LEMMA Division ==
  ASSUME NEW p \in Nat
  PROVE  \E a \in Int, r \in 0..Capacity-1 : p = Capacity * a + r /\ Cell(p) = r
<1> DEFINE a == p \div Capacity
           r == p % Capacity
<1>1. a \in Int /\ r \in 0..Capacity-1 /\ p = Capacity * a + r  BY CapacityType
<1>2. Cell(p) = r  BY DEF Cell
<1> HIDE DEF a, r
<1>3. QED  BY <1>1, <1>2

LEMMA CellType == ASSUME NEW p \in Nat PROVE Cell(p) \in 0..Capacity-1
<1>1. PICK a \in Int, r \in 0..Capacity-1 : Cell(p) = r  BY Division
<1>2. QED  BY <1>1

\* Fewer than Capacity apart, two positions live in two cells.
LEMMA CellsDiffer ==
  ASSUME NEW p \in Nat, NEW q \in Nat, p < q, q < p + Capacity
  PROVE  Cell(p) # Cell(q)
<1> SUFFICES ASSUME Cell(p) = Cell(q) PROVE FALSE  OBVIOUS
<1>1. PICK a \in Int, r \in 0..Capacity-1 : p = Capacity * a + r /\ Cell(p) = r  BY Division
<1>2. PICK b \in Int, s \in 0..Capacity-1 : q = Capacity * b + s /\ Cell(q) = s  BY Division
<1>3. Capacity \in Nat /\ q = Capacity * b + r  BY <1>1, <1>2, CapacityType
<1>4. CASE b <= a
  <2>1. Capacity * b <= Capacity * a  BY <1>3, <1>4
  <2>2. QED  BY <2>1, <1>1, <1>3
<1>5. CASE b >= a + 1
  <2>1. Capacity * b >= Capacity * (a + 1)  BY <1>3, <1>5
  <2>2. Capacity * (a + 1) = Capacity * a + Capacity  BY <1>3
  <2>3. Capacity * a \in Int /\ Capacity * b \in Int  BY <1>3
  <2>4. QED  BY <2>1, <2>2, <2>3, <1>1, <1>3
<1>6. QED  BY <1>4, <1>5

\* Capacity positions on, the cell is the same.
LEMMA CellComesRound == ASSUME NEW p \in Nat PROVE Cell(p + Capacity) = Cell(p)
<1>1. PICK a \in Int, r \in 0..Capacity-1 : p = Capacity * a + r /\ Cell(p) = r  BY Division
<1>2. Capacity \in Nat /\ p + Capacity \in Nat  BY CapacityType
<1>3. PICK b \in Int, s \in 0..Capacity-1 :
        p + Capacity = Capacity * b + s /\ Cell(p + Capacity) = s
  BY <1>2, Division
<1>4. /\ Capacity * (b - a) = Capacity * b - Capacity * a /\ b - a \in Int
      /\ Capacity * b - Capacity * a = Capacity + r - s
  <2>1. Capacity * (b - a) = Capacity * b - Capacity * a /\ b - a \in Int  BY <1>2
  <2>2. Capacity * b \in Int /\ Capacity * a \in Int  BY <1>2
  <2>3. QED  BY <2>1, <2>2, <1>1, <1>2, <1>3
<1>5. CASE b - a <= 0
  <2>1. Capacity * (b - a) <= 0  BY <1>2, <1>5
  <2>2. QED  BY <2>1, <1>2, <1>4
<1>6. CASE b - a >= 2
  <2>1. Capacity * (b - a) >= Capacity * 2  BY <1>2, <1>6
  <2>2. QED  BY <2>1, <1>2, <1>4
<1>7. CASE b - a = 1
  <2>1. Capacity * (b - a) = Capacity  BY <1>2, <1>7
  <2>2. QED  BY <2>1, <1>1, <1>2, <1>3, <1>4
<1>8. QED  BY <1>4, <1>5, <1>6, <1>7

\* The positions now in the queue, or next to come, have a cell each.
LEMMA WindowCells ==
  ASSUME NEW d \in Nat, NEW p \in d..d+Capacity-1, NEW q \in d..d+Capacity-1,
         Cell(p) = Cell(q)
  PROVE  p = q
<1>1. p \in Nat /\ q \in Nat /\ Capacity \in Nat  BY CapacityType
<1>2. ~(p < q) /\ ~(q < p)
  <2>1. p < q + Capacity /\ q < p + Capacity  BY <1>1
  <2>2. QED  BY <1>1, <2>1, CellsDiffer
<1>3. QED  BY <1>1, <1>2

\* A position and the next have two cells: Capacity is 2 or more.
LEMMA NextCell == ASSUME NEW p \in Nat PROVE Cell(p + 1) # Cell(p)
<1>1. p < p + 1 /\ p + 1 < p + Capacity  BY CapacityType
<1>2. QED  BY <1>1, CellsDiffer

-----------------------------------------------------------------------------
(* What the invariant says of one thread. *)

Busy(t) == Writing(t) \/ Reading(t)

LEMMA Positions ==
  ASSUME TypeOK
  PROVE  /\ enqueue_pos \in Nat /\ dequeue_pos \in Nat /\ Capacity \in Nat /\ Capacity >= 2
         /\ \A t \in Threads : pos[t] \in Nat
         /\ \A p \in Nat : Cell(p) \in 0..Capacity-1 /\ seq[Cell(p)] \in Nat
<1>1. MaxPushes \in Nat  BY ValuesAssumption
<1>2. \A p \in Nat : Cell(p) \in 0..Capacity-1  BY CellType
<1>3. enqueue_pos \in Nat /\ dequeue_pos \in Nat  BY <1>1 DEF TypeOK
<1>4. \A t \in Threads : pos[t] \in Nat
  <2>1. pos \in [Threads -> 0..MaxPushes]  BY DEF TypeOK
  <2>2. QED  BY <2>1, <1>1
<1>5. \A p \in Nat : seq[Cell(p)] \in Nat
  <2>1. seq \in [0..Capacity-1 -> Nat]  BY DEF TypeOK
  <2>2. QED  BY <2>1, <1>2
<1>6. QED  BY <1>2, <1>3, <1>4, <1>5, CapacityType

\* Two threads between a claim and a last store are at two cells.
LEMMA OwnCells ==
  ASSUME TypeOK, WritersHold, ReadersHold, ClaimedOnce,
         NEW t \in Threads, NEW u \in Threads, t # u, Busy(t), Busy(u)
  PROVE  Cell(pos[t]) # Cell(pos[u])
<1>1. pos[t] \in Nat /\ pos[u] \in Nat  BY Positions
<1>2. SUFFICES ASSUME Cell(pos[t]) = Cell(pos[u]) PROVE FALSE  OBVIOUS
<1>3. CASE Writing(t) /\ Writing(u)
  BY <1>1, <1>2, <1>3 DEF WritersHold, ClaimedOnce
<1>4. CASE Reading(t) /\ Reading(u)
  BY <1>1, <1>2, <1>4 DEF ReadersHold, ClaimedOnce
<1>5. CASE Writing(t) /\ Reading(u)
  <2>1. pos[t] = pos[u] + 1  BY <1>1, <1>2, <1>5 DEF WritersHold, ReadersHold
  <2>2. QED  BY <1>1, <1>2, <2>1, NextCell
<1>6. CASE Reading(t) /\ Writing(u)
  <2>1. pos[u] = pos[t] + 1  BY <1>1, <1>2, <1>6 DEF WritersHold, ReadersHold
  <2>2. QED  BY <1>1, <1>2, <2>1, NextCell
<1>7. QED  BY <1>3, <1>4, <1>5, <1>6 DEF Busy

LEMMA ExclusiveFollows == IInv => CellIsExclusive
<1> SUFFICES ASSUME IInv, NEW t \in Threads, NEW u \in Threads, t # u,
                    pc[t] \in {"push_val", "push_pub", "pop_val", "pop_free"},
                    pc[u] \in {"push_val", "push_pub", "pop_val", "pop_free"}
             PROVE  Cell(pos[t]) # Cell(pos[u])
  BY DEF CellIsExclusive
<1>1. Busy(t) /\ Busy(u)  BY DEF Busy, Writing, Reading
<1>2. QED  BY <1>1, OwnCells DEF IInv

-----------------------------------------------------------------------------
(* Steps that touch nothing shared. *)

Claiming == {"push_seq", "push_cas", "push_reload"}
Looking == {"pop_seq", "pop_cas", "pop_reload"}
Owning == {"push_val", "push_pub", "pop_val", "pop_free"}

\* Of the threads, only t moves.
Moves(t) ==
  /\ pc' \in [Threads -> Labels] /\ pos' \in [Threads -> Nat]
  /\ v' \in [Threads -> Values \cup {NoValue}]
  /\ \A x \in Threads : x # t => pc'[x] = pc[x] /\ pos'[x] = pos[x] /\ v'[x] = v[x]

\* t looks for a position, or gives up: what it loaded is as Attempts says.
LocalTo(t) ==
  /\ UNCHANGED shared /\ Moves(t)
  /\ pc[t] \notin Owning /\ pc'[t] \notin Owning
  /\ pc'[t] \in Claiming => pos'[t] <= enqueue_pos /\ v'[t] \in Values
  /\ pc'[t] = "push_cas" /\ pos'[t] = enqueue_pos => seq[Cell(pos'[t])] = pos'[t]
  /\ pc'[t] \in Looking => pos'[t] <= dequeue_pos
  /\ pc'[t] = "pop_cas" /\ pos'[t] = dequeue_pos => seq[Cell(pos'[t])] = pos'[t] + 1
  /\ pos'[t] <= enqueue_pos

LEMMA MovesOne ==
  ASSUME TypeOK, NEW t \in Threads, NEW label \in Labels, NEW p \in Nat,
         NEW w \in Values \cup {NoValue},
         pc' = [pc EXCEPT ![t] = label],
         pos' = [pos EXCEPT ![t] = p] \/ (pos' = pos /\ p = pos[t]),
         v' = [v EXCEPT ![t] = w] \/ (v' = v /\ w = v[t])
  PROVE  Moves(t) /\ pc'[t] = label /\ pos'[t] = p /\ v'[t] = w
<1>1. pc \in [Threads -> Labels] /\ v \in [Threads -> Values \cup {NoValue}]  BY DEF TypeOK
<1>2. pos \in [Threads -> Nat]
  <2>1. MaxPushes \in Nat  BY ValuesAssumption
  <2>2. pos \in [Threads -> 0..MaxPushes]  BY DEF TypeOK
  <2>3. QED  BY <2>1, <2>2
<1>3. pos' \in [Threads -> Nat] /\ pos'[t] = p /\ \A x \in Threads : x # t => pos'[x] = pos[x]
  BY <1>2
<1>4. v' \in [Threads -> Values \cup {NoValue}] /\ v'[t] = w
      /\ \A x \in Threads : x # t => v'[x] = v[x]
  BY <1>1
<1>5. pc' \in [Threads -> Labels] /\ pc'[t] = label /\ \A x \in Threads : x # t => pc'[x] = pc[x]
  BY <1>1
<1>6. QED  BY <1>3, <1>4, <1>5 DEF Moves

\* The thread's own data, typed.
LEMMA ThreadTypes ==
  ASSUME TypeOK, NEW t \in Threads
  PROVE  pos[t] \in Nat /\ v[t] \in Values \cup {NoValue} /\ NoValue \in Values \cup {NoValue}
BY Positions DEF TypeOK

LEMMA PushCallLocal ==
  ASSUME IInv, NEW t \in Threads, NEW value \in Values, PushCall(t, value)
  PROVE  LocalTo(t)
<1>1. TypeOK  BY DEF IInv
<1>2. enqueue_pos \in Nat  BY <1>1, Positions
<1>3. Moves(t) /\ pc'[t] = "push_seq" /\ pos'[t] = enqueue_pos /\ v'[t] = value
  <2>1. "push_seq" \in Labels  BY DEF Labels
  <2>2. QED  BY <1>1, <1>2, <2>1, MovesOne DEF PushCall, Goto
<1>4. pc[t] = "idle" /\ UNCHANGED shared  BY DEF PushCall
<1>5. QED  BY <1>2, <1>3, <1>4 DEF LocalTo, Claiming, Looking, Owning

LEMMA PushSeqLocal ==
  ASSUME IInv, NEW t \in Threads, PushSeq(t)
  PROVE  LocalTo(t)
<1>1. TypeOK /\ Attempts /\ Payloads  BY DEF IInv
<1>2. /\ enqueue_pos \in Nat /\ pos[t] \in Nat /\ seq[Cell(pos[t])] \in Nat
      /\ v[t] \in Values \cup {NoValue}
  BY <1>1, Positions, ThreadTypes
<1>3. pc[t] = "push_seq" /\ UNCHANGED shared /\ pos' = pos /\ v' = v  BY DEF PushSeq
<1>4. pos[t] <= enqueue_pos /\ v[t] \in Values  BY <1>1, <1>3 DEF Attempts, Payloads
<1>5. CASE seq[Cell(pos[t])] - pos[t] = 0 /\ Goto(t, "push_cas")
  <2>1. "push_cas" \in Labels  BY DEF Labels
  <2>2. Moves(t) /\ pc'[t] = "push_cas" /\ pos'[t] = pos[t] /\ v'[t] = v[t]
    BY <1>1, <1>2, <1>3, <1>5, <2>1, MovesOne DEF Goto
  <2>3. seq[Cell(pos[t])] = pos[t]  BY <1>2, <1>5
  <2>4. QED  BY <1>2, <1>3, <1>4, <2>2, <2>3 DEF LocalTo, Claiming, Looking, Owning
<1>6. CASE Goto(t, "push_reload")
  <2>1. "push_reload" \in Labels  BY DEF Labels
  <2>2. Moves(t) /\ pc'[t] = "push_reload" /\ pos'[t] = pos[t] /\ v'[t] = v[t]
    BY <1>1, <1>2, <1>3, <1>6, <2>1, MovesOne DEF Goto
  <2>3. QED  BY <1>2, <1>3, <1>4, <2>2 DEF LocalTo, Claiming, Looking, Owning
<1>7. QED  BY <1>5, <1>6 DEF PushSeq

\* pos is loaded again, after a failed exchange or an old position.
LEMMA PushReloadLocal ==
  ASSUME IInv, NEW t \in Threads, PushReload(t) \/ PushLost(t)
  PROVE  LocalTo(t)
<1>1. TypeOK /\ Payloads  BY DEF IInv
<1>2. enqueue_pos \in Nat /\ v[t] \in Values \cup {NoValue}  BY <1>1, Positions, ThreadTypes
<1>3. /\ pc[t] \in {"push_reload", "push_cas"} /\ UNCHANGED shared /\ v' = v
      /\ pos' = [pos EXCEPT ![t] = enqueue_pos] /\ pc' = [pc EXCEPT ![t] = "push_seq"]
  BY DEF PushReload, PushLost, Goto
<1>4. v[t] \in Values  BY <1>1, <1>3 DEF Payloads
<1>5. Moves(t) /\ pc'[t] = "push_seq" /\ pos'[t] = enqueue_pos /\ v'[t] = v[t]
  <2>1. "push_seq" \in Labels  BY DEF Labels
  <2>2. QED  BY <1>1, <1>2, <1>3, <2>1, MovesOne
<1>6. QED  BY <1>2, <1>3, <1>4, <1>5 DEF LocalTo, Claiming, Looking, Owning

\* push refuses, or pop finds nothing: the call returns.
LEMMA ReturnsLocal ==
  ASSUME IInv, NEW t \in Threads, PushFull(t) \/ PopEmpty(t)
  PROVE  LocalTo(t)
<1>1. TypeOK  BY DEF IInv
<1>2. enqueue_pos \in Nat /\ NoValue \in Values \cup {NoValue}  BY <1>1, Positions
<1>3. /\ pc[t] \in {"push_seq", "pop_seq"} /\ UNCHANGED shared
      /\ pos' = [pos EXCEPT ![t] = 0] /\ pc' = [pc EXCEPT ![t] = "idle"]
      /\ v' = [v EXCEPT ![t] = NoValue]
  BY DEF PushFull, PopEmpty, Return, Goto
<1>4. Moves(t) /\ pc'[t] = "idle" /\ pos'[t] = 0 /\ v'[t] = NoValue
  <2>1. "idle" \in Labels  BY DEF Labels
  <2>2. QED  BY <1>1, <1>2, <1>3, <2>1, MovesOne
<1>5. QED  BY <1>2, <1>3, <1>4 DEF LocalTo, Claiming, Looking, Owning

LEMMA PopCallLocal ==
  ASSUME IInv, NEW t \in Threads,
         PopCall(t) \/ PopReload(t) \/ PopLost(t)
  PROVE  LocalTo(t)
<1>1. TypeOK /\ Window  BY DEF IInv
<1>2. /\ enqueue_pos \in Nat /\ dequeue_pos \in Nat /\ v[t] \in Values \cup {NoValue}
      /\ dequeue_pos <= enqueue_pos
  BY <1>1, Positions, ThreadTypes DEF Window
<1>3. /\ pc[t] \in {"idle", "pop_reload", "pop_cas"} /\ UNCHANGED shared /\ v' = v
      /\ pos' = [pos EXCEPT ![t] = dequeue_pos] /\ pc' = [pc EXCEPT ![t] = "pop_seq"]
  BY DEF PopCall, PopReload, PopLost, Goto
<1>4. Moves(t) /\ pc'[t] = "pop_seq" /\ pos'[t] = dequeue_pos /\ v'[t] = v[t]
  <2>1. "pop_seq" \in Labels  BY DEF Labels
  <2>2. QED  BY <1>1, <1>2, <1>3, <2>1, MovesOne
<1>5. QED  BY <1>2, <1>3, <1>4 DEF LocalTo, Claiming, Looking, Owning

LEMMA PopSeqLocal ==
  ASSUME IInv, NEW t \in Threads, PopSeq(t)
  PROVE  LocalTo(t)
<1>1. TypeOK /\ Attempts /\ Window  BY DEF IInv
<1>2. /\ enqueue_pos \in Nat /\ dequeue_pos \in Nat /\ pos[t] \in Nat
      /\ seq[Cell(pos[t])] \in Nat /\ v[t] \in Values \cup {NoValue}
      /\ dequeue_pos <= enqueue_pos
  BY <1>1, Positions, ThreadTypes DEF Window
<1>3. pc[t] = "pop_seq" /\ UNCHANGED shared /\ pos' = pos /\ v' = v  BY DEF PopSeq
<1>4. pos[t] <= dequeue_pos  BY <1>1, <1>3 DEF Attempts
<1>5. CASE seq[Cell(pos[t])] - (pos[t] + 1) = 0 /\ Goto(t, "pop_cas")
  <2>1. "pop_cas" \in Labels  BY DEF Labels
  <2>2. Moves(t) /\ pc'[t] = "pop_cas" /\ pos'[t] = pos[t] /\ v'[t] = v[t]
    BY <1>1, <1>2, <1>3, <1>5, <2>1, MovesOne DEF Goto
  <2>3. seq[Cell(pos[t])] = pos[t] + 1  BY <1>2, <1>5
  <2>4. QED  BY <1>2, <1>3, <1>4, <2>2, <2>3 DEF LocalTo, Claiming, Looking, Owning
<1>6. CASE Goto(t, "pop_reload")
  <2>1. "pop_reload" \in Labels  BY DEF Labels
  <2>2. Moves(t) /\ pc'[t] = "pop_reload" /\ pos'[t] = pos[t] /\ v'[t] = v[t]
    BY <1>1, <1>2, <1>3, <1>6, <2>1, MovesOne DEF Goto
  <2>3. QED  BY <1>2, <1>3, <1>4, <2>2 DEF LocalTo, Claiming, Looking, Owning
<1>7. QED  BY <1>5, <1>6 DEF PopSeq

\* A step that touches nothing shared leaves each claim and cell as it was.
LEMMA LocalKeepsOwners ==
  ASSUME IInv, NEW t \in Threads, LocalTo(t)
  PROVE  /\ \A x \in Threads : (Writing(x)' <=> Writing(x)) /\ (Reading(x)' <=> Reading(x))
         /\ \A x \in Threads : Busy(x) => x # t
<1>1. pc[t] \notin Owning /\ pc'[t] \notin Owning /\ \A x \in Threads : x # t => pc'[x] = pc[x]
  BY DEF LocalTo, Moves
<1>2. ASSUME NEW x \in Threads PROVE (Writing(x)' <=> Writing(x)) /\ (Reading(x)' <=> Reading(x))
  <2>1. CASE x = t  BY <1>1, <2>1 DEF Writing, Reading, Owning
  <2>2. CASE x # t  BY <1>1, <2>2 DEF Writing, Reading
  <2>3. QED  BY <2>1, <2>2
<1>3. QED  BY <1>1, <1>2 DEF Busy, Writing, Reading, Owning

LEMMA LocalInv ==
  ASSUME IInv, NEW t \in Threads, LocalTo(t), Bounded'
  PROVE  IInv'
<1> USE DEF IInv
<1>1. UNCHANGED <<seq, val, enqueue_pos, dequeue_pos>>  BY DEF LocalTo, shared
<1>2. Moves(t) /\ \A x \in Threads : x # t => pc'[x] = pc[x] /\ pos'[x] = pos[x] /\ v'[x] = v[x]
  BY DEF LocalTo, Moves
<1>3. /\ \A x \in Threads : (Writing(x)' <=> Writing(x)) /\ (Reading(x)' <=> Reading(x))
      /\ \A x \in Threads : Busy(x) => x # t
  BY LocalKeepsOwners
<1>4. \A x \in Threads : Writing(x) \/ Reading(x) => pos'[x] = pos[x]
  BY <1>2, <1>3 DEF Busy
<1>5. TypeOK'
  <2>1. \A x \in Threads : pos'[x] \in 0..MaxPushes
    <3>1. MaxPushes \in Nat /\ enqueue_pos \in 0..MaxPushes  BY ValuesAssumption DEF TypeOK
    <3>2. pos'[t] \in Nat /\ pos'[t] <= enqueue_pos  BY <1>2 DEF LocalTo, Moves
    <3>3. QED  BY <1>2, <3>1, <3>2 DEF TypeOK
  <2>2. QED  BY <1>1, <1>2, <2>1 DEF TypeOK, Moves
<1>6. WritersHold'  BY <1>1, <1>3, <1>4 DEF WritersHold, Cell
<1>7. ReadersHold'  BY <1>1, <1>3, <1>4 DEF ReadersHold, Cell
<1>8. ClaimedOnce'  BY <1>3, <1>4 DEF ClaimedOnce
<1>9. Attempts'
  <2>1. SUFFICES ASSUME NEW x \in Threads
                 PROVE  /\ pc'[x] \in Claiming => pos'[x] <= enqueue_pos
                        /\ pc'[x] = "push_cas" /\ pos'[x] = enqueue_pos => seq[Cell(pos'[x])] = pos'[x]
                        /\ pc'[x] \in Looking => pos'[x] <= dequeue_pos
                        /\ pc'[x] = "pop_cas" /\ pos'[x] = dequeue_pos
                             => seq[Cell(pos'[x])] = pos'[x] + 1
    BY <1>1 DEF Attempts, Claiming, Looking, Cell
  <2>2. CASE x = t  BY <2>2 DEF LocalTo
  <2>3. CASE x # t  BY <1>2, <2>3 DEF Attempts, Claiming, Looking
  <2>4. QED  BY <2>2, <2>3
<1>10. Window'  BY <1>1 DEF Window
<1>11. Queued'
  <2>1. \A p : (\E x \in Threads : Writing(x) /\ pos[x] = p)
                 => \E x \in Threads : Writing(x)' /\ pos'[x] = p
    BY <1>3, <1>4
  <2>2. QED  BY <1>1, <2>1 DEF Queued, Cell
<1>12. Empty'
  <2>1. \A p : (\E x \in Threads : Reading(x) /\ pos[x] + Capacity = p)
                 => \E x \in Threads : Reading(x)' /\ pos'[x] + Capacity = p
    BY <1>3, <1>4
  <2>2. QED  BY <1>1, <2>1 DEF Empty, Cell
<1>13. Passed'  BY <1>1 DEF Passed, Cell
<1>14. Payloads'
  <2>1. SUFFICES ASSUME NEW x \in Threads
                 PROVE  /\ pc'[x] \in Claiming \cup {"push_val", "push_pub", "pop_free"} => v'[x] \in Values
                        /\ pc'[x] = "push_pub" => val[Cell(pos'[x])] = v'[x]
                        /\ pc'[x] = "pop_val" => val[Cell(pos'[x])] \in Values
    BY <1>1 DEF Payloads, Claiming, Cell
  <2>2. CASE x = t  BY <2>2 DEF LocalTo, Owning
  <2>3. CASE x # t  BY <1>2, <2>3 DEF Payloads, Claiming
  <2>4. QED  BY <2>2, <2>3
<1>15. QED
  BY <1>5, <1>6, <1>7, <1>8, <1>9, <1>10, <1>11, <1>12, <1>13, <1>14

-----------------------------------------------------------------------------
(* Steps that claim a position. *)

\* A claim under way, by t, of the kind of claim that `busy` says; no value moves.
LEMMA OthersStay ==
  ASSUME NEW t \in Threads, Moves(t), NEW x \in Threads, x # t
  PROVE  /\ (Writing(x)' <=> Writing(x)) /\ (Reading(x)' <=> Reading(x))
         /\ pc'[x] = pc[x] /\ pos'[x] = pos[x] /\ v'[x] = v[x]
BY DEF Moves, Writing, Reading

LEMMA PushClaimDoes ==
  ASSUME IInv, NEW t \in Threads, PushClaim(t)
  PROVE  /\ Moves(t) /\ pc[t] = "push_cas" /\ pc'[t] = "push_val" /\ pos'[t] = pos[t] /\ v'[t] = v[t]
         /\ pos[t] = enqueue_pos /\ enqueue_pos' = enqueue_pos + 1
         /\ UNCHANGED <<seq, val, dequeue_pos, pos, v>>
         /\ seq[Cell(enqueue_pos)] = enqueue_pos /\ enqueue_pos < dequeue_pos + Capacity
<1> USE DEF IInv
<1>1. /\ pc[t] = "push_cas" /\ enqueue_pos = pos[t] /\ enqueue_pos' = pos[t] + 1
      /\ pc' = [pc EXCEPT ![t] = "push_val"] /\ UNCHANGED <<seq, val, dequeue_pos, pos, v>>
  BY DEF PushClaim, Goto
<1>2. pos[t] \in Nat /\ v[t] \in Values \cup {NoValue}  BY ThreadTypes
<1>3. Moves(t) /\ pc'[t] = "push_val" /\ pos'[t] = pos[t] /\ v'[t] = v[t]
  <2>1. "push_val" \in Labels  BY DEF Labels
  <2>2. QED  BY <1>1, <1>2, <2>1, MovesOne
<1>4. seq[Cell(enqueue_pos)] = enqueue_pos  BY <1>1 DEF Attempts
<1>5. enqueue_pos < dequeue_pos + Capacity
  <2>1. SUFFICES ASSUME enqueue_pos = dequeue_pos + Capacity PROVE FALSE
    BY Positions DEF Window
  <2>2. Cell(enqueue_pos) = Cell(dequeue_pos)  BY <2>1, Positions, CellComesRound
  <2>3. dequeue_pos \in dequeue_pos..enqueue_pos-1  BY <2>1, Positions
  <2>4. seq[Cell(dequeue_pos)] \in {dequeue_pos, dequeue_pos + 1}  BY <2>3 DEF Queued
  <2>5. QED  BY <2>1, <2>2, <2>4, <1>4, Positions
<1>6. QED  BY <1>1, <1>3, <1>4, <1>5

LEMMA PushClaimInv ==
  ASSUME IInv, NEW t \in Threads, PushClaim(t), Bounded'
  PROVE  IInv'
<1> USE DEF IInv
<1>1. /\ Moves(t) /\ pc[t] = "push_cas" /\ pc'[t] = "push_val"
      /\ pos[t] = enqueue_pos /\ enqueue_pos' = enqueue_pos + 1
      /\ UNCHANGED <<seq, val, dequeue_pos, pos, v>>
      /\ seq[Cell(enqueue_pos)] = enqueue_pos /\ enqueue_pos < dequeue_pos + Capacity
  BY PushClaimDoes
<1>2. /\ enqueue_pos \in Nat /\ dequeue_pos \in Nat /\ Capacity \in Nat /\ Capacity >= 2
      /\ \A x \in Threads : pos[x] \in Nat
      /\ dequeue_pos <= enqueue_pos
  BY Positions DEF Window
<1>3. \A x \in Threads : x # t => /\ Writing(x)' <=> Writing(x)
                                  /\ Reading(x)' <=> Reading(x)
                                  /\ pc'[x] = pc[x]
  BY <1>1, OthersStay
<1>4. Writing(t)' /\ ~Reading(t)' /\ ~Writing(t) /\ ~Reading(t)
  BY <1>1 DEF Writing, Reading
<1>5. TypeOK'
  <2>1. enqueue_pos' \in 0..MaxPushes
    <3>1. Cardinality(Pushing') \in Nat /\ enqueue_pos' + Cardinality(Pushing') <= MaxPushes
      BY FS_CardinalityType DEF Bounded
    <3>2. QED  BY <1>1, <1>2, <3>1, ValuesAssumption
  <2>2. dequeue_pos' \in 0..enqueue_pos'  BY <1>1, <1>2
  <2>3. QED  BY <1>1, <2>1, <2>2 DEF TypeOK, Moves
<1>6. WritersHold'
  <2>1. SUFFICES ASSUME NEW x \in Threads, Writing(x)'
                 PROVE  pos[x] \in dequeue_pos..enqueue_pos /\ seq[Cell(pos[x])] = pos[x]
    BY <1>1, <1>2 DEF WritersHold, Cell
  <2>2. CASE x = t  BY <1>1, <1>2, <2>2
  <2>3. CASE x # t  BY <1>2, <1>3, <2>1, <2>3 DEF WritersHold
  <2>4. QED  BY <2>2, <2>3
<1>7. ReadersHold'
  <2>1. SUFFICES ASSUME NEW x \in Threads, Reading(x)
                 PROVE  /\ pos[x] < dequeue_pos /\ enqueue_pos + 1 <= pos[x] + Capacity
                        /\ seq[Cell(pos[x])] = pos[x] + 1
    BY <1>1, <1>3, <1>4 DEF ReadersHold, Cell
  <2>2. pos[x] < dequeue_pos /\ enqueue_pos <= pos[x] + Capacity /\ seq[Cell(pos[x])] = pos[x] + 1
    BY <2>1 DEF ReadersHold
  <2>3. enqueue_pos # pos[x] + Capacity
    <3>1. Cell(pos[x] + Capacity) = Cell(pos[x])  BY <1>2, CellComesRound
    <3>2. QED  BY <1>1, <1>2, <2>2, <3>1
  <2>4. QED  BY <1>2, <2>2, <2>3
<1>8. ClaimedOnce'
  <2>1. \A x \in Threads : Writing(x) => pos[x] # enqueue_pos  BY <1>2 DEF WritersHold
  <2>2. SUFFICES ASSUME NEW x \in Threads, NEW y \in Threads, pos[x] = pos[y],
                        (Writing(x)' /\ Writing(y)') \/ (Reading(x)' /\ Reading(y)')
                 PROVE  x = y
    BY <1>1 DEF ClaimedOnce
  <2>3. QED  BY <1>1, <1>3, <1>4, <2>1, <2>2 DEF ClaimedOnce
<1>9. Attempts'
  <2>1. SUFFICES ASSUME NEW x \in Threads
                 PROVE  /\ pc'[x] \in Claiming => pos[x] <= enqueue_pos + 1
                        /\ pc'[x] = "push_cas" /\ pos[x] = enqueue_pos + 1 => seq[Cell(pos[x])] = pos[x]
                        /\ pc'[x] \in Looking => pos[x] <= dequeue_pos
                        /\ pc'[x] = "pop_cas" /\ pos[x] = dequeue_pos
                             => seq[Cell(pos[x])] = pos[x] + 1
    BY <1>1 DEF Attempts, Claiming, Looking, Cell
  <2>2. CASE x = t  BY <1>1, <2>2 DEF Claiming, Looking
  <2>3. CASE x # t
    <3>1. pc'[x] \in Claiming => pos[x] <= enqueue_pos  BY <1>3, <2>3 DEF Attempts, Claiming
    <3>2. pos[x] <= enqueue_pos => pos[x] <= enqueue_pos + 1 /\ pos[x] # enqueue_pos + 1  BY <1>2
    <3>3. /\ pc'[x] \in Looking => pos[x] <= dequeue_pos
          /\ pc'[x] = "pop_cas" /\ pos[x] = dequeue_pos => seq[Cell(pos[x])] = pos[x] + 1
      BY <1>3, <2>3 DEF Attempts, Looking
    <3>4. QED  BY <3>1, <3>2, <3>3 DEF Claiming
  <2>4. QED  BY <2>2, <2>3
<1>10. Window'  BY <1>1, <1>2 DEF Window
<1>11. Queued'
  <2>1. SUFFICES ASSUME NEW p \in dequeue_pos..enqueue_pos
                 PROVE  \/ seq[Cell(p)] = p + 1 /\ val[Cell(p)] \in Values
                        \/ seq[Cell(p)] = p /\ \E x \in Threads : Writing(x)' /\ pos[x] = p
    <3>1. dequeue_pos'..enqueue_pos'-1 = dequeue_pos..enqueue_pos  BY <1>1, <1>2
    <3>2. QED  BY <1>1, <3>1 DEF Queued, Cell
  <2>2. CASE p = enqueue_pos  BY <1>1, <1>4, <2>2
  <2>3. CASE p # enqueue_pos
    <3>1. p \in dequeue_pos..enqueue_pos-1  BY <1>2, <2>3
    <3>2. \A x \in Threads : Writing(x) => Writing(x)'  BY <1>3, <1>4
    <3>3. QED  BY <3>1, <3>2 DEF Queued
  <2>4. QED  BY <2>2, <2>3
<1>12. Empty'
  <2>1. SUFFICES ASSUME NEW p \in enqueue_pos+1..dequeue_pos+Capacity-1
                 PROVE  \/ seq[Cell(p)] = p
                        \/ /\ seq[Cell(p)] = p + 1 - Capacity
                           /\ \E x \in Threads : Reading(x)' /\ pos[x] + Capacity = p
    BY <1>1 DEF Empty, Cell
  <2>2. p \in enqueue_pos..dequeue_pos+Capacity-1  BY <1>2
  <2>3. \A x \in Threads : Reading(x) => Reading(x)'  BY <1>3, <1>4
  <2>4. QED  BY <2>2, <2>3 DEF Empty
<1>13. Passed'  BY <1>1 DEF Passed, Cell
<1>14. Payloads'
  <2>1. SUFFICES ASSUME NEW x \in Threads
                 PROVE  /\ pc'[x] \in Claiming \cup {"push_val", "push_pub", "pop_free"} => v[x] \in Values
                        /\ pc'[x] = "push_pub" => val[Cell(pos[x])] = v[x]
                        /\ pc'[x] = "pop_val" => val[Cell(pos[x])] \in Values
    BY <1>1 DEF Payloads, Claiming, Cell
  <2>2. CASE x = t  BY <1>1, <2>2 DEF Payloads
  <2>3. CASE x # t  BY <1>3, <2>3 DEF Payloads, Claiming
  <2>4. QED  BY <2>2, <2>3
<1>15. QED
  BY <1>5, <1>6, <1>7, <1>8, <1>9, <1>10, <1>11, <1>12, <1>13, <1>14

LEMMA PopClaimDoes ==
  ASSUME IInv, NEW t \in Threads, PopClaim(t)
  PROVE  /\ Moves(t) /\ pc[t] = "pop_cas" /\ pc'[t] = "pop_val" /\ pos'[t] = pos[t] /\ v'[t] = v[t]
         /\ pos[t] = dequeue_pos /\ dequeue_pos' = dequeue_pos + 1
         /\ UNCHANGED <<seq, val, enqueue_pos, pos, v>>
         /\ seq[Cell(dequeue_pos)] = dequeue_pos + 1 /\ dequeue_pos < enqueue_pos
         /\ val[Cell(dequeue_pos)] \in Values
<1> USE DEF IInv
<1>1. /\ pc[t] = "pop_cas" /\ dequeue_pos = pos[t] /\ dequeue_pos' = pos[t] + 1
      /\ pc' = [pc EXCEPT ![t] = "pop_val"] /\ UNCHANGED <<seq, val, enqueue_pos, pos, v>>
  BY DEF PopClaim, Goto
<1>2. pos[t] \in Nat /\ v[t] \in Values \cup {NoValue}  BY ThreadTypes
<1>3. Moves(t) /\ pc'[t] = "pop_val" /\ pos'[t] = pos[t] /\ v'[t] = v[t]
  <2>1. "pop_val" \in Labels  BY DEF Labels
  <2>2. QED  BY <1>1, <1>2, <2>1, MovesOne
<1>4. seq[Cell(dequeue_pos)] = dequeue_pos + 1  BY <1>1 DEF Attempts
<1>5. dequeue_pos < enqueue_pos
  <2>1. SUFFICES ASSUME dequeue_pos = enqueue_pos PROVE FALSE
    BY Positions DEF Window
  <2>2. dequeue_pos \in enqueue_pos..dequeue_pos+Capacity-1  BY <2>1, Positions
  <2>3. seq[Cell(dequeue_pos)] \in {dequeue_pos, dequeue_pos + 1 - Capacity}
    BY <2>2 DEF Empty
  <2>4. QED  BY <2>3, <1>4, Positions
<1>6. val[Cell(dequeue_pos)] \in Values
  <2>1. dequeue_pos \in dequeue_pos..enqueue_pos-1  BY <1>5, Positions
  <2>2. seq[Cell(dequeue_pos)] # dequeue_pos  BY <1>4, Positions
  <2>3. QED  BY <2>1, <2>2 DEF Queued
<1>7. QED  BY <1>1, <1>3, <1>4, <1>5, <1>6

LEMMA PopClaimInv ==
  ASSUME IInv, NEW t \in Threads, PopClaim(t), Bounded'
  PROVE  IInv'
<1> USE DEF IInv
<1>1. /\ Moves(t) /\ pc[t] = "pop_cas" /\ pc'[t] = "pop_val"
      /\ pos[t] = dequeue_pos /\ dequeue_pos' = dequeue_pos + 1
      /\ UNCHANGED <<seq, val, enqueue_pos, pos, v>>
      /\ seq[Cell(dequeue_pos)] = dequeue_pos + 1 /\ dequeue_pos < enqueue_pos
      /\ val[Cell(dequeue_pos)] \in Values
  BY PopClaimDoes
<1>2. /\ enqueue_pos \in Nat /\ dequeue_pos \in Nat /\ Capacity \in Nat /\ Capacity >= 2
      /\ \A x \in Threads : pos[x] \in Nat
      /\ enqueue_pos <= dequeue_pos + Capacity
  BY Positions DEF Window
<1>3. \A x \in Threads : x # t => /\ Writing(x)' <=> Writing(x)
                                  /\ Reading(x)' <=> Reading(x)
                                  /\ pc'[x] = pc[x]
  BY <1>1, OthersStay
<1>4. Reading(t)' /\ ~Writing(t)' /\ ~Writing(t) /\ ~Reading(t)
  BY <1>1 DEF Writing, Reading
<1>5. TypeOK'
  <2>1. dequeue_pos' \in 0..enqueue_pos'  BY <1>1, <1>2
  <2>2. QED  BY <1>1, <2>1 DEF TypeOK, Moves
<1>6. WritersHold'
  <2>1. SUFFICES ASSUME NEW x \in Threads, Writing(x)
                 PROVE  pos[x] \in dequeue_pos+1..enqueue_pos-1 /\ seq[Cell(pos[x])] = pos[x]
    BY <1>1, <1>3, <1>4 DEF WritersHold, Cell
  <2>2. pos[x] \in dequeue_pos..enqueue_pos-1 /\ seq[Cell(pos[x])] = pos[x]
    BY <2>1 DEF WritersHold
  <2>3. pos[x] # dequeue_pos  BY <1>1, <1>2, <2>2
  <2>4. QED  BY <1>2, <2>2, <2>3
<1>7. ReadersHold'
  <2>1. SUFFICES ASSUME NEW x \in Threads, Reading(x)'
                 PROVE  /\ pos[x] < dequeue_pos + 1 /\ enqueue_pos <= pos[x] + Capacity
                        /\ seq[Cell(pos[x])] = pos[x] + 1
    BY <1>1 DEF ReadersHold, Cell
  <2>2. CASE x = t  BY <1>1, <1>2, <2>2
  <2>3. CASE x # t  BY <1>2, <1>3, <2>1, <2>3 DEF ReadersHold
  <2>4. QED  BY <2>2, <2>3
<1>8. ClaimedOnce'
  <2>1. \A x \in Threads : Reading(x) => pos[x] # dequeue_pos  BY <1>2 DEF ReadersHold
  <2>2. SUFFICES ASSUME NEW x \in Threads, NEW y \in Threads, pos[x] = pos[y],
                        (Writing(x)' /\ Writing(y)') \/ (Reading(x)' /\ Reading(y)')
                 PROVE  x = y
    BY <1>1 DEF ClaimedOnce
  <2>3. QED  BY <1>1, <1>3, <1>4, <2>1, <2>2 DEF ClaimedOnce
<1>9. Attempts'
  <2>1. SUFFICES ASSUME NEW x \in Threads
                 PROVE  /\ pc'[x] \in Claiming => pos[x] <= enqueue_pos
                        /\ pc'[x] = "push_cas" /\ pos[x] = enqueue_pos => seq[Cell(pos[x])] = pos[x]
                        /\ pc'[x] \in Looking => pos[x] <= dequeue_pos + 1
                        /\ pc'[x] = "pop_cas" /\ pos[x] = dequeue_pos + 1
                             => seq[Cell(pos[x])] = pos[x] + 1
    BY <1>1 DEF Attempts, Claiming, Looking, Cell
  <2>2. CASE x = t  BY <1>1, <2>2 DEF Claiming, Looking
  <2>3. CASE x # t
    <3>1. pc'[x] \in Looking => pos[x] <= dequeue_pos  BY <1>3, <2>3 DEF Attempts, Looking
    <3>2. pos[x] <= dequeue_pos => pos[x] <= dequeue_pos + 1 /\ pos[x] # dequeue_pos + 1  BY <1>2
    <3>3. /\ pc'[x] \in Claiming => pos[x] <= enqueue_pos
          /\ pc'[x] = "push_cas" /\ pos[x] = enqueue_pos => seq[Cell(pos[x])] = pos[x]
      BY <1>3, <2>3 DEF Attempts, Claiming
    <3>4. QED  BY <3>1, <3>2, <3>3 DEF Looking
  <2>4. QED  BY <2>2, <2>3
<1>10. Window'  BY <1>1, <1>2 DEF Window
<1>11. Queued'
  <2>1. SUFFICES ASSUME NEW p \in dequeue_pos+1..enqueue_pos-1
                 PROVE  \/ seq[Cell(p)] = p + 1 /\ val[Cell(p)] \in Values
                        \/ seq[Cell(p)] = p /\ \E x \in Threads : Writing(x)' /\ pos[x] = p
    BY <1>1 DEF Queued, Cell
  <2>2. p \in dequeue_pos..enqueue_pos-1  BY <1>2
  <2>3. \A x \in Threads : Writing(x) => Writing(x)'  BY <1>3, <1>4
  <2>4. QED  BY <2>2, <2>3 DEF Queued
<1>12. Empty'
  <2>1. SUFFICES ASSUME NEW p \in enqueue_pos..dequeue_pos+Capacity
                 PROVE  \/ seq[Cell(p)] = p
                        \/ /\ seq[Cell(p)] = p + 1 - Capacity
                           /\ \E x \in Threads : Reading(x)' /\ pos[x] + Capacity = p
    <3>1. enqueue_pos'..dequeue_pos'+Capacity-1 = enqueue_pos..dequeue_pos+Capacity
      BY <1>1, <1>2
    <3>2. QED  BY <1>1, <3>1 DEF Empty, Cell
  <2>2. CASE p = dequeue_pos + Capacity
    <3>1. seq[Cell(p)] = dequeue_pos + 1  BY <1>1, <1>2, <2>2, CellComesRound
    <3>2. dequeue_pos + 1 = p + 1 - Capacity  BY <1>2, <2>2
    <3>3. QED  BY <1>1, <1>4, <2>2, <3>1, <3>2
  <2>3. CASE p # dequeue_pos + Capacity
    <3>1. p \in enqueue_pos..dequeue_pos+Capacity-1  BY <1>2, <2>3
    <3>2. \A x \in Threads : Reading(x) => Reading(x)'  BY <1>3, <1>4
    <3>3. QED  BY <3>1, <3>2 DEF Empty
  <2>4. QED  BY <2>2, <2>3
<1>13. Passed'
  <2>1. SUFFICES ASSUME NEW p \in 0..dequeue_pos PROVE seq[Cell(p)] > p
    <3>1. 0..dequeue_pos'-1 = 0..dequeue_pos  BY <1>1, <1>2
    <3>2. QED  BY <1>1, <3>1 DEF Passed, Cell
  <2>2. CASE p = dequeue_pos  BY <1>1, <1>2, <2>2
  <2>3. CASE p # dequeue_pos
    <3>1. p \in 0..dequeue_pos-1  BY <1>2, <2>3
    <3>2. QED  BY <3>1 DEF Passed
  <2>4. QED  BY <2>2, <2>3
<1>14. Payloads'
  <2>1. SUFFICES ASSUME NEW x \in Threads
                 PROVE  /\ pc'[x] \in Claiming \cup {"push_val", "push_pub", "pop_free"} => v[x] \in Values
                        /\ pc'[x] = "push_pub" => val[Cell(pos[x])] = v[x]
                        /\ pc'[x] = "pop_val" => val[Cell(pos[x])] \in Values
    BY <1>1 DEF Payloads, Claiming, Cell
  <2>2. CASE x = t  BY <1>1, <2>2 DEF Claiming
  <2>3. CASE x # t  BY <1>3, <2>3 DEF Payloads, Claiming
  <2>4. QED  BY <2>2, <2>3
<1>15. QED
  BY <1>5, <1>6, <1>7, <1>8, <1>9, <1>10, <1>11, <1>12, <1>13, <1>14

-----------------------------------------------------------------------------
(* Steps at a cell's value. *)

\* The two accesses of `val`: the thread still has its position, and every claim
\* and cell is as it was.
ValueStep(t) ==
  /\ Moves(t) /\ UNCHANGED <<seq, enqueue_pos, dequeue_pos, pos>>
  /\ \A x \in Threads : (Writing(x)' <=> Writing(x)) /\ (Reading(x)' <=> Reading(x))
  /\ pc'[t] \in Owning
  /\ val' \in [0..Capacity-1 -> Values \cup {NoValue}]
  /\ \A c \in 0..Capacity-1 : val[c] \in Values => val'[c] \in Values

LEMMA PushValDoes ==
  ASSUME IInv, NEW t \in Threads, PushVal(t)
  PROVE  /\ ValueStep(t) /\ pc[t] = "push_val" /\ pc'[t] = "push_pub" /\ v' = v
         /\ v[t] \in Values /\ val'[Cell(pos[t])] = v[t]
         /\ \A c \in 0..Capacity-1 : c # Cell(pos[t]) => val'[c] = val[c]
<1> USE DEF IInv
<1>1. /\ pc[t] = "push_val" /\ pc' = [pc EXCEPT ![t] = "push_pub"]
      /\ val' = [val EXCEPT ![Cell(pos[t])] = v[t]]
      /\ UNCHANGED <<seq, enqueue_pos, dequeue_pos, pos, v>>
  BY DEF PushVal, Goto
<1>2. pos[t] \in Nat /\ v[t] \in Values \cup {NoValue} /\ Cell(pos[t]) \in 0..Capacity-1
  BY ThreadTypes, CellType
<1>3. Moves(t) /\ pc'[t] = "push_pub"
  <2>1. "push_pub" \in Labels  BY DEF Labels
  <2>2. QED  BY <1>1, <1>2, <2>1, MovesOne
<1>4. v[t] \in Values  BY <1>1 DEF Payloads
<1>5. /\ val' \in [0..Capacity-1 -> Values \cup {NoValue}] /\ val'[Cell(pos[t])] = v[t]
      /\ \A c \in 0..Capacity-1 : c # Cell(pos[t]) => val'[c] = val[c]
  <2>1. val \in [0..Capacity-1 -> Values \cup {NoValue}]  BY DEF TypeOK
  <2>2. QED  BY <2>1, <1>1, <1>2
<1>6. ASSUME NEW x \in Threads PROVE (Writing(x)' <=> Writing(x)) /\ (Reading(x)' <=> Reading(x))
  <2>1. CASE x = t  BY <1>1, <1>3, <2>1 DEF Writing, Reading
  <2>2. CASE x # t  BY <1>3, <2>2, OthersStay
  <2>3. QED  BY <2>1, <2>2
<1>7. \A c \in 0..Capacity-1 : val[c] \in Values => val'[c] \in Values  BY <1>4, <1>5
<1>8. QED  BY <1>1, <1>3, <1>4, <1>5, <1>6, <1>7 DEF ValueStep, Owning

LEMMA PopValDoes ==
  ASSUME IInv, NEW t \in Threads, PopVal(t)
  PROVE  /\ ValueStep(t) /\ pc[t] = "pop_val" /\ pc'[t] = "pop_free" /\ val' = val
         /\ v'[t] = val[Cell(pos[t])] /\ v'[t] \in Values
<1> USE DEF IInv
<1>1. /\ pc[t] = "pop_val" /\ pc' = [pc EXCEPT ![t] = "pop_free"]
      /\ v' = [v EXCEPT ![t] = val[Cell(pos[t])]]
      /\ UNCHANGED <<seq, val, enqueue_pos, dequeue_pos, pos>>
  BY DEF PopVal, Goto, shared
<1>2. pos[t] \in Nat  BY ThreadTypes
<1>3. val[Cell(pos[t])] \in Values  BY <1>1 DEF Payloads
<1>4. Moves(t) /\ pc'[t] = "pop_free" /\ v'[t] = val[Cell(pos[t])]
  <2>1. "pop_free" \in Labels /\ val[Cell(pos[t])] \in Values \cup {NoValue}  BY <1>3 DEF Labels
  <2>2. QED  BY <1>1, <1>2, <2>1, MovesOne
<1>5. ASSUME NEW x \in Threads PROVE (Writing(x)' <=> Writing(x)) /\ (Reading(x)' <=> Reading(x))
  <2>1. CASE x = t  BY <1>1, <1>4, <2>1 DEF Writing, Reading
  <2>2. CASE x # t  BY <1>4, <2>2, OthersStay
  <2>3. QED  BY <2>1, <2>2
<1>6. val' \in [0..Capacity-1 -> Values \cup {NoValue}]
      /\ \A c \in 0..Capacity-1 : val[c] \in Values => val'[c] \in Values
  BY <1>1 DEF TypeOK
<1>7. QED  BY <1>1, <1>3, <1>4, <1>5, <1>6 DEF ValueStep, Owning

LEMMA ValueKeeps ==
  ASSUME IInv, NEW t \in Threads, ValueStep(t)
  PROVE  /\ TypeOK' /\ WritersHold' /\ ReadersHold' /\ ClaimedOnce' /\ Attempts'
         /\ Window' /\ Queued' /\ Empty' /\ Passed'
<1> USE DEF IInv
<1>1. /\ Moves(t) /\ UNCHANGED <<seq, enqueue_pos, dequeue_pos, pos>>
      /\ \A x \in Threads : (Writing(x)' <=> Writing(x)) /\ (Reading(x)' <=> Reading(x))
      /\ pc'[t] \in Owning
      /\ val' \in [0..Capacity-1 -> Values \cup {NoValue}]
      /\ \A c \in 0..Capacity-1 : val[c] \in Values => val'[c] \in Values
  BY DEF ValueStep
<1>2. TypeOK'  BY <1>1 DEF TypeOK, Moves
<1>3. WritersHold'  BY <1>1 DEF WritersHold, Cell
<1>4. ReadersHold'  BY <1>1 DEF ReadersHold, Cell
<1>5. ClaimedOnce'  BY <1>1 DEF ClaimedOnce
<1>6. Attempts'
  <2>1. SUFFICES ASSUME NEW x \in Threads
                 PROVE  /\ pc'[x] \in Claiming => pos[x] <= enqueue_pos
                        /\ pc'[x] = "push_cas" /\ pos[x] = enqueue_pos => seq[Cell(pos[x])] = pos[x]
                        /\ pc'[x] \in Looking => pos[x] <= dequeue_pos
                        /\ pc'[x] = "pop_cas" /\ pos[x] = dequeue_pos
                             => seq[Cell(pos[x])] = pos[x] + 1
    BY <1>1 DEF Attempts, Claiming, Looking, Cell
  <2>2. CASE x = t  BY <1>1, <2>2 DEF Claiming, Looking, Owning
  <2>3. CASE x # t
    <3>1. pc'[x] = pc[x]  BY <1>1, <2>3 DEF Moves
    <3>2. QED  BY <3>1 DEF Attempts, Claiming, Looking
  <2>4. QED  BY <2>2, <2>3
<1>7. Window'  BY <1>1 DEF Window
<1>8. Queued'
  <2>1. \A p \in dequeue_pos..enqueue_pos-1 : Cell(p) \in 0..Capacity-1
    BY Positions
  <2>2. SUFFICES ASSUME NEW p \in dequeue_pos..enqueue_pos-1
                 PROVE  \/ seq[Cell(p)] = p + 1 /\ val'[Cell(p)] \in Values
                        \/ seq[Cell(p)] = p /\ \E x \in Threads : Writing(x)' /\ pos[x] = p
    BY <1>1 DEF Queued, Cell
  <2>3. QED  BY <1>1, <2>1 DEF Queued
<1>9. Empty'  BY <1>1 DEF Empty, Cell
<1>10. Passed'  BY <1>1 DEF Passed, Cell
<1>11. QED  BY <1>2, <1>3, <1>4, <1>5, <1>6, <1>7, <1>8, <1>9, <1>10

LEMMA PushValInv ==
  ASSUME IInv, NEW t \in Threads, PushVal(t), Bounded'
  PROVE  IInv'
<1>1. /\ ValueStep(t) /\ pc[t] = "push_val" /\ pc'[t] = "push_pub" /\ v' = v
      /\ v[t] \in Values /\ val'[Cell(pos[t])] = v[t]
      /\ \A c \in 0..Capacity-1 : c # Cell(pos[t]) => val'[c] = val[c]
      /\ UNCHANGED pos /\ Moves(t)
  BY PushValDoes DEF ValueStep
<1>2. Payloads'
  <2>1. SUFFICES ASSUME NEW x \in Threads
                 PROVE  /\ pc'[x] \in Claiming \cup {"push_val", "push_pub", "pop_free"} => v[x] \in Values
                        /\ pc'[x] = "push_pub" => val'[Cell(pos[x])] = v[x]
                        /\ pc'[x] = "pop_val" => val'[Cell(pos[x])] \in Values
    BY <1>1 DEF Payloads, Claiming, Cell
  <2>2. CASE x = t  BY <1>1, <2>2
  <2>3. CASE x # t
    <3>1. pc'[x] = pc[x]  BY <1>1, <2>3 DEF Moves
    <3>2. Busy(x) => val'[Cell(pos[x])] = val[Cell(pos[x])]
      <4>1. Busy(t)  BY <1>1 DEF Busy, Writing
      <4>2. Busy(x) => Cell(pos[x]) # Cell(pos[t])  BY <4>1, <2>3, OwnCells DEF IInv
      <4>3. Cell(pos[x]) \in 0..Capacity-1  BY Positions DEF IInv
      <4>4. QED  BY <1>1, <4>2, <4>3
    <3>3. pc[x] \in {"push_pub", "pop_val"} => Busy(x)  BY DEF Busy, Writing, Reading
    <3>4. QED  BY <3>1, <3>2, <3>3 DEF IInv, Payloads, Claiming
  <2>4. QED  BY <2>2, <2>3
<1>3. QED  BY <1>1, <1>2, ValueKeeps DEF IInv

LEMMA PopValInv ==
  ASSUME IInv, NEW t \in Threads, PopVal(t), Bounded'
  PROVE  IInv'
<1>1. /\ ValueStep(t) /\ pc[t] = "pop_val" /\ pc'[t] = "pop_free" /\ val' = val
      /\ v'[t] \in Values /\ UNCHANGED pos /\ Moves(t)
  BY PopValDoes DEF ValueStep
<1>2. Payloads'
  <2>1. SUFFICES ASSUME NEW x \in Threads
                 PROVE  /\ pc'[x] \in Claiming \cup {"push_val", "push_pub", "pop_free"} => v'[x] \in Values
                        /\ pc'[x] = "push_pub" => val[Cell(pos[x])] = v'[x]
                        /\ pc'[x] = "pop_val" => val[Cell(pos[x])] \in Values
    BY <1>1 DEF Payloads, Claiming, Cell
  <2>2. CASE x = t  BY <1>1, <2>2
  <2>3. CASE x # t
    <3>1. pc'[x] = pc[x] /\ v'[x] = v[x]  BY <1>1, <2>3 DEF Moves
    <3>2. QED  BY <3>1 DEF IInv, Payloads, Claiming
  <2>4. QED  BY <2>2, <2>3
<1>3. QED  BY <1>1, <1>2, ValueKeeps DEF IInv

-----------------------------------------------------------------------------
(* Steps that give a cell up. *)

\* A call that succeeds stores n in its position's `seq` and returns.
Releases(t, n) ==
  /\ Busy(t) /\ Moves(t) /\ UNCHANGED <<val, enqueue_pos, dequeue_pos>>
  /\ pc'[t] = "idle" /\ pos'[t] = 0 /\ v'[t] = NoValue
  /\ seq' \in [0..Capacity-1 -> Nat] /\ seq'[Cell(pos[t])] = n
  /\ \A c \in 0..Capacity-1 : c # Cell(pos[t]) => seq'[c] = seq[c]

LEMMA PublishDoes ==
  ASSUME IInv, NEW t \in Threads, PushPublish(t)
  PROVE  pc[t] = "push_pub" /\ Writing(t) /\ Releases(t, pos[t] + 1)
<1> USE DEF IInv
<1>1. /\ pc[t] = "push_pub" /\ pc' = [pc EXCEPT ![t] = "idle"]
      /\ pos' = [pos EXCEPT ![t] = 0] /\ v' = [v EXCEPT ![t] = NoValue]
      /\ seq' = [seq EXCEPT ![Cell(pos[t])] = pos[t] + 1]
      /\ UNCHANGED <<val, enqueue_pos, dequeue_pos>>
  BY DEF PushPublish, Return, Goto
<1>2. Moves(t) /\ pc'[t] = "idle" /\ pos'[t] = 0 /\ v'[t] = NoValue
  <2>1. "idle" \in Labels /\ NoValue \in Values \cup {NoValue}  BY DEF Labels
  <2>2. QED  BY <1>1, <2>1, MovesOne
<1>3. Writing(t) /\ Busy(t)  BY <1>1 DEF Busy, Writing
<1>4. pos[t] \in Nat /\ Cell(pos[t]) \in 0..Capacity-1  BY Positions
<1>5. seq \in [0..Capacity-1 -> Nat]  BY DEF TypeOK
<1>6. QED  BY <1>1, <1>2, <1>3, <1>4, <1>5 DEF Releases

LEMMA FreeDoes ==
  ASSUME IInv, NEW t \in Threads, PopFree(t)
  PROVE  pc[t] = "pop_free" /\ Reading(t) /\ Releases(t, pos[t] + Capacity)
<1> USE DEF IInv
<1>1. /\ pc[t] = "pop_free" /\ pc' = [pc EXCEPT ![t] = "idle"]
      /\ pos' = [pos EXCEPT ![t] = 0] /\ v' = [v EXCEPT ![t] = NoValue]
      /\ seq' = [seq EXCEPT ![Cell(pos[t])] = pos[t] + Capacity]
      /\ UNCHANGED <<val, enqueue_pos, dequeue_pos>>
  BY DEF PopFree, Return, Goto
<1>2. Moves(t) /\ pc'[t] = "idle" /\ pos'[t] = 0 /\ v'[t] = NoValue
  <2>1. "idle" \in Labels /\ NoValue \in Values \cup {NoValue}  BY DEF Labels
  <2>2. QED  BY <1>1, <2>1, MovesOne
<1>3. Reading(t) /\ Busy(t)  BY <1>1 DEF Busy, Reading
<1>4. pos[t] \in Nat /\ Cell(pos[t]) \in 0..Capacity-1 /\ Capacity \in Nat  BY Positions
<1>5. seq \in [0..Capacity-1 -> Nat]  BY DEF TypeOK
<1>6. QED  BY <1>1, <1>2, <1>3, <1>4, <1>5 DEF Releases

\* The other threads' claims stand.
LEMMA ReleaseKeeps ==
  ASSUME IInv, NEW t \in Threads, NEW n, Releases(t, n)
  PROVE  /\ TypeOK' /\ WritersHold' /\ ReadersHold' /\ ClaimedOnce' /\ Window' /\ Payloads'
         /\ \A x \in Threads : x # t => /\ Writing(x)' <=> Writing(x)
                                        /\ Reading(x)' <=> Reading(x)
                                        /\ pc'[x] = pc[x] /\ pos'[x] = pos[x]
         /\ ~Writing(t)' /\ ~Reading(t)'
<1> USE DEF IInv
<1>1. /\ Busy(t) /\ Moves(t) /\ UNCHANGED <<val, enqueue_pos, dequeue_pos>>
      /\ pc'[t] = "idle" /\ pos'[t] = 0 /\ v'[t] = NoValue
      /\ seq' \in [0..Capacity-1 -> Nat]
      /\ \A c \in 0..Capacity-1 : c # Cell(pos[t]) => seq'[c] = seq[c]
  BY DEF Releases
<1>2. \A x \in Threads : x # t => /\ Writing(x)' <=> Writing(x)
                                  /\ Reading(x)' <=> Reading(x)
                                  /\ pc'[x] = pc[x] /\ pos'[x] = pos[x] /\ v'[x] = v[x]
  BY <1>1, OthersStay
<1>3. ~Writing(t)' /\ ~Reading(t)'  BY <1>1 DEF Writing, Reading
<1>4. ASSUME NEW x \in Threads, x # t, Busy(x) PROVE seq'[Cell(pos[x])] = seq[Cell(pos[x])]
  <2>1. Cell(pos[x]) # Cell(pos[t])  BY <1>1, <1>4, OwnCells
  <2>2. Cell(pos[x]) \in 0..Capacity-1  BY Positions
  <2>3. QED  BY <2>1, <2>2, <1>1
<1>5. TypeOK'
  <2>1. \A x \in Threads : pos'[x] \in 0..MaxPushes  BY <1>1, <1>2, ValuesAssumption DEF TypeOK
  <2>2. QED  BY <1>1, <2>1 DEF TypeOK, Moves
<1>6. WritersHold'
  <2>1. SUFFICES ASSUME NEW x \in Threads, Writing(x)'
                 PROVE  pos'[x] \in dequeue_pos..enqueue_pos-1 /\ seq'[Cell(pos'[x])] = pos'[x]
    BY <1>1 DEF WritersHold, Cell
  <2>2. x # t /\ Writing(x) /\ Busy(x) /\ pos'[x] = pos[x]
    BY <1>2, <1>3, <2>1 DEF Busy
  <2>3. QED  BY <1>4, <2>2 DEF WritersHold
<1>7. ReadersHold'
  <2>1. SUFFICES ASSUME NEW x \in Threads, Reading(x)'
                 PROVE  /\ pos'[x] < dequeue_pos /\ enqueue_pos <= pos'[x] + Capacity
                        /\ seq'[Cell(pos'[x])] = pos'[x] + 1
    BY <1>1 DEF ReadersHold, Cell
  <2>2. x # t /\ Reading(x) /\ Busy(x) /\ pos'[x] = pos[x]
    BY <1>2, <1>3, <2>1 DEF Busy
  <2>3. QED  BY <1>4, <2>2 DEF ReadersHold
<1>8. ClaimedOnce'
  <2>1. SUFFICES ASSUME NEW x \in Threads, NEW y \in Threads, pos'[x] = pos'[y],
                        (Writing(x)' /\ Writing(y)') \/ (Reading(x)' /\ Reading(y)')
                 PROVE  x = y
    BY DEF ClaimedOnce
  <2>2. x # t /\ y # t  BY <1>3, <2>1
  <2>3. QED  BY <1>2, <2>1, <2>2 DEF ClaimedOnce
<1>9. Window'  BY <1>1 DEF Window
<1>10. Payloads'
  <2>1. SUFFICES ASSUME NEW x \in Threads
                 PROVE  /\ pc'[x] \in Claiming \cup {"push_val", "push_pub", "pop_free"} => v'[x] \in Values
                        /\ pc'[x] = "push_pub" => val[Cell(pos'[x])] = v'[x]
                        /\ pc'[x] = "pop_val" => val[Cell(pos'[x])] \in Values
    BY <1>1 DEF Payloads, Claiming, Cell
  <2>2. CASE x = t  BY <1>1, <2>2 DEF Claiming
  <2>3. CASE x # t
    <3>1. pc'[x] = pc[x] /\ pos'[x] = pos[x] /\ v'[x] = v[x]  BY <1>2, <2>3
    <3>2. QED  BY <3>1 DEF Payloads, Claiming
  <2>4. QED  BY <2>2, <2>3
<1>11. QED  BY <1>2, <1>3, <1>5, <1>6, <1>7, <1>8, <1>9, <1>10

\* What a thread found still holds when t's cell is no other's to claim.
LEMMA ReleaseAttempts ==
  ASSUME IInv, NEW t \in Threads, NEW n, Releases(t, n),
         seq[Cell(enqueue_pos)] = enqueue_pos => Cell(enqueue_pos) # Cell(pos[t]),
         seq[Cell(dequeue_pos)] = dequeue_pos + 1 => Cell(dequeue_pos) # Cell(pos[t])
  PROVE  Attempts'
<1> USE DEF IInv
<1>1. /\ UNCHANGED <<enqueue_pos, dequeue_pos>> /\ pc'[t] = "idle"
      /\ \A c \in 0..Capacity-1 : c # Cell(pos[t]) => seq'[c] = seq[c]
  BY DEF Releases
<1>2. \A x \in Threads : x # t => pc'[x] = pc[x] /\ pos'[x] = pos[x]
  BY ReleaseKeeps
<1>3. \A x \in Threads : Cell(pos[x]) \in 0..Capacity-1  BY Positions
<1>4. SUFFICES ASSUME NEW x \in Threads
               PROVE  /\ pc'[x] \in Claiming => pos'[x] <= enqueue_pos
                      /\ pc'[x] = "push_cas" /\ pos'[x] = enqueue_pos => seq'[Cell(pos'[x])] = pos'[x]
                      /\ pc'[x] \in Looking => pos'[x] <= dequeue_pos
                      /\ pc'[x] = "pop_cas" /\ pos'[x] = dequeue_pos
                           => seq'[Cell(pos'[x])] = pos'[x] + 1
  BY <1>1 DEF Attempts, Claiming, Looking, Cell
<1>5. CASE x = t  BY <1>1, <1>5 DEF Claiming, Looking
<1>6. CASE x # t
  <2>1. pc'[x] = pc[x] /\ pos'[x] = pos[x]  BY <1>2, <1>6
  <2>2. (pc[x] \in Claiming => pos[x] <= enqueue_pos) /\ (pc[x] \in Looking => pos[x] <= dequeue_pos)
    BY DEF Attempts, Claiming, Looking
  <2>3. ASSUME pc[x] = "push_cas", pos[x] = enqueue_pos PROVE seq'[Cell(pos[x])] = pos[x]
    <3>1. seq[Cell(pos[x])] = pos[x]  BY <2>3 DEF Attempts
    <3>2. QED  BY <3>1, <2>3, <1>1, <1>3
  <2>4. ASSUME pc[x] = "pop_cas", pos[x] = dequeue_pos PROVE seq'[Cell(pos[x])] = pos[x] + 1
    <3>1. seq[Cell(pos[x])] = pos[x] + 1  BY <2>4 DEF Attempts
    <3>2. QED  BY <3>1, <2>4, <1>1, <1>3
  <2>5. QED  BY <2>1, <2>2, <2>3, <2>4
<1>7. QED  BY <1>5, <1>6

LEMMA PushPublishInv ==
  ASSUME IInv, NEW t \in Threads, PushPublish(t), Bounded'
  PROVE  IInv'
<1> USE DEF IInv
<1>1. /\ pc[t] = "push_pub" /\ Writing(t) /\ Releases(t, pos[t] + 1)
      /\ UNCHANGED <<val, enqueue_pos, dequeue_pos>> /\ seq'[Cell(pos[t])] = pos[t] + 1
      /\ \A c \in 0..Capacity-1 : c # Cell(pos[t]) => seq'[c] = seq[c]
  BY PublishDoes DEF Releases
<1>2. /\ enqueue_pos \in Nat /\ dequeue_pos \in Nat /\ Capacity \in Nat /\ Capacity >= 2
      /\ pos[t] \in Nat /\ \A p \in Nat : Cell(p) \in 0..Capacity-1
      /\ dequeue_pos <= enqueue_pos /\ enqueue_pos <= dequeue_pos + Capacity
  BY Positions DEF Window
<1>3. pos[t] \in dequeue_pos..enqueue_pos-1 /\ seq[Cell(pos[t])] = pos[t]
  BY <1>1 DEF WritersHold
<1>4. \A x \in Threads : x # t => /\ Writing(x)' <=> Writing(x)
                                  /\ Reading(x)' <=> Reading(x)
                                  /\ pos'[x] = pos[x]
  BY <1>1, ReleaseKeeps
<1>5. Attempts'
  <2>1. seq[Cell(enqueue_pos)] = enqueue_pos => Cell(enqueue_pos) # Cell(pos[t])
    BY <1>2, <1>3
  <2>2. seq[Cell(dequeue_pos)] = dequeue_pos + 1 => Cell(dequeue_pos) # Cell(pos[t])
    BY <1>2, <1>3, NextCell
  <2>3. QED  BY <1>1, <2>1, <2>2, ReleaseAttempts
<1>6. Queued'
  <2>1. SUFFICES ASSUME NEW p \in dequeue_pos..enqueue_pos-1
                 PROVE  \/ seq'[Cell(p)] = p + 1 /\ val[Cell(p)] \in Values
                        \/ seq'[Cell(p)] = p /\ \E x \in Threads : Writing(x)' /\ pos'[x] = p
    BY <1>1 DEF Queued, Cell
  <2>2. CASE p = pos[t]
    <3>1. val[Cell(pos[t])] \in Values  BY <1>1 DEF Payloads
    <3>2. QED  BY <1>1, <2>2, <3>1
  <2>3. CASE p # pos[t]
    <3>1. p \in dequeue_pos..dequeue_pos+Capacity-1 /\ pos[t] \in dequeue_pos..dequeue_pos+Capacity-1
          /\ p \in Nat
      BY <1>2, <1>3
    <3>2. Cell(p) # Cell(pos[t])  BY <1>2, <2>3, <3>1, WindowCells
    <3>3. seq'[Cell(p)] = seq[Cell(p)]  BY <1>1, <1>2, <3>1, <3>2
    <3>4. (\E x \in Threads : Writing(x) /\ pos[x] = p)
            => \E x \in Threads : Writing(x)' /\ pos'[x] = p
      BY <1>4, <2>3
    <3>5. QED  BY <3>3, <3>4 DEF Queued
  <2>4. QED  BY <2>2, <2>3
<1>7. Empty'
  <2>1. SUFFICES ASSUME NEW p \in enqueue_pos..dequeue_pos+Capacity-1
                 PROVE  \/ seq'[Cell(p)] = p
                        \/ /\ seq'[Cell(p)] = p + 1 - Capacity
                           /\ \E x \in Threads : Reading(x)' /\ pos'[x] + Capacity = p
    BY <1>1 DEF Empty, Cell
  <2>2. p \in dequeue_pos..dequeue_pos+Capacity-1 /\ pos[t] \in dequeue_pos..dequeue_pos+Capacity-1
        /\ p \in Nat /\ p # pos[t]
    BY <1>2, <1>3
  <2>3. Cell(p) # Cell(pos[t])  BY <1>2, <2>2, WindowCells
  <2>4. seq'[Cell(p)] = seq[Cell(p)]  BY <1>1, <1>2, <2>2, <2>3
  <2>5. ~Reading(t)  BY <1>1 DEF Reading
  <2>6. (\E x \in Threads : Reading(x) /\ pos[x] + Capacity = p)
          => \E x \in Threads : Reading(x)' /\ pos'[x] + Capacity = p
    BY <1>4, <2>5
  <2>7. QED  BY <2>4, <2>6 DEF Empty
<1>8. Passed'
  <2>1. SUFFICES ASSUME NEW p \in 0..dequeue_pos-1 PROVE seq'[Cell(p)] > p
    BY <1>1 DEF Passed, Cell
  <2>2. CASE Cell(p) = Cell(pos[t])  BY <1>1, <1>2, <1>3, <2>2
  <2>3. CASE Cell(p) # Cell(pos[t])
    <3>1. seq'[Cell(p)] = seq[Cell(p)]  BY <1>1, <1>2, <2>3
    <3>2. QED  BY <3>1 DEF Passed
  <2>4. QED  BY <2>2, <2>3
<1>9. QED  BY <1>1, <1>5, <1>6, <1>7, <1>8, ReleaseKeeps

LEMMA PopFreeInv ==
  ASSUME IInv, NEW t \in Threads, PopFree(t), Bounded'
  PROVE  IInv'
<1> USE DEF IInv
<1> DEFINE q == pos[t] + Capacity
<1>1. /\ pc[t] = "pop_free" /\ Reading(t) /\ Releases(t, q)
      /\ UNCHANGED <<val, enqueue_pos, dequeue_pos>> /\ seq'[Cell(pos[t])] = q
      /\ \A c \in 0..Capacity-1 : c # Cell(pos[t]) => seq'[c] = seq[c]
  BY FreeDoes DEF Releases
<1>2. /\ enqueue_pos \in Nat /\ dequeue_pos \in Nat /\ Capacity \in Nat /\ Capacity >= 2
      /\ pos[t] \in Nat /\ \A p \in Nat : Cell(p) \in 0..Capacity-1
      /\ dequeue_pos <= enqueue_pos /\ enqueue_pos <= dequeue_pos + Capacity
  BY Positions DEF Window
<1>3. pos[t] < dequeue_pos /\ enqueue_pos <= q /\ seq[Cell(pos[t])] = pos[t] + 1
  BY <1>1 DEF ReadersHold
<1>4. Cell(q) = Cell(pos[t]) /\ q = pos[t] + Capacity  BY <1>2, CellComesRound
<1> HIDE DEF q
<1>5. \A x \in Threads : x # t => /\ Writing(x)' <=> Writing(x)
                                  /\ Reading(x)' <=> Reading(x)
                                  /\ pos'[x] = pos[x]
  BY <1>1, ReleaseKeeps
<1>6. q \in enqueue_pos..dequeue_pos+Capacity-1 /\ q \in dequeue_pos..dequeue_pos+Capacity-1
  BY <1>2, <1>3, <1>4
<1>7. Attempts'
  <2>1. seq[Cell(enqueue_pos)] = enqueue_pos => Cell(enqueue_pos) # Cell(pos[t])
    BY <1>2, <1>3, NextCell
  <2>2. seq[Cell(dequeue_pos)] = dequeue_pos + 1 => Cell(dequeue_pos) # Cell(pos[t])
    BY <1>2, <1>3
  <2>3. QED  BY <1>1, <2>1, <2>2, ReleaseAttempts
<1>8. Queued'
  <2>1. SUFFICES ASSUME NEW p \in dequeue_pos..enqueue_pos-1
                 PROVE  \/ seq'[Cell(p)] = p + 1 /\ val[Cell(p)] \in Values
                        \/ seq'[Cell(p)] = p /\ \E x \in Threads : Writing(x)' /\ pos'[x] = p
    BY <1>1 DEF Queued, Cell
  <2>2. p \in dequeue_pos..dequeue_pos+Capacity-1 /\ p \in Nat /\ p # q  BY <1>2, <1>6
  <2>3. Cell(p) # Cell(pos[t])  BY <1>2, <1>4, <1>6, <2>2, WindowCells
  <2>4. seq'[Cell(p)] = seq[Cell(p)]  BY <1>1, <1>2, <2>2, <2>3
  <2>5. ~Writing(t)  BY <1>1 DEF Writing
  <2>6. (\E x \in Threads : Writing(x) /\ pos[x] = p)
          => \E x \in Threads : Writing(x)' /\ pos'[x] = p
    BY <1>5, <2>5
  <2>7. QED  BY <2>4, <2>6 DEF Queued
<1>9. Empty'
  <2>1. SUFFICES ASSUME NEW p \in enqueue_pos..dequeue_pos+Capacity-1
                 PROVE  \/ seq'[Cell(p)] = p
                        \/ /\ seq'[Cell(p)] = p + 1 - Capacity
                           /\ \E x \in Threads : Reading(x)' /\ pos'[x] + Capacity = p
    BY <1>1 DEF Empty, Cell
  <2>2. CASE p = q  BY <1>1, <1>4, <2>2
  <2>3. CASE p # q
    <3>1. p \in dequeue_pos..dequeue_pos+Capacity-1 /\ p \in Nat  BY <1>2
    <3>2. Cell(p) # Cell(pos[t])  BY <1>2, <1>4, <1>6, <2>3, <3>1, WindowCells
    <3>3. seq'[Cell(p)] = seq[Cell(p)]  BY <1>1, <1>2, <3>1, <3>2
    <3>4. (\E x \in Threads : Reading(x) /\ pos[x] + Capacity = p)
            => \E x \in Threads : Reading(x)' /\ pos'[x] + Capacity = p
      BY <1>4, <1>5, <2>3
    <3>5. QED  BY <3>3, <3>4 DEF Empty
  <2>4. QED  BY <2>2, <2>3
<1>10. Passed'
  <2>1. SUFFICES ASSUME NEW p \in 0..dequeue_pos-1 PROVE seq'[Cell(p)] > p
    BY <1>1 DEF Passed, Cell
  <2>2. seq[Cell(p)] > p  BY DEF Passed
  <2>3. CASE Cell(p) = Cell(pos[t])  BY <1>1, <1>2, <1>3, <1>4, <2>2, <2>3
  <2>4. CASE Cell(p) # Cell(pos[t])
    <3>1. seq'[Cell(p)] = seq[Cell(p)]  BY <1>1, <1>2, <2>4
    <3>2. QED  BY <3>1, <2>2
  <2>5. QED  BY <2>3, <2>4
<1>11. QED  BY <1>1, <1>7, <1>8, <1>9, <1>10, ReleaseKeeps

-----------------------------------------------------------------------------
(* The bound on the positions, and every step. *)

LEMMA PushingIs ==
  ASSUME TypeOK, NEW t \in Threads, Moves(t)
  PROVE  /\ pc[t] \in Claiming /\ pc'[t] \in Claiming => Pushing' = Pushing
         /\ pc[t] \notin Claiming /\ pc'[t] \notin Claiming => Pushing' = Pushing
         /\ pc[t] \in Claiming /\ pc'[t] \notin Claiming => t \in Pushing /\ Pushing' = Pushing \ {t}
         /\ pc[t] \notin Claiming /\ pc'[t] \in Claiming => t \notin Pushing /\ Pushing' = Pushing \cup {t}
BY DEF Moves, Pushing, Claiming

\* A step that claims nothing may end a push, or go on.
LEMMA BoundKept ==
  ASSUME TypeOK, Bounded, NEW t \in Threads, Moves(t), UNCHANGED enqueue_pos,
         pc'[t] \in Claiming => pc[t] \in Claiming
  PROVE  Bounded'
<1>1. IsFiniteSet(Pushing) /\ Cardinality(Pushing) \in Nat
      /\ enqueue_pos + Cardinality(Pushing) <= MaxPushes
  BY FS_CardinalityType DEF Bounded
<1>2. enqueue_pos \in Nat /\ MaxPushes \in Nat  BY Positions, ValuesAssumption
<1>3. CASE Pushing' = Pushing  BY <1>1, <1>3 DEF Bounded
<1>4. CASE t \in Pushing /\ Pushing' = Pushing \ {t}
  <2>1. IsFiniteSet(Pushing') /\ Cardinality(Pushing') = Cardinality(Pushing) - 1
    BY <1>1, <1>4, FS_RemoveElement
  <2>2. QED  BY <2>1, <1>1, <1>2 DEF Bounded
<1>5. QED  BY <1>3, <1>4, PushingIs

LEMMA BoundedStep == ASSUME IInv, [Next]_vars PROVE Bounded'
<1> USE DEF IInv
<1>1. CASE UNCHANGED vars
  <2>1. UNCHANGED <<enqueue_pos, pc>>  BY <1>1 DEF vars, shared
  <2>2. QED  BY <2>1 DEF Bounded, Pushing
<1>2. ASSUME NEW t \in Threads, NEW value \in Values, PushCall(t, value) PROVE Bounded'
  <2>1. /\ LocalTo(t) /\ Moves(t) /\ UNCHANGED enqueue_pos
        /\ pc[t] = "idle" /\ enqueue_pos + Cardinality(Pushing) < MaxPushes
    BY <1>2, PushCallLocal DEF LocalTo, PushCall, shared
  <2>2. IsFiniteSet(Pushing) /\ Cardinality(Pushing) \in Nat  BY FS_CardinalityType DEF Bounded
  <2>3. CASE Pushing' = Pushing  BY <2>1, <2>3 DEF Bounded
  <2>4. CASE t \notin Pushing /\ Pushing' = Pushing \cup {t}
    <3>1. IsFiniteSet(Pushing') /\ Cardinality(Pushing') = Cardinality(Pushing) + 1
      BY <2>2, <2>4, FS_AddElement
    <3>2. enqueue_pos \in Nat /\ MaxPushes \in Nat  BY Positions, ValuesAssumption
    <3>3. QED  BY <2>1, <2>2, <3>1, <3>2 DEF Bounded
  <2>5. pc[t] \notin Claiming  BY <2>1 DEF Claiming
  <2>6. QED  BY <2>1, <2>3, <2>4, <2>5, PushingIs
<1>3. ASSUME NEW t \in Threads, PushSeq(t) \/ PushFull(t) \/ PushReload(t) \/ PushLost(t)
      PROVE  Bounded'
  <2>1. LocalTo(t)  BY <1>3, PushSeqLocal, ReturnsLocal, PushReloadLocal
  <2>2. Moves(t) /\ UNCHANGED enqueue_pos  BY <2>1 DEF LocalTo, shared
  <2>3. pc[t] \in Claiming  BY <1>3 DEF Claiming, PushSeq, PushFull, PushReload, PushLost
  <2>4. QED  BY <2>2, <2>3, BoundKept
<1>4. ASSUME NEW t \in Threads, PopCall(t) \/ PopSeq(t) \/ PopEmpty(t) \/ PopReload(t) \/ PopLost(t)
      PROVE  Bounded'
  <2>1. LocalTo(t)  BY <1>4, PopCallLocal, PopSeqLocal, ReturnsLocal
  <2>2. Moves(t) /\ UNCHANGED enqueue_pos  BY <2>1 DEF LocalTo, shared
  <2>3. pc'[t] \notin Claiming
    <3>1. pc \in [Threads -> Labels]  BY DEF TypeOK
    <3>2. \E label \in {"pop_seq", "pop_cas", "pop_reload", "idle"} : pc' = [pc EXCEPT ![t] = label]
      BY <1>4 DEF PopCall, PopSeq, PopEmpty, PopReload, PopLost, Return, Goto
    <3>3. QED  BY <3>1, <3>2 DEF Claiming
  <2>4. QED  BY <2>2, <2>3, BoundKept
<1>5. ASSUME NEW t \in Threads, PushClaim(t) PROVE Bounded'
  <2>1. /\ Moves(t) /\ pc[t] = "push_cas" /\ pc'[t] = "push_val"
        /\ enqueue_pos' = enqueue_pos + 1
    BY <1>5, PushClaimDoes
  <2>2. t \in Pushing /\ Pushing' = Pushing \ {t}
    <3>1. pc[t] \in Claiming /\ pc'[t] \notin Claiming  BY <2>1 DEF Claiming
    <3>2. QED  BY <2>1, <3>1, PushingIs
  <2>3. IsFiniteSet(Pushing') /\ Cardinality(Pushing') = Cardinality(Pushing) - 1
    BY <2>2, FS_RemoveElement DEF Bounded
  <2>4. Cardinality(Pushing) \in Nat /\ enqueue_pos \in Nat /\ MaxPushes \in Nat
    BY FS_CardinalityType, Positions, ValuesAssumption DEF Bounded
  <2>5. QED  BY <2>1, <2>3, <2>4 DEF Bounded
<1>6. ASSUME NEW t \in Threads, PopClaim(t) PROVE Bounded'
  <2>1. Moves(t) /\ pc'[t] = "pop_val" /\ UNCHANGED enqueue_pos  BY <1>6, PopClaimDoes
  <2>2. pc'[t] \notin Claiming  BY <2>1 DEF Claiming
  <2>3. QED  BY <2>1, <2>2, BoundKept
<1>7. ASSUME NEW t \in Threads, PushVal(t) \/ PopVal(t) PROVE Bounded'
  <2>1. ValueStep(t)  BY <1>7, PushValDoes, PopValDoes
  <2>2. Moves(t) /\ UNCHANGED enqueue_pos /\ pc'[t] \notin Claiming
    BY <2>1 DEF ValueStep, Claiming, Owning
  <2>3. QED  BY <2>2, BoundKept
<1>8. ASSUME NEW t \in Threads, PushPublish(t) \/ PopFree(t) PROVE Bounded'
  <2>1. \E n : Releases(t, n)  BY <1>8, PublishDoes, FreeDoes
  <2>2. Moves(t) /\ UNCHANGED enqueue_pos /\ pc'[t] \notin Claiming
    BY <2>1 DEF Releases, Claiming
  <2>3. QED  BY <2>2, BoundKept
<1>9. QED
  BY <1>1, <1>2, <1>3, <1>4, <1>5, <1>6, <1>7, <1>8 DEF Next, Step, CallStep

LEMMA NextInv == IInv /\ [Next]_vars => IInv'
<1> SUFFICES ASSUME IInv, [Next]_vars PROVE IInv'  OBVIOUS
<1>1. Bounded'  BY BoundedStep
<1>2. CASE UNCHANGED vars
  <2>1. UNCHANGED <<seq, val, enqueue_pos, dequeue_pos, pc, pos, v>>  BY <1>2 DEF vars, shared
  <2>2. QED
    BY <2>1 DEF IInv, TypeOK, WritersHold, ReadersHold, ClaimedOnce, Attempts, Window, Queued,
                Empty, Passed, Payloads, Bounded, Pushing, Writing, Reading, Cell
<1>3. ASSUME NEW t \in Threads, NEW value \in Values, PushCall(t, value) PROVE IInv'
  BY <1>1, <1>3, PushCallLocal, LocalInv
<1>4. ASSUME NEW t \in Threads, PopCall(t) \/ Step(t) PROVE IInv'
  <2>1. CASE PushSeq(t)  BY <1>1, <2>1, PushSeqLocal, LocalInv
  <2>2. CASE PushFull(t) \/ PopEmpty(t)  BY <1>1, <2>2, ReturnsLocal, LocalInv
  <2>3. CASE PushReload(t) \/ PushLost(t)  BY <1>1, <2>3, PushReloadLocal, LocalInv
  <2>4. CASE PopCall(t) \/ PopReload(t) \/ PopLost(t)  BY <1>1, <2>4, PopCallLocal, LocalInv
  <2>5. CASE PopSeq(t)  BY <1>1, <2>5, PopSeqLocal, LocalInv
  <2>6. CASE PushClaim(t)  BY <1>1, <2>6, PushClaimInv
  <2>7. CASE PopClaim(t)  BY <1>1, <2>7, PopClaimInv
  <2>8. CASE PushVal(t)  BY <1>1, <2>8, PushValInv
  <2>9. CASE PopVal(t)  BY <1>1, <2>9, PopValInv
  <2>10. CASE PushPublish(t)  BY <1>1, <2>10, PushPublishInv
  <2>11. CASE PopFree(t)  BY <1>1, <2>11, PopFreeInv
  <2>12. QED
    BY <1>4, <2>1, <2>2, <2>3, <2>4, <2>5, <2>6, <2>7, <2>8, <2>9, <2>10, <2>11
       DEF Step, CallStep
<1>5. QED  BY <1>2, <1>3, <1>4 DEF Next

LEMMA InitInv == Init => IInv
<1> SUFFICES ASSUME Init PROVE IInv  OBVIOUS
<1>1. /\ seq = [c \in 0..Capacity-1 |-> c]
      /\ val = [c \in 0..Capacity-1 |-> NoValue]
      /\ enqueue_pos = 0 /\ dequeue_pos = 0
      /\ pc = [t \in Threads |-> "idle"] /\ pos = [t \in Threads |-> 0]
      /\ v = [t \in Threads |-> NoValue]
  BY DEF Init
<1>2. Capacity \in Nat /\ Capacity >= 2 /\ MaxPushes \in Nat  BY CapacityType, ValuesAssumption
<1>3. TypeOK
  <2>1. 0 \in 0..MaxPushes  BY <1>2
  <2>2. seq \in [0..Capacity-1 -> Nat]  BY <1>1, <1>2
  <2>3. QED  BY <1>1, <2>1, <2>2 DEF TypeOK, Labels
<1>4. \A t \in Threads : pc[t] = "idle"  BY <1>1
<1>5. WritersHold /\ ReadersHold /\ ClaimedOnce
  BY <1>4 DEF WritersHold, ReadersHold, ClaimedOnce, Writing, Reading
<1>6. Attempts /\ Payloads  BY <1>4 DEF Attempts, Payloads
<1>7. Window /\ Queued /\ Passed  BY <1>1, <1>2 DEF Window, Queued, Passed
<1>8. Empty
  <2>1. SUFFICES ASSUME NEW p \in 0..Capacity-1 PROVE seq[Cell(p)] = p
    BY <1>1, <1>2 DEF Empty
  <2>2. Cell(p) = p
    <3>1. p \in Nat /\ Cell(p) \in 0..Capacity-1  BY <1>2, CellType
    <3>2. PICK a \in Int, r \in 0..Capacity-1 : p = Capacity * a + r /\ Cell(p) = r
      BY <3>1, Division
    <3>3. CASE a = 0  BY <1>2, <3>2, <3>3
    <3>4. CASE a >= 1
      <4>1. Capacity * a >= Capacity * 1  BY <1>2, <3>4
      <4>2. Capacity * a \in Int  BY <1>2
      <4>3. QED  BY <4>1, <4>2, <3>2, <1>2
    <3>5. CASE a <= -1
      <4>1. Capacity * a <= Capacity * (-1)  BY <1>2, <3>5
      <4>2. Capacity * a \in Int  BY <1>2
      <4>3. QED  BY <4>1, <4>2, <3>2, <1>2
    <3>6. QED  BY <3>3, <3>4, <3>5
  <2>3. QED  BY <2>2, <1>1
<1>9. Bounded
  <2>1. Pushing = {}  BY <1>4 DEF Pushing
  <2>2. QED  BY <2>1, <1>1, <1>2, FS_EmptySet DEF Bounded
<1>10. QED  BY <1>3, <1>5, <1>6, <1>7, <1>8, <1>9 DEF IInv

\* The inductive invariant of the queue: the cells' sequence numbers, the two
\* positions and the calls in progress agree in every interleaving of push and pop.
THEOREM Invariance == Spec => []IInv
BY InitInv, NextInv, PTL DEF Spec

\* No two threads are at one cell's value: the claims and the cell's `seq` keep
\* the plain writes and reads of `val` in push and pop apart.
THEOREM CellsAreExclusive == Spec => []CellIsExclusive
BY Invariance, ExclusiveFollows, PTL

-----------------------------------------------------------------------------
(* Refusals. *)

\* A push that finds the cell still owed to its last round: the position
\* Capacity before is in the queue, or its pop has not freed the cell.
LEMMA RefusedIsFull ==
  ASSUME IInv, NEW t \in Threads, PushFull(t)
  PROVE  \/ pos[t] - Capacity \in dequeue_pos..enqueue_pos-1
         \/ \E u \in Threads : Reading(u) /\ pos[u] = pos[t] - Capacity
<1> USE DEF IInv
<1>1. pc[t] = "push_seq" /\ seq[Cell(pos[t])] < pos[t]  BY DEF PushFull
<1>2. /\ enqueue_pos \in Nat /\ dequeue_pos \in Nat /\ Capacity \in Nat /\ Capacity >= 2
      /\ pos[t] \in Nat /\ \A x \in Threads : pos[x] \in Nat
      /\ seq[Cell(pos[t])] \in Nat
      /\ dequeue_pos <= enqueue_pos /\ enqueue_pos <= dequeue_pos + Capacity
  BY Positions DEF Window
<1>3. pos[t] <= enqueue_pos  BY <1>1 DEF Attempts
<1>4. CASE pos[t] < dequeue_pos
  <2>1. seq[Cell(pos[t])] > pos[t]  BY <1>2, <1>4 DEF Passed
  <2>2. QED  BY <2>1, <1>1, <1>2
<1>5. CASE pos[t] \in dequeue_pos..enqueue_pos-1
  <2>1. seq[Cell(pos[t])] \in {pos[t], pos[t] + 1}  BY <1>5 DEF Queued
  <2>2. QED  BY <2>1, <1>1, <1>2
<1>6. CASE pos[t] = enqueue_pos /\ enqueue_pos = dequeue_pos + Capacity
  <2>1. pos[t] - Capacity = dequeue_pos /\ dequeue_pos \in dequeue_pos..enqueue_pos-1
    BY <1>2, <1>6
  <2>2. QED  BY <2>1
<1>7. CASE pos[t] = enqueue_pos /\ enqueue_pos < dequeue_pos + Capacity
  <2>1. pos[t] \in enqueue_pos..dequeue_pos+Capacity-1  BY <1>2, <1>7
  <2>2. seq[Cell(pos[t])] # pos[t]  BY <1>1, <1>2
  <2>3. PICK u \in Threads : Reading(u) /\ pos[u] + Capacity = pos[t]
    BY <2>1, <2>2 DEF Empty
  <2>4. pos[u] = pos[t] - Capacity  BY <1>2, <2>3
  <2>5. QED  BY <2>3, <2>4
<1>8. QED  BY <1>2, <1>3, <1>4, <1>5, <1>6, <1>7

\* push() returns false only for a queue that is full, or whose last pop of the
\* cell it needs is under way.
THEOREM RefusesOnlyWhenFull == Spec => OnlyFullRefuses
<1>1. ASSUME IInv, NEW t \in Threads, PushFull(t)
      PROVE  LET before == pos[t] - Capacity IN
             \/ before \in dequeue_pos..enqueue_pos-1
             \/ \E u \in Threads : pc[u] \in {"pop_val", "pop_free"} /\ pos[u] = before
  BY <1>1, RefusedIsFull DEF Reading
<1>2. IInv /\ [Next]_vars =>
        [\A t \in Threads : PushFull(t) =>
           LET before == pos[t] - Capacity IN
           \/ before \in dequeue_pos..enqueue_pos-1
           \/ \E u \in Threads : pc[u] \in {"pop_val", "pop_free"} /\ pos[u] = before]_vars
  BY <1>1
<1>3. QED  BY <1>2, Invariance, PTL DEF Spec, OnlyFullRefuses

-----------------------------------------------------------------------------
(* The queue implements ReadyQueue. *)

TakenBy(t) == CASE pc[t] = "pop_val" -> val[Cell(pos[t])]
                [] pc[t] = "pop_free" -> v[t]
                [] OTHER -> NoValue

\* What the refinement reads: the writer's value while there is one, else the
\* cell's; and for a pop what it will return.
Valued ==
  /\ \A x \in Threads : \A p \in Nat : Writing(x) /\ pos[x] = p => ValueAt(p) = v[x]
  /\ \A p \in Nat : (\A x \in Threads : ~(Writing(x) /\ pos[x] = p)) => ValueAt(p) = val[Cell(p)]
  /\ \A p \in dequeue_pos..enqueue_pos-1 : ValueAt(p) \in Values
  /\ \A x \in Threads : /\ pc[x] = "pop_val" => TakenBy(x) = val[Cell(pos[x])]
                        /\ pc[x] = "pop_free" => TakenBy(x) = v[x]
                        /\ ~Reading(x) => TakenBy(x) = NoValue

LEMMA ValuedHolds == IInv => Valued
<1> SUFFICES ASSUME IInv PROVE Valued  OBVIOUS
<1> USE DEF IInv
<1>1. ASSUME NEW x \in Threads, NEW p \in Nat, Writing(x), pos[x] = p PROVE ValueAt(p) = v[x]
  <2>1. Writer(p) = {x}  BY <1>1 DEF Writer, ClaimedOnce, Writing
  <2>2. (CHOOSE t \in {x} : TRUE) = x  OBVIOUS
  <2>3. QED  BY <2>1, <2>2 DEF ValueAt
<1>2. ASSUME NEW p \in Nat, \A x \in Threads : ~(Writing(x) /\ pos[x] = p)
      PROVE  ValueAt(p) = val[Cell(p)]
  <2>1. Writer(p) = {}  BY <1>2 DEF Writer, Writing
  <2>2. QED  BY <2>1 DEF ValueAt
<1>3. ASSUME NEW p \in dequeue_pos..enqueue_pos-1 PROVE ValueAt(p) \in Values
  <2>1. p \in Nat  BY Positions
  <2>2. CASE \E x \in Threads : Writing(x) /\ pos[x] = p
    <3>1. PICK x \in Threads : Writing(x) /\ pos[x] = p  BY <2>2
    <3>2. v[x] \in Values  BY <3>1 DEF Payloads, Writing
    <3>3. QED  BY <1>1, <2>1, <3>1, <3>2
  <2>3. CASE \A x \in Threads : ~(Writing(x) /\ pos[x] = p)
    <3>1. val[Cell(p)] \in Values  BY <2>3 DEF Queued
    <3>2. QED  BY <1>2, <2>1, <2>3, <3>1
  <2>4. QED  BY <2>2, <2>3
<1>4. ASSUME NEW x \in Threads
      PROVE  /\ pc[x] = "pop_val" => TakenBy(x) = val[Cell(pos[x])]
             /\ pc[x] = "pop_free" => TakenBy(x) = v[x]
             /\ ~Reading(x) => TakenBy(x) = NoValue
  BY DEF TakenBy, Reading
<1>5. QED  BY <1>1, <1>2, <1>3, <1>4 DEF Valued

Waiting == [i \in 1..enqueue_pos - dequeue_pos |-> ValueAt(dequeue_pos + i - 1)]
Taken == [t \in Threads |-> TakenBy(t)]

LEMMA WaitingIs ==
  ASSUME TypeOK, Window, Valued
  PROVE  /\ Waiting \in Seq(Values) /\ Len(Waiting) = enqueue_pos - dequeue_pos
         /\ \A i \in 1..Len(Waiting) : Waiting[i] = ValueAt(dequeue_pos + i - 1)
<1>1. enqueue_pos \in Nat /\ dequeue_pos \in Nat /\ enqueue_pos - dequeue_pos \in Nat
  BY Positions DEF Window
<1>2. \A i \in 1..enqueue_pos - dequeue_pos : dequeue_pos + i - 1 \in dequeue_pos..enqueue_pos-1
  BY <1>1
<1>3. \A i \in 1..enqueue_pos - dequeue_pos : ValueAt(dequeue_pos + i - 1) \in Values
  BY <1>2 DEF Valued
<1>4. Waiting \in [1..enqueue_pos - dequeue_pos -> Values]  BY <1>3 DEF Waiting
<1>5. Waiting \in Seq(Values) /\ Len(Waiting) = enqueue_pos - dequeue_pos
  <2> HIDE DEF Waiting
  <2>1. QED  BY <1>1, <1>4
<1>6. QED  BY <1>5 DEF Waiting

\* A step that claims nothing and returns nothing a pop took changes neither.
LEMMA NothingMoves ==
  ASSUME UNCHANGED <<enqueue_pos, dequeue_pos>>,
         \A p \in dequeue_pos..enqueue_pos-1 : ValueAt(p)' = ValueAt(p),
         \A x \in Threads : TakenBy(x)' = TakenBy(x), TypeOK
  PROVE  UNCHANGED <<Waiting, Taken>>
<1>1. enqueue_pos \in Nat /\ dequeue_pos \in Nat  BY Positions
<1>2. \A i \in 1..enqueue_pos - dequeue_pos : dequeue_pos + i - 1 \in dequeue_pos..enqueue_pos-1
  BY <1>1
<1>3. [i \in 1..enqueue_pos - dequeue_pos |-> ValueAt(dequeue_pos + i - 1)']
      = [i \in 1..enqueue_pos - dequeue_pos |-> ValueAt(dequeue_pos + i - 1)]
  BY <1>2
<1>4. QED  BY <1>3 DEF Waiting, Taken

LEMMA LocalMapped ==
  ASSUME IInv, Valued, Valued', NEW t \in Threads, LocalTo(t)
  PROVE  UNCHANGED <<Waiting, Taken>>
<1>1. TypeOK /\ UNCHANGED <<seq, val, enqueue_pos, dequeue_pos>>  BY DEF IInv, LocalTo, shared
<1>2. \A x \in Threads : x # t => pc'[x] = pc[x] /\ pos'[x] = pos[x] /\ v'[x] = v[x]
  BY DEF LocalTo, Moves
<1>3. /\ \A x \in Threads : (Writing(x)' <=> Writing(x)) /\ (Reading(x)' <=> Reading(x))
      /\ ~Writing(t) /\ ~Reading(t)
  BY LocalKeepsOwners DEF Busy
<1>4. ASSUME NEW p \in dequeue_pos..enqueue_pos-1 PROVE ValueAt(p)' = ValueAt(p)
  <2>1. p \in Nat  BY <1>1, Positions
  <2>2. CASE \E x \in Threads : Writing(x) /\ pos[x] = p
    <3>1. PICK x \in Threads : Writing(x) /\ pos[x] = p  BY <2>2
    <3>2. Writing(x)' /\ pos'[x] = p /\ v'[x] = v[x]  BY <1>2, <1>3, <3>1
    <3>3. ValueAt(p) = v[x] /\ ValueAt(p)' = v'[x]  BY <2>1, <3>1, <3>2 DEF Valued
    <3>4. QED  BY <3>2, <3>3
  <2>3. CASE \A x \in Threads : ~(Writing(x) /\ pos[x] = p)
    <3>1. \A x \in Threads : ~(Writing(x)' /\ pos'[x] = p)  BY <1>2, <1>3, <2>3
    <3>2. ValueAt(p) = val[Cell(p)] /\ ValueAt(p)' = val'[Cell(p)]
      BY <2>1, <2>3, <3>1 DEF Valued, Cell
    <3>3. QED  BY <1>1, <3>2
  <2>4. QED  BY <2>2, <2>3
<1>5. ASSUME NEW x \in Threads PROVE TakenBy(x)' = TakenBy(x)
  <2>1. CASE x = t  BY <1>3, <2>1 DEF Valued
  <2>2. CASE x # t  BY <1>1, <1>2, <2>2 DEF TakenBy, Cell
  <2>3. QED  BY <2>1, <2>2
<1>6. QED  BY <1>1, <1>4, <1>5, NothingMoves

\* Only val[Cell(pos[t])] changes, under the push that owns it.
LEMMA PushValMapped ==
  ASSUME IInv, Valued, Valued', NEW t \in Threads, PushVal(t)
  PROVE  UNCHANGED <<Waiting, Taken>>
<1> USE DEF IInv
<1>1. /\ Moves(t) /\ UNCHANGED <<enqueue_pos, dequeue_pos, pos>>
      /\ \A x \in Threads : (Writing(x)' <=> Writing(x)) /\ (Reading(x)' <=> Reading(x))
      /\ pc[t] = "push_val" /\ pc'[t] = "push_pub" /\ v' = v
      /\ \A c \in 0..Capacity-1 : c # Cell(pos[t]) => val'[c] = val[c]
  BY PushValDoes DEF ValueStep
<1>2. Writing(t) /\ Busy(t) /\ ~Reading(t)  BY <1>1 DEF Writing, Busy, Reading
<1>3. pos[t] \in dequeue_pos..enqueue_pos-1  BY <1>2 DEF WritersHold
<1>4. /\ enqueue_pos \in Nat /\ dequeue_pos \in Nat /\ Capacity \in Nat
      /\ enqueue_pos <= dequeue_pos + Capacity
      /\ \A p \in Nat : Cell(p) \in 0..Capacity-1
      /\ \A x \in Threads : pos[x] \in Nat
  BY Positions DEF Window
<1>5. ASSUME NEW p \in dequeue_pos..enqueue_pos-1 PROVE ValueAt(p)' = ValueAt(p)
  <2>1. p \in Nat  BY <1>4
  <2>2. CASE \E x \in Threads : Writing(x) /\ pos[x] = p
    <3>1. PICK x \in Threads : Writing(x) /\ pos[x] = p  BY <2>2
    <3>2. ValueAt(p) = v[x] /\ ValueAt(p)' = v'[x]  BY <1>1, <2>1, <3>1 DEF Valued
    <3>3. QED  BY <1>1, <3>2
  <2>3. CASE \A x \in Threads : ~(Writing(x) /\ pos[x] = p)
    <3>1. p # pos[t]  BY <1>2, <2>3
    <3>2. p \in dequeue_pos..dequeue_pos+Capacity-1 /\ pos[t] \in dequeue_pos..dequeue_pos+Capacity-1
      BY <1>3, <1>4
    <3>3. Cell(p) # Cell(pos[t])  BY <1>4, <3>1, <3>2, WindowCells
    <3>4. val'[Cell(p)] = val[Cell(p)]  BY <1>1, <1>4, <2>1, <3>3
    <3>5. ValueAt(p) = val[Cell(p)] /\ ValueAt(p)' = val'[Cell(p)]
      BY <1>1, <2>1, <2>3 DEF Valued, Cell
    <3>6. QED  BY <3>4, <3>5
  <2>4. QED  BY <2>2, <2>3
<1>6. ASSUME NEW x \in Threads PROVE TakenBy(x)' = TakenBy(x)
  <2>1. CASE x = t  BY <1>1, <1>2, <2>1 DEF Valued
  <2>2. CASE x # t
    <3>1. pc'[x] = pc[x]  BY <1>1, <2>2 DEF Moves
    <3>2. CASE pc[x] = "pop_val"
      <4>1. Busy(x)  BY <3>2 DEF Busy, Reading
      <4>2. Cell(pos[x]) # Cell(pos[t])  BY <1>2, <2>2, <4>1, OwnCells
      <4>3. val'[Cell(pos[x])] = val[Cell(pos[x])]  BY <1>1, <1>4, <4>2
      <4>4. TakenBy(x) = val[Cell(pos[x])] /\ TakenBy(x)' = val'[Cell(pos[x])]
        BY <1>1, <3>1, <3>2 DEF Valued, Cell
      <4>5. QED  BY <4>3, <4>4
    <3>3. CASE pc[x] # "pop_val"  BY <1>1, <3>1, <3>3 DEF TakenBy
    <3>4. QED  BY <3>2, <3>3
  <2>3. QED  BY <2>1, <2>2
<1>7. QED  BY <1>1, <1>5, <1>6, NothingMoves

LEMMA PopValMapped ==
  ASSUME IInv, Valued, Valued', NEW t \in Threads, PopVal(t)
  PROVE  UNCHANGED <<Waiting, Taken>>
<1> USE DEF IInv
<1>1. /\ Moves(t) /\ UNCHANGED <<enqueue_pos, dequeue_pos, pos, val>>
      /\ \A x \in Threads : (Writing(x)' <=> Writing(x)) /\ (Reading(x)' <=> Reading(x))
      /\ pc[t] = "pop_val" /\ pc'[t] = "pop_free" /\ v'[t] = val[Cell(pos[t])]
  BY PopValDoes DEF ValueStep
<1>2. ~Writing(t)  BY <1>1 DEF Writing
<1>3. \A x \in Threads : x # t => pc'[x] = pc[x] /\ v'[x] = v[x]  BY <1>1 DEF Moves
<1>4. ASSUME NEW p \in dequeue_pos..enqueue_pos-1 PROVE ValueAt(p)' = ValueAt(p)
  <2>1. p \in Nat  BY Positions
  <2>2. CASE \E x \in Threads : Writing(x) /\ pos[x] = p
    <3>1. PICK x \in Threads : Writing(x) /\ pos[x] = p  BY <2>2
    <3>2. ValueAt(p) = v[x] /\ ValueAt(p)' = v'[x]  BY <1>1, <2>1, <3>1 DEF Valued
    <3>3. QED  BY <1>2, <1>3, <3>1, <3>2
  <2>3. CASE \A x \in Threads : ~(Writing(x) /\ pos[x] = p)
    <3>1. ValueAt(p) = val[Cell(p)] /\ ValueAt(p)' = val'[Cell(p)]
      BY <1>1, <2>1, <2>3 DEF Valued, Cell
    <3>2. QED  BY <1>1, <3>1
  <2>4. QED  BY <2>2, <2>3
<1>5. ASSUME NEW x \in Threads PROVE TakenBy(x)' = TakenBy(x)
  <2>1. CASE x = t  BY <1>1, <2>1 DEF TakenBy
  <2>2. CASE x # t  BY <1>1, <1>3, <2>2 DEF TakenBy, Cell
  <2>3. QED  BY <2>1, <2>2
<1>6. QED  BY <1>1, <1>4, <1>5, NothingMoves

\* A call that returns leaves the queue as it was: a push's value is now read
\* from its cell.
LEMMA ReleaseMapped ==
  ASSUME IInv, Valued, Valued', NEW t \in Threads, NEW n, Releases(t, n),
         Writing(t) => val[Cell(pos[t])] = v[t]
  PROVE  /\ \A p \in dequeue_pos..enqueue_pos-1 : ValueAt(p)' = ValueAt(p)
         /\ \A x \in Threads : x # t => TakenBy(x)' = TakenBy(x)
         /\ TakenBy(t)' = NoValue /\ UNCHANGED <<enqueue_pos, dequeue_pos>>
<1> USE DEF IInv
<1>1. /\ UNCHANGED <<val, enqueue_pos, dequeue_pos>> /\ Moves(t)
      /\ \A x \in Threads : x # t => /\ Writing(x)' <=> Writing(x)
                                     /\ Reading(x)' <=> Reading(x)
                                     /\ pc'[x] = pc[x] /\ pos'[x] = pos[x] /\ v'[x] = v[x]
      /\ ~Writing(t)' /\ ~Reading(t)'
  BY ReleaseKeeps DEF Releases, Moves
<1>2. ASSUME NEW p \in dequeue_pos..enqueue_pos-1 PROVE ValueAt(p)' = ValueAt(p)
  <2>1. p \in Nat  BY Positions
  <2>2. CASE \E x \in Threads : x # t /\ Writing(x) /\ pos[x] = p
    <3>1. PICK x \in Threads : x # t /\ Writing(x) /\ pos[x] = p  BY <2>2
    <3>2. ValueAt(p) = v[x]  BY <2>1, <3>1 DEF Valued
    <3>3. Writing(x)' /\ pos'[x] = p  BY <1>1, <3>1
    <3>4. ValueAt(p)' = v'[x]  BY <2>1, <3>3 DEF Valued
    <3>5. QED  BY <1>1, <3>1, <3>2, <3>4
  <2>3. CASE \A x \in Threads : x # t => ~(Writing(x) /\ pos[x] = p)
    <3>1. \A x \in Threads : ~(Writing(x)' /\ pos'[x] = p)  BY <1>1, <2>3
    <3>2. ValueAt(p)' = val[Cell(p)]  BY <1>1, <2>1, <3>1 DEF Valued, Cell
    <3>3. ValueAt(p) = val[Cell(p)]
      <4>1. CASE Writing(t) /\ pos[t] = p  BY <2>1, <4>1 DEF Valued
      <4>2. CASE ~(Writing(t) /\ pos[t] = p)
        <5>1. \A x \in Threads : ~(Writing(x) /\ pos[x] = p)  BY <2>3, <4>2
        <5>2. QED  BY <2>1, <5>1 DEF Valued
      <4>3. QED  BY <4>1, <4>2
    <3>4. QED  BY <3>2, <3>3
  <2>4. QED  BY <2>2, <2>3
<1>3. \A x \in Threads : x # t => TakenBy(x)' = TakenBy(x)  BY <1>1 DEF TakenBy, Cell
<1>4. TakenBy(t)' = NoValue  BY <1>1 DEF Valued
<1>5. QED  BY <1>1, <1>2, <1>3, <1>4

LEMMA PushPublishMapped ==
  ASSUME IInv, Valued, Valued', NEW t \in Threads, PushPublish(t)
  PROVE  UNCHANGED <<Waiting, Taken>>
<1>1. pc[t] = "push_pub" /\ Writing(t) /\ Releases(t, pos[t] + 1)  BY PublishDoes
<1>2. val[Cell(pos[t])] = v[t]  BY <1>1 DEF IInv, Payloads
<1>3. ~Reading(t)  BY <1>1 DEF Reading
<1>4. TakenBy(t) = NoValue  BY <1>3 DEF Valued
<1>5. QED  BY <1>1, <1>2, <1>4, ReleaseMapped, NothingMoves DEF IInv

\* The pop's last store is ReadyQueue's Return.
LEMMA PopFreeMapped ==
  ASSUME IInv, Valued, Valued', NEW t \in Threads, PopFree(t)
  PROVE  Queue!Return(t)
<1>1. pc[t] = "pop_free" /\ Reading(t) /\ Releases(t, pos[t] + Capacity)  BY FreeDoes
<1>2. ~Writing(t)  BY <1>1 DEF Writing
<1>3. v[t] \in Values /\ TakenBy(t) = v[t]  BY <1>1 DEF IInv, Payloads, Valued
<1>4. TakenBy(t) # NoValue  BY <1>3, ValuesAssumption
<1>5. /\ \A p \in dequeue_pos..enqueue_pos-1 : ValueAt(p)' = ValueAt(p)
      /\ \A x \in Threads : x # t => TakenBy(x)' = TakenBy(x)
      /\ TakenBy(t)' = NoValue /\ UNCHANGED <<enqueue_pos, dequeue_pos>>
  BY <1>1, <1>2, ReleaseMapped
<1>6. enqueue_pos \in Nat /\ dequeue_pos \in Nat  BY Positions DEF IInv
<1>7. \A i \in 1..enqueue_pos - dequeue_pos : dequeue_pos + i - 1 \in dequeue_pos..enqueue_pos-1
  BY <1>6
<1>8. [i \in 1..enqueue_pos - dequeue_pos |-> ValueAt(dequeue_pos + i - 1)']
      = [i \in 1..enqueue_pos - dequeue_pos |-> ValueAt(dequeue_pos + i - 1)]
  BY <1>5, <1>7
<1>9. UNCHANGED Waiting  BY <1>5, <1>8 DEF Waiting
<1>10. Taken' = [Taken EXCEPT ![t] = NoValue] /\ Taken[t] # NoValue
  BY <1>4, <1>5 DEF Taken
<1>11. QED  BY <1>9, <1>10 DEF Queue!Return, Waiting, Taken, TakenBy

LEMMA Appended ==
  ASSUME NEW S, NEW s \in Seq(S), NEW e \in S, NEW n \in Nat, Len(s) = n,
         NEW r \in [1..n+1 -> S], \A i \in 1..n : r[i] = s[i], r[n+1] = e
  PROVE  r = Append(s, e)
<1>1. r \in Seq(S) /\ Len(r) = n + 1  OBVIOUS
<1>2. Append(s, e) \in Seq(S) /\ Len(Append(s, e)) = n + 1  OBVIOUS
<1>3. \A i \in 1..n+1 : r[i] = Append(s, e)[i]
  <2>1. \A i \in 1..n : Append(s, e)[i] = s[i]  OBVIOUS
  <2>2. Append(s, e)[n+1] = e  OBVIOUS
  <2>3. QED  BY <2>1, <2>2
<1>4. QED  BY <1>1, <1>2, <1>3, SeqEqual

LEMMA Removed ==
  ASSUME NEW S, NEW s \in Seq(S), NEW n \in Nat, Len(s) = n + 1,
         NEW r \in [1..n -> S], \A i \in 1..n : r[i] = s[i+1]
  PROVE  s # << >> /\ Head(s) = s[1] /\ r = Tail(s)
<1>1. r \in Seq(S) /\ Len(r) = n  OBVIOUS
<1>2. s # << >> /\ Head(s) = s[1] /\ Tail(s) \in Seq(S) /\ Len(Tail(s)) = n  OBVIOUS
<1>3. \A i \in 1..n : r[i] = Tail(s)[i]  OBVIOUS
<1>4. QED  BY <1>1, <1>2, <1>3, SeqEqual

\* The exchange that claims a position is ReadyQueue's Push.
LEMMA PushClaimMapped ==
  ASSUME IInv, Valued, Valued', NEW t \in Threads, PushClaim(t)
  PROVE  v[t] \in Values /\ Queue!Push(v[t])
<1> USE DEF IInv
<1>1. /\ Moves(t) /\ pc[t] = "push_cas" /\ pc'[t] = "push_val"
      /\ pos[t] = enqueue_pos /\ enqueue_pos' = enqueue_pos + 1
      /\ UNCHANGED <<seq, val, dequeue_pos, pos, v>>
      /\ enqueue_pos < dequeue_pos + Capacity
  BY PushClaimDoes
<1>2. /\ enqueue_pos \in Nat /\ dequeue_pos \in Nat /\ Capacity \in Nat
      /\ dequeue_pos <= enqueue_pos
  BY Positions DEF Window
<1>3. v[t] \in Values  BY <1>1 DEF Payloads
<1>4. \A x \in Threads : x # t => /\ Writing(x)' <=> Writing(x)
                                  /\ Reading(x)' <=> Reading(x)
                                  /\ pc'[x] = pc[x]
  BY <1>1, OthersStay
<1>5. Writing(t)' /\ ~Writing(t) /\ ~Reading(t)' /\ ~Reading(t)
  BY <1>1 DEF Writing, Reading
<1>6. ASSUME NEW p \in dequeue_pos..enqueue_pos-1 PROVE ValueAt(p)' = ValueAt(p)
  <2>1. p \in Nat /\ p # enqueue_pos  BY <1>2
  <2>2. CASE \E x \in Threads : Writing(x) /\ pos[x] = p
    <3>1. PICK x \in Threads : Writing(x) /\ pos[x] = p  BY <2>2
    <3>2. Writing(x)' /\ pos'[x] = p  BY <1>1, <1>4, <1>5, <3>1
    <3>3. ValueAt(p) = v[x] /\ ValueAt(p)' = v'[x]  BY <2>1, <3>1, <3>2 DEF Valued
    <3>4. QED  BY <1>1, <3>3
  <2>3. CASE \A x \in Threads : ~(Writing(x) /\ pos[x] = p)
    <3>1. \A x \in Threads : ~(Writing(x)' /\ pos'[x] = p)  BY <1>1, <1>4, <2>1, <2>3
    <3>2. ValueAt(p) = val[Cell(p)] /\ ValueAt(p)' = val'[Cell(p)]
      BY <2>1, <2>3, <3>1 DEF Valued, Cell
    <3>3. QED  BY <1>1, <3>2
  <2>4. QED  BY <2>2, <2>3
<1>7. PICK e \in Nat : e = enqueue_pos  BY <1>2
<1>8. ValueAt(e)' = v[t]
  <2>1. Writing(t)' /\ pos'[t] = e  BY <1>1, <1>5, <1>7
  <2>2. ValueAt(e)' = v'[t]  BY <2>1 DEF Valued
  <2>3. QED  BY <1>1, <2>2
<1>9. PICK d \in Nat : d = dequeue_pos  BY <1>2
<1>10. \A p \in d..e-1 : ValueAt(p)' = ValueAt(p) /\ ValueAt(p) \in Values
  BY <1>6, <1>7, <1>9 DEF Valued
<1>11. Waiting' = [i \in 1..e+1-d |-> ValueAt(d + i - 1)']
  BY <1>1, <1>7, <1>9 DEF Waiting
<1>12. \A i \in 1..e-d : d + i - 1 \in d..e-1 /\ i \in 1..e+1-d  OBVIOUS
<1>13. \A i \in 1..e+1-d : i \in 1..e-d \/ i = e+1-d  OBVIOUS
<1>14. d + (e+1-d) - 1 = e /\ e+1-d \in 1..e+1-d  BY <1>2, <1>7, <1>9
<1>15. /\ Waiting \in Seq(Values) /\ Len(Waiting) = e - d
       /\ \A i \in 1..e-d : Waiting[i] = ValueAt(d + i - 1)
  BY WaitingIs, <1>7, <1>9
<1>16. Waiting'[e+1-d] = v[t]  BY <1>8, <1>11, <1>14
<1>17. \A i \in 1..e-d : Waiting'[i] = Waiting[i] /\ Waiting'[i] \in Values
  BY <1>10, <1>11, <1>12, <1>15
<1>18. Waiting' \in [1..e+1-d -> Values]
  BY <1>3, <1>11, <1>13, <1>16, <1>17
<1>19. Waiting' = Append(Waiting, v[t])
  <2>1. PICK n \in Nat : n = e - d /\ n + 1 = e + 1 - d  BY <1>2, <1>7, <1>9
  <2> HIDE DEF Waiting
  <2>2. Waiting' \in [1..n+1 -> Values] /\ Waiting'[n+1] = v[t]  BY <1>16, <1>18, <2>1
  <2>3. Len(Waiting) = n /\ \A i \in 1..n : Waiting'[i] = Waiting[i]  BY <1>15, <1>17, <2>1
  <2>4. QED  BY <1>3, <1>15, <2>2, <2>3, Appended
<1>20. UNCHANGED Taken
  <2>1. \A x \in Threads : TakenBy(x)' = TakenBy(x)
    BY <1>1, <1>4, <1>5 DEF Valued, TakenBy, Cell
  <2>2. QED  BY <2>1 DEF Taken
<1>21. Len(Waiting) < Capacity  BY <1>1, <1>2, <1>7, <1>9, <1>15
<1>22. QED  BY <1>3, <1>19, <1>20, <1>21 DEF Queue!Push, Waiting, Taken, TakenBy

LEMMA PopClaimMapped ==
  ASSUME IInv, Valued, Valued', NEW t \in Threads, PopClaim(t)
  PROVE  Queue!Take(t)
<1> USE DEF IInv
<1>1. /\ Moves(t) /\ pc[t] = "pop_cas" /\ pc'[t] = "pop_val"
      /\ pos[t] = dequeue_pos /\ dequeue_pos' = dequeue_pos + 1
      /\ UNCHANGED <<seq, val, enqueue_pos, pos, v>>
      /\ seq[Cell(dequeue_pos)] = dequeue_pos + 1 /\ dequeue_pos < enqueue_pos
  BY PopClaimDoes
<1>2. PICK e \in Nat, d \in Nat : e = enqueue_pos /\ d = dequeue_pos  BY Positions
<1>3. \A x \in Threads : x # t => /\ Writing(x)' <=> Writing(x)
                                  /\ Reading(x)' <=> Reading(x)
                                  /\ pc'[x] = pc[x]
  BY <1>1, OthersStay
<1>4. ~Writing(t)' /\ ~Writing(t) /\ Reading(t)' /\ ~Reading(t)
  BY <1>1 DEF Writing, Reading
<1>5. ASSUME NEW p \in d..e-1 PROVE ValueAt(p)' = ValueAt(p) /\ ValueAt(p) \in Values
  <2>1. p \in Nat /\ p \in dequeue_pos..enqueue_pos-1  BY <1>2
  <2>2. CASE \E x \in Threads : Writing(x) /\ pos[x] = p
    <3>1. PICK x \in Threads : Writing(x) /\ pos[x] = p  BY <2>2
    <3>2. Writing(x)' /\ pos'[x] = p  BY <1>1, <1>3, <1>4, <3>1
    <3>3. ValueAt(p) = v[x] /\ ValueAt(p)' = v'[x]  BY <2>1, <3>1, <3>2 DEF Valued
    <3>4. QED  BY <1>1, <2>1, <3>3 DEF Valued
  <2>3. CASE \A x \in Threads : ~(Writing(x) /\ pos[x] = p)
    <3>1. \A x \in Threads : ~(Writing(x)' /\ pos'[x] = p)  BY <1>1, <1>3, <1>4, <2>3
    <3>2. ValueAt(p) = val[Cell(p)] /\ ValueAt(p)' = val'[Cell(p)]
      BY <2>1, <2>3, <3>1 DEF Valued, Cell
    <3>3. QED  BY <1>1, <2>1, <3>2 DEF Valued
  <2>4. QED  BY <2>2, <2>3
\* No push is still writing the oldest position: its cell is published.
<1>6. ValueAt(d) = val[Cell(d)] /\ ValueAt(d) \in Values
  <2>1. \A x \in Threads : ~(Writing(x) /\ pos[x] = d)
    <3>1. \A x \in Threads : Writing(x) /\ pos[x] = d => seq[Cell(d)] = d  BY DEF WritersHold
    <3>2. seq[Cell(d)] = d + 1  BY <1>1, <1>2
    <3>3. QED  BY <3>1, <3>2
  <2>2. d \in d..e-1  BY <1>1, <1>2
  <2>3. QED  BY <1>5, <2>1, <2>2 DEF Valued
<1>7. PICK n \in Nat : e - d = n + 1 /\ e - (d + 1) = n
  <2>1. e - d - 1 \in Nat  BY <1>1, <1>2
  <2>2. QED  BY <2>1
<1>8. /\ Waiting \in Seq(Values) /\ Len(Waiting) = n + 1
      /\ \A i \in 1..n+1 : Waiting[i] = ValueAt(d + i - 1)
  BY WaitingIs, <1>2, <1>7
<1>9. Waiting' = [i \in 1..n |-> ValueAt((d + 1) + i - 1)']
  BY <1>1, <1>2, <1>7 DEF Waiting
<1>10. \A i \in 1..n : /\ (d + 1) + i - 1 \in d..e-1 /\ i + 1 \in 1..n+1
                       /\ d + (i + 1) - 1 = (d + 1) + i - 1
  BY <1>7
<1>11. \A i \in 1..n : Waiting'[i] = Waiting[i+1] /\ Waiting'[i] \in Values
  <2>1. ASSUME NEW i \in 1..n
        PROVE  Waiting'[i] = Waiting[i+1] /\ Waiting'[i] \in Values
    <3>1. PICK p \in d..e-1 : p = (d + 1) + i - 1 /\ p = d + (i + 1) - 1  BY <1>10
    <3>2. Waiting'[i] = ValueAt(p)' /\ Waiting[i+1] = ValueAt(p)
      BY <1>8, <1>9, <1>10, <3>1
    <3>3. QED  BY <1>5, <3>2
  <2>2. QED  BY <2>1
<1>12. Waiting' \in [1..n -> Values]  BY <1>9, <1>11
<1>13. Waiting # << >> /\ Head(Waiting) = Waiting[1] /\ Waiting' = Tail(Waiting)
  <2> HIDE DEF Waiting
  <2>1. QED  BY <1>8, <1>11, <1>12, Removed
<1>14. Waiting[1] = ValueAt(d)
  <2>1. 1 \in 1..n+1 /\ d + 1 - 1 = d  BY <1>7
  <2>2. QED  BY <1>8, <2>1
<1>15. Taken' = [Taken EXCEPT ![t] = Head(Waiting)] /\ Taken[t] = NoValue
  <2>1. \A x \in Threads : x # t => TakenBy(x)' = TakenBy(x)
    BY <1>1, <1>3 DEF TakenBy, Cell
  <2>2. TakenBy(t) = NoValue  BY <1>4 DEF Valued
  <2>3. TakenBy(t)' = val'[Cell(pos'[t])]  BY <1>1 DEF Valued, Cell
  <2>4. TakenBy(t)' = val[Cell(d)]  BY <1>1, <1>2, <2>3
  <2>5. TakenBy(t)' = Head(Waiting)  BY <1>6, <1>13, <1>14, <2>4
  <2>6. QED  BY <2>1, <2>2, <2>5 DEF Taken
<1>16. QED  BY <1>13, <1>15 DEF Queue!Take, Waiting, Taken, TakenBy

-----------------------------------------------------------------------------
LEMMA QueueInit == Init => Queue!Init
<1> SUFFICES ASSUME Init PROVE Queue!Init  OBVIOUS
<1>1. enqueue_pos - dequeue_pos = 0 /\ \A t \in Threads : TakenBy(t) = NoValue
  BY DEF Init, TakenBy
<1>2. Waiting = << >>  BY <1>1 DEF Waiting
<1>3. Taken = [t \in Threads |-> NoValue]  BY <1>1 DEF Taken
<1>4. QED  BY <1>2, <1>3 DEF Queue!Init, Waiting, Taken, TakenBy

LEMMA QueueStep == IInv /\ Valued /\ Valued' /\ [Next]_vars => [Queue!Next]_(Queue!vars)
<1> SUFFICES ASSUME IInv, Valued, Valued', [Next]_vars PROVE [Queue!Next]_(Queue!vars)
  OBVIOUS
<1>1. ASSUME UNCHANGED <<Waiting, Taken>> PROVE [Queue!Next]_(Queue!vars)
  BY <1>1 DEF Queue!vars, Waiting, Taken, TakenBy
<1>2. ASSUME NEW t \in Threads, LocalTo(t) PROVE [Queue!Next]_(Queue!vars)
  BY <1>1, <1>2, LocalMapped
<1>3. CASE UNCHANGED vars
  <2>1. UNCHANGED <<seq, val, enqueue_pos, dequeue_pos, pc, pos, v>>  BY <1>3 DEF vars, shared
  <2>2. UNCHANGED <<Waiting, Taken>>
    BY <2>1 DEF Waiting, Taken, TakenBy, ValueAt, Writer, Cell
  <2>3. QED  BY <1>1, <2>2
<1>4. ASSUME NEW t \in Threads, NEW value \in Values, PushCall(t, value)
      PROVE  [Queue!Next]_(Queue!vars)
  BY <1>2, <1>4, PushCallLocal
<1>5. ASSUME NEW t \in Threads, PopCall(t) \/ Step(t) PROVE [Queue!Next]_(Queue!vars)
  <2>1. CASE PushSeq(t)  BY <1>2, <2>1, PushSeqLocal
  <2>2. CASE PushFull(t) \/ PopEmpty(t)  BY <1>2, <2>2, ReturnsLocal
  <2>3. CASE PushReload(t) \/ PushLost(t)  BY <1>2, <2>3, PushReloadLocal
  <2>4. CASE PopCall(t) \/ PopReload(t) \/ PopLost(t)  BY <1>2, <2>4, PopCallLocal
  <2>5. CASE PopSeq(t)  BY <1>2, <2>5, PopSeqLocal
  <2>6. CASE PushClaim(t)
    <3>1. v[t] \in Values /\ Queue!Push(v[t])  BY <2>6, PushClaimMapped
    <3>2. QED  BY <3>1 DEF Queue!Next
  <2>7. CASE PopClaim(t)
    <3>1. Queue!Take(t)  BY <2>7, PopClaimMapped
    <3>2. QED  BY <3>1 DEF Queue!Next
  <2>8. CASE PushVal(t)  BY <1>1, <2>8, PushValMapped
  <2>9. CASE PopVal(t)  BY <1>1, <2>9, PopValMapped
  <2>10. CASE PushPublish(t)  BY <1>1, <2>10, PushPublishMapped
  <2>11. CASE PopFree(t)
    <3>1. Queue!Return(t)  BY <2>11, PopFreeMapped
    <3>2. QED  BY <3>1 DEF Queue!Next
  <2>12. QED
    BY <1>5, <2>1, <2>2, <2>3, <2>4, <2>5, <2>6, <2>7, <2>8, <2>9, <2>10, <2>11
       DEF Step, CallStep
<1>6. QED  BY <1>3, <1>4, <1>5 DEF Next

\* What the executor may rely on in push and pop: values leave in the order the
\* pushes claimed their positions, each to one pop, and whole.
THEOREM QueueIsFifo == Spec => ImplementsFifo
BY Invariance, ValuedHolds, QueueInit, QueueStep, PTL DEF Spec, ImplementsFifo, Queue!Spec
=============================================================================
