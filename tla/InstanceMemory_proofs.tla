----------------------- MODULE InstanceMemory_proofs -----------------------
(***************************************************************************)
(* For every schedule, build() gets the memory it reserved: the invariant  *)
(* IInv is inductive, and with it the budget and the layout.               *)
(***************************************************************************)
EXTENDS InstanceMemory, TLAPS

(***************************************************************************)
(* memory_arena::allocate's rounding: the result is a multiple of the      *)
(* alignment, not below the address, and less than an alignment above it.  *)
(***************************************************************************)
LEMMA AlignedFits ==
  ASSUME NEW cur \in Nat, NEW r \in 1..7
  PROVE  /\ Aligned(cur, Align(r)) \in Nat
         /\ Aligned(cur, Align(r)) % Align(r) = 0
         /\ cur <= Aligned(cur, Align(r))
         /\ Aligned(cur, Align(r)) < cur + 64
<1>1. CASE r <= 3
  <2>1. Align(r) = 64
    BY <1>1 DEF Align
  <2> DEFINE q == (cur + 63) \div 64
  <2>2. q \in Nat /\ 64 * q <= cur + 63 /\ cur + 63 < 64 * q + 64
    OBVIOUS
  <2>3. Aligned(cur, 64) = q * 64
    BY DEF Aligned
  <2>4. (q * 64) % 64 = 0
    BY <2>2
  <2> QED
    BY <2>1, <2>2, <2>3, <2>4
<1>2. CASE ~(r <= 3)
  <2>1. Align(r) = 8
    BY <1>2 DEF Align
  <2> DEFINE q == (cur + 7) \div 8
  <2>2. q \in Nat /\ 8 * q <= cur + 7 /\ cur + 7 < 8 * q + 8
    OBVIOUS
  <2>3. Aligned(cur, 8) = q * 8
    BY DEF Aligned
  <2>4. (q * 8) % 8 = 0
    BY <2>2
  <2> QED
    BY <2>1, <2>2, <2>3, <2>4
<1> QED
  BY <1>1, <1>2

(***************************************************************************)
(* The budget is what all seven regions cost at most, and 256 bytes more;  *)
(* each region moves the account on by its own size.                       *)
(***************************************************************************)
LEMMA Account ==
  ASSUME NEW s \in [1..7 -> Nat], NEW n \in 1..8
  PROVE  /\ Before(s, n) \in Nat /\ Budget(s) \in Nat
         /\ Before(s, n) + 64 * 7 + 256 <= Budget(s)
         /\ n <= 7 => Before(s, n + 1) = Before(s, n) + s[n]
<1>1. \A j \in 1..7 : s[j] \in Nat
  OBVIOUS
<1>2. n = 1 \/ n = 2 \/ n = 3 \/ n = 4 \/ n = 5 \/ n = 6 \/ n = 7 \/ n = 8
  OBVIOUS
<1>3. /\ s[1] \in Nat /\ s[2] \in Nat /\ s[3] \in Nat /\ s[4] \in Nat
      /\ s[5] \in Nat /\ s[6] \in Nat /\ s[7] \in Nat
  BY <1>1
<1> HIDE <1>1
<1>4. Before(s, n) \in Nat /\ Budget(s) \in Nat
  BY <1>3, <1>2 DEF Before, Budget
<1>5. Before(s, n) + 64 * 7 + 256 <= Budget(s)
  BY <1>3, <1>2 DEF Before, Budget
<1>6. n <= 7 => Before(s, n + 1) = Before(s, n) + s[n]
  BY <1>3, <1>2 DEF Before
<1> QED
  BY <1>4, <1>5, <1>6

\* A schedule's arena starts out empty.
LEMMA InitIInv == Init => IInv
<1> SUFFICES ASSUME Init PROVE IInv
  OBVIOUS
<1>1. sizes \in [1..7 -> Nat] /\ base \in Nat
  BY SizesAssumption, BasesAssumption DEF Init
<1>2. capacity = 0 /\ offset = 0 /\ blocks = << >> /\ next = 1 /\ result = "running"
  BY DEF Init
<1>3. TypeOK
  BY <1>1, <1>2 DEF TypeOK
<1>4. Before(sizes, 1) \in Nat
  BY <1>1, Account
<1>5. offset <= Before(sizes, next) + 64 * (next - 1)
  BY <1>2, <1>4
<1>6. \A r \in 1..7 : r < next /\ Wanted(r) => Has(r)
  BY <1>2
<1>7. DOMAIN blocks = {}
  BY <1>2
<1> QED
  BY <1>2, <1>3, <1>5, <1>6, <1>7 DEF IInv, BudgetSuffices, RegionsAreApart

\* Reserving the budget.
LEMMA ReserveIInv == IInv /\ Reserve => IInv'
<1> SUFFICES ASSUME IInv, Reserve PROVE IInv'
  OBVIOUS
<1>1. TypeOK /\ next = 1 /\ offset = 0 /\ blocks = << >>
  BY DEF IInv, Reserve
<1>2. /\ capacity' = Budget(sizes) /\ result = "running"
      /\ sizes' = sizes /\ base' = base /\ offset' = offset /\ blocks' = blocks
      /\ next' = next /\ result' = result
  BY DEF Reserve
<1>3. sizes \in [1..7 -> Nat] /\ next \in 1..8
  BY <1>1 DEF TypeOK
<1>4. Before(sizes, next) \in Nat /\ Budget(sizes) \in Nat
      /\ Before(sizes, next) + 64 * 7 + 256 <= Budget(sizes)
  BY <1>3, Account
<1>5. TypeOK' /\ capacity' > 0
  BY SMTT(30), <1>1, <1>2, <1>4 DEF TypeOK
<1>6. DOMAIN blocks' = {}
  BY <1>1, <1>2
<1>7. RegionsAreApart'
  BY <1>6 DEF RegionsAreApart
<1>8. offset' <= Before(sizes', next') + 64 * (next' - 1)
  BY <1>1, <1>2, <1>4
<1>9. \A r \in 1..7 : r < next' /\ Wanted(r)' => Has(r)'
  BY <1>1, <1>2
<1> QED
  BY <1>2, <1>5, <1>6, <1>7, <1>8, <1>9 DEF IInv, BudgetSuffices

\* One region: it fits, so it is placed after the others.
LEMMA AllocateIInv == IInv /\ Allocate => IInv'
<1> SUFFICES ASSUME IInv, Allocate PROVE IInv'
  OBVIOUS
<1>1. /\ TypeOK /\ capacity > 0 /\ next <= 7 /\ result = "running"
      /\ offset <= Before(sizes, next) + 64 * (next - 1)
      /\ capacity = Budget(sizes)
  BY DEF IInv, Allocate
<1>2. /\ sizes \in [1..7 -> Nat] /\ base \in Nat /\ capacity \in Nat /\ offset \in Nat
      /\ blocks \in Seq(Blocks) /\ next \in 1..8
  BY <1>1 DEF TypeOK
<1>3. next \in 1..7 /\ next + 1 \in 1..8 /\ sizes[next] \in Nat /\ base + offset \in Nat
  <2>1. next \in 1..7
    BY <1>1, <1>2
  <2>2. sizes[next] \in Nat
    BY <2>1, <1>2
  <2>3. base + offset \in Nat
    BY <1>2
  <2> QED
    BY <2>1, <2>2, <2>3
<1>4. /\ At(next) \in Nat /\ At(next) % Align(next) = 0
      /\ base + offset <= At(next) /\ At(next) < base + offset + 64
  BY <1>3, AlignedFits DEF At
<1>5. /\ Before(sizes, next) \in Nat
      /\ Before(sizes, next + 1) = Before(sizes, next) + sizes[next]
  BY <1>1, <1>2, Account
<1>6. /\ Before(sizes, next + 1) \in Nat
      /\ Before(sizes, next + 1) + 64 * 7 + 256 <= Budget(sizes)
  BY ZenonT(30), <1>2, <1>3, Account
<1> DEFINE at == At(next)
           size == sizes[next]
           before == Before(sizes, next)
           after == Before(sizes, next + 1)
<1> HIDE DEF at, size, before, after
<1>7. /\ at \in Nat /\ size \in Nat /\ before \in Nat /\ after \in Nat
      /\ base + offset <= at /\ at < base + offset + 64
      /\ after = before + size /\ after + 64 * 7 + 256 <= capacity
      /\ offset <= before + 64 * (next - 1)
  BY <1>1, <1>3, <1>4, <1>5, <1>6 DEF at, size, before, after
<1>8. at - base + size <= after + 64 * next /\ at - base + size <= capacity
  BY SMTT(30), <1>7, <1>2, <1>3
<1>9. Fits(next)
  BY <1>8 DEF Fits, at, size
<1> DEFINE new == [region |-> next, at |-> at, bytes |-> size]
<1>10. /\ blocks' = Append(blocks, new)
       /\ offset' = at - base + size /\ next' = next + 1
       /\ sizes' = sizes /\ base' = base /\ capacity' = capacity /\ result' = result
  BY <1>9 DEF Allocate, at, size
<1>11. offset' \in Nat /\ offset <= offset' /\ offset' <= capacity
       /\ at + size = base + offset'
  BY SMTT(30), <1>2, <1>7, <1>8, <1>10
<1>12. new \in Blocks
  BY <1>3, <1>7 DEF Blocks
<1>13. new.region = next /\ new.at = at /\ new.bytes = size
  OBVIOUS
<1> HIDE DEF new
<1>14. /\ DOMAIN blocks' = 1..(Len(blocks) + 1)
       /\ DOMAIN blocks = 1..Len(blocks) /\ Len(blocks) \in Nat
       /\ \A i \in DOMAIN blocks : blocks'[i] = blocks[i]
       /\ blocks'[Len(blocks) + 1] = new
       /\ blocks' \in Seq(Blocks)
  BY SMTT(30), <1>2, <1>10, <1>12
<1>15. TypeOK'
  BY <1>1, <1>2, <1>3, <1>10, <1>11, <1>14 DEF TypeOK
<1>16. \A i \in DOMAIN blocks : blocks[i].at \in Nat /\ blocks[i].bytes \in Nat
  <2> TAKE i \in DOMAIN blocks
  <2>1. blocks[i] \in Blocks
    BY <1>2
  <2> QED
    BY <2>1 DEF Blocks
<1>17. \A i \in DOMAIN blocks : blocks[i].at + blocks[i].bytes <= base + offset
  BY DEF IInv
<1>18. \A i \in DOMAIN blocks' : blocks'[i].at + blocks'[i].bytes <= base + offset'
  <2> DEFINE end == at + size
  <2>0. /\ end \in Nat /\ base + offset \in Nat /\ base + offset <= end
        /\ at + size <= end
    BY <1>2, <1>7
  <2> HIDE DEF end
  <2> SUFFICES ASSUME NEW i \in DOMAIN blocks'
               PROVE  blocks'[i].at + blocks'[i].bytes <= end
    BY <1>11 DEF end
  <2>1. CASE i \in DOMAIN blocks
    <3> DEFINE x == blocks[i].at
               y == blocks[i].bytes
    <3>1. x \in Nat /\ y \in Nat /\ x + y <= base + offset
      BY <2>1, <1>16, <1>17
    <3>2. blocks'[i].at = x /\ blocks'[i].bytes = y
      BY <2>1, <1>14
    <3> HIDE DEF x, y
    <3>3. x + y <= end
      BY <3>1, <2>0
    <3> QED
      BY <3>2, <3>3
  <2>2. CASE i = Len(blocks) + 1
    <3>1. blocks'[i].at = at /\ blocks'[i].bytes = size
      BY <2>2, <1>13, <1>14
    <3> QED
      BY <3>1, <2>0
  <2> QED
    BY <2>1, <2>2, <1>14
<1>19. RegionsAreApart'
  <2> SUFFICES ASSUME NEW i \in DOMAIN blocks'
               PROVE  /\ base <= blocks'[i].at
                      /\ blocks'[i].at + blocks'[i].bytes <= base + capacity
                      /\ blocks'[i].at % Align(blocks'[i].region) = 0
                      /\ \A j \in DOMAIN blocks' :
                           i < j => blocks'[i].at + blocks'[i].bytes <= blocks'[j].at
    BY <1>10 DEF RegionsAreApart
  <2>1. CASE i \in DOMAIN blocks
    <3>1. /\ base <= blocks[i].at /\ blocks[i].at + blocks[i].bytes <= base + capacity
          /\ blocks[i].at % Align(blocks[i].region) = 0
          /\ \A j \in DOMAIN blocks :
               i < j => blocks[i].at + blocks[i].bytes <= blocks[j].at
      BY <2>1 DEF IInv, RegionsAreApart
    <3>2. ASSUME NEW j \in DOMAIN blocks', i < j
          PROVE  blocks'[i].at + blocks'[i].bytes <= blocks'[j].at
      <4>1. CASE j \in DOMAIN blocks
        BY <4>1, <3>1, <3>2, <2>1, <1>14
      <4>2. CASE j = Len(blocks) + 1
        <5> DEFINE x == blocks[i].at
                   y == blocks[i].bytes
        <5>1. blocks'[j].at = at /\ blocks'[i].at = x /\ blocks'[i].bytes = y
          BY <4>2, <2>1, <1>13, <1>14
        <5>2. x \in Nat /\ y \in Nat /\ x + y <= base + offset
          BY <2>1, <1>16, <1>17
        <5> HIDE DEF x, y
        <5>3. x + y <= at
          BY <5>2, <1>2, <1>7
        <5> QED
          BY <5>1, <5>3
      <4> QED
        BY <4>1, <4>2, <1>14
    <3> QED
      BY <3>1, <3>2, <2>1, <1>14
  <2>2. CASE i = Len(blocks) + 1
    <3>1. blocks'[i] = new
      BY <2>2, <1>14
    <3>2. \A j \in DOMAIN blocks' : ~(i < j)
      BY <2>2, <1>14
    <3>3. base <= at /\ at + size <= base + capacity
      BY <1>2, <1>7, <1>11
    <3>4. at % Align(next) = 0
      BY <1>4 DEF at
    <3> QED
      BY <3>1, <3>2, <3>3, <3>4, <1>13
  <2> QED
    BY <2>1, <2>2, <1>14
<1>20. \A r \in 1..7 : r < next' /\ Wanted(r)' => Has(r)'
  <2> SUFFICES ASSUME NEW r \in 1..7, r < next + 1, Wanted(r)
               PROVE  \E i \in DOMAIN blocks' : blocks'[i].region = r
    BY <1>10 DEF Wanted, Has
  <2>1. CASE r = next
    <3>1. Len(blocks) + 1 \in DOMAIN blocks' /\ blocks'[Len(blocks) + 1].region = next
      BY <1>13, <1>14
    <3> QED
      BY <3>1, <2>1
  <2>2. CASE r < next
    <3>1. Has(r)
      BY <2>2 DEF IInv
    <3>2. PICK i \in DOMAIN blocks : blocks[i].region = r
      BY <3>1 DEF Has
    <3>3. i \in DOMAIN blocks' /\ blocks'[i].region = r
      BY <3>2, <1>14
    <3> QED
      BY <3>3
  <2> QED
    BY <2>1, <2>2, <1>2
<1>21. offset' <= Before(sizes', next') + 64 * (next' - 1)
  BY <1>2, <1>8, <1>10 DEF after
<1> QED
  BY <1>1, <1>10, <1>15, <1>18, <1>19, <1>20, <1>21 DEF IInv, BudgetSuffices

\* A region that is not wanted costs nothing.
LEMMA SkipIInv == IInv /\ Skip => IInv'
<1> SUFFICES ASSUME IInv, Skip PROVE IInv'
  OBVIOUS
<1>1. /\ TypeOK /\ capacity > 0 /\ next <= 7 /\ ~Wanted(next)
      /\ offset <= Before(sizes, next) + 64 * (next - 1)
      /\ next' = next + 1 /\ sizes' = sizes /\ base' = base /\ capacity' = capacity
      /\ offset' = offset /\ blocks' = blocks /\ result' = result
  BY DEF IInv, Skip
<1>2. sizes \in [1..7 -> Nat] /\ next \in 1..7 /\ next \in 1..8 /\ offset \in Nat
  BY <1>1 DEF TypeOK
<1>3. TypeOK'
  BY <1>1, <1>2 DEF TypeOK
<1>4. /\ Before(sizes, next) \in Nat
      /\ Before(sizes, next + 1) = Before(sizes, next) + sizes[next]
      /\ sizes[next] \in Nat
  BY <1>1, <1>2, Account
<1>5. offset' <= Before(sizes', next') + 64 * (next' - 1)
  BY <1>1, <1>2, <1>4
<1>6. \A r \in 1..7 : r < next /\ Wanted(r) => Has(r)
  BY DEF IInv
<1>7. \A r \in 1..7 : (Wanted(r)' <=> Wanted(r)) /\ (Has(r)' <=> Has(r))
  BY <1>1 DEF Wanted, Has
<1>8. \A r \in 1..7 : r < next' /\ Wanted(r)' => Has(r)'
  <2> SUFFICES ASSUME NEW r \in 1..7, r < next + 1, Wanted(r)
               PROVE  Has(r)
    BY <1>1, <1>7
  <2>1. CASE r = next
    BY <2>1, <1>1
  <2>2. CASE r < next
    BY <2>2, <1>6
  <2> QED
    BY <2>1, <2>2, <1>2
<1> QED
  BY <1>1, <1>3, <1>5, <1>8 DEF IInv, BudgetSuffices, RegionsAreApart

\* Every region that is needed is there: build() is true.
LEMMA BuiltIInv == IInv /\ Built => IInv'
<1> SUFFICES ASSUME IInv, Built PROVE IInv'
  OBVIOUS
<1>1. TypeOK /\ next > 7 /\ \A r \in 1..7 : r < next /\ Wanted(r) => Has(r)
  BY DEF IInv, Built
<1>2. \A r \in 1..7 : Wanted(r) => Has(r)
  <2> SUFFICES ASSUME NEW r \in 1..7, Wanted(r) PROVE Has(r)
    OBVIOUS
  <2>1. next \in 1..8
    BY <1>1 DEF TypeOK
  <2>2. r < next
    BY <2>1, <1>1
  <2> QED
    BY <2>2, <1>1
<1>3. /\ result' = "true" /\ sizes' = sizes /\ base' = base /\ capacity' = capacity
      /\ offset' = offset /\ blocks' = blocks /\ next' = next
  BY <1>2 DEF Built
<1>4. TypeOK'
  BY <1>1, <1>3 DEF TypeOK
<1>5. \A r \in 1..7 : (Wanted(r)' <=> Wanted(r)) /\ (Has(r)' <=> Has(r))
  BY <1>3 DEF Wanted, Has
<1> QED
  BY <1>1, <1>3, <1>4, <1>5 DEF IInv, BudgetSuffices, RegionsAreApart

\* The inductive invariant holds of every schedule.
THEOREM Invariance == Spec => []IInv
<1>1. IInv /\ [Next]_vars => IInv'
  <2> SUFFICES ASSUME IInv, [Next]_vars PROVE IInv'
    OBVIOUS
  <2>1. CASE Next
    BY <2>1, ReserveIInv, AllocateIInv, SkipIInv, BuiltIInv DEF Next
  <2>2. CASE UNCHANGED vars
    <3>1. /\ sizes' = sizes /\ base' = base /\ capacity' = capacity /\ offset' = offset
          /\ blocks' = blocks /\ next' = next /\ result' = result
      BY <2>2 DEF vars
    <3>2. \A r \in 1..7 : (Wanted(r)' <=> Wanted(r)) /\ (Has(r)' <=> Has(r))
      BY <3>1 DEF Wanted, Has
    <3> QED
      BY <3>1, <3>2 DEF IInv, TypeOK, BudgetSuffices, RegionsAreApart
  <2> QED
    BY <2>1, <2>2
<1> QED
  BY InitIInv, <1>1, PTL DEF Spec

(***************************************************************************)
(* build() is never refused memory: its budget suffices for any sizes.     *)
(***************************************************************************)
THEOREM BuildGetsItsMemory == Spec => []BudgetSuffices
<1>1. IInv => BudgetSuffices
  BY DEF IInv
<1> QED
  BY Invariance, <1>1, PTL

(***************************************************************************)
(* The regions of a voice never overlap and are aligned.                   *)
(***************************************************************************)
THEOREM RegionsNeverOverlap == Spec => []RegionsAreApart
<1>1. IInv => RegionsAreApart
  BY DEF IInv
<1> QED
  BY Invariance, <1>1, PTL
=============================================================================
