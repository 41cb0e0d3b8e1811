---------------------------- MODULE Engine_proofs ----------------------------
(***************************************************************************)
(* Proofs about the engine, for every pool size, queue capacity, generation*)
(* width and set of policies.                                              *)
(***************************************************************************)
EXTENDS EngineProperties, SequenceTheorems, FiniteSetTheorems, TLAPS

-----------------------------------------------------------------------------
(* Sequences: what Append, Tail, dropping the last and erasing one element *)
(* leave in a sequence.                                                    *)

\* Appending adds one element and keeps the others where they are.
LEMMA AppendHas ==
  ASSUME NEW S, NEW q \in Seq(S), NEW e \in S
  PROVE  /\ \A x : Has(Append(q, e), x) <=> Has(q, x) \/ x = e
         /\ Once(q) /\ ~Has(q, e) => Once(Append(q, e))
<1> DEFINE p == Append(q, e)
<1>1. /\ Len(p) = Len(q) + 1 /\ Len(q) \in Nat
      /\ \A i \in 1..Len(q) : p[i] = q[i]
      /\ p[Len(q) + 1] = e
  BY AppendProperties
<1> HIDE DEF p
<1>2. \A x : Has(p, x) <=> Has(q, x) \/ x = e
  BY <1>1 DEF Has
<1>3. Once(q) /\ ~Has(q, e) => Once(p)
  BY <1>1 DEF Has, Once
<1>4. QED  BY <1>2, <1>3 DEF p

\* Taking the last element off a sequence without duplicates removes it alone.
LEMMA FrontHas ==
  ASSUME NEW S, NEW q \in Seq(S), q # << >>, Once(q)
  PROVE  /\ SubSeq(q, 1, Len(q) - 1) \in Seq(S)
         /\ \A x : Has(SubSeq(q, 1, Len(q) - 1), x) <=> Has(q, x) /\ x # q[Len(q)]
         /\ Once(SubSeq(q, 1, Len(q) - 1))
<1> DEFINE p == SubSeq(q, 1, Len(q) - 1)
<1>0. Len(q) \in Nat /\ Len(q) >= 1  BY EmptySeq
<1>a. \A i \in 1..Len(q) - 1 : q[i] \in S  BY <1>0, ElementOfSeq
<1>b. /\ p \in Seq(S)
      /\ Len(p) = IF 1 <= Len(q) - 1 THEN Len(q) - 1 - 1 + 1 ELSE 0
      /\ \A i \in 1..Len(q) - 1 - 1 + 1 : p[i] = q[1 + i - 1]
  BY <1>a, <1>0, SubSeqProperties
<1> HIDE DEF p
<1> DEFINE n == Len(q)
           m == Len(p)
<1>c. n \in Nat /\ n >= 1 /\ m = (IF 1 <= n - 1 THEN n - 1 - 1 + 1 ELSE 0)
  BY <1>0, <1>b
<1>d. m \in Int  BY <1>b, LenProperties
<1> HIDE DEF n, m
<1>e. m = n - 1  BY <1>c, <1>d
<1>1. /\ p \in Seq(S) /\ Len(p) = Len(q) - 1
      /\ \A i \in 1..Len(q) - 1 : p[i] = q[i]
  BY <1>0, <1>b, <1>e DEF n, m
<1>2. \A x : Has(p, x) <=> Has(q, x) /\ x # q[Len(q)]
  BY <1>0, <1>1 DEF Has, Once
<1>3. Once(p)  BY <1>0, <1>1 DEF Once
<1>4. QED  BY <1>1, <1>2, <1>3 DEF p

\* Erasing the one occurrence of e: the others close up and keep their order.
LEMMA WithoutHas ==
  ASSUME NEW S, NEW q \in Seq(S), NEW e, Once(q), Has(q, e)
  PROVE  \E f \in 1..Len(q) :
         /\ q[f] = e
         /\ WithoutFirst(q, e) \in Seq(S)
         /\ Len(WithoutFirst(q, e)) = Len(q) - 1
         /\ \A i \in 1..Len(q) - 1 :
              WithoutFirst(q, e)[i] = IF i < f THEN q[i] ELSE q[i + 1]
<1>0. Len(q) \in Nat  BY LenProperties
<1> DEFINE Is(i) == q[i] = e /\ \A j \in 1..i-1 : q[j] # e
           f == CHOOSE i \in 1..Len(q) : Is(i)
<1>1. \E i \in 1..Len(q) : Is(i)  BY <1>0 DEF Has, Once
<1>2. f \in 1..Len(q) /\ q[f] = e  BY <1>1
<1>3. WithoutFirst(q, e) = SubSeq(q, 1, f - 1) \o SubSeq(q, f + 1, Len(q))
  BY DEF WithoutFirst, Has
<1> HIDE DEF f
<1>4. \A i \in 1..Len(q) : q[i] \in S  BY ElementOfSeq
<1>5. /\ SubSeq(q, 1, f - 1) \in Seq(S) /\ Len(SubSeq(q, 1, f - 1)) = f - 1
      /\ \A i \in 1..f - 1 : SubSeq(q, 1, f - 1)[i] = q[i]
  <2>1. \A i \in 1..f - 1 : q[i] \in S  BY <1>0, <1>2, <1>4
  <2>2. /\ SubSeq(q, 1, f - 1) \in Seq(S)
        /\ Len(SubSeq(q, 1, f - 1)) = IF 1 <= f - 1 THEN f - 1 - 1 + 1 ELSE 0
        /\ \A i \in 1..f - 1 - 1 + 1 : SubSeq(q, 1, f - 1)[i] = q[1 + i - 1]
    BY <2>1, <1>0, <1>2, SubSeqProperties
  <2>3. QED  BY <2>2, <1>0, <1>2
<1>6. /\ SubSeq(q, f + 1, Len(q)) \in Seq(S) /\ Len(SubSeq(q, f + 1, Len(q))) = Len(q) - f
      /\ \A i \in 1..Len(q) - f : SubSeq(q, f + 1, Len(q))[i] = q[f + i]
  <2>1. \A i \in f + 1..Len(q) : q[i] \in S  BY <1>0, <1>2, <1>4
  <2>2. /\ SubSeq(q, f + 1, Len(q)) \in Seq(S)
        /\ Len(SubSeq(q, f + 1, Len(q))) =
             IF f + 1 <= Len(q) THEN Len(q) - (f + 1) + 1 ELSE 0
        /\ \A i \in 1..Len(q) - (f + 1) + 1 : SubSeq(q, f + 1, Len(q))[i] = q[f + 1 + i - 1]
    BY <2>1, <1>0, <1>2, SubSeqProperties
  <2>3. QED  BY <2>2, <1>0, <1>2
<1> DEFINE a == SubSeq(q, 1, f - 1)
           b == SubSeq(q, f + 1, Len(q))
<1> HIDE DEF a, b
<1>7. /\ a \o b \in Seq(S) /\ Len(a \o b) = Len(a) + Len(b)
      /\ \A i \in 1..Len(a) + Len(b) : (a \o b)[i] = IF i <= Len(a) THEN a[i] ELSE b[i - Len(a)]
  BY <1>5, <1>6, ConcatProperties DEF a, b
<1>8. Len(a) = f - 1 /\ Len(b) = Len(q) - f  BY <1>5, <1>6 DEF a, b
<1>9. /\ Len(a \o b) = Len(q) - 1
      /\ \A i \in 1..Len(q) - 1 : (a \o b)[i] = IF i < f THEN q[i] ELSE q[i + 1]
  <2>1. \A i \in 1..f - 1 : a[i] = q[i]  BY <1>5 DEF a
  <2>2. \A i \in 1..Len(q) - f : b[i] = q[f + i]  BY <1>6 DEF b
  <2>3. Len(a \o b) = Len(q) - 1  BY <1>0, <1>2, <1>7, <1>8
  <2>4. ASSUME NEW i \in 1..Len(q) - 1
        PROVE  (a \o b)[i] = IF i < f THEN q[i] ELSE q[i + 1]
    <3>1. CASE i < f  BY SMTT(30), <3>1, <2>1, <1>0, <1>2, <1>7, <1>8
    <3>2. CASE ~(i < f)
      <4>1. i - (f - 1) \in 1..Len(q) - f  BY <3>2, <1>0, <1>2
      <4>2. b[i - (f - 1)] = q[i + 1]
        <5>1. b[i - (f - 1)] = q[f + (i - (f - 1))]  BY <4>1, <2>2
        <5>2. f + (i - (f - 1)) = i + 1  BY <1>0, <1>2
        <5>3. QED  BY <5>1, <5>2
      <4>3. (a \o b)[i] = b[i - (f - 1)]  BY <3>2, <1>0, <1>2, <1>7, <1>8
      <4>4. QED  BY <4>2, <4>3, <3>2
    <3>3. QED  BY <3>1, <3>2
  <2>5. QED  BY <2>3, <2>4
<1>10. WithoutFirst(q, e) = a \o b  BY <1>3 DEF a, b
<1>11. QED  BY <1>2, <1>7, <1>9, <1>10

\* So it removes e alone and leaves no duplicate.
LEMMA WithoutOnce ==
  ASSUME NEW S, NEW q \in Seq(S), NEW e, Once(q), Has(q, e)
  PROVE  /\ \A x : Has(WithoutFirst(q, e), x) <=> Has(q, x) /\ x # e
         /\ Once(WithoutFirst(q, e))
<1> DEFINE p == WithoutFirst(q, e)
<1>1. PICK f \in 1..Len(q) :
        /\ q[f] = e /\ p \in Seq(S) /\ Len(p) = Len(q) - 1
        /\ \A i \in 1..Len(q) - 1 : p[i] = IF i < f THEN q[i] ELSE q[i + 1]
  BY WithoutHas
<1>2. Len(q) \in Nat  BY LenProperties
<1> HIDE DEF p
<1>3. ASSUME NEW x, Has(q, x), x # e PROVE Has(p, x)
  <2>1. PICK k \in 1..Len(q) : q[k] = x  BY <1>3 DEF Has
  <2>2. CASE k < f  BY <2>1, <2>2, <1>1, <1>2 DEF Has
  <2>3. CASE k > f
    <3>1. k - 1 \in 1..Len(q) - 1 /\ ~(k - 1 < f)  BY <2>3, <1>1, <1>2
    <3>2. p[k - 1] = q[(k - 1) + 1]  BY <3>1, <1>1
    <3>3. (k - 1) + 1 = k  BY <2>1
    <3>4. QED  BY <3>1, <3>2, <3>3, <2>1, <1>1 DEF Has
  <2>4. k # f  BY <2>1, <1>1, <1>3
  <2>5. QED  BY <2>2, <2>3, <2>4, <2>1, <1>1, <1>2
<1>4. ASSUME NEW x, Has(p, x) PROVE Has(q, x) /\ x # e
  <2>1. PICK k \in 1..Len(q) - 1 : p[k] = x  BY <1>4, <1>1 DEF Has
  <2>2. CASE k < f  BY <2>1, <2>2, <1>1, <1>2 DEF Has, Once
  <2>3. CASE ~(k < f)
    <3>1. x = q[k + 1]  BY <2>1, <2>3, <1>1
    <3>2. k + 1 \in 1..Len(q) /\ k + 1 # f  BY <2>1, <2>3, <1>1, <1>2
    <3>3. QED  BY <3>1, <3>2, <1>1 DEF Has, Once
  <2>4. QED  BY <2>2, <2>3
<1>5. Once(p)
  <2>1. SUFFICES ASSUME NEW i \in 1..Len(p), NEW j \in 1..Len(p), p[i] = p[j]
                 PROVE  i = j
    BY DEF Once
  <2> DEFINE k(n) == IF n < f THEN n ELSE n + 1
  <2>2. k(i) \in 1..Len(q) /\ k(j) \in 1..Len(q)  BY <1>1, <1>2, <2>1
  <2>3. p[i] = q[k(i)] /\ p[j] = q[k(j)]  BY <1>1, <1>2, <2>1
  <2>4. k(i) = k(j)  BY <2>1, <2>2, <2>3 DEF Once
  <2>5. QED  BY <2>4, <1>1, <1>2, <2>1
<1>6. QED  BY <1>3, <1>4, <1>5 DEF p

-----------------------------------------------------------------------------
(* Type correctness. *)

LEMMA ConstantTypes ==
  /\ Slots \subseteq Nat /\ 0 \in Slots
  /\ Generations \subseteq Nat /\ 0 \in Generations /\ 1 \in Generations
  /\ null_handle \in Handle
  /\ Master \in Target
  /\ NoLife \in Policies
  /\ NoRoute \in Route
<1>1. Slots \subseteq Nat /\ 0 \in Slots  BY PoolAssumption DEF Slots
<1>2. Generations \subseteq Nat /\ 0 \in Generations /\ 1 \in Generations
  BY GenAssumption DEF Generations
<1>3. NoLife \in Policies
  <2>1. \E life \in Policies : TRUE  BY PolicyAssumption
  <2>2. QED  BY <2>1 DEF NoLife
<1>4. null_handle \in Handle  BY <1>1, <1>2 DEF null_handle, Handle
<1>5. QED  BY <1>1, <1>2, <1>3, <1>4 DEF Master, Target, NoRoute, Route

\* The generation after g is never the null handle's.
LEMMA NextGenType == \A g \in Generations : NextGen(g) \in Generations \ {0}
<1> SUFFICES ASSUME NEW g \in Generations PROVE NextGen(g) \in Generations \ {0}
  OBVIOUS
<1>1. (g + 1) % GenMod \in 0..GenMod-1  BY GenAssumption DEF Generations
<1>2. QED  BY <1>1, GenAssumption, ConstantTypes DEF NextGen, Generations

LEMMA InitType == Init => TypeOK
<1> SUFFICES ASSUME Init PROVE TypeOK  OBVIOUS
<1> USE ConstantTypes
<1>1. slots \in [Slots -> [built : BOOLEAN, finished_flag : BOOLEAN, target : Generations,
                          generation : Generations, life : Policies,
                          age_blocks : 0..AgeBound, silent_run : Nat]]
  BY PolicyAssumption DEF Init
<1>2. free_slots \in Seq(Slots)
  <2>1. \A i \in 1..MaxInstances : MaxInstances - i \in Slots
    BY PoolAssumption DEF Slots
  <2>2. [i \in 1..MaxInstances |-> MaxInstances - i] \in Seq(Slots)
    BY <2>1, PoolAssumption
  <2>3. QED  BY <2>2 DEF Init
<1>3. next_generation \in Generations \ {0}  BY DEF Init
<1>4. ctl \in [pc : {"idle", "spawn", "reclaim", "connect"}, life : Policies,
               dest : Target, routed : BOOLEAN, h : Handle]
  BY DEF Init, AtRest
<1>5. routes \in [1..RouteCap -> Route]  BY DEF Init
<1>6. active_gen \in [Slots -> Generations]  BY DEF Init
<1>7. QED  BY <1>1, <1>2, <1>3, <1>4, <1>5, <1>6 DEF Init, TypeOK

SlotRecord == [built : BOOLEAN, finished_flag : BOOLEAN, target : Generations,
               generation : Generations, life : Policies,
               age_blocks : 0..AgeBound, silent_run : Nat]
ControlPoint == [pc : {"idle", "spawn", "reclaim", "connect"}, life : Policies,
                 dest : Target, routed : BOOLEAN, h : Handle]

\* An enqueued command is a command.
LEMMA EnqueueType ==
  ASSUME command_queue \in Seq(Command), NEW type \in CommandTypes,
         NEW h \in Handle, NEW dest \in Target, Enqueue(type, h, dest)
  PROVE  command_queue' \in Seq(Command)
<1>1. [type |-> type, handle |-> h, dest |-> dest] \in Command  BY DEF Command
<1>2. QED  BY <1>1, AppendProperties DEF Enqueue

LEMMA AtRestType == AtRest \in ControlPoint
BY ConstantTypes DEF AtRest, ControlPoint

LEMMA RecycleType ==
  ASSUME TypeOK, NEW slot \in Slots, Recycle(slot)
  PROVE  slots' \in [Slots -> SlotRecord] /\ free_slots' \in Seq(Slots)
<1>1. slots \in [Slots -> SlotRecord] /\ free_slots \in Seq(Slots)
  BY DEF TypeOK, SlotRecord
<1>2. Emptied(slots[slot]) \in SlotRecord
  BY <1>1, ConstantTypes DEF Emptied, SlotRecord
<1>3. QED  BY <1>1, <1>2, AppendProperties DEF Recycle

LEMMA ReleaseType ==
  ASSUME TypeOK, NEW slot \in Slots, NEW why \in Reasons, ReleaseSlot(slot, why),
         Once(active_list), Has(active_list, slot)
  PROVE  /\ active_gen' \in [Slots -> Generations]
         /\ active_list' \in Seq(Slots)
         /\ routes' \in [1..RouteCap -> Route]
         /\ telemetry_queue' \in Seq(Ended)
<1> USE ConstantTypes DEF TypeOK, ReleaseSlot
<1>1. active_gen' \in [Slots -> Generations]  OBVIOUS
<1>2. active_list' \in Seq(Slots)  BY WithoutHas
<1>3. routes' \in [1..RouteCap -> Route]  OBVIOUS
<1>4. telemetry_queue' \in Seq(Ended)
  <2>1. [slot |-> slot, generation |-> active_gen[slot], reason |-> why] \in Ended
    BY DEF Ended
  <2>2. QED  BY <2>1, AppendProperties
<1>5. QED  BY <1>1, <1>2, <1>3, <1>4


-----------------------------------------------------------------------------
(* What the queue operations do to the places of the slots. *)

LEMMA TailAt ==
  ASSUME NEW S, NEW q \in Seq(S), q # << >>
  PROVE  /\ Tail(q) \in Seq(S) /\ Head(q) \in S /\ Head(q) = q[1]
         /\ Len(q) \in Nat /\ Len(q) >= 1 /\ Len(Tail(q)) = Len(q) - 1
         /\ \A i \in 1..Len(q) - 1 : Tail(q)[i] = q[i + 1]
<1>1. Len(q) \in Nat /\ Len(q) >= 1  BY EmptySeq
<1>2. Tail(q) \in Seq(S) /\ Head(q) \in S /\ Len(Tail(q)) = Len(q) - 1
      /\ \A i \in 1..Len(Tail(q)) : Tail(q)[i] = q[i + 1]
  BY HeadTailProperties
<1>3. Head(q) = q[1]  OBVIOUS
<1>4. QED  BY <1>1, <1>2, <1>3

PendingOnce == \A s \in Slots : \A i, j \in 1..Len(command_queue) :
                 Pending(i, s) /\ Pending(j, s) => i = j
EndedOnce == \A i, j \in 1..Len(telemetry_queue) :
               telemetry_queue[i].slot = telemetry_queue[j].slot => i = j

\* A command leaves the front of the queue.
LEMMA CommandTaken ==
  ASSUME command_queue \in Seq(Command), PendingOnce,
         command_queue # << >>, command_queue' = Tail(command_queue)
  PROVE  /\ command_queue' \in Seq(Command) /\ Head(command_queue) \in Command
         /\ Head(command_queue) = command_queue[1] /\ 1 \in 1..Len(command_queue)
         /\ \A i \in 1..Len(command_queue') : /\ i + 1 \in 1..Len(command_queue)
                                              /\ command_queue'[i] = command_queue[i + 1]
         /\ \A s \in Slots : Activating(s)' <=>
              Activating(s) /\ ~(/\ Head(command_queue).type = "activate"
                                 /\ Head(command_queue).handle.slot = s)
         /\ PendingOnce'
<1> DEFINE q == command_queue
           t == command_queue'
<1>1. /\ t \in Seq(Command) /\ Head(q) \in Command /\ Head(q) = q[1]
      /\ Len(q) \in Nat /\ Len(q) >= 1 /\ Len(t) = Len(q) - 1
      /\ \A i \in 1..Len(q) - 1 : t[i] = q[i + 1]
  BY TailAt
<1>2. \A i \in 1..Len(t) : i + 1 \in 1..Len(q) /\ t[i] = q[i + 1]
  BY <1>1
<1>3. ASSUME NEW s \in Slots, NEW i \in 1..Len(t)
      PROVE  Pending(i, s)' <=> Pending(i + 1, s)
  BY <1>2 DEF Pending
<1>4. \A s \in Slots : \A i, j \in 1..Len(t) : Pending(i, s)' /\ Pending(j, s)' => i = j
  <2>1. SUFFICES ASSUME NEW s \in Slots, NEW i \in 1..Len(t), NEW j \in 1..Len(t),
                        Pending(i, s)', Pending(j, s)'
                 PROVE  i = j
    OBVIOUS
  <2>2. Pending(i + 1, s) /\ Pending(j + 1, s)  BY <2>1, <1>3
  <2>3. i + 1 = j + 1  BY <2>2, <1>2 DEF PendingOnce
  <2>4. QED  BY <2>3
<1>5. ASSUME NEW s \in Slots
      PROVE  Activating(s)' <=> Activating(s) /\ ~(Head(q).type = "activate" /\ Head(q).handle.slot = s)
  <2>1. Activating(s)' <=> \E i \in 1..Len(t) : Pending(i, s)'  BY DEF Activating
  <2>2. Activating(s)' <=> \E i \in 1..Len(t) : Pending(i + 1, s)  BY <2>1, <1>3
  <2>3. Pending(1, s) <=> Head(q).type = "activate" /\ Head(q).handle.slot = s
    BY <1>1 DEF Pending
  <2>4. ASSUME Activating(s)' PROVE Activating(s) /\ ~Pending(1, s)
    <3>1. PICK i \in 1..Len(t) : Pending(i + 1, s)  BY <2>2, <2>4
    <3>2. i + 1 # 1 /\ i + 1 \in 1..Len(q) /\ 1 \in 1..Len(q)  BY <1>1, <1>2
    <3>3. QED  BY <3>1, <3>2 DEF Activating, PendingOnce
  <2>5. ASSUME Activating(s), ~Pending(1, s) PROVE Activating(s)'
    <3>1. PICK k \in 1..Len(q) : Pending(k, s)  BY <2>5 DEF Activating
    <3>2. k # 1  BY <3>1, <2>5
    <3>3. k - 1 \in 1..Len(t) /\ (k - 1) + 1 = k  BY <3>2, <1>1
    <3>4. QED  BY <3>1, <3>3, <2>2
  <2>6. QED  BY <2>3, <2>4, <2>5
<1>6. QED  BY <1>1, <1>2, <1>4, <1>5 DEF PendingOnce

\* A command joins the back of the queue.
LEMMA CommandSent ==
  ASSUME command_queue \in Seq(Command), PendingOnce,
         NEW type \in CommandTypes, NEW h \in Handle, NEW dest \in Target,
         Enqueue(type, h, dest), type = "activate" => ~Activating(h.slot)
  PROVE  /\ command_queue' \in Seq(Command)
         /\ \A i \in 1..Len(command_queue') :
              \/ i \in 1..Len(command_queue) /\ command_queue'[i] = command_queue[i]
              \/ command_queue'[i] = [type |-> type, handle |-> h, dest |-> dest]
         /\ \A s \in Slots : Activating(s)' <=> Activating(s) \/ (type = "activate" /\ h.slot = s)
         /\ PendingOnce'
<1> DEFINE q == command_queue
           t == command_queue'
           c == [type |-> type, handle |-> h, dest |-> dest]
<1>0. c \in Command  BY DEF Command
<1>1. PICK n \in Nat : n = Len(q)  BY LenProperties
<1>2. /\ t \in Seq(Command) /\ Len(t) = n + 1 /\ \A i \in 1..n : t[i] = q[i]
      /\ t[n + 1] = c /\ c.type = type /\ c.handle = h
  BY <1>0, <1>1, AppendProperties DEF Enqueue
<1> HIDE DEF c
<1>3. \A i \in 1..Len(t) : i \in 1..n \/ i = n + 1  BY <1>2
<1>4. \A s \in Slots : \A i \in 1..n : Pending(i, s)' <=> Pending(i, s)
  BY <1>1, <1>2 DEF Pending
<1>5. \A s \in Slots : Pending(n + 1, s)' <=> type = "activate" /\ h.slot = s
  BY <1>2 DEF Pending
<1>6. ASSUME NEW s \in Slots
      PROVE  Activating(s)' <=> Activating(s) \/ (type = "activate" /\ h.slot = s)
  <2>1. Activating(s)' <=> \E i \in 1..Len(t) : Pending(i, s)'  BY DEF Activating
  <2>2. n + 1 \in 1..Len(t) /\ \A i \in 1..n : i \in 1..Len(t)  BY <1>2
  <2>3. Activating(s) <=> \E i \in 1..n : Pending(i, s)  BY <1>1 DEF Activating
  <2>4. QED  BY <2>1, <2>2, <2>3, <1>3, <1>4, <1>5
<1>7. ASSUME NEW s \in Slots, NEW i \in 1..Len(t), NEW j \in 1..Len(t),
             Pending(i, s)', Pending(j, s)'
      PROVE  i = j
  <2>1. CASE i \in 1..n /\ j \in 1..n
    BY <2>1, <1>1, <1>4, <1>7 DEF PendingOnce
  <2>2. CASE i = n + 1 /\ j \in 1..n
    BY <2>2, <1>1, <1>4, <1>5, <1>7 DEF Activating
  <2>3. CASE j = n + 1 /\ i \in 1..n
    BY <2>3, <1>1, <1>4, <1>5, <1>7 DEF Activating
  <2>4. QED  BY <2>1, <2>2, <2>3, <1>3, <1>7
<1>8. \A i \in 1..Len(t) : (i \in 1..n /\ t[i] = q[i]) \/ t[i] = c
  BY <1>2, <1>3
<1>9. QED  BY <1>1, <1>2, <1>6, <1>7, <1>8 DEF PendingOnce, c

\* A telemetry event leaves the front of its queue.
LEMMA EndedTaken ==
  ASSUME telemetry_queue \in Seq(Ended), EndedOnce,
         telemetry_queue # << >>, telemetry_queue' = Tail(telemetry_queue)
  PROVE  /\ telemetry_queue' \in Seq(Ended) /\ Head(telemetry_queue) \in Ended
         /\ EndedHas(Head(telemetry_queue).slot)
         /\ \A s \in Slots : EndedHas(s)' <=> EndedHas(s) /\ s # Head(telemetry_queue).slot
         /\ EndedOnce'
<1> DEFINE q == telemetry_queue
           t == telemetry_queue'
<1>1. PICK n \in Nat : n = Len(q)  BY LenProperties
<1>2. /\ t \in Seq(Ended) /\ Head(q) \in Ended /\ Head(q) = q[1]
      /\ n >= 1 /\ Len(t) = n - 1
      /\ \A i \in 1..n - 1 : t[i] = q[i + 1]
  BY <1>1, TailAt
<1>3. EndedHas(Head(q).slot)  BY <1>1, <1>2 DEF EndedHas
<1>4. EndedOnce'
  <2>1. SUFFICES ASSUME NEW i \in 1..n - 1, NEW j \in 1..n - 1, t[i].slot = t[j].slot
                 PROVE  i = j
    BY <1>2 DEF EndedOnce
  <2>2. i + 1 \in 1..n /\ j + 1 \in 1..n /\ q[i + 1].slot = q[j + 1].slot
    BY <1>2, <2>1
  <2>3. i + 1 = j + 1  BY <2>2, <1>1 DEF EndedOnce
  <2>4. QED  BY <2>3
<1>5. ASSUME NEW s \in Slots, EndedHas(s)' PROVE EndedHas(s) /\ s # Head(q).slot
  <2>1. PICK i \in 1..n - 1 : t[i].slot = s  BY <1>2, <1>5 DEF EndedHas
  <2>2. i + 1 \in 1..n /\ q[i + 1].slot = s /\ i + 1 # 1 /\ 1 \in 1..n  BY <1>2, <2>1
  <2>3. QED  BY <2>2, <1>1, <1>2 DEF EndedHas, EndedOnce
<1>6. ASSUME NEW s \in Slots, EndedHas(s), s # Head(q).slot PROVE EndedHas(s)'
  <2>1. PICK k \in 1..n : q[k].slot = s  BY <1>1, <1>6 DEF EndedHas
  <2>2. k # 1  BY <2>1, <1>2, <1>6
  <2>3. k - 1 \in 1..n - 1 /\ (k - 1) + 1 = k  BY <2>1, <2>2
  <2>4. t[k - 1].slot = s  BY <2>1, <2>3, <1>2
  <2>5. QED  BY <2>3, <2>4, <1>2 DEF EndedHas
<1>7. QED  BY <1>2, <1>3, <1>4, <1>5, <1>6

\* Events of distinct slots, none of them of slot: the queue is not full.
LEMMA RoomForEnded ==
  ASSUME telemetry_queue \in Seq(Ended), EndedOnce, NEW slot \in Slots, ~EndedHas(slot)
  PROVE  Len(telemetry_queue) < TelemetryCap
<1>1. PICK n \in Nat : n = Len(telemetry_queue)  BY LenProperties
<1> DEFINE S == 1..n
           T == Slots \ {slot}
           f == [i \in S |-> telemetry_queue[i].slot]
<1>2. IsFiniteSet(S) /\ Cardinality(S) = n
  <2>1. IsFiniteSet(1..n) /\ Cardinality(1..n) = IF 1 > n THEN 0 ELSE n - 1 + 1
    BY FS_Interval
  <2>2. QED  BY <2>1
<1>3. IsFiniteSet(Slots) /\ Cardinality(Slots) = MaxInstances
  <2>1. /\ IsFiniteSet(0..MaxInstances-1)
        /\ Cardinality(0..MaxInstances-1) =
             IF 0 > MaxInstances - 1 THEN 0 ELSE (MaxInstances - 1) - 0 + 1
    BY PoolAssumption, FS_Interval
  <2>2. QED  BY <2>1, PoolAssumption DEF Slots
<1>4. IsFiniteSet(T) /\ Cardinality(T) = MaxInstances - 1
  <2>1. /\ IsFiniteSet(Slots \ {slot})
        /\ Cardinality(Slots \ {slot}) = IF slot \in Slots THEN Cardinality(Slots) - 1
                                                          ELSE Cardinality(Slots)
    BY <1>3, FS_RemoveElement
  <2>2. QED  BY <2>1, <1>3
<1>5. f \in [S -> T]
  <2>1. ASSUME NEW i \in S PROVE telemetry_queue[i].slot \in T
    <3>1. telemetry_queue[i] \in Ended  BY <1>1, <2>1, ElementOfSeq
    <3>2. telemetry_queue[i].slot \in Slots  BY <3>1 DEF Ended
    <3>3. telemetry_queue[i].slot # slot  BY <1>1, <2>1 DEF EndedHas
    <3>4. QED  BY <3>2, <3>3
  <2>2. QED  BY <2>1
<1>6. \A x, y \in S : f[x] = f[y] => x = y
  BY <1>1 DEF EndedOnce
<1> HIDE DEF S, T, f
<1>7. ~(Cardinality(T) < Cardinality(S))
  BY <1>2, <1>4, <1>5, <1>6, FS_PigeonHole
<1>8. QED  BY <1>1, <1>2, <1>4, <1>7, PoolAssumption, TelemetryAssumption

\* The release of an active slot: its event is queued, its place is the event.
LEMMA Released ==
  ASSUME TypeOK, OwnedOnce, OwnedByOne, NEW slot \in Slots, NEW why \in Reasons,
         Has(active_list, slot), ReleaseSlot(slot, why)
  PROVE  /\ \A s \in Slots : EndedHas(s)' <=> EndedHas(s) \/ s = slot
         /\ EndedOnce'
         /\ \A s \in Slots : Has(active_list', s) <=> Has(active_list, s) /\ s # slot
         /\ Once(active_list')
         /\ \A s \in Slots : active_gen'[s] = IF s = slot THEN 0 ELSE active_gen[s]
<1> DEFINE e == [slot |-> slot, generation |-> active_gen[slot], reason |-> why]
           q == telemetry_queue
           t == telemetry_queue'
<1>1. PICK n \in Nat : n = Len(q)  BY LenProperties DEF TypeOK
<1>2. q \in Seq(Ended) /\ e \in Ended  BY DEF TypeOK, Ended
<1>3. ~EndedHas(slot) /\ EndedOnce  BY DEF OwnedByOne, OwnedOnce, EndedOnce
<1>4. t = Append(q, e)  BY <1>2, <1>3, RoomForEnded DEF ReleaseSlot
<1>5. /\ Len(t) = n + 1 /\ \A i \in 1..n : t[i] = q[i]
      /\ t[n + 1] = e /\ e.slot = slot
  BY <1>1, <1>2, <1>4, AppendProperties
<1> HIDE DEF e
<1>6. \A s \in Slots : EndedHas(s)' <=> EndedHas(s) \/ s = slot
  BY <1>1, <1>5 DEF EndedHas
<1>7. EndedOnce'
  <2>1. SUFFICES ASSUME NEW i \in 1..n + 1, NEW j \in 1..n + 1, t[i].slot = t[j].slot
                 PROVE  i = j
    BY <1>5 DEF EndedOnce
  <2>2. CASE i \in 1..n /\ j \in 1..n  BY <2>1, <2>2, <1>1, <1>3, <1>5 DEF EndedOnce
  <2>3. CASE i = n + 1 /\ j \in 1..n  BY <2>1, <2>3, <1>1, <1>3, <1>5 DEF EndedHas
  <2>4. CASE j = n + 1 /\ i \in 1..n  BY <2>1, <2>4, <1>1, <1>3, <1>5 DEF EndedHas
  <2>5. QED  BY <2>1, <2>2, <2>3, <2>4
<1>8. (\A s \in Slots : Has(active_list', s) <=> Has(active_list, s) /\ s # slot) /\ Once(active_list')
  <2>1. active_list \in Seq(Slots) /\ Once(active_list) /\ active_list' = WithoutFirst(active_list, slot)
    BY DEF TypeOK, OwnedOnce, ReleaseSlot
  <2>2. QED  BY <2>1, WithoutOnce
<1>9. \A s \in Slots : active_gen'[s] = IF s = slot THEN 0 ELSE active_gen[s]
  BY DEF ReleaseSlot, TypeOK
<1>10. QED  BY <1>6, <1>7, <1>8, <1>9

-----------------------------------------------------------------------------
(* Each step preserves the inductive invariant. *)

\* The control thread moves on without touching slots or queues.
LEMMA ControlMoves ==
  ASSUME IInv, ctl' \in ControlPoint, ctl'.pc = "connect" => ctl'.h.generation # 0,
         UNCHANGED <<slots, free_slots, next_generation, issued,
                     command_queue, telemetry_queue, audioVars>>
  PROVE  IInv'
<1> USE DEF IInv, audioVars
<1>1. TypeOK'  BY DEF TypeOK, ControlPoint
<1>2. OwnedOnce'  BY DEF OwnedOnce, Pending
<1>3. OwnedByOne'  BY DEF OwnedByOne, Activating, Pending, EndedHas
<1>4. HandedOver'  BY DEF HandedOver
<1>5. ReapList'  BY DEF ReapList
<1>6. QED  BY <1>1, <1>2, <1>3, <1>4, <1>5

LEMMA StutterInv == IInv /\ UNCHANGED vars => IInv'
<1> SUFFICES ASSUME IInv, UNCHANGED vars PROVE IInv'  OBVIOUS
<1>1. ctl \in ControlPoint /\ (ctl.pc = "connect" => ctl.h.generation # 0)
  BY DEF IInv, TypeOK, HandedOver, ControlPoint
<1>2. QED  BY <1>1, ControlMoves DEF vars, controlVars

LEMMA SpawnInv ==
  ASSUME IInv, NEW life \in Policies, NEW dest \in Target, NEW routed \in BOOLEAN,
         Spawn(life, dest, routed)
  PROVE  IInv'
<1>1. ctl' \in ControlPoint /\ ctl'.pc # "connect"
  BY AtRestType DEF Spawn, ControlPoint
<1>2. QED  BY <1>1, ControlMoves DEF Spawn

LEMMA ReclaimInv == IInv /\ (Reclaim \/ ReclaimReturns \/ SpawnExhausted) => IInv'
<1> SUFFICES ASSUME IInv, Reclaim \/ ReclaimReturns \/ SpawnExhausted PROVE IInv'
  OBVIOUS
<1>1. AtRest.pc = "idle"  BY DEF AtRest
<1>2. ctl' \in ControlPoint /\ ctl'.pc # "connect"
  BY <1>1, AtRestType DEF Reclaim, ReclaimReturns, SpawnExhausted, ControlPoint
<1>3. QED  BY <1>2, ControlMoves DEF Reclaim, ReclaimReturns, SpawnExhausted

\* A slot of an ended voice goes back to free_slots.
LEMMA ReclaimOneInv == IInv /\ ReclaimOne => IInv'
<1> SUFFICES ASSUME IInv, ReclaimOne PROVE IInv'  OBVIOUS
<1> USE DEF IInv
<1> DEFINE slot == Head(telemetry_queue).slot
<1>1. /\ Recycle(slot) /\ telemetry_queue # << >> /\ telemetry_queue' = Tail(telemetry_queue)
      /\ UNCHANGED <<next_generation, ctl, issued, command_queue, audioVars>>
  BY DEF ReclaimOne
<1>2. telemetry_queue \in Seq(Ended) /\ EndedOnce  BY DEF TypeOK, OwnedOnce, EndedOnce
<1>3. /\ telemetry_queue' \in Seq(Ended) /\ EndedHas(slot) /\ slot \in Slots
      /\ \A s \in Slots : EndedHas(s)' <=> EndedHas(s) /\ s # slot
      /\ EndedOnce'
  BY <1>1, <1>2, EndedTaken DEF Ended
<1> HIDE DEF slot
<1>4. ~Has(free_slots, slot) /\ ~Activating(slot) /\ ~Has(active_list, slot)
  BY <1>3 DEF OwnedByOne
<1>5. /\ Once(free_slots') /\ \A s \in Slots : Has(free_slots', s) <=> Has(free_slots, s) \/ s = slot
  BY <1>1, <1>3, <1>4, AppendHas DEF TypeOK, OwnedOnce, Recycle
<1>6. \A s \in Slots : Activating(s)' <=> Activating(s)
  BY <1>1 DEF Activating, Pending
<1>7. TypeOK'
  BY <1>1, <1>3, RecycleType DEF TypeOK, SlotRecord, audioVars
<1>8. OwnedOnce'
  BY <1>1, <1>3, <1>5 DEF OwnedOnce, Pending, EndedOnce, audioVars
<1>9. OwnedByOne'
  BY <1>1, <1>3, <1>4, <1>5, <1>6 DEF OwnedByOne, audioVars
<1>10. \A s \in Slots : s # slot => slots'[s] = slots[s]
  BY <1>1 DEF Recycle, TypeOK
<1>11. HandedOver'
  <2>1. \A i \in 1..Len(command_queue) : command_queue[i].type = "activate" =>
           command_queue[i].handle.slot \in Slots /\ command_queue[i].handle.slot # slot
    <3>1. \A i \in 1..Len(command_queue) : command_queue[i] \in Command
      BY ElementOfSeq DEF TypeOK
    <3>2. QED  BY <3>1, <1>4 DEF Activating, Pending, Command, Handle
  <2>2. \A s \in Slots : active_gen[s] # 0 => s # slot
    BY <1>4 DEF HandedOver
  <2>3. QED  BY <2>1, <2>2, <1>1, <1>10 DEF HandedOver, audioVars
<1>12. ReapList'  BY <1>1 DEF ReapList, audioVars
<1>13. QED  BY <1>7, <1>8, <1>9, <1>11, <1>12

\* A free slot gets an instance and an `activate`.
LEMMA CreateInv == IInv /\ Create => IInv'
<1> SUFFICES ASSUME IInv, Create PROVE IInv'  OBVIOUS
<1> USE DEF IInv
<1> DEFINE idx == free_slots[Len(free_slots)]
           h == [slot |-> idx, generation |-> next_generation]
           fresh == [built |-> TRUE, finished_flag |-> FALSE, target |-> 0,
                     generation |-> next_generation, life |-> ctl.life,
                     age_blocks |-> 0, silent_run |-> 0]
<1>1. /\ free_slots \in Seq(Slots) /\ free_slots # << >> /\ Once(free_slots)
      /\ slots' = [slots EXCEPT ![idx] = fresh]
      /\ issued' = issued \cup {h}
      /\ ctl' = IF ctl.routed THEN [ctl EXCEPT !.pc = "connect", !.h = h] ELSE AtRest
      /\ Enqueue("activate", h, Master)
      /\ free_slots' = SubSeq(free_slots, 1, Len(free_slots) - 1)
      /\ next_generation' = NextGen(next_generation)
      /\ UNCHANGED <<telemetry_queue, audioVars>>
  BY DEF Create, TypeOK, OwnedOnce
<1>2. idx \in Slots /\ Has(free_slots, idx)
  <2>1. Len(free_slots) \in 1..Len(free_slots)  BY <1>1, EmptySeq
  <2>2. QED  BY <2>1, <1>1, ElementOfSeq DEF Has
<1>3. /\ free_slots' \in Seq(Slots) /\ Once(free_slots')
      /\ \A x : Has(free_slots', x) <=> Has(free_slots, x) /\ x # idx
  BY <1>1, FrontHas
<1> HIDE DEF idx
<1>4. /\ h \in Handle /\ h.slot = idx /\ h.generation = next_generation
      /\ next_generation \in Generations \ {0} /\ fresh \in SlotRecord
  <2>1. next_generation \in Generations \ {0} /\ ctl.life \in Policies  BY DEF TypeOK
  <2>2. h \in Handle  BY <1>2, <2>1 DEF Handle
  <2>3. fresh \in SlotRecord  BY <2>1, ConstantTypes, PolicyAssumption DEF SlotRecord
  <2>4. QED  BY <2>1, <2>2, <2>3
<1>5. fresh.built /\ fresh.generation = next_generation  OBVIOUS
<1> HIDE DEF h, fresh
<1>6. ~Activating(idx) /\ ~Has(active_list, idx) /\ ~EndedHas(idx)
  BY <1>2 DEF OwnedByOne
<1>7. /\ command_queue' \in Seq(Command)
      /\ \A i \in 1..Len(command_queue') :
           \/ i \in 1..Len(command_queue) /\ command_queue'[i] = command_queue[i]
           \/ command_queue'[i] = [type |-> "activate", handle |-> h, dest |-> Master]
      /\ \A s \in Slots : Activating(s)' <=> Activating(s) \/ s = idx
      /\ PendingOnce'
  <2>1. command_queue \in Seq(Command) /\ PendingOnce /\ "activate" \in CommandTypes
    BY DEF TypeOK, OwnedOnce, PendingOnce, CommandTypes
  <2>2. Master \in Target /\ Enqueue("activate", h, Master)  BY <1>1, ConstantTypes
  <2>3. command_queue' \in Seq(Command) /\ PendingOnce'
        /\ (\A s \in Slots : Activating(s)' <=> Activating(s) \/ ("activate" = "activate" /\ h.slot = s))
        /\ \A i \in 1..Len(command_queue') :
           \/ i \in 1..Len(command_queue) /\ command_queue'[i] = command_queue[i]
           \/ command_queue'[i] = [type |-> "activate", handle |-> h, dest |-> Master]
    BY <2>1, <2>2, <1>4, <1>6, CommandSent
  <2>4. QED  BY <2>3, <1>4
<1>8. TypeOK'
  <2>1. slots' \in [Slots -> SlotRecord]  BY <1>1, <1>4 DEF TypeOK, SlotRecord
  <2>2. ctl' \in ControlPoint  BY <1>1, <1>4, AtRestType DEF TypeOK, ControlPoint
  <2>3. next_generation' \in Generations \ {0}  BY <1>1, <1>4, NextGenType
  <2>4. issued' \in SUBSET [slot : Slots, generation : Generations \ {0}]
    BY <1>1, <1>2, <1>4 DEF TypeOK, h
  <2>5. QED
    BY <2>1, <2>2, <2>3, <2>4, <1>1, <1>3, <1>7 DEF TypeOK, SlotRecord, ControlPoint, audioVars
<1>9. OwnedOnce'
  BY <1>1, <1>3, <1>7 DEF OwnedOnce, PendingOnce, audioVars
<1>10. OwnedByOne'
  <2>1. \A s \in Slots : EndedHas(s)' <=> EndedHas(s)  BY <1>1 DEF EndedHas
  <2>2. QED  BY <2>1, <1>1, <1>2, <1>3, <1>6, <1>7 DEF OwnedByOne, audioVars
<1>11. \A s \in Slots : slots'[s] = IF s = idx THEN fresh ELSE slots[s]
  BY <1>1, <1>2 DEF TypeOK
<1>12. HandedOver'
  <2>1. \A i \in 1..Len(command_queue) :
           command_queue[i].type = "activate" =>
             command_queue[i].handle.slot \in Slots /\ command_queue[i].handle.slot # idx
    <3>1. \A i \in 1..Len(command_queue) : command_queue[i] \in Command
      BY ElementOfSeq DEF TypeOK
    <3>2. QED  BY <3>1, <1>6 DEF Activating, Pending, Command, Handle
  <2>2. \A i \in 1..Len(command_queue') : command_queue'[i].handle.generation # 0
    BY <1>4, <1>7 DEF HandedOver
  <2>3. ctl'.pc = "connect" => ctl'.h.generation # 0
    BY <1>1, <1>4 DEF AtRest, TypeOK
  <2>4. \A i \in 1..Len(command_queue') : command_queue'[i].type = "activate" =>
          /\ slots'[command_queue'[i].handle.slot].built
          /\ slots'[command_queue'[i].handle.slot].generation = command_queue'[i].handle.generation
    <3>1. SUFFICES ASSUME NEW i \in 1..Len(command_queue'), command_queue'[i].type = "activate"
                   PROVE  /\ slots'[command_queue'[i].handle.slot].built
                          /\ slots'[command_queue'[i].handle.slot].generation
                               = command_queue'[i].handle.generation
      OBVIOUS
    <3>2. CASE i \in 1..Len(command_queue) /\ command_queue'[i] = command_queue[i]
      BY <3>1, <3>2, <2>1, <1>11 DEF HandedOver
    <3>3. CASE command_queue'[i] = [type |-> "activate", handle |-> h, dest |-> Master]
      BY <3>3, <1>2, <1>4, <1>5, <1>11
    <3>4. QED  BY <3>1, <3>2, <3>3, <1>7
  <2>5. \A s \in Slots : active_gen[s] # 0 => s # idx
    BY <1>6 DEF HandedOver
  <2>6. active_gen' = active_gen /\ active_list' = active_list  BY <1>1 DEF audioVars
  <2>7. QED  BY <2>2, <2>3, <2>4, <2>5, <2>6, <1>11 DEF HandedOver
<1>13. ReapList'  BY <1>1 DEF ReapList, audioVars
<1>14. QED  BY <1>8, <1>9, <1>10, <1>12, <1>13

\* A command other than `activate` is enqueued.
LEMMA CommandInv ==
  ASSUME IInv, NEW type \in CommandTypes \ {"activate"}, NEW h \in Handle, h.generation # 0,
         NEW dest \in Target, Enqueue(type, h, dest),
         ctl' \in ControlPoint, ctl'.pc = "connect" => ctl'.h.generation # 0,
         UNCHANGED <<slots, free_slots, next_generation, issued, telemetry_queue, audioVars>>
  PROVE  IInv'
<1> USE DEF IInv
<1>1. /\ command_queue' \in Seq(Command)
      /\ \A i \in 1..Len(command_queue') :
           \/ i \in 1..Len(command_queue) /\ command_queue'[i] = command_queue[i]
           \/ command_queue'[i] = [type |-> type, handle |-> h, dest |-> dest]
      /\ \A s \in Slots : Activating(s)' <=> Activating(s)
      /\ PendingOnce'
  <2>1. command_queue \in Seq(Command) /\ PendingOnce /\ type # "activate"
    BY DEF TypeOK, OwnedOnce, PendingOnce
  <2>2. QED  BY <2>1, CommandSent
<1>2. TypeOK'  BY <1>1 DEF TypeOK, ControlPoint, audioVars
<1>3. OwnedOnce'  BY <1>1 DEF OwnedOnce, PendingOnce, audioVars
<1>4. OwnedByOne'
  <2>1. \A s \in Slots : EndedHas(s)' <=> EndedHas(s)  BY DEF EndedHas
  <2>2. QED  BY <2>1, <1>1 DEF OwnedByOne, audioVars
<1>5. HandedOver'
  <2>1. \A i \in 1..Len(command_queue') :
          \/ i \in 1..Len(command_queue) /\ command_queue'[i] = command_queue[i]
          \/ command_queue'[i].handle.generation # 0 /\ command_queue'[i].type # "activate"
    BY <1>1
  <2>2. QED  BY <2>1 DEF HandedOver, audioVars
<1>6. ReapList'  BY DEF ReapList, audioVars
<1>7. QED  BY <1>2, <1>3, <1>4, <1>5, <1>6

LEMMA SpawnConnectInv == IInv /\ SpawnConnect => IInv'
<1> SUFFICES ASSUME IInv, SpawnConnect PROVE IInv'  OBVIOUS
<1>1. /\ ctl.h \in Handle /\ ctl.h.generation # 0 /\ ctl.dest \in Target
      /\ Enqueue("connect", ctl.h, ctl.dest)
      /\ "connect" \in CommandTypes \ {"activate"}
  BY DEF IInv, TypeOK, HandedOver, SpawnConnect, CommandTypes
<1>2. ctl' \in ControlPoint /\ ctl'.pc # "connect"
  BY AtRestType DEF SpawnConnect, AtRest
<1>3. QED  BY <1>1, <1>2, CommandInv DEF SpawnConnect

LEMMA SendInv ==
  ASSUME IInv, NEW type \in CommandTypes \ {"activate"}, NEW h \in Handle, h.generation # 0,
         NEW dest \in Target, Send(type, h, dest)
  PROVE  IInv'
<1>1. ctl' = ctl /\ ctl \in ControlPoint /\ (ctl.pc = "connect" => ctl.h.generation # 0)
  BY DEF IInv, TypeOK, HandedOver, ControlPoint, Send, controlVars
<1>2. QED  BY <1>1, CommandInv DEF Send, controlVars

-----------------------------------------------------------------------------
(* The audio thread's steps. *)

\* The command at the head of the queue, and the queue it leaves.
LEMMA CommandRead ==
  ASSUME IInv, NEW type, Dequeue(type)
  PROVE  /\ command_queue' \in Seq(Command) /\ Head(command_queue) \in Command
         /\ Head(command_queue).type = type
         /\ Head(command_queue).handle \in Handle
         /\ Head(command_queue).handle.generation # 0
         /\ type = "activate" =>
              LET h == Head(command_queue).handle IN
              slots[h.slot].built /\ slots[h.slot].generation = h.generation
         /\ \A s \in Slots : Activating(s)' <=>
              Activating(s) /\ ~(type = "activate" /\ Head(command_queue).handle.slot = s)
         /\ type = "activate" => Activating(Head(command_queue).handle.slot)
         /\ PendingOnce'
         /\ \A i \in 1..Len(command_queue') :
              /\ command_queue'[i].handle.generation # 0
              /\ command_queue'[i].type = "activate" =>
                   LET h == command_queue'[i].handle IN
                   slots[h.slot].built /\ slots[h.slot].generation = h.generation
<1>1. /\ command_queue \in Seq(Command) /\ PendingOnce
      /\ command_queue # << >> /\ command_queue' = Tail(command_queue)
      /\ Head(command_queue).type = type
  BY DEF IInv, TypeOK, OwnedOnce, PendingOnce, Dequeue
<1>2. /\ command_queue' \in Seq(Command) /\ Head(command_queue) \in Command
      /\ Head(command_queue) = command_queue[1] /\ 1 \in 1..Len(command_queue)
      /\ \A i \in 1..Len(command_queue') : /\ i + 1 \in 1..Len(command_queue)
                                           /\ command_queue'[i] = command_queue[i + 1]
      /\ \A s \in Slots : Activating(s)' <=>
           Activating(s) /\ ~(/\ Head(command_queue).type = "activate"
                              /\ Head(command_queue).handle.slot = s)
      /\ PendingOnce'
  BY <1>1, CommandTaken
<1>3. /\ \A i \in 1..Len(command_queue) : command_queue[i].handle.generation # 0
      /\ \A i \in 1..Len(command_queue) : command_queue[i].type = "activate" =>
           LET h == command_queue[i].handle IN
           slots[h.slot].built /\ slots[h.slot].generation = h.generation
  BY DEF IInv, HandedOver
<1>4. type = "activate" => Activating(Head(command_queue).handle.slot)
  BY <1>1, <1>2 DEF Activating, Pending
<1>5. QED  BY <1>1, <1>2, <1>3, <1>4 DEF Command

LEMMA DrainActivateInv == IInv /\ DrainActivate => IInv'
<1> SUFFICES ASSUME IInv, DrainActivate PROVE IInv'  OBVIOUS
<1> USE DEF IInv
<1> DEFINE h == Head(command_queue).handle
<1>1. /\ Dequeue("activate")
      /\ UNCHANGED <<phase, cursor, reap_scratch, reap_capacity, telemetry_queue, routes>>
      /\ UNCHANGED <<slots, free_slots, next_generation, ctl, issued>>
  BY DEF DrainActivate, Dequeue, controlVars
<1>2. /\ command_queue' \in Seq(Command)
      /\ h \in Handle /\ h.generation # 0
      /\ slots[h.slot].built /\ slots[h.slot].generation = h.generation
      /\ \A s \in Slots : Activating(s)' <=> Activating(s) /\ h.slot # s
      /\ Activating(h.slot)
      /\ PendingOnce'
      /\ \A i \in 1..Len(command_queue') :
           /\ command_queue'[i].handle.generation # 0
           /\ command_queue'[i].type = "activate" =>
                LET g == command_queue'[i].handle IN
                slots[g.slot].built /\ slots[g.slot].generation = g.generation
  BY <1>1, CommandRead
<1>3. h.slot \in Slots /\ h.generation \in Generations  BY <1>2 DEF Handle
<1>4. ~Has(active_list, h.slot) /\ active_gen[h.slot] = 0
  BY <1>2, <1>3 DEF OwnedByOne, HandedOver
<1>5. /\ active_gen' = [active_gen EXCEPT ![h.slot] = h.generation]
      /\ active_list' = Append(active_list, h.slot)
  BY <1>4 DEF DrainActivate
<1> HIDE DEF h
<1>6. /\ active_list' \in Seq(Slots) /\ Once(active_list')
      /\ \A s \in Slots : Has(active_list', s) <=> Has(active_list, s) \/ s = h.slot
  <2>1. active_list \in Seq(Slots) /\ Once(active_list)  BY DEF TypeOK, OwnedOnce
  <2>2. QED  BY <2>1, <1>3, <1>4, <1>5, AppendHas, AppendProperties
<1>7. TypeOK'  BY <1>1, <1>2, <1>3, <1>5, <1>6 DEF TypeOK
<1>8. OwnedOnce'  BY <1>1, <1>2, <1>6 DEF OwnedOnce, PendingOnce
<1>9. OwnedByOne'
  <2>1. \A s \in Slots : EndedHas(s)' <=> EndedHas(s)  BY <1>1 DEF EndedHas
  <2>2. ~Has(free_slots, h.slot) /\ ~EndedHas(h.slot)  BY <1>2, <1>3 DEF OwnedByOne
  <2>3. QED  BY <2>1, <2>2, <1>1, <1>2, <1>6 DEF OwnedByOne
<1>10. HandedOver'
  <2>1. \A s \in Slots : active_gen'[s] = IF s = h.slot THEN h.generation ELSE active_gen[s]
    BY <1>3, <1>5 DEF TypeOK
  <2>2. QED  BY <2>1, <1>1, <1>2, <1>6 DEF HandedOver
<1>11. ReapList'
  <2>1. phase = "drain" /\ reap_scratch = << >>  BY <1>1 DEF Dequeue, ReapList
  <2>2. QED  BY <2>1, <1>1 DEF ReapList
<1>12. QED  BY <1>7, <1>8, <1>9, <1>10, <1>11

\* A command that changes no slot's place.
LEMMA CommandDone ==
  ASSUME IInv, NEW type \in CommandTypes \ {"activate"}, Dequeue(type),
         slots' \in [Slots -> SlotRecord],
         \A s \in Slots : slots'[s].built = slots[s].built
                          /\ slots'[s].generation = slots[s].generation,
         routes' \in [1..RouteCap -> Route],
         UNCHANGED <<free_slots, next_generation, ctl, issued, telemetry_queue,
                     active_gen, active_list>>
  PROVE  IInv'
<1> USE DEF IInv
<1>1. UNCHANGED <<phase, cursor, reap_scratch, reap_capacity>>  BY DEF Dequeue
<1>2. /\ command_queue' \in Seq(Command)
      /\ \A s \in Slots : Activating(s)' <=> Activating(s)
      /\ PendingOnce'
      /\ \A i \in 1..Len(command_queue') :
           /\ command_queue'[i].handle.generation # 0
           /\ command_queue'[i].type = "activate" =>
                LET g == command_queue'[i].handle IN
                slots[g.slot].built /\ slots[g.slot].generation = g.generation
  BY CommandRead
<1>3. TypeOK'  BY <1>1, <1>2 DEF TypeOK, SlotRecord
<1>4. OwnedOnce'  BY <1>2 DEF OwnedOnce, PendingOnce
<1>5. OwnedByOne'
  <2>1. \A s \in Slots : EndedHas(s)' <=> EndedHas(s)  BY DEF EndedHas
  <2>2. QED  BY <2>1, <1>2 DEF OwnedByOne
<1>6. HandedOver'
  <2>1. \A i \in 1..Len(command_queue') : command_queue'[i] \in Command
    BY <1>2, ElementOfSeq
  <2>2. \A i \in 1..Len(command_queue') : command_queue'[i].handle.slot \in Slots
    BY <2>1 DEF Command, Handle
  <2>3. QED  BY <2>2, <1>2 DEF HandedOver
<1>7. ReapList'  BY <1>1 DEF ReapList
<1>8. QED  BY <1>3, <1>4, <1>5, <1>6, <1>7

LEMMA DrainSetParameterInv == IInv /\ DrainSetParameter => IInv'
<1> SUFFICES ASSUME IInv, DrainSetParameter PROVE IInv'  OBVIOUS
<1> DEFINE h == Head(command_queue).handle
<1>1. /\ Dequeue("set_parameter")
      /\ UNCHANGED <<free_slots, next_generation, ctl, issued, telemetry_queue,
                     active_gen, active_list, routes>>
      /\ \/ slots' = [slots EXCEPT ![h.slot].target = h.generation]
         \/ UNCHANGED slots
  BY DEF DrainSetParameter
<1>2. "set_parameter" \in CommandTypes \ {"activate"}  BY DEF CommandTypes
<1>3. h \in Handle  BY <1>1, CommandRead
<1>4. h.slot \in Slots /\ h.generation \in Generations  BY <1>3 DEF Handle
<1>5. slots \in [Slots -> SlotRecord] /\ routes \in [1..RouteCap -> Route]
  BY DEF IInv, TypeOK, SlotRecord
<1> HIDE DEF h
<1>6. /\ slots' \in [Slots -> SlotRecord]
      /\ \A s \in Slots : slots'[s].built = slots[s].built
                          /\ slots'[s].generation = slots[s].generation
  <2>1. CASE UNCHANGED slots  BY <2>1, <1>5
  <2>2. CASE slots' = [slots EXCEPT ![h.slot].target = h.generation]
    <3>1. [slots[h.slot] EXCEPT !.target = h.generation] \in SlotRecord
      BY <1>4, <1>5 DEF SlotRecord
    <3>2. slots' = [slots EXCEPT ![h.slot] = [slots[h.slot] EXCEPT !.target = h.generation]]
      BY <2>2
    <3>3. slots[h.slot] \in SlotRecord  BY <1>4, <1>5
    <3>4. /\ [slots[h.slot] EXCEPT !.target = h.generation].built = slots[h.slot].built
          /\ [slots[h.slot] EXCEPT !.target = h.generation].generation = slots[h.slot].generation
      BY <3>3 DEF SlotRecord
    <3>5. QED  BY <3>1, <3>2, <3>4, <1>4, <1>5
  <2>3. QED  BY <2>1, <2>2, <1>1
<1>7. QED  BY <1>1, <1>2, <1>5, <1>6, CommandDone

LEMMA DrainConnectInv == IInv /\ DrainConnect => IInv'
<1> SUFFICES ASSUME IInv, DrainConnect PROVE IInv'  OBVIOUS
<1> DEFINE cmd == Head(command_queue)
           r == [live |-> TRUE, src |-> cmd.handle,
                 to_master |-> cmd.dest.to_master, dst |-> cmd.dest.dst]
<1>1. Dequeue("connect") /\ UNCHANGED <<controlVars, telemetry_queue, active_gen, active_list>>
  BY DEF DrainConnect
<1>2. cmd \in Command /\ "connect" \in CommandTypes \ {"activate"}
  BY <1>1, CommandRead DEF CommandTypes
<1>3. slots \in [Slots -> SlotRecord] /\ routes \in [1..RouteCap -> Route]
  BY DEF IInv, TypeOK, SlotRecord
<1>4. r \in Route  BY <1>2 DEF Command, Target, Route
<1>5. UNCHANGED routes \/ \E i \in DOMAIN routes : routes' = [routes EXCEPT ![i] = r]
  BY DEF DrainConnect
<1> HIDE DEF r
<1>6. routes' \in [1..RouteCap -> Route]  BY <1>3, <1>4, <1>5
<1>7. QED  BY <1>1, <1>2, <1>3, <1>6, CommandDone DEF controlVars

LEMMA DrainDisconnectInv == IInv /\ DrainDisconnect => IInv'
<1> SUFFICES ASSUME IInv, DrainDisconnect PROVE IInv'  OBVIOUS
<1>1. /\ Dequeue("disconnect")
      /\ UNCHANGED <<controlVars, telemetry_queue, active_gen, active_list>>
  BY DEF DrainDisconnect
<1>2. "disconnect" \in CommandTypes \ {"activate"}  BY DEF CommandTypes
<1>3. slots \in [Slots -> SlotRecord] /\ routes \in [1..RouteCap -> Route]
  BY DEF IInv, TypeOK, SlotRecord
<1>4. routes' \in [1..RouteCap -> Route]
  BY <1>3, ConstantTypes DEF DrainDisconnect
<1>5. QED  BY <1>1, <1>2, <1>3, <1>4, CommandDone DEF controlVars

\* A matched kill releases a slot that is active; a stale one changes nothing.
LEMMA DrainKillInv == IInv /\ DrainKill => IInv'
<1> SUFFICES ASSUME IInv, DrainKill PROVE IInv'  OBVIOUS
<1> DEFINE h == Head(command_queue).handle
<1>1. Dequeue("kill") /\ UNCHANGED <<slots, free_slots, next_generation, ctl, issued>>
  BY DEF DrainKill, controlVars
<1>2. "kill" \in CommandTypes \ {"activate"}  BY DEF CommandTypes
<1>3. h \in Handle /\ h.generation # 0  BY <1>1, CommandRead
<1>4. CASE active_gen[h.slot] # h.generation
  <2>1. UNCHANGED <<active_gen, active_list, routes, telemetry_queue>>
    BY <1>4 DEF DrainKill
  <2>2. slots \in [Slots -> SlotRecord] /\ routes \in [1..RouteCap -> Route]
    BY DEF IInv, TypeOK, SlotRecord
  <2>3. QED  BY <2>1, <2>2, <1>1, <1>2, CommandDone
<1>5. CASE active_gen[h.slot] = h.generation
  <2> USE DEF IInv
  <2>1. ReleaseSlot(h.slot, "killed")  BY <1>5 DEF DrainKill
  <2>2. h.slot \in Slots /\ Has(active_list, h.slot) /\ "killed" \in Reasons
    BY <1>3, <1>5 DEF Handle, HandedOver, Reasons
  <2> HIDE DEF h
  <2>3. /\ \A s \in Slots : EndedHas(s)' <=> EndedHas(s) \/ s = h.slot
        /\ EndedOnce'
        /\ \A s \in Slots : Has(active_list', s) <=> Has(active_list, s) /\ s # h.slot
        /\ Once(active_list')
        /\ \A s \in Slots : active_gen'[s] = IF s = h.slot THEN 0 ELSE active_gen[s]
    BY <2>1, <2>2, Released
  <2>4. /\ command_queue' \in Seq(Command)
        /\ \A s \in Slots : Activating(s)' <=> Activating(s)
        /\ PendingOnce'
        /\ \A i \in 1..Len(command_queue') :
             /\ command_queue'[i].handle.generation # 0
             /\ command_queue'[i].type = "activate" =>
                  LET g == command_queue'[i].handle IN
                  slots[g.slot].built /\ slots[g.slot].generation = g.generation
    BY <1>1, <1>2, CommandRead
  <2>5. /\ active_gen' \in [Slots -> Generations] /\ active_list' \in Seq(Slots)
        /\ routes' \in [1..RouteCap -> Route] /\ telemetry_queue' \in Seq(Ended)
    BY <2>1, <2>2, ReleaseType DEF OwnedOnce
  <2>6. UNCHANGED <<phase, cursor, reap_scratch, reap_capacity>> /\ reap_scratch = << >>
    BY <1>1 DEF Dequeue, ReapList
  <2>7. TypeOK'  BY <1>1, <2>4, <2>5, <2>6 DEF TypeOK
  <2>8. OwnedOnce'  BY <1>1, <2>3, <2>4 DEF OwnedOnce, PendingOnce, EndedOnce
  <2>9. OwnedByOne'  BY <1>1, <2>2, <2>3, <2>4 DEF OwnedByOne
  <2>10. HandedOver'  BY <1>1, <2>3, <2>4 DEF HandedOver
  <2>11. ReapList'  BY <2>6 DEF ReapList
  <2>12. QED  BY <2>7, <2>8, <2>9, <2>10, <2>11
<1>6. QED  BY <1>4, <1>5

\* The audio thread advances through its block without moving a slot.
LEMMA BlockAdvances ==
  ASSUME IInv, slots' \in [Slots -> SlotRecord],
         \A s \in Slots : slots'[s].built = slots[s].built
                          /\ slots'[s].generation = slots[s].generation,
         phase' \in {"drain", "scan"}, cursor' \in Nat, reap_capacity' \in Nat,
         reap_scratch' \in Seq(Reap), ReapList',
         UNCHANGED <<free_slots, next_generation, ctl, issued, command_queue,
                     telemetry_queue, active_gen, active_list, routes>>
  PROVE  IInv'
<1> USE DEF IInv
<1>1. TypeOK'  BY DEF TypeOK, SlotRecord
<1>2. OwnedOnce'  BY DEF OwnedOnce, Pending
<1>3. OwnedByOne'  BY DEF OwnedByOne, Activating, Pending, EndedHas
<1>4. HandedOver'
  <2>1. \A i \in 1..Len(command_queue) : command_queue[i] \in Command
    BY ElementOfSeq DEF TypeOK
  <2>2. \A i \in 1..Len(command_queue) : command_queue[i].handle.slot \in Slots
    BY <2>1 DEF Command, Handle
  <2>3. QED  BY <2>2 DEF HandedOver
<1>5. QED  BY <1>1, <1>2, <1>3, <1>4

LEMMA ComputeInv == IInv /\ Compute => IInv'
<1> SUFFICES ASSUME IInv, Compute PROVE IInv'  OBVIOUS
<1>1. slots \in [Slots -> SlotRecord]  BY DEF IInv, TypeOK, SlotRecord
<1>2. PICK raised : slots' = [s \in Slots |->
             IF s \in raised THEN [slots[s] EXCEPT !.finished_flag = TRUE] ELSE slots[s]]
  BY DEF Compute
<1>3. \A s \in Slots : /\ slots'[s] \in SlotRecord
                       /\ slots'[s].built = slots[s].built
                       /\ slots'[s].generation = slots[s].generation
  <2>1. SUFFICES ASSUME NEW s \in Slots
                 PROVE  /\ slots'[s] \in SlotRecord
                        /\ slots'[s].built = slots[s].built
                        /\ slots'[s].generation = slots[s].generation
    OBVIOUS
  <2>2. slots[s] \in SlotRecord  BY <1>1
  <2>3. slots'[s] = slots[s] \/ slots'[s] = [slots[s] EXCEPT !.finished_flag = TRUE]
    BY <1>2
  <2>4. QED  BY <2>2, <2>3 DEF SlotRecord
<1>4. slots' \in [Slots -> SlotRecord]  BY <1>2, <1>3
<1>5. reap_scratch' = << >> /\ phase' = "scan" /\ cursor' = 1 /\ reap_capacity' = reap_capacity
      /\ UNCHANGED <<free_slots, next_generation, ctl, issued, command_queue,
                     telemetry_queue, active_gen, active_list, routes>>
  BY DEF Compute
<1>6. ReapList'  BY <1>5 DEF ReapList
<1>7. QED  BY <1>3, <1>4, <1>5, <1>6, BlockAdvances DEF IInv, TypeOK

\* What one more block leaves in a slot: its instance and its generation.
LEMMA AgedKeeps ==
  ASSUME NEW s \in SlotRecord, NEW quiet \in BOOLEAN
  PROVE  /\ Aged(s, quiet) \in SlotRecord
         /\ Aged(s, quiet).built = s.built
         /\ Aged(s, quiet).generation = s.generation
<1>1. Older(s) \in 0..AgeBound  BY PolicyAssumption DEF SlotRecord, Older
<1>2. (IF s.life.kind # "until_silent" THEN s.silent_run
       ELSE IF quiet THEN s.silent_run + 1 ELSE 0) \in Nat
  BY DEF SlotRecord
<1>3. Aged(s, quiet) = s \/
      Aged(s, quiet) = [s EXCEPT !.age_blocks = Older(s),
                          !.silent_run = IF s.life.kind # "until_silent" THEN s.silent_run
                                         ELSE IF quiet THEN s.silent_run + 1 ELSE 0]
  BY DEF Aged
<1>4. QED  BY <1>1, <1>2, <1>3 DEF SlotRecord

LEMMA ReasonType ==
  ASSUME NEW s, NEW quiet PROVE ReapReason(s, quiet) \in Reasons \cup {"none"}
BY DEF ReapReason, Reasons

\* The scanned voice is listed at most once: the voices listed before it stand
\* before it in active_list.
LEMMA ScanInv == IInv /\ Scan => IInv'
<1> SUFFICES ASSUME IInv, Scan PROVE IInv'  OBVIOUS
<1> USE DEF IInv
<1> DEFINE slot == active_list[cursor]
<1>1. /\ phase = "scan" /\ phase' = phase /\ cursor <= Len(active_list) /\ cursor' = cursor + 1
      /\ UNCHANGED <<free_slots, next_generation, ctl, issued, command_queue, telemetry_queue,
                     active_gen, active_list, routes>>
  BY DEF Scan
<1>2. PICK quiet \in BOOLEAN :
        /\ slots' = [slots EXCEPT ![slot] = Aged(@, quiet)]
        /\ reap_scratch' = IF ReapReason(slots[slot], quiet) = "none" THEN reap_scratch
              ELSE Append(reap_scratch, [slot |-> slot, why |-> ReapReason(slots[slot], quiet)])
        /\ reap_capacity' = IF Len(reap_scratch') > reap_capacity
                              THEN Len(reap_scratch') ELSE reap_capacity
  BY DEF Scan
<1>3. PICK n \in Nat : n = Len(reap_scratch)  BY LenProperties DEF TypeOK
<1>4. cursor \in 1..Len(active_list) /\ slot \in Slots
  <2>1. cursor \in 1..Len(active_list)  BY <1>1 DEF ReapList, TypeOK
  <2>2. QED  BY <2>1, ElementOfSeq DEF TypeOK
<1>5. PICK why \in Reasons \cup {"none"} : why = ReapReason(slots[slot], quiet)
  BY ReasonType
<1> DEFINE e == [slot |-> slot, why |-> why]
<1>6. reap_scratch' = IF why = "none" THEN reap_scratch ELSE Append(reap_scratch, e)
  BY <1>2, <1>5
<1>7. slots \in [Slots -> SlotRecord]  BY DEF TypeOK, SlotRecord
<1>8. Aged(slots[slot], quiet) \in SlotRecord
      /\ Aged(slots[slot], quiet).built = slots[slot].built
      /\ Aged(slots[slot], quiet).generation = slots[slot].generation
  BY <1>4, <1>7, AgedKeeps
<1> HIDE DEF slot
<1>9. slots' \in [Slots -> SlotRecord]
      /\ \A s \in Slots : slots'[s].built = slots[s].built
                          /\ slots'[s].generation = slots[s].generation
  BY <1>2, <1>4, <1>7, <1>8
<1>10. e.slot = slot  OBVIOUS
<1>11. why # "none" => e \in Reap  BY <1>4, <1>5 DEF Reap
<1> HIDE DEF e
<1>12. reap_scratch' \in Seq(Reap)
  BY <1>6, <1>11, AppendProperties DEF TypeOK
<1>13. \A k \in 1..Len(active_list) : k < cursor => active_list[k] # slot
  BY <1>4 DEF OwnedOnce, Once, slot
<1>14. ReapList'
  <2>1. CASE why = "none"
    <3>1. reap_scratch' = reap_scratch  BY <2>1, <1>6
    <3>2. \A k \in 1..Len(active_list) : k < cursor => k < cursor'
      BY <1>1, <1>4
    <3>3. cursor' >= 1  BY <1>1, <1>4
    <3>4. QED  BY <3>1, <3>2, <3>3, <1>1 DEF ReapList
  <2>2. CASE why # "none"
    <3>1. /\ Len(reap_scratch') = n + 1 /\ \A i \in 1..n : reap_scratch'[i] = reap_scratch[i]
          /\ reap_scratch'[n + 1] = e
      BY <2>2, <1>3, <1>6, <1>11, AppendProperties DEF TypeOK
    <3>2. \A i \in 1..n : \E k \in 1..Len(active_list) :
             k < cursor /\ active_list[k] = reap_scratch[i].slot
      BY <1>3 DEF ReapList
    <3>3. \A i \in 1..n : reap_scratch[i].slot # slot  BY <3>2, <1>13
    <3>4. \A i, j \in 1..n : reap_scratch[i].slot = reap_scratch[j].slot => i = j
      BY <1>3 DEF ReapList
    <3>5. ASSUME NEW i \in 1..n + 1, NEW j \in 1..n + 1,
                 reap_scratch'[i].slot = reap_scratch'[j].slot
          PROVE  i = j
      <4>1. CASE i \in 1..n /\ j \in 1..n  BY <4>1, <3>1, <3>4, <3>5
      <4>2. CASE i = n + 1 /\ j \in 1..n  BY <4>2, <3>1, <3>3, <3>5, <1>10
      <4>3. CASE j = n + 1 /\ i \in 1..n  BY <4>3, <3>1, <3>3, <3>5, <1>10
      <4>4. QED  BY <4>1, <4>2, <4>3, <3>5
    <3>6. ASSUME NEW i \in 1..n + 1
          PROVE  \E k \in 1..Len(active_list) :
                   k < cursor' /\ active_list[k] = reap_scratch'[i].slot
      <4>1. CASE i \in 1..n
        <5>1. PICK k \in 1..Len(active_list) :
                 k < cursor /\ active_list[k] = reap_scratch[i].slot
          BY <4>1, <3>2
        <5>2. k < cursor'  BY <5>1, <1>1, <1>4
        <5>3. QED  BY <5>1, <5>2, <4>1, <3>1
      <4>2. CASE i = n + 1
        <5>1. cursor < cursor' /\ active_list[cursor] = slot  BY <1>1, <1>4 DEF slot
        <5>2. QED  BY <5>1, <4>2, <3>1, <1>4, <1>10
      <4>3. QED  BY <4>1, <4>2
    <3>7. cursor' >= 1  BY <1>1, <1>4
    <3>8. QED  BY <3>1, <3>5, <3>6, <3>7, <1>1 DEF ReapList
  <2>3. QED  BY <2>1, <2>2
<1>15. cursor' \in Nat /\ reap_capacity' \in Nat
  <2>1. Len(reap_scratch') \in Nat  BY <1>12, LenProperties
  <2>2. QED  BY <2>1, <1>1, <1>2 DEF TypeOK
<1>16. QED  BY <1>1, <1>9, <1>12, <1>14, <1>15, BlockAdvances DEF TypeOK

LEMMA EndBlockInv == IInv /\ EndBlock => IInv'
<1> SUFFICES ASSUME IInv, EndBlock PROVE IInv'  OBVIOUS
<1>1. phase' = "drain" /\ cursor' = 0 /\ reap_scratch = << >>
      /\ UNCHANGED <<slots, free_slots, next_generation, ctl, issued, command_queue,
                     telemetry_queue, active_gen, active_list, routes, reap_scratch,
                     reap_capacity>>
  BY DEF EndBlock, controlVars
<1>2. ReapList'  BY <1>1 DEF ReapList
<1>3. slots \in [Slots -> SlotRecord] /\ reap_scratch \in Seq(Reap) /\ reap_capacity \in Nat
  BY DEF IInv, TypeOK, SlotRecord
<1>4. QED  BY <1>1, <1>2, <1>3, BlockAdvances

\* reap_pass releases the first voice it listed; the others stay active, and
\* stand in the part of active_list that was scanned.
LEMMA ReapOneInv == IInv /\ ReapOne => IInv'
<1> SUFFICES ASSUME IInv, ReapOne PROVE IInv'  OBVIOUS
<1> USE DEF IInv
<1> DEFINE slot == Head(reap_scratch).slot
           why == Head(reap_scratch).why
<1>1. /\ phase = "scan" /\ reap_scratch # << >> /\ reap_scratch' = Tail(reap_scratch)
      /\ ReleaseSlot(slot, why)
      /\ UNCHANGED <<slots, free_slots, next_generation, ctl, issued, command_queue,
                     phase, cursor, reap_capacity>>
  BY DEF ReapOne, controlVars
<1>2. PICK n \in Nat : n = Len(reap_scratch)  BY LenProperties DEF TypeOK
<1>3. /\ reap_scratch' \in Seq(Reap) /\ Head(reap_scratch) \in Reap
      /\ Head(reap_scratch) = reap_scratch[1] /\ n >= 1 /\ Len(reap_scratch') = n - 1
      /\ \A i \in 1..n - 1 : reap_scratch'[i] = reap_scratch[i + 1]
  BY <1>1, <1>2, TailAt DEF TypeOK
<1>4. \A i \in 1..n : \E k \in 1..Len(active_list) :
        k < cursor /\ active_list[k] = reap_scratch[i].slot
  BY <1>2 DEF ReapList
<1>5. slot \in Slots /\ why \in Reasons /\ Has(active_list, slot)
  <2>1. 1 \in 1..n  BY <1>3
  <2>2. QED  BY <2>1, <1>3, <1>4 DEF Reap, Has
<1>6. slot = reap_scratch[1].slot  BY <1>3
<1> HIDE DEF slot, why
<1>7. /\ \A s \in Slots : EndedHas(s)' <=> EndedHas(s) \/ s = slot
      /\ EndedOnce'
      /\ \A s \in Slots : Has(active_list', s) <=> Has(active_list, s) /\ s # slot
      /\ Once(active_list')
      /\ \A s \in Slots : active_gen'[s] = IF s = slot THEN 0 ELSE active_gen[s]
  BY <1>1, <1>5, Released
<1>8. /\ active_gen' \in [Slots -> Generations] /\ active_list' \in Seq(Slots)
      /\ routes' \in [1..RouteCap -> Route] /\ telemetry_queue' \in Seq(Ended)
  BY <1>1, <1>5, ReleaseType DEF OwnedOnce
<1>9. \A s \in Slots : Activating(s)' <=> Activating(s)
  BY <1>1 DEF Activating, Pending
<1>10. TypeOK'  BY <1>1, <1>3, <1>8 DEF TypeOK
<1>11. OwnedOnce'  BY <1>1, <1>7 DEF OwnedOnce, Pending, EndedOnce
<1>12. OwnedByOne'  BY <1>1, <1>5, <1>7, <1>9 DEF OwnedByOne
<1>13. HandedOver'  BY <1>1, <1>7 DEF HandedOver
<1>14. ReapList'
  <2>1. \A i, j \in 1..n : reap_scratch[i].slot = reap_scratch[j].slot => i = j
    BY <1>2 DEF ReapList
  <2>2. ASSUME NEW i \in 1..n - 1, NEW j \in 1..n - 1,
               reap_scratch'[i].slot = reap_scratch'[j].slot
        PROVE  i = j
    <3>1. i + 1 \in 1..n /\ j + 1 \in 1..n
          /\ reap_scratch[i + 1].slot = reap_scratch[j + 1].slot
      BY <2>2, <1>3
    <3>2. i + 1 = j + 1  BY <3>1, <2>1
    <3>3. QED  BY <3>2
  <2>3. PICK f \in 1..Len(active_list) :
          /\ active_list[f] = slot
          /\ Len(active_list') = Len(active_list) - 1
          /\ \A i \in 1..Len(active_list) - 1 :
               active_list'[i] = IF i < f THEN active_list[i] ELSE active_list[i + 1]
    <3>1. active_list \in Seq(Slots) /\ Once(active_list)
          /\ active_list' = WithoutFirst(active_list, slot)
      BY <1>1 DEF TypeOK, OwnedOnce, ReleaseSlot
    <3>2. QED  BY SMTT(30), <3>1, <1>5, WithoutHas
  <2>4. Len(active_list) \in Nat /\ cursor \in Nat  BY LenProperties DEF TypeOK
  <2>5. ASSUME NEW i \in 1..n - 1
        PROVE  \E k \in 1..Len(active_list') :
                 k < cursor /\ active_list'[k] = reap_scratch'[i].slot
    <3>1. i + 1 \in 1..n /\ i + 1 # 1 /\ 1 \in 1..n  BY <2>5, <1>3
    <3>2. PICK k \in 1..Len(active_list) :
            k < cursor /\ active_list[k] = reap_scratch[i + 1].slot
      BY <3>1, <1>4
    <3>3. reap_scratch'[i].slot = active_list[k] /\ active_list[k] # slot
      BY <3>1, <3>2, <2>1, <1>3, <1>6
    <3>4. k # f  BY <3>3, <2>3
    <3>5. CASE k < f
      <4>1. k \in 1..Len(active_list) - 1  BY <3>5, <2>4
      <4>2. QED  BY <4>1, <3>2, <3>3, <3>5, <2>3
    <3>6. CASE k > f
      <4>1. k - 1 \in 1..Len(active_list) - 1 /\ ~(k - 1 < f) /\ k - 1 < cursor
            /\ (k - 1) + 1 = k
        BY <3>2, <3>6, <2>4
      <4>2. active_list'[k - 1] = active_list[k]  BY <4>1, <2>3
      <4>3. QED  BY <4>1, <4>2, <3>3, <2>3
    <3>7. QED  BY <3>4, <3>5, <3>6, <2>4
  <2>6. phase' = "scan" /\ cursor' = cursor /\ cursor >= 1  BY <1>1 DEF ReapList
  <2>7. QED  BY <2>2, <2>5, <2>6, <1>3 DEF ReapList
<1>15. QED  BY <1>10, <1>11, <1>12, <1>13, <1>14

-----------------------------------------------------------------------------
(* The invariant holds of every behaviour. *)

\* At first every slot is free: slot s is the (MaxInstances - s)-th.
LEMMA InitInv == Init => IInv
<1> SUFFICES ASSUME Init PROVE IInv  OBVIOUS
<1>1. /\ free_slots = [i \in 1..MaxInstances |-> MaxInstances - i]
      /\ command_queue = << >> /\ telemetry_queue = << >> /\ active_list = << >>
      /\ reap_scratch = << >> /\ phase = "drain" /\ ctl = AtRest
      /\ active_gen = [s \in Slots |-> 0]
  BY DEF Init
<1>2. Len(free_slots) = MaxInstances  BY <1>1, PoolAssumption
<1>3. \A s \in Slots : Has(free_slots, s)
  <2>1. SUFFICES ASSUME NEW s \in Slots PROVE Has(free_slots, s)  OBVIOUS
  <2>2. MaxInstances - s \in 1..MaxInstances  BY PoolAssumption DEF Slots
  <2>3. free_slots[MaxInstances - s] = s  BY <2>2, <1>1, PoolAssumption DEF Slots
  <2>4. QED  BY <2>2, <2>3, <1>2 DEF Has
<1>4. Once(free_slots)
  <2>1. SUFFICES ASSUME NEW i \in 1..MaxInstances, NEW j \in 1..MaxInstances,
                        free_slots[i] = free_slots[j]
                 PROVE  i = j
    BY <1>2 DEF Once
  <2>2. MaxInstances - i = MaxInstances - j  BY <2>1, <1>1
  <2>3. QED  BY <2>2, PoolAssumption
<1>5. Len(command_queue) = 0 /\ Len(telemetry_queue) = 0 /\ Len(active_list) = 0
      /\ Len(reap_scratch) = 0
  BY <1>1
<1>6. TypeOK  BY InitType
<1>7. OwnedOnce  BY <1>4, <1>5 DEF OwnedOnce, Once, Pending
<1>8. OwnedByOne  BY <1>3, <1>5 DEF OwnedByOne, Activating, EndedHas, Has
<1>9. HandedOver
  <2>1. ctl.pc # "connect"  BY <1>1 DEF AtRest
  <2>2. \A s \in Slots : active_gen[s] = 0 /\ ~Has(active_list, s)
    BY <1>1, <1>5 DEF Has
  <2>3. QED  BY <2>1, <2>2, <1>5 DEF HandedOver
<1>10. ReapList  BY <1>1, <1>5 DEF ReapList
<1>11. QED  BY <1>6, <1>7, <1>8, <1>9, <1>10 DEF IInv

LEMMA NextInv == IInv /\ [Next]_vars => IInv'
<1> SUFFICES ASSUME IInv, [Next]_vars PROVE IInv'  OBVIOUS
<1>1. \A h \in issued : h \in Handle /\ h.generation # 0
  BY DEF IInv, TypeOK, Handle
<1>2. \A dest \in Dests : dest \in Target
  <2>1. \A h \in issued : To(h) \in Target  BY <1>1 DEF To, Target
  <2>2. \A dest \in Dests : dest = Master \/ \E h \in issued : dest = To(h)
    BY DEF Dests
  <2>3. QED  BY <2>1, <2>2, ConstantTypes
<1>3. {"kill", "set_parameter", "connect", "disconnect"} \subseteq CommandTypes \ {"activate"}
  BY DEF CommandTypes
<1>4. ASSUME ControlStep PROVE IInv'
  <2>1. CASE ControlGoesOn
    BY <2>1, ReclaimOneInv, ReclaimInv, CreateInv, SpawnConnectInv DEF ControlGoesOn
  <2>2. CASE Reclaim  BY <2>2, ReclaimInv
  <2>3. ASSUME NEW life \in Policies, NEW dest \in Target, NEW routed \in BOOLEAN,
               Spawn(life, dest, routed)
        PROVE  IInv'
    BY <2>3, SpawnInv
  <2>4. ASSUME NEW h \in issued, Kill(h) \/ SetParameter(h) PROVE IInv'
    BY <2>4, <1>1, <1>3, ConstantTypes, SendInv DEF Kill, SetParameter
  <2>5. ASSUME NEW h \in issued, NEW dest \in Dests, Connect(h, dest) \/ Disconnect(h, dest)
        PROVE  IInv'
    BY <2>5, <1>1, <1>2, <1>3, SendInv DEF Connect, Disconnect
  <2>6. CASE \E life \in Policies : Spawn(life, Master, FALSE)  BY <2>6, <2>3, ConstantTypes
  <2>7. CASE \E life \in Policies : \E dest \in Dests : Spawn(life, dest, TRUE)
    BY <2>7, <2>3, <1>2
  <2>8. QED  BY <1>4, <2>1, <2>2, <2>4, <2>5, <2>6, <2>7 DEF ControlStep
<1>5. ASSUME AudioStep PROVE IInv'
  BY <1>5, DrainActivateInv, DrainKillInv, DrainSetParameterInv, DrainConnectInv,
     DrainDisconnectInv, ComputeInv, ScanInv, ReapOneInv, EndBlockInv DEF AudioStep
<1>6. QED  BY <1>4, <1>5, StutterInv DEF Next

\* The inductive invariant holds in every state of every behaviour.
THEOREM Invariance == Spec => []IInv
<1>1. QED  BY InitInv, NextInv, PTL DEF Spec

\* Type correctness: every variable of the engine keeps its type.
THEOREM TypeCorrect == Spec => []TypeOK
<1>1. IInv => TypeOK  BY DEF IInv
<1>2. QED  BY <1>1, Invariance, PTL

\* What IInv says of the four places is that each slot is in exactly one.
LEMMA OwnershipFollows == IInv => SlotOwnership
<1> SUFFICES ASSUME IInv, NEW s \in Slots PROVE \E p \in Places(s) : Places(s) = {p}
  BY DEF SlotOwnership
<1> USE DEF IInv
<1>1. /\ DOMAIN free_slots = 1..Len(free_slots)
      /\ DOMAIN command_queue = 1..Len(command_queue)
      /\ DOMAIN active_list = 1..Len(active_list)
      /\ DOMAIN telemetry_queue = 1..Len(telemetry_queue)
  BY LenProperties DEF TypeOK
<1>2. Has(free_slots, s) \/ FreeAt(s) = {}  BY <1>1 DEF Has, FreeAt
<1>3. Activating(s) \/ ActivatingAt(s) = {}
  BY <1>1 DEF Activating, Pending, ActivatingAt
<1>4. Has(active_list, s) \/ ActiveAt(s) = {}  BY <1>1 DEF Has, ActiveAt
<1>5. EndedHas(s) \/ EndedAt(s) = {}  BY <1>1 DEF EndedHas, EndedAt
<1>6. CASE Has(free_slots, s)
  <2>1. ActivatingAt(s) = {} /\ ActiveAt(s) = {} /\ EndedAt(s) = {}
    BY <1>6, <1>3, <1>4, <1>5 DEF OwnedByOne
  <2>2. PICK i \in 1..Len(free_slots) : free_slots[i] = s  BY <1>6 DEF Has
  <2>3. \A j \in 1..Len(free_slots) : free_slots[j] = s => j = i
    BY <2>2 DEF OwnedOnce, Once
  <2>4. FreeAt(s) = {i}  BY <2>2, <2>3, <1>1 DEF FreeAt
  <2>5. Places(s) = {<<"free", i>>}  BY <2>1, <2>4 DEF Places
  <2>6. QED  BY <2>5
<1>7. CASE Activating(s)
  <2>1. FreeAt(s) = {} /\ ActiveAt(s) = {} /\ EndedAt(s) = {}
    BY <1>7, <1>2, <1>4, <1>5 DEF OwnedByOne
  <2>2. PICK i \in 1..Len(command_queue) : Pending(i, s)  BY <1>7 DEF Activating
  <2>3. \A j \in 1..Len(command_queue) : Pending(j, s) => j = i
    BY <2>2 DEF OwnedOnce, Once
  <2>4. ActivatingAt(s) = {i}  BY <2>2, <2>3, <1>1 DEF ActivatingAt, Pending
  <2>5. Places(s) = {<<"activating", i>>}  BY <2>1, <2>4 DEF Places
  <2>6. QED  BY <2>5
<1>8. CASE Has(active_list, s)
  <2>1. FreeAt(s) = {} /\ ActivatingAt(s) = {} /\ EndedAt(s) = {}
    BY <1>8, <1>2, <1>3, <1>5 DEF OwnedByOne
  <2>2. PICK i \in 1..Len(active_list) : active_list[i] = s  BY <1>8 DEF Has
  <2>3. \A j \in 1..Len(active_list) : active_list[j] = s => j = i
    BY <2>2 DEF OwnedOnce, Once
  <2>4. ActiveAt(s) = {i}  BY <2>2, <2>3, <1>1 DEF ActiveAt
  <2>5. Places(s) = {<<"active", i>>}  BY <2>1, <2>4 DEF Places
  <2>6. QED  BY <2>5
<1>9. CASE EndedHas(s)
  <2>1. FreeAt(s) = {} /\ ActivatingAt(s) = {} /\ ActiveAt(s) = {}
    BY <1>9, <1>2, <1>3, <1>4 DEF OwnedByOne
  <2>2. PICK i \in 1..Len(telemetry_queue) : telemetry_queue[i].slot = s  BY <1>9 DEF EndedHas
  <2>3. \A j \in 1..Len(telemetry_queue) : telemetry_queue[j].slot = s => j = i
    BY <2>2 DEF OwnedOnce, Once
  <2>4. EndedAt(s) = {i}  BY <2>2, <2>3, <1>1 DEF EndedAt
  <2>5. Places(s) = {<<"ended", i>>}  BY <2>1, <2>4 DEF Places
  <2>6. QED  BY <2>5
<1>10. QED  BY <1>6, <1>7, <1>8, <1>9 DEF OwnedByOne

\* No two voices ever share a slot, no telemetry event is lost to a full queue
\* and no slot leaks, for every pool size and every queue capacity that holds
\* at least one event per slot.
THEOREM Ownership == Spec => []SlotOwnership
<1>1. QED  BY Invariance, OwnershipFollows, PTL

LEMMA ActiveFollows == IInv => ActiveConsistent
<1> SUFFICES ASSUME IInv PROVE ActiveConsistent  OBVIOUS
<1> USE DEF IInv
<1>1. /\ DOMAIN active_list = 1..Len(active_list)
      /\ DOMAIN reap_scratch = 1..Len(reap_scratch)
  BY LenProperties DEF TypeOK
<1>2. \A s \in Slots : Has(active_list, s) <=> ActiveAt(s) # {}
  BY <1>1 DEF Has, ActiveAt
<1>3. \A i \in 1..Len(reap_scratch) : active_gen[reap_scratch[i].slot] # 0
  <2>1. SUFFICES ASSUME NEW i \in 1..Len(reap_scratch)
                 PROVE  active_gen[reap_scratch[i].slot] # 0
    OBVIOUS
  <2>2. reap_scratch[i] \in Reap  BY ElementOfSeq DEF TypeOK
  <2>3. Has(active_list, reap_scratch[i].slot)  BY DEF ReapList, Has
  <2>4. QED  BY <2>2, <2>3 DEF Reap, HandedOver
<1>4. QED  BY <1>1, <1>2, <1>3 DEF ActiveConsistent, HandedOver

\* The audio thread's two records of what is active agree, and it only ever
\* touches slots that hold the instance of the generation it was given.
THEOREM ActiveIsConsistent == Spec => []ActiveConsistent
<1>1. QED  BY Invariance, ActiveFollows, PTL

\* The slot the control thread is about to write is not active.
LEMMA ControlKeepsActive ==
  IInv /\ ControlStep => \A s \in Slots : active_gen[s] # 0 => slots'[s] = slots[s]
<1> SUFFICES ASSUME IInv, ControlStep, NEW s \in Slots, active_gen[s] # 0
             PROVE  slots'[s] = slots[s]
  OBVIOUS
<1> USE DEF IInv
<1>1. Has(active_list, s) /\ ~Has(free_slots, s) /\ ~EndedHas(s)
  BY DEF HandedOver, OwnedByOne
<1>2. CASE ReclaimOne
  <2>1. telemetry_queue \in Seq(Ended) /\ telemetry_queue # << >>
        /\ slots' = [slots EXCEPT ![Head(telemetry_queue).slot] =
                        Emptied(slots[Head(telemetry_queue).slot])]
    BY <1>2 DEF ReclaimOne, Recycle, TypeOK
  <2>2. Head(telemetry_queue) = telemetry_queue[1] /\ 1 \in 1..Len(telemetry_queue)
    BY <2>1, TailAt
  <2>3. Head(telemetry_queue).slot # s  BY <2>2, <1>1 DEF EndedHas
  <2>4. QED  BY <2>1, <2>3 DEF TypeOK
<1>3. CASE Create
  <2>1. free_slots \in Seq(Slots) /\ free_slots # << >>  BY <1>3 DEF Create, TypeOK
  <2>2. Len(free_slots) \in 1..Len(free_slots)  BY <2>1, EmptySeq
  <2>3. free_slots[Len(free_slots)] # s  BY <2>2, <1>1 DEF Has
  <2>4. QED  BY <1>3, <2>3 DEF Create, TypeOK
<1>4. CASE UNCHANGED slots  BY <1>4
<1>5. ReclaimOne \/ Create \/ UNCHANGED slots
  BY DEF ControlStep, ControlGoesOn, ReclaimReturns, SpawnExhausted, SpawnConnect,
         Reclaim, Spawn, Kill, SetParameter, Connect, Disconnect, Send, controlVars
<1>6. QED  BY <1>2, <1>3, <1>4, <1>5

\* The control thread never writes the slot of an active voice.
THEOREM ControlNeverTouchesActive == Spec => ControlLeavesActiveAlone
<1>1. IInv /\ [Next]_vars =>
        [ControlStep => \A s \in Slots : active_gen[s] # 0 => slots'[s] = slots[s]]_vars
  BY ControlKeepsActive
<1>2. QED  BY <1>1, Invariance, PTL DEF Spec, ControlLeavesActiveAlone
=============================================================================
