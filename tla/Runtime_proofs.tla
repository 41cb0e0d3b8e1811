--------------------------- MODULE Runtime_proofs ---------------------------
(***************************************************************************)
(* Theorems about the runtime facade, of hosts whose callback may spawn    *)
(* but does not pump (a nested pump overwrites the batch the outer one is  *)
(* walking, README section 4): events come in the order of the ends, a     *)
(* pump reports all it reclaimed, and a callback's replacement has a slot. *)
(***************************************************************************)
EXTENDS Runtime, SequenceTheorems, TLAPS

\* One pump at a time: the hypothesis of the theorems.
CallbacksDoNotPump == "pump" \notin CallbackCalls

-----------------------------------------------------------------------------
(* The stack. *)

\* The frame on top is a pump's alone, or a spawn's, alone or over a callback.
LEMMA Frames ==
  ASSUME Stacked, stack # << >>
  PROVE  /\ stack \in Seq(PumpFrames \cup SpawnFrames) /\ Len(stack) \in 1..2
         /\ Top.pc # "spawn" => /\ Len(stack) = 1 /\ Top = stack[1]
                                /\ stack[1] \in PumpFrames /\ InPump
         /\ Top.pc = "spawn" => /\ Top \in SpawnFrames
                                /\ Len(stack) = 1 => Top = stack[1] /\ ~InPump
                                /\ Len(stack) = 2 => stack[1] \in PumpFrames /\ InPump
<1>0. stack \in Seq(PumpFrames \cup SpawnFrames) /\ Len(stack) <= 2
  BY DEF Stacked
<1>1. Len(stack) \in 1..2
  <2>1. Len(stack) \in Nat \ {0}  BY <1>0, EmptySeq
  <2>2. \A n \in Nat \ {0} : n <= 2 => n \in 1..2  OBVIOUS
  <2>3. QED  BY <2>1, <2>2, <1>0
<1>2. \A n \in 1..Len(stack) : stack[n] \in PumpFrames \cup SpawnFrames
  BY <1>0, ElementOfSeq
<1>3. \A f \in PumpFrames \cup SpawnFrames :
        /\ f.pc = "spawn" => f \in SpawnFrames
        /\ f.pc # "spawn" => f \in PumpFrames
  BY DEF PumpFrames, SpawnFrames
<1>4. CASE Len(stack) = 1
  BY <1>0, <1>1, <1>2, <1>3, <1>4 DEF Top, InPump
<1>5. CASE Len(stack) = 2
  <2>1. stack[1].pc = "callback" /\ stack[2].pc = "spawn" /\ Top = stack[2]
    BY <1>5 DEF Stacked, Top
  <2>2. stack[1] \in PumpFrames /\ stack[2] \in SpawnFrames
    BY <2>1, <1>2, <1>3, <1>5
  <2>3. QED  BY <2>1, <2>2, <1>0, <1>1, <1>5 DEF InPump
<1>6. QED  BY <1>0, <1>1, <1>4, <1>5

\* A call begins on an empty stack.
LEMMA CallBegins ==
  ASSUME NEW S, NEW f \in S, stack' = Append(<< >>, f)
  PROVE  stack' \in Seq(S) /\ Len(stack') = 1 /\ stack'[1] = f /\ stack' # << >>
<1>1. << >> \in Seq(S) /\ Len(<< >>) = 0  BY EmptySeq
<1>2. QED  BY <1>1, AppendProperties

\* A callback makes a call.
LEMMA CallNests ==
  ASSUME NEW S, stack \in Seq(S), Len(stack) = 1, NEW f \in S, NEW g \in S,
         stack' = Append([stack EXCEPT ![1] = f], g)
  PROVE  stack' \in Seq(S) /\ Len(stack') = 2 /\ stack'[1] = f /\ stack'[2] = g /\ stack' # << >>
<1> DEFINE s == [stack EXCEPT ![1] = f]
<1>1. 1 \in 1..Len(stack)  OBVIOUS
<1>2. s \in Seq(S) /\ Len(s) = 1 /\ s[1] = f  BY <1>1, ExceptSeq
<1>3. stack' = Append(s, g)  OBVIOUS
<1> HIDE DEF s
<1> DEFINE t == Append(s, g)
<1>4. /\ t \in Seq(S) /\ t # << >> /\ Len(t) = Len(s) + 1
      /\ \A i \in 1..Len(s) : t[i] = s[i]
      /\ t[Len(s) + 1] = g
  BY <1>2, AppendProperties
<1>5. stack' = t  BY <1>3
<1> HIDE DEF t
<1>6. t[1] = f /\ t[2] = g /\ Len(t) = 2  BY <1>2, <1>4
<1>7. QED  BY <1>4, <1>5, <1>6

\* A call goes on, or returns.
LEMMA CallGoesOn ==
  ASSUME Stacked, stack # << >>, Len(stack) = 1
  PROVE  /\ \A f \in PumpFrames \cup SpawnFrames : ReplaceTop(f) =>
              /\ stack' \in Seq(PumpFrames \cup SpawnFrames) /\ stack' # << >>
              /\ Len(stack') = 1 /\ stack'[1] = f
         /\ Return => stack' = << >>
<1>1. stack \in Seq(PumpFrames \cup SpawnFrames)  BY DEF Stacked
<1>2. ASSUME NEW f \in PumpFrames \cup SpawnFrames, ReplaceTop(f)
      PROVE  /\ stack' \in Seq(PumpFrames \cup SpawnFrames) /\ stack' # << >>
             /\ Len(stack') = 1 /\ stack'[1] = f
  <2>1. stack' = [stack EXCEPT ![1] = f]  BY <1>2 DEF ReplaceTop
  <2>2. 1 \in 1..Len(stack)  OBVIOUS
  <2>3. stack' \in Seq(PumpFrames \cup SpawnFrames) /\ Len(stack') = 1 /\ stack'[1] = f
    BY <2>1, <2>2, <1>1, ExceptSeq
  <2>4. QED  BY <2>3, EmptySeq
<1>3. ASSUME Return PROVE stack' = << >>
  BY <1>3, SubSeqEmpty DEF Return
<1>4. QED  BY <1>2, <1>3

\* Steps that touch neither the slots nor the queue nor what the host has seen.
LEMMA LedgerStays ==
  ASSUME Typed, Ledger, UNCHANGED <<managerVars, telemetry_queue, slot_blueprint, hostVars>>
  PROVE  Ledger'
BY DEF Ledger, Queued, EndsOnce, Dead, Past, Told, InOrder, Taken, Alive, managerVars, hostVars

LEMMA Counts ==
  ASSUME IInv
  PROVE  /\ Len(ended_scratch) \in Nat /\ scratch_size \in Nat /\ scratch_size <= Len(ended_scratch)
         /\ Len(events) \in Nat /\ DOMAIN events = 1..Len(events)
         /\ Len(ended) \in Nat /\ DOMAIN ended = 1..Len(ended)
         /\ Len(telemetry_queue) \in Nat /\ DOMAIN telemetry_queue = 1..Len(telemetry_queue)
         /\ Taken \in Nat /\ Len(ended) = Taken + Len(telemetry_queue)
         /\ Len(free_slots) \in Nat
<1>1. /\ ended_scratch \in Seq(Handles) /\ ended \in Seq(Handles)
      /\ telemetry_queue \in Seq(Handles) /\ free_slots \in Seq(Slots)
      /\ events \in Seq([handle : Handles, blueprint : Blueprints \cup {invalid_blueprint}])
      /\ scratch_size \in 0..Len(ended_scratch)
  BY DEF IInv, Typed
<1>2. /\ Len(ended_scratch) \in Nat /\ Len(free_slots) \in Nat
      /\ Len(events) \in Nat /\ DOMAIN events = 1..Len(events)
      /\ Len(ended) \in Nat /\ DOMAIN ended = 1..Len(ended)
      /\ Len(telemetry_queue) \in Nat /\ DOMAIN telemetry_queue = 1..Len(telemetry_queue)
  BY <1>1, LenProperties
<1>3. scratch_size \in Nat /\ scratch_size <= Len(ended_scratch)  BY <1>1, <1>2
<1>4. Taken \in Nat  BY DEF IInv, Ledger, Queued
<1>5. Len(ended) = Taken + Len(telemetry_queue)  BY <1>2 DEF Taken
<1>6. QED  BY <1>2, <1>3, <1>4, <1>5

LEMMA TypedStays ==
  ASSUME Typed, UNCHANGED <<managerVars, telemetry_queue, slot_blueprint, ended_scratch,
                            scratch_size, hostVars>>
  PROVE  Typed'
BY DEF Typed, managerVars, hostVars

-----------------------------------------------------------------------------
(* Steps of the host and of a pump that only move the stack on.             *)

LEMMA InvStarts == Init => IInv
<1> SUFFICES ASSUME Init PROVE IInv  OBVIOUS
<1> USE DEF Init
<1>1. Typed
  <2>1. free_slots \in Seq(Slots)
    <3>1. \A i \in 1..MaxInstances : MaxInstances - i \in Slots
      BY SizeAssumption DEF Slots
    <3>2. QED  BY <3>1, SizeAssumption, IsASeq
  <2>2. << >> \in Seq(Handles) /\ Len(<< >>) = 0  BY EmptySeq
  <2>3. events \in Seq([handle : Handles, blueprint : Blueprints \cup {invalid_blueprint}])
    BY EmptySeq
  <2>4. QED  BY <2>1, <2>2, <2>3 DEF Typed
<1>2. Len(<< >>) = 0 /\ DOMAIN << >> = {}  BY EmptySeq
<1>3. Ledger
  BY <1>2 DEF Ledger, Queued, EndsOnce, Dead, Past, Told, InOrder, Taken
<1>4. Stacked  BY EmptySeq DEF Stacked
<1>5. ~InPump  BY DEF InPump
<1>6. Len(free_slots) \in Nat
  <2>1. free_slots \in Seq(Slots)  BY <1>1 DEF Typed
  <2>2. QED  BY <2>1, LenProperties
<1>7. Pumping /\ Owed = 0  BY <1>5 DEF Pumping, Owed
<1>8. Len(free_slots) >= Owed
  <2>1. \A n \in Nat : n >= 0  OBVIOUS
  <2>2. QED  BY <2>1, <1>6, <1>7
<1> QED  BY <1>1, <1>3, <1>4, <1>7, <1>8 DEF IInv

LEMMA CallPumpInv ==
  ASSUME IInv, CallbacksDoNotPump, CallPump PROVE IInv'
<1>1. stack = << >>  BY DEF CallPump, HostMayCall, CallbacksDoNotPump
<1>2. PumpFrame \in PumpFrames  BY DEF PumpFrame, PumpFrames
<1>3. /\ stack' \in Seq(PumpFrames \cup SpawnFrames)
      /\ Len(stack') = 1 /\ stack'[1] = PumpFrame /\ stack' # << >>
  BY <1>1, <1>2, CallBegins DEF CallPump
<1>4. PumpFrame.pc = "reclaim" /\ PumpFrame.i = 1  BY DEF PumpFrame
<1>5. Stacked'  BY <1>3 DEF Stacked
<1>6. Ledger'  BY LedgerStays DEF CallPump, IInv, hostVars
<1>7. Len(ended_scratch) \in Nat /\ Len(free_slots) \in Nat
  BY LenProperties DEF IInv, Typed
<1>8. Typed'  BY <1>7 DEF CallPump, IInv, Typed, managerVars, hostVars
<1>9. Pumping'
  <2>1. Taken \in Nat /\ Told  BY DEF IInv, Ledger, Queued
  <2>2. Taken' = Taken /\ events' = events /\ ended' = ended /\ scratch_size' = 0
    BY DEF CallPump, hostVars, Taken
  <2>3. Batch'
    <3>1. Taken \in 0..Taken' - scratch_size' /\ Taken + scratch_size' = Taken'
      BY <2>1, <2>2
    <3>2. \A e \in DOMAIN events : \E m \in 1..Taken + 1 - 1 : events[e].handle = ended[m]
      BY <2>1 DEF Told
    <3>3. QED  BY <3>1, <3>2, <2>2, <1>3, <1>4 DEF Batch
  <2>4. QED  BY <2>2, <2>3, <1>3, <1>4 DEF Pumping
<1>10. (Len(free_slots) >= Owed)'
  BY <1>3, <1>4, <1>7 DEF CallPump, Owed, InPump, managerVars
<1>11. QED  BY <1>5, <1>6, <1>8, <1>9, <1>10 DEF IInv

\* A pump starts to report, or goes on: reclaim() or a callback returned.
LEMMA ReportsInv ==
  ASSUME IInv, stack # << >>, Top.pc \in {"reclaim", "callback"},
         NEW f \in PumpFrames, ReplaceTop(f),
         f.pc = "report", f.end = scratch_size, f.i = Top.i,
         UNCHANGED <<managerVars, telemetry_queue, slot_blueprint, ended_scratch, scratch_size, hostVars>>
  PROVE  IInv'
<1>1. /\ Len(stack) = 1 /\ Top = stack[1] /\ stack[1] \in PumpFrames /\ InPump
  BY Frames DEF IInv
<1>2. /\ stack' \in Seq(PumpFrames \cup SpawnFrames) /\ stack' # << >>
      /\ Len(stack') = 1 /\ stack'[1] = f
  BY <1>1, CallGoesOn DEF IInv
<1>3. Stacked'  BY <1>2 DEF Stacked
<1>4. Ledger' /\ Typed'  BY LedgerStays, TypedStays DEF IInv
<1>5. Pumping /\ Len(free_slots) >= Owed  BY DEF IInv
<1>6. f.i \in Nat /\ scratch_size \in Nat /\ f.i <= scratch_size + 1
  <2>1. f.i \in Nat  BY DEF PumpFrames
  <2>2. scratch_size \in Nat  BY LenProperties DEF IInv, Typed
  <2>3. QED  BY <1>1, <1>5, <2>1, <2>2 DEF Pumping
<1>7. Pumping'
  <2>1. Batch'
    <3>1. PICK b \in 0..Taken - scratch_size :
            /\ \A n \in 1..scratch_size : ended_scratch[n] = ended[b + n]
            /\ \A e \in DOMAIN events : \E m \in 1..b + stack[1].i - 1 : events[e].handle = ended[m]
      BY <1>1, <1>5 DEF Pumping, Batch
    <3>2. QED  BY <3>1, <1>1, <1>2 DEF Batch, hostVars, Taken
  <2>2. QED  BY <2>1, <1>1, <1>2, <1>5, <1>6 DEF Pumping, Reported, hostVars
<1>8. (Len(free_slots) >= Owed)'
  <2>1. Owed' = scratch_size + 1 - f.i  BY <1>2, <1>6 DEF Owed, InPump
  <2>2. Owed >= scratch_size + 1 - f.i  BY <1>1, <1>5, <1>6 DEF Owed, Pumping
  <2>3. Len(free_slots) \in Nat  BY LenProperties DEF IInv, Typed
  <2>4. Owed \in Int /\ free_slots' = free_slots  BY <1>1, <1>6 DEF Owed, managerVars
  <2>5. QED  BY <2>1, <2>2, <2>3, <2>4, <1>5, <1>6
<1>9. QED  BY <1>3, <1>4, <1>7, <1>8 DEF IInv

LEMMA PumpReclaimedInv == ASSUME IInv, PumpReclaimed PROVE IInv'
<1> DEFINE f == [Top EXCEPT !.pc = "report", !.end = scratch_size]
<1>1. stack # << >> /\ Top.pc = "reclaim" /\ ReplaceTop(f)  BY DEF PumpReclaimed, TopIs
<1>2. Top \in PumpFrames  BY <1>1, Frames DEF IInv
<1>3. scratch_size \in Nat  BY LenProperties DEF IInv, Typed
<1>4. f \in PumpFrames /\ f.pc = "report" /\ f.end = scratch_size /\ f.i = Top.i
  BY <1>2, <1>3 DEF PumpFrames
<1> HIDE DEF f
<1>5. QED  BY <1>1, <1>4, ReportsInv DEF PumpReclaimed

LEMMA CallbackReturnsInv == ASSUME IInv, CallbackReturns PROVE IInv'
<1> DEFINE f == [Top EXCEPT !.pc = "report"]
<1>1. stack # << >> /\ Top.pc = "callback" /\ ReplaceTop(f)  BY DEF CallbackReturns, TopIs
<1>2. Top \in PumpFrames /\ InPump /\ Top = stack[1]  BY <1>1, Frames DEF IInv
<1>3. Top.end = scratch_size  BY <1>1, <1>2 DEF IInv, Pumping
<1>4. f \in PumpFrames /\ f.pc = "report" /\ f.end = scratch_size /\ f.i = Top.i
  BY <1>2, <1>3 DEF PumpFrames
<1> HIDE DEF f
<1>5. QED  BY <1>1, <1>4, ReportsInv DEF CallbackReturns

\* A call of the host returns: nothing is in progress.
LEMMA ReturnsInv ==
  ASSUME IInv, stack' = << >>, Typed', Ledger',
         UNCHANGED free_slots
  PROVE  IInv'
<1>1. Stacked' /\ ~InPump'  BY EmptySeq DEF Stacked, InPump
<1>2. Len(free_slots) \in Nat  BY LenProperties DEF IInv, Typed
<1>3. QED  BY <1>1, <1>2 DEF IInv, Pumping, Owed

LEMMA PumpReturnsInv == ASSUME IInv, PumpReturns PROVE IInv'
<1>1. stack # << >> /\ Top.pc = "report"  BY DEF PumpReturns, TopIs
<1>2. stack' = << >>
  BY <1>1, Frames, CallGoesOn DEF IInv, PumpReturns
<1>3. Typed' /\ Ledger'  BY LedgerStays, TypedStays DEF IInv, PumpReturns
<1>4. QED  BY <1>2, <1>3, ReturnsInv DEF PumpReturns, managerVars

-----------------------------------------------------------------------------
(* A pump tells the callback.                                               *)

\* The event just given is of an end after all that were told.
LEMMA TellsNext ==
  ASSUME IInv, stack # << >>, Top.pc = "report", Top.i <= Top.end
  PROVE  \E b \in 0..Taken - scratch_size :
           /\ b + Top.i \in 1..Taken /\ ended_scratch[Top.i] = ended[b + Top.i]
           /\ \A e \in DOMAIN events : \E m \in 1..b + Top.i - 1 : events[e].handle = ended[m]
           /\ \A n \in 1..scratch_size : ended_scratch[n] = ended[b + n]
<1>1. InPump /\ Top = stack[1] /\ stack[1] \in PumpFrames  BY Frames DEF IInv
<1>2. Pumping  BY DEF IInv
<1>3. stack[1].end = scratch_size /\ Batch  BY <1>1, <1>2 DEF Pumping
<1>4. PICK b \in 0..Taken - scratch_size :
        /\ \A n \in 1..scratch_size : ended_scratch[n] = ended[b + n]
        /\ \A e \in DOMAIN events : \E m \in 1..b + stack[1].i - 1 : events[e].handle = ended[m]
  BY <1>3 DEF Batch
<1>5. Top.i \in Nat \ {0} /\ scratch_size \in Nat /\ Taken \in Nat
  BY <1>1, Counts DEF PumpFrames
<1>6. Top.i \in 1..scratch_size  BY <1>1, <1>3, <1>5
<1>7. b + Top.i \in 1..Taken  BY <1>5, <1>6
<1>8. ended_scratch[Top.i] = ended[b + Top.i]  BY <1>4, <1>6
<1>9. QED  BY <1>1, <1>4, <1>7, <1>8

LEMMA ReportOneInv == ASSUME IInv, ReportOne PROVE IInv'
<1> DEFINE f == [Top EXCEPT !.pc = "callback", !.i = @ + 1, !.respawned = FALSE]
           h == ended_scratch[Top.i]
           v == Voice(h, slot_blueprint[h.slot])
<1>1. stack # << >> /\ Top.pc = "report" /\ Top.i <= Top.end /\ ReplaceTop(f)
  BY DEF ReportOne, TopIs
<1>2. /\ Len(stack) = 1 /\ Top = stack[1] /\ Top \in PumpFrames /\ InPump
      /\ Top.end = scratch_size
  BY <1>1, Frames DEF IInv, Pumping
<1>3. /\ f \in PumpFrames /\ f.pc = "callback" /\ f.end = scratch_size /\ f.i = Top.i + 1
      /\ f.respawned = FALSE /\ Top.i \in Nat \ {0} /\ Top.moved = FALSE
  <2>1. \A g \in PumpFrames : g.i \in Nat \ {0} /\ g.moved = FALSE  BY DEF PumpFrames
  <2>2. Top.i + 1 \in Nat \ {0}  BY <2>1, <1>2
  <2>3. f \in PumpFrames  BY <2>2, <1>2 DEF PumpFrames
  <2>4. f.pc = "callback" /\ f.end = Top.end /\ f.i = Top.i + 1 /\ f.respawned = FALSE
    BY <1>2 DEF PumpFrames
  <2>5. QED  BY <2>1, <2>3, <2>4, <1>2
<1>4. scratch_size \in Nat /\ Len(ended_scratch) \in Nat /\ scratch_size <= Len(ended_scratch)
  BY Counts
<1>5. h \in Handles
  <2>1. Top.i \in 1..Len(ended_scratch)  BY <1>1, <1>2, <1>3, <1>4
  <2>2. ended_scratch \in Seq(Handles)  BY DEF IInv, Typed
  <2>3. QED  BY <2>1, <2>2, ElementOfSeq
<1>6. events' = Append(events, v) /\ ended_scratch' = ended_scratch /\ scratch_size' = scratch_size
      /\ telemetry_queue' = telemetry_queue /\ ended' = ended /\ given' = given
      /\ slot_blueprint' = slot_blueprint /\ UNCHANGED managerVars
  BY <1>3 DEF ReportOne
<1>7. v \in [handle : Handles, blueprint : Blueprints \cup {invalid_blueprint}] /\ v.handle = h
  BY <1>5 DEF Voice, IInv, Typed, Handles
<1> HIDE DEF f, v
<1>8. /\ stack' \in Seq(PumpFrames \cup SpawnFrames) /\ stack' # << >>
      /\ Len(stack') = 1 /\ stack'[1] = f
  BY <1>1, <1>2, <1>3, CallGoesOn DEF IInv
<1>9. /\ events \in Seq([handle : Handles, blueprint : Blueprints \cup {invalid_blueprint}])
      /\ Len(events) \in Nat /\ DOMAIN events = 1..Len(events)
  BY Counts DEF IInv, Typed
<1>10. /\ events' \in Seq([handle : Handles, blueprint : Blueprints \cup {invalid_blueprint}])
       /\ DOMAIN events' = 1..Len(events) + 1
       /\ \A e \in 1..Len(events) : events'[e] = events[e]
       /\ events'[Len(events) + 1] = v
  <2>1. /\ events' \in Seq([handle : Handles, blueprint : Blueprints \cup {invalid_blueprint}])
        /\ Len(events') = Len(events) + 1
        /\ \A e \in 1..Len(events) : events'[e] = events[e]
        /\ events'[Len(events) + 1] = v
    BY <1>6, <1>7, <1>9, AppendProperties
  <2>2. QED  BY <2>1, LenProperties
<1>11. PICK b \in 0..Taken - scratch_size :
         /\ b + Top.i \in 1..Taken /\ h = ended[b + Top.i]
         /\ \A e \in DOMAIN events : \E m \in 1..b + Top.i - 1 : events[e].handle = ended[m]
         /\ \A n \in 1..scratch_size : ended_scratch[n] = ended[b + n]
  BY <1>1, TellsNext
<1>m. PICK k \in 1..Taken : k = b + Top.i  BY <1>11
<1>k. h = ended[k] /\ \A e \in 1..Len(events) : \E m \in 1..k - 1 : events[e].handle = ended[m]
  <2>1. h = ended[k]  BY <1>11, <1>m
  <2>2. \A e \in 1..Len(events) : \E m \in 1..k - 1 : events[e].handle = ended[m]
    <3>1. \A e \in DOMAIN events : \E m \in 1..b + Top.i - 1 : events[e].handle = ended[m]
      BY <1>11
    <3>2. 1..b + Top.i - 1 = 1..k - 1  BY <1>3, <1>m
    <3>3. QED  BY <3>1, <3>2, <1>9
  <2>3. QED  BY <2>1, <2>2
<1> HIDE DEF h
<1>12. Taken \in Nat /\ Taken' = Taken /\ Taken <= Len(ended) /\ DOMAIN ended = 1..Len(ended)
       /\ Len(ended) \in Nat
  BY <1>6, Counts DEF Taken
<1>13. Ledger'
  <2>1. Queued' /\ EndsOnce' /\ Dead' /\ Past'
    BY <1>6 DEF IInv, Ledger, Queued, EndsOnce, Dead, Past, Taken, Alive, managerVars
  <2>2. Told'
    BY <1>6, <1>7, <1>9, <1>10, <1>k, <1>12 DEF IInv, Ledger, Told
  <2>3. InOrder'
    <3> SUFFICES ASSUME NEW i \in 1..Len(events) + 1, NEW j \in 1..Len(events) + 1,
                        NEW m \in 1..Len(ended), NEW n \in 1..Len(ended),
                        i < j, events'[i].handle = ended[m], events'[j].handle = ended[n]
                 PROVE  m < n
      BY <1>6, <1>10, <1>12 DEF InOrder
    <3>1. CASE j = Len(events) + 1
      <4>1. n = k
        <5>1. k \in DOMAIN ended /\ ended[n] = ended[k]  BY <3>1, <1>7, <1>10, <1>k, <1>12
        <5>2. QED  BY <5>1, <1>12 DEF IInv, Ledger, EndsOnce
      <4>2. PICK p \in 1..k - 1 : events[i].handle = ended[p]
        BY <3>1, <1>9, <1>k
      <4>3. m = p
        <5>1. p \in DOMAIN ended /\ events'[i] = events[i]  BY <3>1, <1>9, <1>10, <1>k, <1>12
        <5>2. QED  BY <5>1, <4>2, <1>12 DEF IInv, Ledger, EndsOnce
      <4>4. QED  BY <4>1, <4>2, <4>3
    <3>2. CASE j # Len(events) + 1
      <4>1. i \in 1..Len(events) /\ j \in 1..Len(events)  BY SMTT(30), <3>2, <1>9
      <4>2. events'[i] = events[i] /\ events'[j] = events[j]  BY <4>1, <1>10
      <4>3. QED  BY <4>1, <4>2, <1>9, <1>12 DEF IInv, Ledger, InOrder
    <3>3. QED  BY <3>1, <3>2
  <2>4. QED  BY <2>1, <2>2, <2>3 DEF Ledger
<1>14. Typed'  BY <1>6, <1>10 DEF IInv, Typed, managerVars
<1>15. Stacked'  BY <1>8 DEF Stacked
<1>16. Pumping'
  <2>1. Batch'
    <3>1. \A e \in DOMAIN events' : \E m \in 1..b + f.i - 1 : events'[e].handle = ended[m]
      <4>1. b + f.i - 1 = k /\ k \in 1..k  BY <1>3, <1>m
      <4>2. \A e \in 1..Len(events) + 1 : \E m \in 1..k : events'[e].handle = ended[m]
        BY <4>1, <1>7, <1>9, <1>10, <1>k, <1>12
      <4>3. QED  BY <4>1, <4>2, <1>10
    <3>2. QED  BY ZenonT(30), <3>1, <1>3, <1>6, <1>8, <1>11, <1>12 DEF Batch
  <2>2. \A n \in 1..f.i - 1 : ended_scratch[n] \in Reported'
    <3> SUFFICES ASSUME NEW n \in 1..Top.i PROVE ended_scratch[n] \in Reported'
      BY <1>3
    <3>1. \A e \in 1..Len(events) : events[e].handle \in Reported'
      BY <1>9, <1>10 DEF Reported
    <3>2. CASE n = Top.i  BY <3>2, <1>7, <1>9, <1>10 DEF Reported, h
    <3>3. CASE n # Top.i
      <4>1. ended_scratch[n] \in Reported  BY <3>3, <1>2, <1>3 DEF IInv, Pumping
      <4>2. QED  BY <4>1, <3>1, <1>9 DEF Reported
    <3>4. QED  BY <3>2, <3>3
  <2>3. QED  BY <2>1, <2>2, <1>1, <1>2, <1>3, <1>4, <1>6, <1>8 DEF Pumping
<1>17. (Len(free_slots) >= Owed)'
  <2>1. Owed' = scratch_size + 1 - f.i + 1  BY <1>3, <1>4, <1>6, <1>8 DEF Owed, InPump
  <2>2. Owed = scratch_size + 1 - Top.i  BY <1>1, <1>2, <1>3, <1>4 DEF Owed
  <2>3. QED  BY <2>1, <2>2, <1>3, <1>4, <1>6 DEF IInv, managerVars
<1>18. QED  BY <1>13, <1>14, <1>15, <1>16, <1>17 DEF IInv

-----------------------------------------------------------------------------
(* The engine takes an event off the queue and frees its slot; a voice ends. *)

\* Whatever does it, the voice taken is the next of the ends, and is dead.
LEMMA TakesNext ==
  ASSUME IInv, telemetry_queue # << >>, Recycle(Head(telemetry_queue).slot),
         telemetry_queue' = Tail(telemetry_queue),
         UNCHANGED <<slot_blueprint, hostVars>>
  PROVE  /\ Head(telemetry_queue) \in Handles /\ Head(telemetry_queue) = ended[Taken + 1]
         /\ Taken' = Taken + 1 /\ Taken + 1 <= Len(ended) /\ ended' = ended /\ events' = events
         /\ Len(free_slots') = Len(free_slots) + 1
         /\ free_slots' \in Seq(Slots) /\ telemetry_queue' \in Seq(Handles)
         /\ built' \in [Slots -> BOOLEAN]
         /\ Ledger'
<1> DEFINE h == Head(telemetry_queue)
<1>1. telemetry_queue \in Seq(Handles) /\ free_slots \in Seq(Slots)  BY DEF IInv, Typed
<1>2. /\ h \in Handles /\ telemetry_queue' \in Seq(Handles)
      /\ Len(telemetry_queue') = Len(telemetry_queue) - 1
      /\ \A i \in 1..Len(telemetry_queue') : telemetry_queue'[i] = telemetry_queue[i + 1]
      /\ Len(telemetry_queue) \in Nat \ {0} /\ h = telemetry_queue[1]
  <2>1. h = telemetry_queue[1]  BY <1>1
  <2>2. QED  BY <2>1, <1>1, HeadTailProperties, EmptySeq
<1>3. h.slot \in Slots /\ h.generation \in Nat  BY <1>2 DEF Handles
<1>4. Len(free_slots') = Len(free_slots) + 1 /\ free_slots' \in Seq(Slots)
  BY <1>1, <1>3, AppendProperties DEF Recycle
<1>5. /\ built' = [built EXCEPT ![h.slot] = FALSE] /\ generation' = generation
      /\ next_generation' = next_generation
      /\ ended' = ended /\ events' = events /\ given' = given
  BY DEF Recycle, hostVars
<1>6. /\ Len(ended) \in Nat /\ DOMAIN ended = 1..Len(ended) /\ Taken \in Nat
      /\ Len(ended) = Taken + Len(telemetry_queue)
      /\ DOMAIN telemetry_queue = 1..Len(telemetry_queue)
  BY Counts
<1>7. Taken' = Taken + 1 /\ Taken + 1 <= Len(ended)
  <2>1. Taken' = Len(ended) - Len(telemetry_queue')  BY <1>5 DEF Taken
  <2>2. QED  BY <2>1, <1>2, <1>6
<1>8. h = ended[Taken + 1] /\ \A n \in 1..Len(telemetry_queue) : telemetry_queue[n] = ended[Taken + n]
  <2>1. \A n \in 1..Len(telemetry_queue) : telemetry_queue[n] = ended[Taken + n]
    BY <1>6 DEF IInv, Ledger, Queued
  <2>2. 1 \in 1..Len(telemetry_queue)  BY <1>2
  <2>3. QED  BY <2>1, <2>2, <1>2
<1>9. built \in [Slots -> BOOLEAN]  BY DEF IInv, Typed
<1>10. built' \in [Slots -> BOOLEAN]  BY <1>5, <1>9
<1> HIDE DEF h
<1>11. Queued'
  <2>1. DOMAIN telemetry_queue' = 1..Len(telemetry_queue')  BY <1>2, LenProperties
  <2>2. \A n \in 1..Len(telemetry_queue') : telemetry_queue'[n] = ended[Taken + 1 + n]
    <3> SUFFICES ASSUME NEW n \in 1..Len(telemetry_queue')
                 PROVE  telemetry_queue'[n] = ended[Taken + 1 + n]
      OBVIOUS
    <3>1. n + 1 \in 1..Len(telemetry_queue)  BY <1>2
    <3>2. Taken + (n + 1) = Taken + 1 + n  BY <1>6, <1>2
    <3>3. QED  BY <3>1, <3>2, <1>2, <1>8
  <2>3. QED  BY SMTT(30), <2>1, <2>2, <1>5, <1>6, <1>7 DEF Queued
<1>12. EndsOnce' /\ Past' /\ InOrder'
  BY <1>5 DEF IInv, Ledger, EndsOnce, Past, InOrder
<1>13. Dead'
  <2> SUFFICES ASSUME NEW m \in 1..Taken + 1 PROVE ~Alive(ended[m])'
    BY <1>5, <1>7 DEF Dead
  <2>1. ended[m] \in Handles
    <3>1. m \in 1..Len(ended)  BY <1>6, <1>7
    <3>2. ended \in Seq(Handles)  BY DEF IInv, Typed
    <3>3. QED  BY <3>1, <3>2, ElementOfSeq
  <2>2. CASE m = Taken + 1
    BY <2>2, <1>3, <1>5, <1>8, <1>9 DEF Alive
  <2>3. CASE m # Taken + 1
    <3>1. ~Alive(ended[m])  BY <2>3, <1>6 DEF IInv, Ledger, Dead
    <3>2. QED  BY <3>1, <2>1, <1>3, <1>5, <1>9 DEF Alive, Handles
  <2>4. QED  BY <2>2, <2>3
<1>14. Told'
  <2>1. \A e \in DOMAIN events : \E m \in 1..Taken : events[e].handle = ended[m]
    BY DEF IInv, Ledger, Told
  <2>2. \A m \in 1..Taken : m \in 1..Taken + 1  BY <1>6
  <2>3. QED  BY <2>1, <2>2, <1>5, <1>7 DEF Told
<1>15. QED  BY <1>2, <1>4, <1>5, <1>7, <1>8, <1>10, <1>11, <1>12, <1>13, <1>14 DEF Ledger, h

LEMMA PumpReclaimOneInv == ASSUME IInv, PumpReclaimOne PROVE IInv'
<1> DEFINE h == Head(telemetry_queue)
<1>1. /\ stack # << >> /\ Top.pc = "reclaim" /\ telemetry_queue # << >>
      /\ Recycle(h.slot) /\ telemetry_queue' = Tail(telemetry_queue) /\ PushEnded(h)
      /\ UNCHANGED <<slot_blueprint, hostVars>>
  BY DEF PumpReclaimOne, TopIs
<1>2. Len(stack) = 1 /\ Top = stack[1] /\ stack[1] \in PumpFrames /\ InPump
  BY <1>1, Frames DEF IInv
<1>3. /\ h \in Handles /\ h = ended[Taken + 1]
      /\ Taken' = Taken + 1 /\ ended' = ended /\ events' = events
      /\ Len(free_slots') = Len(free_slots) + 1
      /\ free_slots' \in Seq(Slots) /\ telemetry_queue' \in Seq(Handles)
      /\ built' \in [Slots -> BOOLEAN] /\ Ledger'
  BY <1>1, TakesNext
<1> HIDE DEF h
<1>4. /\ Len(ended_scratch) \in Nat /\ scratch_size \in Nat /\ scratch_size <= Len(ended_scratch)
      /\ Taken \in Nat /\ Len(free_slots) \in Nat
  BY Counts
<1>5. ended_scratch \in Seq(Handles) /\ stack \in Seq(PumpFrames \cup SpawnFrames)
  BY DEF IInv, Typed, Stacked
<1>6. stack' = stack
  <2>1. CASE scratch_size < Len(ended_scratch)  BY <2>1, <1>1 DEF PushEnded
  <2>2. CASE ~(scratch_size < Len(ended_scratch))
    <3>1. stack' = [n \in DOMAIN stack |-> IF stack[n].pc = "callback"
                                             THEN [stack[n] EXCEPT !.moved = TRUE]
                                             ELSE stack[n]]
      BY <2>2, <1>1 DEF PushEnded
    <3>2. DOMAIN stack = 1..1  BY <1>2, <1>5, LenProperties
    <3>3. \A n \in DOMAIN stack : stack[n].pc # "callback"  BY <3>2, <1>1, <1>2
    <3>4. stack = [n \in DOMAIN stack |-> stack[n]]  BY <1>5
    <3>5. QED  BY <3>1, <3>3, <3>4
  <2>3. QED  BY <2>1, <2>2
<1>7. /\ ended_scratch' \in Seq(Handles) /\ scratch_size' = scratch_size + 1
      /\ scratch_size' <= Len(ended_scratch')
      /\ \A n \in 1..scratch_size : ended_scratch'[n] = ended_scratch[n]
      /\ ended_scratch'[scratch_size + 1] = h
  <2>1. CASE scratch_size < Len(ended_scratch)
    <3>1. ended_scratch' = [ended_scratch EXCEPT ![scratch_size + 1] = h]
      BY <2>1, <1>1 DEF PushEnded
    <3>2. scratch_size + 1 \in 1..Len(ended_scratch)  BY <2>1, <1>4
    <3>3. /\ ended_scratch' \in Seq(Handles) /\ Len(ended_scratch') = Len(ended_scratch)
          /\ \A j \in 1..Len(ended_scratch) :
               ended_scratch'[j] = IF j = scratch_size + 1 THEN h ELSE ended_scratch[j]
      BY <3>1, <3>2, <1>3, <1>5, ExceptSeq
    <3>4. QED  BY <3>2, <3>3, <1>1, <1>4 DEF PushEnded
  <2>2. CASE ~(scratch_size < Len(ended_scratch))
    <3>1. ended_scratch' = Append(ended_scratch, h) /\ scratch_size = Len(ended_scratch)
      BY <2>2, <1>1, <1>4 DEF PushEnded
    <3>2. QED  BY <3>1, <1>1, <1>3, <1>4, <1>5, AppendProperties DEF PushEnded
  <2>3. QED  BY <2>1, <2>2
<1>8. Typed'
  <2>1. scratch_size' \in 0..Len(ended_scratch')
    <3>1. Len(ended_scratch') \in Nat  BY <1>7, LenProperties
    <3>2. QED  BY <3>1, <1>4, <1>7
  <2>2. QED  BY <2>1, <1>1, <1>3, <1>7 DEF IInv, Typed, Recycle, hostVars
<1>9. Stacked'  BY <1>6 DEF IInv, Stacked
<1>10. Pumping'
  <2>1. Pumping  BY DEF IInv
  <2>2. PICK b \in 0..Taken - scratch_size :
          /\ b + scratch_size = Taken
          /\ \A n \in 1..scratch_size : ended_scratch[n] = ended[b + n]
          /\ \A e \in DOMAIN events : \E m \in 1..b + stack[1].i - 1 : events[e].handle = ended[m]
    BY <2>1, <1>1, <1>2 DEF Pumping, Batch
  <2>3. \A n \in 1..scratch_size + 1 : ended_scratch'[n] = ended[b + n]
    <3> SUFFICES ASSUME NEW n \in 1..scratch_size + 1 PROVE ended_scratch'[n] = ended[b + n]
      OBVIOUS
    <3>1. CASE n = scratch_size + 1  BY SMTT(30), <3>1, <2>2, <1>3, <1>4, <1>7
    <3>2. CASE n # scratch_size + 1
      <4>1. n \in 1..scratch_size  BY <3>2, <1>4
      <4>2. QED  BY <4>1, <2>2, <1>7
    <3>3. QED  BY <3>1, <3>2
  <2>4. b \in 0..Taken' - scratch_size' /\ b + scratch_size' = Taken'
    BY <2>2, <1>3, <1>4, <1>7
  <2>5. Batch'
    BY <2>2, <2>3, <2>4, <1>3, <1>6, <1>7 DEF Batch
  <2>6. stack[1].i = 1  BY <2>1, <1>1, <1>2 DEF Pumping
  <2>7. QED  BY <2>5, <2>6, <1>1, <1>2, <1>6 DEF Pumping
<1>11. (Len(free_slots) >= Owed)'
  <2>1. Owed = scratch_size /\ Owed' = scratch_size + 1
    BY <1>1, <1>2, <1>6, <1>7 DEF Owed, InPump
  <2>2. QED  BY <2>1, <1>3, <1>4 DEF IInv
<1>12. QED  BY <1>3, <1>8, <1>9, <1>10, <1>11 DEF IInv

LEMMA SpawnReclaimOneInv == ASSUME IInv, SpawnReclaimOne PROVE IInv'
<1> DEFINE h == Head(telemetry_queue)
<1>1. /\ stack # << >> /\ Top.pc = "spawn" /\ telemetry_queue # << >>
      /\ Recycle(h.slot) /\ telemetry_queue' = Tail(telemetry_queue)
      /\ UNCHANGED <<slot_blueprint, ended_scratch, scratch_size, stack, hostVars>>
  BY DEF SpawnReclaimOne, TopIs
<1>2. /\ Taken' = Taken + 1 /\ ended' = ended /\ events' = events
      /\ Len(free_slots') = Len(free_slots) + 1
      /\ free_slots' \in Seq(Slots) /\ telemetry_queue' \in Seq(Handles)
      /\ built' \in [Slots -> BOOLEAN] /\ Ledger'
  BY <1>1, TakesNext
<1>3. Typed'  BY <1>1, <1>2 DEF IInv, Typed, Recycle, hostVars
<1>4. Stacked' /\ InPump' = InPump /\ Owed' = Owed
  BY <1>1 DEF IInv, Stacked, InPump, Owed
<1>5. InPump => stack[1].pc = "callback"
  BY <1>1, Frames DEF IInv, Stacked, InPump
<1>6. Pumping'
  <2> SUFFICES ASSUME InPump PROVE Pumping'  BY <1>4 DEF Pumping
  <2>1. Pumping  BY DEF IInv
  <2>2. PICK b \in 0..Taken - scratch_size :
          /\ \A n \in 1..scratch_size : ended_scratch[n] = ended[b + n]
          /\ \A e \in DOMAIN events : \E m \in 1..b + stack[1].i - 1 : events[e].handle = ended[m]
    BY <2>1 DEF Pumping, Batch
  <2>3. b \in 0..Taken' - scratch_size'  BY SMTT(30), <1>1, <1>2, Counts
  <2>4. Batch'  BY <2>2, <2>3, <1>1, <1>2, <1>5 DEF Batch
  <2>5. QED  BY <2>1, <2>4, <1>1, <1>2, <1>5 DEF Pumping, Reported
<1>7. (Len(free_slots) >= Owed)'
  <2>1. Owed \in Int
    <3>1. InPump => stack[1] \in PumpFrames  BY <1>1, Frames DEF IInv
    <3>2. InPump => stack[1].i \in Nat  BY <3>1 DEF PumpFrames
    <3>3. scratch_size \in Nat  BY Counts
    <3>4. QED  BY <3>2, <3>3 DEF Owed
  <2>2. QED  BY <2>1, <1>2, <1>4, Counts DEF IInv
<1>8. QED  BY <1>2, <1>3, <1>4, <1>6, <1>7 DEF IInv

LEMMA EndVoiceInv == ASSUME IInv, NEW h \in Held, EndVoice(h) PROVE IInv'
<1>1. /\ telemetry_queue' = Append(telemetry_queue, h) /\ ended' = Append(ended, h)
      /\ UNCHANGED <<managerVars, slot_blueprint, ended_scratch, scratch_size, stack, given, events>>
  BY DEF EndVoice
<1>2. /\ h \in Handles /\ h.generation < next_generation
      /\ \A m \in DOMAIN ended : ended[m] # h
  BY DEF Held, IInv, Ledger, Typed, Past
<1>3. ended \in Seq(Handles) /\ telemetry_queue \in Seq(Handles)  BY DEF IInv, Typed
<1>4. /\ Len(ended) \in Nat /\ DOMAIN ended = 1..Len(ended)
      /\ Len(telemetry_queue) \in Nat /\ DOMAIN telemetry_queue = 1..Len(telemetry_queue)
      /\ Taken \in Nat /\ Len(ended) = Taken + Len(telemetry_queue)
  BY Counts
<1>5. /\ ended' \in Seq(Handles) /\ Len(ended') = Len(ended) + 1
      /\ \A m \in 1..Len(ended) : ended'[m] = ended[m]
      /\ ended'[Len(ended) + 1] = h
  BY <1>1, <1>2, <1>3, AppendProperties
<1>6. /\ telemetry_queue' \in Seq(Handles) /\ Len(telemetry_queue') = Len(telemetry_queue) + 1
      /\ \A m \in 1..Len(telemetry_queue) : telemetry_queue'[m] = telemetry_queue[m]
      /\ telemetry_queue'[Len(telemetry_queue) + 1] = h
  BY <1>1, <1>2, <1>3, AppendProperties
<1>7. DOMAIN ended' = 1..Len(ended) + 1 /\ DOMAIN telemetry_queue' = 1..Len(telemetry_queue) + 1
  BY <1>5, <1>6, LenProperties
<1>8. Taken' = Taken  BY <1>4, <1>5, <1>6 DEF Taken
<1>9. \A m \in 1..Taken : m \in DOMAIN ended /\ ended'[m] = ended[m]  BY <1>4, <1>5
<1>10. Ledger'
  <2>0. Ledger  BY DEF IInv
  <2>1. Queued'
    <3>1. \A n \in 1..Len(telemetry_queue) + 1 : telemetry_queue'[n] = ended'[Taken + n]
      <4> SUFFICES ASSUME NEW n \in 1..Len(telemetry_queue) + 1
                   PROVE  telemetry_queue'[n] = ended'[Taken + n]
        OBVIOUS
      <4>1. CASE n = Len(telemetry_queue) + 1  BY <4>1, <1>4, <1>5, <1>6
      <4>2. CASE n # Len(telemetry_queue) + 1
        <5>1. n \in 1..Len(telemetry_queue) /\ Taken + n \in 1..Len(ended)  BY <4>2, <1>4
        <5>2. telemetry_queue[n] = ended[Taken + n]  BY <5>1, <2>0, <1>4 DEF Ledger, Queued
        <5>3. QED  BY <5>1, <5>2, <1>5, <1>6
      <4>3. QED  BY <4>1, <4>2
    <3>2. QED  BY <3>1, <1>4, <1>7, <1>8 DEF Queued
  <2>2. EndsOnce'
    BY <2>0, <1>2, <1>4, <1>5, <1>7 DEF Ledger, EndsOnce
  <2>3. Dead'
    BY <2>0, <1>1, <1>8, <1>9 DEF Ledger, Dead, Alive, managerVars
  <2>4. Past'
    BY <2>0, <1>1, <1>2, <1>4, <1>5, <1>7 DEF Ledger, Past, managerVars
  <2>5. Told'
    BY <2>0, <1>1, <1>8, <1>9 DEF Ledger, Told
  <2>6. InOrder'
    <3> SUFFICES ASSUME NEW i \in DOMAIN events, NEW j \in DOMAIN events,
                        NEW m \in 1..Len(ended) + 1, NEW n \in 1..Len(ended) + 1,
                        i < j, events[i].handle = ended'[m], events[j].handle = ended'[n]
                 PROVE  m < n
      BY <1>1, <1>7 DEF InOrder
    <3>1. /\ \E p \in 1..Taken : events[i].handle = ended[p]
          /\ \E p \in 1..Taken : events[j].handle = ended[p]
      BY <2>0 DEF Ledger, Told
    <3>2. m # Len(ended) + 1 /\ n # Len(ended) + 1  BY <3>1, <1>2, <1>5, <1>9
    <3>3. m \in DOMAIN ended /\ n \in DOMAIN ended /\ ended'[m] = ended[m] /\ ended'[n] = ended[n]
      BY <3>2, <1>4, <1>5
    <3>4. QED  BY <3>3, <2>0 DEF Ledger, InOrder
  <2>7. QED  BY <2>1, <2>2, <2>3, <2>4, <2>5, <2>6 DEF Ledger
<1>11. Typed'  BY <1>1, <1>5, <1>6 DEF IInv, Typed, managerVars
<1>12. Stacked' /\ InPump' = InPump /\ Owed' = Owed /\ free_slots' = free_slots
  BY <1>1 DEF IInv, Stacked, InPump, Owed, managerVars
<1>13. Pumping'
  <2> SUFFICES ASSUME InPump PROVE Pumping'  BY <1>12 DEF Pumping
  <2>1. Pumping  BY DEF IInv
  <2>2. PICK b \in 0..Taken - scratch_size :
          /\ stack[1].pc = "reclaim" => b + scratch_size = Taken
          /\ \A n \in 1..scratch_size : ended_scratch[n] = ended[b + n]
          /\ \A e \in DOMAIN events : \E m \in 1..b + stack[1].i - 1 : events[e].handle = ended[m]
    BY <2>1 DEF Pumping, Batch
  <2>3. \A n \in 1..scratch_size : ended_scratch[n] = ended'[b + n]
    <3>1. scratch_size \in Nat  BY Counts
    <3>2. \A n \in 1..scratch_size : b + n \in 1..Taken  BY <3>1, <1>4
    <3>3. QED  BY <3>2, <2>2, <1>9
  <2>4. \A e \in DOMAIN events : \E m \in 1..b + stack[1].i - 1 : events[e].handle = ended'[m]
    <3> SUFFICES ASSUME NEW e \in DOMAIN events
                 PROVE  \E m \in 1..b + stack[1].i - 1 : events[e].handle = ended'[m]
      OBVIOUS
    <3>1. PICK m \in 1..b + stack[1].i - 1 : events[e].handle = ended[m]  BY <2>2
    <3>2. m \in 1..Len(ended)
      <4>1. stack[1] \in PumpFrames
        <5>1. stack # << >> /\ stack[1].pc # "spawn"  BY DEF InPump
        <5>2. QED  BY <5>1, Frames DEF IInv
      <4>2. scratch_size \in Nat /\ stack[1].i \in Nat  BY <4>1, Counts DEF PumpFrames
      <4>3. stack[1].i <= scratch_size + 1  BY <2>1, <4>2 DEF Pumping
      <4>4. QED  BY <4>2, <4>3, <1>4
    <3>3. QED  BY <3>1, <3>2, <1>5
  <2>5. Batch'  BY <2>2, <2>3, <2>4, <1>1, <1>8 DEF Batch
  <2>6. QED  BY <2>1, <2>5, <1>1 DEF Pumping, Reported
<1>14. QED  BY <1>10, <1>11, <1>12, <1>13 DEF IInv

-----------------------------------------------------------------------------
(* spawn().                                                                 *)

LEMMA CallSpawnInv == ASSUME IInv, NEW id \in Blueprints, CallSpawn(id) PROVE IInv'
<1> DEFINE g == SpawnFrame(id)
           f == [stack[1] EXCEPT !.respawned = TRUE]
<1>1. UNCHANGED <<managerVars, telemetry_queue, slot_blueprint, ended_scratch, scratch_size, hostVars>>
  BY DEF CallSpawn
<1>2. Ledger' /\ Typed'  BY <1>1, LedgerStays, TypedStays DEF IInv
<1>3. g \in SpawnFrames /\ g.pc = "spawn"  BY DEF SpawnFrame, SpawnFrames
<1>4. CASE stack = << >>
  <2>1. stack' = <<g>>  BY <1>4 DEF CallSpawn
  <2>2. /\ stack' \in Seq(PumpFrames \cup SpawnFrames) /\ Len(stack') = 1
        /\ stack'[1] = g /\ stack' # << >>
    <3>1. << >> \in Seq(PumpFrames \cup SpawnFrames) /\ stack' = Append(<< >>, g)
      BY <2>1, EmptySeq
    <3>2. QED  BY <3>1, <1>3, CallBegins
  <2>3. Stacked' /\ ~InPump'  BY <2>2, <1>3 DEF Stacked, InPump
  <2>4. Owed' = 0 /\ Pumping' /\ Len(free_slots') \in Nat
    BY <2>3, <1>1, Counts DEF Owed, Pumping, managerVars
  <2>5. QED  BY <2>3, <2>4, <1>2 DEF IInv
<1>5. CASE stack # << >>
  <2>1. Top.pc = "callback" /\ ~Top.respawned
        /\ stack' = Append([stack EXCEPT ![Len(stack)].respawned = TRUE], g)
    BY <1>5 DEF CallSpawn, HostMayCall, TopIs
  <2>2. /\ Len(stack) = 1 /\ Top = stack[1] /\ stack[1] \in PumpFrames /\ InPump
        /\ stack \in Seq(PumpFrames \cup SpawnFrames)
    BY <2>1, <1>5, Frames DEF IInv
  <2>3. /\ f \in PumpFrames /\ f.pc = "callback" /\ f.respawned = TRUE
        /\ f.i = stack[1].i /\ f.end = stack[1].end
    BY <2>1, <2>2 DEF PumpFrames
  <2>4. [stack EXCEPT ![Len(stack)].respawned = TRUE] = [stack EXCEPT ![1] = f]
    BY <2>2
  <2> HIDE DEF f, g
  <2>5. /\ stack' \in Seq(PumpFrames \cup SpawnFrames) /\ Len(stack') = 2
        /\ stack'[1] = f /\ stack'[2] = g /\ stack' # << >>
    <3>1. f \in PumpFrames \cup SpawnFrames /\ g \in PumpFrames \cup SpawnFrames
      BY <2>3, <1>3
    <3>2. stack' = Append([stack EXCEPT ![1] = f], g)  BY <2>1, <2>4
    <3>3. QED  BY <3>1, <3>2, <2>2, CallNests
  <2>6. Stacked'  BY <2>3, <2>5, <1>3 DEF Stacked
  <2>7. InPump'  BY <2>3, <2>5 DEF InPump
  <2>8. Pumping'
    <3>1. Pumping  BY DEF IInv
    <3>2. PICK b \in 0..Taken - scratch_size :
            /\ \A n \in 1..scratch_size : ended_scratch[n] = ended[b + n]
            /\ \A e \in DOMAIN events : \E m \in 1..b + stack[1].i - 1 : events[e].handle = ended[m]
      BY <3>1, <2>2 DEF Pumping, Batch
    <3>3. Batch'
      BY <3>2, <2>3, <2>5, <1>1 DEF Batch, Taken, hostVars
    <3>4. QED  BY <3>1, <3>3, <2>1, <2>2, <2>3, <2>5, <1>1 DEF Pumping, Reported, hostVars
  <2>9. Owed' = Owed /\ free_slots' = free_slots
    BY <2>1, <2>2, <2>3, <2>5, <2>7, <1>1 DEF Owed, managerVars
  <2>10. QED  BY <1>2, <2>6, <2>8, <2>9 DEF IInv
<1>6. QED  BY <1>4, <1>5

\* A spawn made by a callback returns to it.
LEMMA NestedReturns ==
  ASSUME IInv, stack # << >>, Top.pc = "spawn", Len(stack) = 2, Return,
         Typed', Ledger', Len(free_slots') >= Len(free_slots) - 1, Len(free_slots') \in Nat,
         UNCHANGED <<telemetry_queue, ended_scratch, scratch_size, events, ended>>
  PROVE  IInv'
<1>1. /\ stack \in Seq(PumpFrames \cup SpawnFrames) /\ stack[1] \in PumpFrames /\ InPump
      /\ stack[1].pc = "callback" /\ stack[1].respawned
  BY Frames DEF IInv, Stacked
<1>2. stack' \in Seq(PumpFrames \cup SpawnFrames) /\ Len(stack') = 1 /\ stack'[1] = stack[1]
  <2>1. stack' = SubSeq(stack, 1, 1)  BY DEF Return
  <2>2. \A i \in 1..1 : stack[i] \in PumpFrames \cup SpawnFrames  BY <1>1
  <2>3. QED  BY <2>1, <2>2, SubSeqProperties
<1>3. stack' # << >>  BY <1>2, EmptySeq
<1>4. Stacked' /\ InPump'  BY <1>1, <1>2, <1>3 DEF Stacked, InPump
<1>5. Pumping'
  <2>1. Pumping  BY DEF IInv
  <2>2. Batch'
    BY <2>1, <1>1, <1>2 DEF Pumping, Batch, Taken
  <2>3. QED  BY <2>1, <2>2, <1>1, <1>2 DEF Pumping, Reported
<1>6. Len(free_slots') >= Owed'
  <2>1. scratch_size \in Nat /\ Len(free_slots) \in Nat /\ stack[1].i \in Nat
    BY <1>1, Counts DEF PumpFrames
  <2>2. Owed = scratch_size + 1 - stack[1].i + 1  BY <1>1, <2>1 DEF Owed
  <2>3. Owed' = scratch_size + 1 - stack[1].i  BY <1>1, <1>2, <1>4, <2>1 DEF Owed
  <2>4. QED  BY <2>1, <2>2, <2>3 DEF IInv
<1>7. QED  BY <1>4, <1>5, <1>6 DEF IInv

\* A spawn the host made returns.
LEMMA SpawnReturns ==
  ASSUME IInv, stack # << >>, Top.pc = "spawn", Return,
         Typed', Ledger', Len(free_slots') >= Len(free_slots) - 1, Len(free_slots') \in Nat,
         UNCHANGED <<telemetry_queue, ended_scratch, scratch_size, events, ended>>
  PROVE  IInv'
<1>1. CASE Len(stack) = 2  BY <1>1, NestedReturns
<1>2. CASE Len(stack) = 1
  <2>1. stack' = << >>  BY <1>2, CallGoesOn DEF IInv
  <2>2. Stacked' /\ ~InPump'  BY <2>1, EmptySeq DEF Stacked, InPump
  <2>3. QED  BY <2>2 DEF IInv, Pumping, Owed
<1>3. QED  BY <1>1, <1>2, Frames DEF IInv

LEMMA SpawnFailsInv == ASSUME IInv, SpawnFails PROVE IInv'
<1>1. stack # << >> /\ Top.pc = "spawn" /\ Return  BY DEF SpawnFails, TopIs
<1>2. Typed' /\ Ledger'  BY LedgerStays, TypedStays DEF IInv, SpawnFails
<1>3. UNCHANGED <<free_slots, telemetry_queue, ended_scratch, scratch_size, events, ended>>
  BY DEF SpawnFails, managerVars, hostVars
<1>4. QED  BY <1>1, <1>2, <1>3, Counts, SpawnReturns

LEMMA SpawnCreatesInv == ASSUME IInv, SpawnCreates PROVE IInv'
<1> DEFINE h == NewHandle
           g == next_generation
<1>1. stack # << >> /\ Top.pc = "spawn" /\ Return /\ free_slots # << >>
  BY DEF SpawnCreates, TopIs
<1>2. /\ generation' = [generation EXCEPT ![h.slot] = g]
      /\ built' = [built EXCEPT ![h.slot] = TRUE]
      /\ next_generation' = g + 1
      /\ free_slots' = SubSeq(free_slots, 1, Len(free_slots) - 1)
      /\ slot_blueprint' = [slot_blueprint EXCEPT ![h.slot] = Top.id]
      /\ given' = given \cup {Voice(h, Top.id)}
      /\ UNCHANGED <<telemetry_queue, ended_scratch, scratch_size, events, ended>>
  BY DEF SpawnCreates
<1>3. free_slots \in Seq(Slots) /\ Len(free_slots) \in Nat \ {0} /\ g \in Nat
  <2>1. free_slots \in Seq(Slots) /\ g \in Nat  BY DEF IInv, Typed
  <2>2. QED  BY <2>1, <1>1, EmptySeq
<1>4. h \in Handles /\ h.slot \in Slots /\ h.generation = g
  <2>1. free_slots[Len(free_slots)] \in Slots
    <3>1. Len(free_slots) \in 1..Len(free_slots)  BY <1>3
    <3>2. QED  BY <3>1, <1>3, ElementOfSeq
  <2>2. QED  BY <2>1, <1>3 DEF NewHandle, Handles
<1>5. Top.id \in Blueprints
  <2>1. Top \in SpawnFrames  BY <1>1, Frames DEF IInv
  <2>2. QED  BY <2>1 DEF SpawnFrames
<1> HIDE DEF h, g
<1>6. free_slots' \in Seq(Slots) /\ Len(free_slots') = Len(free_slots) - 1
  <2> DEFINE n == Len(free_slots)
  <2>1. n \in Nat \ {0} /\ free_slots' = SubSeq(free_slots, 1, n - 1)  BY <1>2, <1>3
  <2>2. \A i \in 1..n - 1 : free_slots[i] \in Slots
    <3>1. \A i \in 1..n - 1 : i \in 1..Len(free_slots)  BY <1>3
    <3>2. QED  BY <3>1, <1>3, ElementOfSeq
  <2> HIDE DEF n
  <2>3. /\ free_slots' \in Seq(Slots)
        /\ Len(free_slots') = IF 1 <= n - 1 THEN n - 1 - 1 + 1 ELSE 0
    BY <2>1, <2>2, SubSeqProperties
  <2> DEFINE m == Len(free_slots')
  <2>4. m = (IF 1 <= n - 1 THEN n - 1 - 1 + 1 ELSE 0) /\ m \in Nat
    BY <2>3, LenProperties
  <2> HIDE DEF m
  <2>5. m = n - 1  BY <2>1, <2>4
  <2>6. QED  BY <2>3, <2>5 DEF n, m
<1>7. Typed'
  <2>1. Voice(h, Top.id) \in [handle : Handles, blueprint : Blueprints]
    BY <1>4, <1>5 DEF Voice
  <2>2. given' \subseteq [handle : Handles, blueprint : Blueprints]
    BY <2>1, <1>2 DEF IInv, Typed
  <2>3. generation' \in [Slots -> Nat] /\ built' \in [Slots -> BOOLEAN]
    BY <1>2, <1>3, <1>4 DEF IInv, Typed
  <2>4. slot_blueprint' \in [Slots -> Blueprints \cup {invalid_blueprint}]
    BY <1>2, <1>4, <1>5 DEF IInv, Typed
  <2>5. QED  BY SMTT(30), <2>2, <2>3, <2>4, <1>2, <1>3, <1>6 DEF IInv, Typed
<1>8. Taken' = Taken  BY <1>2 DEF Taken
<1>9. Ledger'
  <2>0. Ledger  BY DEF IInv
  <2>1. Queued' /\ EndsOnce' /\ Told' /\ InOrder'
    BY <2>0, <1>2, <1>8 DEF Ledger, Queued, EndsOnce, Told, InOrder
  <2>2. \A m \in DOMAIN ended : ended[m] \in Handles /\ ended[m].generation < g
    <3>1. \A m \in DOMAIN ended : ended[m] \in Handles
      BY Counts, ElementOfSeq DEF IInv, Typed
    <3>2. QED  BY <3>1, <2>0 DEF Ledger, Past, g
  <2>3. Past'
    <3>1. \A v \in given : v.handle.generation \in Nat /\ v.handle.generation < g
      BY <2>0 DEF Ledger, Past, IInv, Typed, Handles, g
    <3>2. Voice(h, Top.id).handle.generation = g  BY <1>4 DEF Voice
    <3>3. \A x \in Nat : x < g => x < g + 1  BY <1>3
    <3>4. \A v \in given' : v.handle.generation < g + 1
      BY <3>1, <3>2, <3>3, <1>2, <1>3
    <3>5. \A m \in DOMAIN ended : ended[m].generation < g + 1
      BY <2>2, <3>3 DEF Handles
    <3>6. QED  BY <3>4, <3>5, <1>2 DEF Past
  <2>4. Dead'
    <3> SUFFICES ASSUME NEW m \in 1..Taken PROVE ~Alive(ended[m])'
      BY <1>2, <1>8 DEF Dead
    <3>1. m \in DOMAIN ended
      BY Counts
    <3>2. ended[m].slot \in Slots /\ ended[m].generation \in Nat /\ ended[m].generation < g
      BY <3>1, <2>2 DEF Handles
    <3>3. ~Alive(ended[m])  BY <2>0 DEF Ledger, Dead
    <3>4. QED  BY <3>2, <3>3, <1>2, <1>3, <1>4 DEF Alive, IInv, Typed
  <2>5. QED  BY <2>1, <2>3, <2>4 DEF Ledger
<1>10. QED
  <2>1. Len(free_slots') \in Nat /\ Len(free_slots') >= Len(free_slots) - 1  BY <1>3, <1>6
  <2>2. QED  BY <2>1, <1>1, <1>2, <1>7, <1>9, SpawnReturns

-----------------------------------------------------------------------------
(* The theorems.                                                            *)

LEMMA InvStays == IInv /\ CallbacksDoNotPump /\ [Next]_vars => IInv'
<1> SUFFICES ASSUME IInv, CallbacksDoNotPump, [Next]_vars PROVE IInv'  OBVIOUS
<1>1. CASE PumpReclaimOne  BY <1>1, PumpReclaimOneInv
<1>2. CASE PumpReclaimed  BY <1>2, PumpReclaimedInv
<1>3. CASE ReportOne  BY <1>3, ReportOneInv
<1>4. CASE CallbackReturns  BY <1>4, CallbackReturnsInv
<1>5. CASE PumpReturns  BY <1>5, PumpReturnsInv
<1>6. CASE SpawnReclaimOne  BY <1>6, SpawnReclaimOneInv
<1>7. CASE SpawnFails  BY <1>7, SpawnFailsInv
<1>8. CASE SpawnCreates  BY <1>8, SpawnCreatesInv
<1>9. CASE CallPump  BY <1>9, CallPumpInv
<1>10. CASE \E id \in Blueprints : CallSpawn(id)  BY <1>10, CallSpawnInv
<1>11. CASE \E h \in Held : EndVoice(h)  BY <1>11, EndVoiceInv
<1>12. CASE UNCHANGED vars
  <2>1. Typed' /\ Ledger'  BY <1>12, LedgerStays, TypedStays DEF IInv, vars
  <2>2. UNCHANGED <<managerVars, telemetry_queue, ended_scratch, scratch_size, stack, hostVars>>
    BY <1>12 DEF vars
  <2>3. Stacked' /\ Owed' = Owed /\ free_slots' = free_slots
    BY <2>2 DEF IInv, Stacked, InPump, Owed, managerVars
  <2>4. Pumping'
    BY <2>2 DEF IInv, Pumping, Batch, InPump, Taken, Reported, hostVars
  <2>5. QED  BY <2>1, <2>3, <2>4 DEF IInv
<1>13. QED
  BY <1>1, <1>2, <1>3, <1>4, <1>5, <1>6, <1>7, <1>8, <1>9, <1>10, <1>11, <1>12 DEF Next, GoOn

\* The invariant: a pump's batch is a run of the ends, those it has told of come
\* first in it, and a slot is free for each it has still to tell of.
THEOREM Invariance ==
  ASSUME CallbacksDoNotPump PROVE Spec => []IInv
<1>1. Init => IInv  BY InvStarts
<1>2. IInv /\ [Next]_vars => IInv'  BY InvStays
<1>3. QED  BY <1>1, <1>2, PTL DEF Spec

\* Events come in the order of the ends, at most one for each, and what they name
\* is dead, whatever the callback spawns into the slots that are free again.
THEOREM EventsComeInOrder ==
  ASSUME CallbacksDoNotPump PROVE Spec => []EventsInOrder
<1>1. IInv => EventsInOrder
  <2> SUFFICES ASSUME IInv PROVE EventsInOrder  OBVIOUS
  <2>1. InOrder /\ Told /\ Dead  BY DEF IInv, Ledger
  <2>2. \A h \in Reported : ~Alive(h)  BY <2>1 DEF Reported, Told, Dead
  <2>3. QED  BY <2>1, <2>2 DEF EventsInOrder, InOrder
<1>2. QED  BY <1>1, Invariance, PTL

\* When pump() returns it has reported every event it reclaimed.
THEOREM PumpReportsItsBatch ==
  ASSUME CallbacksDoNotPump PROVE Spec => BatchIsReported
<1>1. IInv /\ [Next]_vars =>
        [PumpReturns => \A n \in 1..scratch_size : ended_scratch[n] \in Reported]_vars
  <2> SUFFICES ASSUME IInv, PumpReturns
               PROVE  \A n \in 1..scratch_size : ended_scratch[n] \in Reported
    OBVIOUS
  <2>1. stack # << >> /\ Top.pc = "report" /\ Top.i > Top.end  BY DEF PumpReturns, TopIs
  <2>2. InPump /\ Top = stack[1] /\ Top \in PumpFrames  BY <2>1, Frames DEF IInv
  <2>3. Top.end = scratch_size /\ \A n \in 1..Top.i - 1 : ended_scratch[n] \in Reported
    BY <2>1, <2>2 DEF IInv, Pumping
  <2>4. Top.i \in Nat /\ scratch_size \in Nat  BY <2>2, Counts DEF PumpFrames
  <2>5. QED  BY <2>1, <2>3, <2>4
<1>2. QED  BY <1>1, Invariance, PTL DEF Spec, BatchIsReported

\* A callback's spawn finds a slot: pump() recycled its whole batch before it
\* called back, and a callback asks for one replacement.
THEOREM ReplacementsFit ==
  ASSUME CallbacksDoNotPump PROVE Spec => ReplacementFits
<1>1. IInv /\ [Next]_vars => [SpawnFails => Len(stack) = 1]_vars
  <2> SUFFICES ASSUME IInv, SpawnFails PROVE Len(stack) = 1  OBVIOUS
  <2>1. stack # << >> /\ Top.pc = "spawn" /\ free_slots = << >>  BY DEF SpawnFails, TopIs
  <2>2. CASE Len(stack) = 2
    <3>1. /\ stack[1] \in PumpFrames /\ InPump /\ stack[1].pc = "callback"
          /\ stack[1].i <= scratch_size + 1
      BY <2>1, <2>2, Frames DEF IInv, Stacked, Pumping
    <3>2. stack[1].i \in Nat /\ scratch_size \in Nat /\ Len(free_slots) = 0
      BY <2>1, <3>1, Counts, EmptySeq DEF PumpFrames
    <3>3. Owed = scratch_size + 1 - stack[1].i + 1  BY <2>2, <3>1, <3>2 DEF Owed
    <3>4. QED  BY <3>1, <3>2, <3>3 DEF IInv
  <2>3. QED  BY <2>1, <2>2, Frames DEF IInv
<1>2. QED  BY <1>1, Invariance, PTL DEF Spec, ReplacementFits
=============================================================================
