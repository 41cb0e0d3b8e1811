-------------------------- MODULE EngineVoices_proofs --------------------------
(***************************************************************************)
(* What the engine keeps true of its voices: routes, handles, parameters   *)
(* and lifetime policies.  Each invariant is shown inductive relative to   *)
(* IInv, the ownership of slots proved in Engine_proofs.  Last, that the   *)
(* engine implements VoiceLifecycle.                                       *)
(***************************************************************************)
EXTENDS Engine_proofs

-----------------------------------------------------------------------------
(* What the steps do, action by action, in the terms the proofs below use. *)

\* The elements of a sequence that lost its head, or gained a last one.
LEMMA TailElements ==
  ASSUME NEW S, NEW q \in Seq(S), q # << >>, NEW p, p = Tail(q)
  PROVE  \A i \in 1..Len(p) : i + 1 \in 1..Len(q) /\ p[i] = q[i + 1]
<1>1. Len(q) \in Nat /\ Len(q) >= 1 /\ Len(p) = Len(q) - 1
      /\ \A i \in 1..Len(q) - 1 : p[i] = q[i + 1]
  BY TailAt
<1>2. QED  BY <1>1

LEMMA AppendElements ==
  ASSUME NEW S, NEW q \in Seq(S), NEW e \in S, NEW p, p = Append(q, e)
  PROVE  /\ \A i \in 1..Len(p) : (i \in 1..Len(q) /\ p[i] = q[i]) \/ (i = Len(q) + 1 /\ p[i] = e)
         /\ \A i \in 1..Len(q) : i \in 1..Len(p) /\ p[i] = q[i]
         /\ Len(q) + 1 \in 1..Len(p) /\ p[Len(q) + 1] = e
<1>1. /\ Len(p) = Len(q) + 1 /\ Len(q) \in Nat
      /\ \A i \in 1..Len(q) : p[i] = q[i]
      /\ p[Len(q) + 1] = e
  BY AppendProperties
<1>2. QED  BY <1>1

\* spawn() takes a slot that is free, so in no other place, and idle.
LEMMA CreateDoes ==
  ASSUME IInv, Create
  PROVE  \E idx \in Slots :
         LET h == [slot |-> idx, generation |-> next_generation] IN
         /\ Has(free_slots, idx) /\ ~Activating(idx) /\ active_gen[idx] = 0 /\ ~EndedHas(idx)
         /\ \A s \in Slots : s # idx => slots'[s] = slots[s]
         /\ slots'[idx] = [built |-> TRUE, finished_flag |-> FALSE, target |-> 0,
                           generation |-> next_generation, life |-> ctl.life,
                           age_blocks |-> 0, silent_run |-> 0]
         /\ \A s \in Slots : Has(free_slots', s) <=> Has(free_slots, s) /\ s # idx
         /\ h \in Handle
         /\ command_queue' =
              Append(command_queue, [type |-> "activate", handle |-> h, dest |-> Master])
         /\ [type |-> "activate", handle |-> h, dest |-> Master] \in Command
         /\ issued' = issued \cup {h} /\ next_generation' = NextGen(next_generation)
         /\ ctl' = IF ctl.routed THEN [ctl EXCEPT !.pc = "connect", !.h = h] ELSE AtRest
         /\ UNCHANGED <<telemetry_queue, audioVars>>
<1> USE DEF IInv
<1> DEFINE idx == free_slots[Len(free_slots)]
           h == [slot |-> idx, generation |-> next_generation]
           c == [type |-> "activate", handle |-> h, dest |-> Master]
<1>1. free_slots \in Seq(Slots) /\ free_slots # << >> /\ Once(free_slots)
  BY DEF Create, TypeOK, OwnedOnce
<1>2. idx \in Slots /\ Has(free_slots, idx)
  <2>1. Len(free_slots) \in 1..Len(free_slots)  BY <1>1, EmptySeq
  <2>2. QED  BY <2>1, <1>1, ElementOfSeq DEF Has
<1>3. \A s \in Slots : Has(free_slots', s) <=> Has(free_slots, s) /\ s # idx
  BY <1>1, FrontHas DEF Create
<1>4. ~Activating(idx) /\ active_gen[idx] = 0 /\ ~EndedHas(idx)
  BY <1>2 DEF OwnedByOne, HandedOver
<1>5. h \in Handle /\ c \in Command
  <2>1. next_generation \in Generations  BY DEF TypeOK
  <2>2. h \in Handle  BY <1>2, <2>1 DEF Handle
  <2>3. "activate" \in CommandTypes /\ Master \in Target  BY ConstantTypes DEF CommandTypes
  <2>4. QED  BY <2>2, <2>3 DEF Command
<1>6. /\ slots' = [slots EXCEPT ![idx] =
                     [built |-> TRUE, finished_flag |-> FALSE, target |-> 0,
                      generation |-> next_generation, life |-> ctl.life,
                      age_blocks |-> 0, silent_run |-> 0]]
      /\ issued' = issued \cup {h} /\ next_generation' = NextGen(next_generation)
      /\ ctl' = IF ctl.routed THEN [ctl EXCEPT !.pc = "connect", !.h = h] ELSE AtRest
      /\ command_queue' = Append(command_queue, c)
      /\ UNCHANGED <<telemetry_queue, audioVars>>
  BY DEF Create, Enqueue
<1>7. DOMAIN slots = Slots  BY DEF TypeOK
<1> HIDE DEF idx
<1>8. QED  BY <1>2, <1>3, <1>4, <1>5, <1>6, <1>7

\* reclaim() recycles the slot of the oldest event; it is in no other place.
LEMMA ReclaimOneDoes ==
  ASSUME IInv, ReclaimOne
  PROVE  \E slot \in Slots :
         /\ slot = telemetry_queue[1].slot /\ 1 \in 1..Len(telemetry_queue)
         /\ ~Has(free_slots, slot) /\ ~Activating(slot) /\ active_gen[slot] = 0
         /\ \A s \in Slots : s # slot => slots'[s] = slots[s]
         /\ slots'[slot] = Emptied(slots[slot])
         /\ \A s \in Slots : Has(free_slots', s) <=> Has(free_slots, s) \/ s = slot
         /\ telemetry_queue' = Tail(telemetry_queue)
         /\ \A i \in 1..Len(telemetry_queue') :
              /\ i + 1 \in 1..Len(telemetry_queue)
              /\ telemetry_queue'[i] = telemetry_queue[i + 1]
              /\ telemetry_queue'[i].slot # slot
         /\ UNCHANGED <<next_generation, ctl, issued, command_queue, audioVars>>
<1> USE DEF IInv
<1> DEFINE slot == Head(telemetry_queue).slot
<1>1. /\ telemetry_queue \in Seq(Ended) /\ telemetry_queue # << >> /\ EndedOnce
      /\ telemetry_queue' = Tail(telemetry_queue)
      /\ UNCHANGED <<next_generation, ctl, issued, command_queue, audioVars>>
  BY DEF ReclaimOne, TypeOK, OwnedOnce, EndedOnce
<1>2. /\ EndedHas(slot) /\ slot \in Slots
      /\ \A s \in Slots : EndedHas(s)' <=> EndedHas(s) /\ s # slot
      /\ telemetry_queue' \in Seq(Ended)
  BY <1>1, EndedTaken DEF Ended
<1>3. Head(telemetry_queue) = telemetry_queue[1] /\ 1 \in 1..Len(telemetry_queue)
  BY <1>1, TailAt
<1>4. \A i \in 1..Len(telemetry_queue') : /\ i + 1 \in 1..Len(telemetry_queue)
                                          /\ telemetry_queue'[i] = telemetry_queue[i + 1]
  BY <1>1, TailElements
<1>5. \A i \in 1..Len(telemetry_queue') : telemetry_queue'[i].slot # slot
  BY <1>2 DEF EndedHas
<1>6. ~Has(free_slots, slot) /\ ~Activating(slot) /\ active_gen[slot] = 0
  BY <1>2 DEF OwnedByOne, HandedOver
<1>7. /\ slots' = [slots EXCEPT ![slot] = Emptied(@)]
      /\ free_slots' = Append(free_slots, slot)
  BY DEF ReclaimOne, Recycle
<1>8. slots \in [Slots -> SlotRecord] /\ free_slots \in Seq(Slots)
  BY DEF TypeOK, SlotRecord
<1>9. \A s \in Slots : Has(free_slots', s) <=> Has(free_slots, s) \/ s = slot
  BY <1>2, <1>7, <1>8, AppendHas
<1>10. slot = telemetry_queue[1].slot  BY <1>3
<1> HIDE DEF slot
<1>11. /\ slots'[slot] = Emptied(slots[slot])
       /\ \A s \in Slots : s # slot => slots'[s] = slots[s]
  BY <1>2, <1>7, <1>8
<1>12. QED  BY <1>1, <1>2, <1>3, <1>4, <1>5, <1>6, <1>9, <1>10, <1>11

\* The control thread's other steps enqueue one command that is no `activate`,
\* or none, and no step names the null handle.
ControlCalls ==
  /\ UNCHANGED <<slots, free_slots, next_generation, issued, telemetry_queue, audioVars>>
  /\ Names(ctl.dest) => Names(ctl'.dest)
  /\ ctl'.pc = "spawn" => Cardinality(issued) < MaxSpawns
  /\ \/ UNCHANGED command_queue
     \/ \E c \in Command : /\ command_queue' = Append(command_queue, c)
                           /\ c.type # "activate" /\ (Names(ctl.dest) => Names(c.dest))

LEMMA MovesOn ==
  ASSUME UNCHANGED <<slots, free_slots, next_generation, issued,
                     command_queue, telemetry_queue, audioVars>>,
         ctl' = AtRest
  PROVE  ControlCalls
<1>1. AtRest.pc = "idle" /\ AtRest.dest = Master  BY DEF AtRest
<1>2. Names(Master)  BY DEF Names, Master
<1>3. QED  BY <1>1, <1>2 DEF ControlCalls

LEMMA SpawnCalls ==
  ASSUME NEW life \in Policies, NEW dest, Names(dest), NEW routed, Spawn(life, dest, routed)
  PROVE  ControlCalls
<1>1. ctl' = [AtRest EXCEPT !.pc = "spawn", !.life = life, !.dest = dest, !.routed = routed]
      /\ Cardinality(issued) < MaxSpawns
      /\ UNCHANGED <<slots, free_slots, next_generation, issued,
                     command_queue, telemetry_queue, audioVars>>
  BY DEF Spawn
<1>2. ctl'.dest = dest  BY <1>1 DEF AtRest
<1>3. QED  BY <1>1, <1>2 DEF ControlCalls

LEMMA SendCalls ==
  ASSUME IInv, NEW type \in CommandTypes \ {"activate"}, NEW h \in Handle,
         NEW dest \in Target, Names(dest), Send(type, h, dest)
  PROVE  ControlCalls
<1> DEFINE c == [type |-> type, handle |-> h, dest |-> dest]
<1>1. c \in Command /\ c.type # "activate" /\ c.dest = dest  BY DEF Command
<1>2. command_queue' = Append(command_queue, c) /\ UNCHANGED <<controlVars, telemetry_queue, audioVars>>
  BY DEF Send, Enqueue
<1>3. ctl.pc = "idle"  BY DEF Send, Idle
<1> HIDE DEF c
<1>4. QED  BY <1>1, <1>2, <1>3 DEF ControlCalls, controlVars

LEMMA ControlDoes ==
  ASSUME IInv, ControlStep
  PROVE  Create \/ ReclaimOne \/ ControlCalls
<1>1. \A h \in issued : h \in Handle /\ h.generation # 0
  BY DEF IInv, TypeOK, Handle
<1>2. \A dest \in Dests : dest \in Target /\ Names(dest)
  <2>1. \A h \in issued : To(h) \in Target /\ Names(To(h))  BY <1>1 DEF To, Target, Names
  <2>2. \A dest \in Dests : dest = Master \/ \E h \in issued : dest = To(h)
    BY DEF Dests
  <2>3. Names(Master)  BY DEF Names, Master
  <2>4. QED  BY <2>1, <2>2, <2>3, ConstantTypes
<1>3. {"kill", "set_parameter", "connect", "disconnect"} \subseteq CommandTypes \ {"activate"}
  BY DEF CommandTypes
<1>4. Master \in Dests  BY DEF Dests
<1>5. CASE ReclaimReturns \/ SpawnExhausted
  BY <1>5, MovesOn DEF ReclaimReturns, SpawnExhausted
<1>6. CASE SpawnConnect
  <2> DEFINE c == [type |-> "connect", handle |-> ctl.h, dest |-> ctl.dest]
  <2>1. c \in Command /\ c.type # "activate" /\ c.dest = ctl.dest
    BY <1>3 DEF IInv, TypeOK, Command
  <2>2. command_queue' = Append(command_queue, c) /\ ctl' = AtRest
        /\ UNCHANGED <<slots, free_slots, next_generation, issued, telemetry_queue, audioVars>>
    BY <1>6 DEF SpawnConnect, Enqueue
  <2>3. AtRest.pc = "idle" /\ Names(AtRest.dest)  BY DEF AtRest, Names, Master
  <2> HIDE DEF c
  <2>4. QED  BY <2>1, <2>2, <2>3 DEF ControlCalls
<1>7. CASE Reclaim
  <2>1. AtRest.dest = Master /\ Names(Master)  BY DEF AtRest, Names, Master
  <2>2. ctl' = [AtRest EXCEPT !.pc = "reclaim"]
        /\ UNCHANGED <<slots, free_slots, next_generation, issued,
                       command_queue, telemetry_queue, audioVars>>
    BY <1>7 DEF Reclaim
  <2>3. ctl'.dest = Master /\ ctl'.pc = "reclaim"  BY <2>1, <2>2 DEF AtRest
  <2>4. QED  BY <2>1, <2>2, <2>3 DEF ControlCalls
<1>8. CASE \E life \in Policies : Spawn(life, Master, FALSE)
  BY <1>8, <1>2, <1>4, SpawnCalls
<1>9. CASE \E life \in Policies : \E dest \in Dests : Spawn(life, dest, TRUE)
  BY <1>9, <1>2, SpawnCalls
<1>10. CASE \E h \in issued : Kill(h) \/ SetParameter(h)
  BY <1>10, <1>1, <1>2, <1>3, <1>4, SendCalls DEF Kill, SetParameter
<1>11. CASE \E h \in issued : \E dest \in Dests : Connect(h, dest) \/ Disconnect(h, dest)
  BY <1>11, <1>1, <1>2, <1>3, SendCalls DEF Connect, Disconnect
<1>12. QED
  BY <1>5, <1>6, <1>7, <1>8, <1>9, <1>10, <1>11 DEF ControlStep, ControlGoesOn

\* The audio thread changes the slots of active voices only, never what makes a
\* slot a voice, and the parameter only to a value sent to that voice.
LEMMA AudioDoes ==
  ASSUME IInv, AudioStep, NEW s \in Slots
  PROVE  /\ active_gen[s] = 0 => slots'[s] = slots[s]
         /\ slots'[s].built = slots[s].built
         /\ slots'[s].generation = slots[s].generation
         /\ slots'[s].life = slots[s].life
         /\ slots'[s].target \in {slots[s].target, slots[s].generation}
<1> USE DEF IInv
<1>1. slots \in [Slots -> SlotRecord] /\ slots[s] \in SlotRecord
  BY DEF TypeOK, SlotRecord
<1>2. CASE UNCHANGED slots  BY <1>2
<1>3. CASE DrainSetParameter
  <2> DEFINE h == Head(command_queue).handle
  <2>1. h \in Handle /\ h.generation # 0  BY <1>3, CommandRead DEF DrainSetParameter
  <2>2. \/ UNCHANGED slots
        \/ active_gen[h.slot] = h.generation /\ slots' = [slots EXCEPT ![h.slot].target = h.generation]
    BY <1>3 DEF DrainSetParameter
  <2> HIDE DEF h
  <2>3. CASE s = h.slot /\ ~UNCHANGED slots
    <3>1. active_gen[s] = h.generation /\ slots[s].generation = h.generation
      BY <2>1, <2>2, <2>3 DEF HandedOver
    <3>2. slots'[s] = [slots[s] EXCEPT !.target = h.generation]
      BY <2>2, <2>3, <1>1
    <3>3. QED  BY <3>1, <3>2, <2>1, <1>1 DEF SlotRecord
  <2>4. CASE s # h.slot  BY <2>2, <2>4, <1>1
  <2>5. QED  BY <2>3, <2>4, <1>2
<1>4. CASE Compute
  <2>1. PICK raised \in (IF MayFinish THEN SUBSET Active ELSE {{}}) :
          slots' = [x \in Slots |-> IF x \in raised THEN [slots[x] EXCEPT !.finished_flag = TRUE]
                                                    ELSE slots[x]]
    BY <1>4 DEF Compute
  <2>2. s \in raised => active_gen[s] # 0  BY <2>1 DEF Active
  <2>3. slots'[s] = slots[s] \/ (s \in raised /\ slots'[s] = [slots[s] EXCEPT !.finished_flag = TRUE])
    BY <2>1
  <2>4. QED  BY <2>2, <2>3, <1>1 DEF SlotRecord
<1>5. CASE Scan
  <2> DEFINE slot == active_list[cursor]
  <2>1. PICK quiet \in BOOLEAN : slots' = [slots EXCEPT ![slot] = Aged(@, quiet)]
    BY <1>5 DEF Scan
  <2>2. cursor \in 1..Len(active_list)  BY <1>5 DEF Scan, ReapList, TypeOK
  <2>3. slot \in Slots  BY <2>2, ElementOfSeq DEF TypeOK
  <2>4. active_gen[slot] # 0  BY <2>2, <2>3 DEF HandedOver, Has
  <2> HIDE DEF slot
  <2>5. CASE s # slot  BY <2>1, <2>5, <1>1
  <2>6. CASE s = slot
    <3>1. slots'[s] = Aged(slots[s], quiet)  BY <2>1, <2>6, <1>1
    <3>2. Aged(slots[s], quiet) = slots[s] \/
          \E a, r : Aged(slots[s], quiet) = [slots[s] EXCEPT !.age_blocks = a, !.silent_run = r]
      BY DEF Aged
    <3>3. QED  BY <3>1, <3>2, <2>4, <2>6, <1>1 DEF SlotRecord
  <2>7. QED  BY <2>5, <2>6
<1>6. UNCHANGED slots \/ DrainSetParameter \/ Compute \/ Scan
  BY DEF AudioStep, DrainActivate, DrainKill, DrainConnect, DrainDisconnect, ReapOne, EndBlock,
         controlVars
<1>7. QED  BY <1>2, <1>3, <1>4, <1>5, <1>6

\* The audio thread reads commands and enqueues none.
LEMMA AudioReads ==
  ASSUME IInv, AudioStep
  PROVE  /\ UNCHANGED <<free_slots, next_generation, ctl, issued>>
         /\ UNCHANGED command_queue \/ (command_queue # << >> /\ command_queue' = Tail(command_queue))
         /\ \A i \in 1..Len(command_queue') :
              \E j \in 1..Len(command_queue) : command_queue'[i] = command_queue[j]
<1>1. UNCHANGED <<free_slots, next_generation, ctl, issued>>
  BY DEF AudioStep, DrainActivate, DrainKill, DrainSetParameter, DrainConnect, DrainDisconnect,
         Compute, Scan, ReapOne, EndBlock, controlVars
<1>2. \/ UNCHANGED command_queue
      \/ command_queue # << >> /\ command_queue' = Tail(command_queue)
  BY DEF AudioStep, DrainActivate, DrainKill, DrainSetParameter, DrainConnect, DrainDisconnect,
         Dequeue, Compute, Scan, ReapOne, EndBlock
<1>3. command_queue \in Seq(Command)  BY DEF IInv, TypeOK
<1>4. QED  BY <1>1, <1>2, <1>3, TailElements

\* A release ends one active voice: its event, with its generation, is the last.
LEMMA ReleaseDoes ==
  ASSUME IInv, NEW slot \in Slots, NEW why \in Reasons, Has(active_list, slot),
         ReleaseSlot(slot, why)
  PROVE  LET e == [slot |-> slot, generation |-> active_gen[slot], reason |-> why] IN
         /\ e \in Ended /\ telemetry_queue' = Append(telemetry_queue, e)
         /\ active_gen[slot] # 0
         /\ active_gen' = [active_gen EXCEPT ![slot] = 0]
<1> USE DEF IInv
<1>1. ~EndedHas(slot) /\ EndedOnce /\ telemetry_queue \in Seq(Ended)
  BY DEF OwnedByOne, OwnedOnce, EndedOnce, TypeOK
<1>2. Len(telemetry_queue) < TelemetryCap  BY <1>1, RoomForEnded
<1>3. active_gen[slot] \in Generations /\ active_gen[slot] # 0  BY DEF TypeOK, HandedOver
<1>4. QED  BY <1>2, <1>3 DEF ReleaseSlot, Ended

\* Which voice a step of the audio thread activates or releases, if any.
Activates == \E h \in Handle :
  /\ Dequeue("activate") /\ h = Head(command_queue).handle /\ h.generation # 0
  /\ active_gen[h.slot] = 0 /\ Activating(h.slot)
  /\ slots[h.slot].generation = h.generation
  /\ active_gen' = [active_gen EXCEPT ![h.slot] = h.generation]
  /\ active_list' = Append(active_list, h.slot)
  /\ UNCHANGED <<telemetry_queue, routes, slots>>
Releases == \E slot \in Slots : \E why \in Reasons :
  /\ Has(active_list, slot) /\ ReleaseSlot(slot, why)
  /\ UNCHANGED slots
  /\ \/ UNCHANGED <<phase, cursor, reap_scratch>> /\ phase = "drain" /\ Dequeue("kill")
     \/ /\ phase = "scan" /\ UNCHANGED <<phase, cursor, command_queue>>
        /\ cursor > Len(active_list)
        /\ reap_scratch # << >> /\ slot = reap_scratch[1].slot /\ reap_scratch' = Tail(reap_scratch)

LEMMA ActivateDoes == ASSUME IInv, DrainActivate PROVE Activates
<1> USE DEF IInv
<1> DEFINE h == Head(command_queue).handle
<1>1. Dequeue("activate")  BY DEF DrainActivate
<1>2. /\ h \in Handle /\ h.generation # 0 /\ Activating(h.slot)
      /\ slots[h.slot].generation = h.generation
  BY <1>1, CommandRead
<1>3. active_gen[h.slot] = 0  BY <1>2 DEF OwnedByOne, HandedOver, Handle
<1>4. /\ active_gen' = [active_gen EXCEPT ![h.slot] = h.generation]
      /\ active_list' = Append(active_list, h.slot)
      /\ UNCHANGED <<telemetry_queue, routes, slots>>
  BY <1>3 DEF DrainActivate, controlVars
<1>5. QED  BY <1>1, <1>2, <1>3, <1>4 DEF Activates

LEMMA KillDoes ==
  ASSUME IInv, DrainKill
  PROVE  Releases \/ UNCHANGED <<slots, active_gen, active_list, routes, telemetry_queue>>
<1> USE DEF IInv
<1> DEFINE h == Head(command_queue).handle
<1>1. Dequeue("kill") /\ UNCHANGED slots  BY DEF DrainKill, controlVars
<1>2. h \in Handle /\ h.generation # 0  BY <1>1, CommandRead
<1>3. CASE active_gen[h.slot] # h.generation  BY <1>1, <1>3 DEF DrainKill
<1>4. CASE active_gen[h.slot] = h.generation
  <2>1. h.slot \in Slots /\ Has(active_list, h.slot) /\ "killed" \in Reasons
    BY <1>2, <1>4 DEF Handle, HandedOver, Reasons
  <2>2. ReleaseSlot(h.slot, "killed")  BY <1>4 DEF DrainKill
  <2>3. UNCHANGED <<phase, cursor, reap_scratch>> /\ phase = "drain"  BY <1>1 DEF Dequeue
  <2>4. QED  BY <2>1, <2>2, <2>3, <1>1 DEF Releases
<1>5. QED  BY <1>3, <1>4

LEMMA ReapDoes == ASSUME IInv, ReapOne PROVE Releases
<1> USE DEF IInv
<1>1. reap_scratch \in Seq(Reap) /\ reap_scratch # << >>  BY DEF ReapOne, TypeOK
<1>2. Head(reap_scratch) = reap_scratch[1] /\ Head(reap_scratch) \in Reap
      /\ 1 \in 1..Len(reap_scratch)
  BY <1>1, TailAt
<1>3. Has(active_list, reap_scratch[1].slot)  BY <1>2 DEF ReapList, Has
<1>4. QED  BY <1>1, <1>2, <1>3 DEF ReapOne, Releases, Reap, controlVars

\* Every other step of the audio thread leaves the active voices as they are.
LEMMA AudioCases ==
  ASSUME IInv, AudioStep
  PROVE  \/ Activates
         \/ Releases
         \/ UNCHANGED <<active_gen, active_list, telemetry_queue>>
<1>1. DrainActivate \/ DrainKill \/ ReapOne \/ UNCHANGED <<active_gen, active_list, telemetry_queue>>
  BY DEF AudioStep, DrainSetParameter, DrainConnect, DrainDisconnect, Compute, Scan, EndBlock
<1>2. QED  BY <1>1, ActivateDoes, KillDoes, ReapDoes

-----------------------------------------------------------------------------
(* Parameters. *)

\* A value sent to a handle reaches the voice of that handle or none, whatever
\* became of its slot while the command waited in the queue.
LEMMA ParametersStep == IInv /\ NoParameterCrossTalk /\ [Next]_vars => NoParameterCrossTalk'
<1> SUFFICES ASSUME IInv, NoParameterCrossTalk, [Next]_vars, NEW s \in Slots, slots'[s].built
             PROVE  slots'[s].target \in {0, slots'[s].generation}
  BY DEF NoParameterCrossTalk
<1>1. slots[s].built => slots[s].target \in {0, slots[s].generation}
  BY DEF NoParameterCrossTalk
<1>2. CASE UNCHANGED slots  BY <1>1, <1>2
<1>3. CASE AudioStep  BY <1>1, <1>3, AudioDoes
<1>4. CASE Create
  <2>1. PICK idx \in Slots : /\ \A x \in Slots : x # idx => slots'[x] = slots[x]
                             /\ slots'[idx] = [built |-> TRUE, finished_flag |-> FALSE, target |-> 0,
                                               generation |-> next_generation, life |-> ctl.life,
                                               age_blocks |-> 0, silent_run |-> 0]
    BY <1>4, CreateDoes
  <2>2. QED  BY <2>1, <1>1
<1>5. CASE ReclaimOne
  <2>1. PICK slot \in Slots : /\ \A x \in Slots : x # slot => slots'[x] = slots[x]
                              /\ slots'[slot] = Emptied(slots[slot])
    BY <1>5, ReclaimOneDoes
  <2>2. ~slots'[slot].built
    <3>1. slots[slot] \in SlotRecord  BY DEF IInv, TypeOK, SlotRecord
    <3>2. QED  BY <3>1, <2>1 DEF Emptied, SlotRecord
  <2>3. QED  BY <2>1, <2>2, <1>1
<1>6. QED
  BY <1>2, <1>3, <1>4, <1>5, ControlDoes DEF Next, ControlCalls, vars, controlVars

\* A value sent to a handle reaches the voice of that handle or none: the drop of
\* stale set_parameter commands in drain_commands and the reset in recycle()
\* keep a slot's next voice from hearing what was sent to the one before.
THEOREM ParametersDoNotCross == Spec => []NoParameterCrossTalk
<1>1. Init => NoParameterCrossTalk  BY DEF Init, NoParameterCrossTalk
<1>2. QED  BY <1>1, ParametersStep, Invariance, PTL DEF Spec

\* A kill whose handle names no voice changes nothing: if its generation were
\* the active one, its slot would hold the instance of that generation.
THEOREM StaleKillsChangeNothing == Spec => StaleKillsAreDropped
<1>1. ASSUME IInv, DrainKill, ~IsValid(Head(command_queue).handle)
      PROVE  UNCHANGED <<active_gen, active_list, routes, telemetry_queue>>
  <2> DEFINE h == Head(command_queue).handle
  <2>1. h \in Handle /\ h.generation # 0  BY <1>1, CommandRead DEF DrainKill
  <2>2. active_gen[h.slot] # h.generation
    BY <1>1, <2>1 DEF IInv, HandedOver, IsValid, Handle
  <2>3. QED  BY <1>1, <2>2 DEF DrainKill
<1>2. IInv => [DrainKill /\ ~IsValid(Head(command_queue).handle) =>
                 UNCHANGED <<active_gen, active_list, routes, telemetry_queue>>]_vars
  BY <1>1
<1>3. QED  BY <1>2, Invariance, PTL DEF Spec, StaleKillsAreDropped

-----------------------------------------------------------------------------
(* Routes. *)

LEMMA RouteEndsInit == Init => RouteEnds
<1> SUFFICES ASSUME Init PROVE RouteEnds  OBVIOUS
<1>1. Names(ctl.dest)  BY DEF Init, AtRest, Names, Master
<1>2. Len(command_queue) = 0  BY DEF Init
<1>3. \A i \in 1..RouteCap : ~routes[i].live  BY DEF Init, NoRoute
<1>4. QED  BY <1>1, <1>2, <1>3 DEF RouteEnds

\* No command and no spawn ever names the null handle as its destination.
LEMMA DestinationsStep ==
  ASSUME IInv, RouteEnds, [Next]_vars
  PROVE  Names(ctl'.dest) /\ \A i \in 1..Len(command_queue') : Names(command_queue'[i].dest)
<1>1. /\ Names(ctl.dest) /\ \A i \in 1..Len(command_queue) : Names(command_queue[i].dest)
      /\ command_queue \in Seq(Command) /\ ctl \in ControlPoint
  BY DEF RouteEnds, IInv, TypeOK, ControlPoint
<1>2. Names(Master)  BY DEF Names, Master
<1>3. CASE UNCHANGED vars  BY <1>1, <1>3 DEF vars, controlVars
<1>4. CASE AudioStep  BY <1>1, <1>4, AudioReads
<1>5. CASE ReclaimOne  BY <1>1, <1>5 DEF ReclaimOne
<1>6. CASE Create
  <2>1. PICK c \in Command : c.dest = Master /\ command_queue' = Append(command_queue, c)
    BY <1>6, CreateDoes
  <2>2. \A i \in 1..Len(command_queue') : Names(command_queue'[i].dest)
    BY <1>1, <1>2, <2>1, AppendElements
  <2>3. ctl'.dest = ctl.dest \/ ctl'.dest = Master
    BY <1>1, <1>6 DEF Create, AtRest, ControlPoint
  <2>4. QED  BY <2>2, <2>3, <1>1, <1>2
<1>7. CASE ControlCalls  BY <1>1, <1>7, AppendElements DEF ControlCalls
<1>8. QED  BY <1>3, <1>4, <1>5, <1>6, <1>7, ControlDoes DEF Next

\* A route that is kept, or stored, joins voices that are active after the step.
LEMMA RouteEndsStep == IInv /\ RouteEnds /\ [Next]_vars => RouteEnds'
<1> SUFFICES ASSUME IInv, RouteEnds, [Next]_vars,
                    NEW i \in 1..RouteCap, routes'[i].live
             PROVE  RouteLive(routes[i])' /\ routes'[i].src.generation # 0 /\ Names(routes'[i])
  BY DestinationsStep DEF RouteEnds
<1> USE DEF IInv
<1>1. /\ routes \in [1..RouteCap -> Route] /\ active_gen \in [Slots -> Generations]
      /\ routes[i] \in Route /\ routes[i].src \in Handle /\ routes[i].dst \in Handle
  BY DEF TypeOK, Route
<1>2. routes[i].live => /\ RouteLive(routes[i]) /\ routes[i].src.generation # 0
                        /\ Names(routes[i])
  BY DEF RouteEnds
<1>3. CASE UNCHANGED <<routes, active_gen>>
  BY <1>2, <1>3 DEF RouteLive, Live
<1>4. CASE Activates
  <2>1. PICK h \in Handle : /\ active_gen[h.slot] = 0 /\ routes' = routes
                            /\ active_gen' = [active_gen EXCEPT ![h.slot] = h.generation]
    BY <1>4 DEF Activates
  <2>2. ASSUME NEW g \in Handle, Live(g), g.generation # 0 PROVE Live(g)'
    BY <2>1, <2>2, <1>1 DEF Live, Handle
  <2>3. QED  BY <2>1, <2>2, <1>1, <1>2 DEF RouteLive, Names
<1>5. CASE Releases
  <2>1. PICK slot \in Slots :
          /\ active_gen' = [active_gen EXCEPT ![slot] = 0]
          /\ routes' = [n \in DOMAIN routes |-> IF Touches(routes[n], slot) THEN NoRoute ELSE routes[n]]
    BY <1>5 DEF Releases, ReleaseSlot
  <2>2. ~NoRoute.live  BY DEF NoRoute
  <2>3. routes'[i] = routes[i] /\ routes[i].live /\ ~Touches(routes[i], slot)
    BY <2>1, <2>2, <1>1
  <2>4. ASSUME NEW g \in Handle, Live(g), g.slot # slot PROVE Live(g)'
    BY <2>1, <2>4, <1>1 DEF Live, Handle
  <2>5. QED  BY <2>3, <2>4, <1>1, <1>2 DEF RouteLive, Touches
<1>6. CASE DrainConnect
  <2> DEFINE cmd == Head(command_queue)
             r == [live |-> TRUE, src |-> cmd.handle,
                   to_master |-> cmd.dest.to_master, dst |-> cmd.dest.dst]
  <2>1. Dequeue("connect") /\ UNCHANGED active_gen  BY <1>6 DEF DrainConnect
  <2>2. cmd.handle.generation # 0 /\ Names(cmd.dest)
    <3>1. command_queue \in Seq(Command) /\ command_queue # << >>
      BY <2>1 DEF Dequeue, TypeOK
    <3>2. cmd = command_queue[1] /\ 1 \in 1..Len(command_queue)  BY <3>1, TailAt
    <3>3. QED  BY <3>2 DEF RouteEnds, HandedOver
  <2>3. \/ UNCHANGED routes
        \/ RouteLive(r) /\ \E n \in DOMAIN routes : routes' = [routes EXCEPT ![n] = r]
    BY <1>6 DEF DrainConnect
  <2>4. r.src.generation # 0 /\ Names(r)  BY <2>2 DEF Names
  <2> HIDE DEF r
  <2>5. CASE UNCHANGED routes  BY <2>1, <2>5, <1>3
  <2>6. CASE RouteLive(r) /\ routes'[i] = r
    BY <2>1, <2>4, <2>6 DEF RouteLive, Live
  <2>7. CASE routes'[i] = routes[i]  BY <2>1, <2>7, <1>2 DEF RouteLive, Live
  <2>8. QED  BY <2>3, <2>5, <2>6, <2>7, <1>1
<1>7. CASE DrainDisconnect
  <2>1. ~NoRoute.live /\ UNCHANGED active_gen  BY <1>7 DEF NoRoute, DrainDisconnect
  <2>2. routes'[i] = routes[i] \/ routes'[i] = NoRoute
    BY <1>1, <1>7 DEF DrainDisconnect
  <2>3. QED  BY <2>1, <2>2, <1>2 DEF RouteLive, Live
<1>8. \/ UNCHANGED <<routes, active_gen>> \/ DrainActivate \/ DrainKill \/ ReapOne
      \/ DrainConnect \/ DrainDisconnect
  <2>1. CASE ControlStep
    BY <2>1, ControlDoes DEF Create, ReclaimOne, ControlCalls, audioVars
  <2>2. CASE AudioStep
    BY <2>2 DEF AudioStep, DrainSetParameter, Compute, Scan, EndBlock
  <2>3. CASE UNCHANGED vars  BY <2>3 DEF vars, audioVars
  <2>4. QED  BY <2>1, <2>2, <2>3 DEF Next
<1>9. QED
  BY <1>3, <1>4, <1>5, <1>6, <1>7, <1>8, ActivateDoes, KillDoes, ReapDoes

\* A stored route always joins two voices that are active now, or one and the
\* master: release_slot removes the routes of a slot with it, add_route looks at
\* both ends, and no handle in a command is the null handle.
THEOREM RoutesAreLive == Spec => []RoutesJoinLiveVoices
<1>1. IInv /\ RouteEnds => RoutesJoinLiveVoices
  BY DEF IInv, TypeOK, RouteEnds, RoutesJoinLiveVoices
<1>2. QED  BY <1>1, RouteEndsInit, RouteEndsStep, Invariance, PTL DEF Spec

-----------------------------------------------------------------------------
(* Handles. *)

LEMMA AccountedInit == Init => Accounted
<1> SUFFICES ASSUME Init PROVE Accounted  OBVIOUS
<1>1. Len(telemetry_queue) = 0 /\ \A s \in Slots : ~slots[s].built  BY DEF Init
<1>2. QED  BY <1>1 DEF Accounted

LEMMA AccountedStep == IInv /\ Accounted /\ [Next]_vars => Accounted'
<1> SUFFICES ASSUME IInv, Accounted, [Next]_vars PROVE Accounted'  OBVIOUS
<1> USE DEF IInv
<1>1. /\ \A s \in Slots : Has(free_slots, s) => ~slots[s].built
      /\ \A i \in 1..Len(telemetry_queue) :
           /\ telemetry_queue[i].slot \in Slots
           /\ slots[telemetry_queue[i].slot].built
           /\ slots[telemetry_queue[i].slot].generation = telemetry_queue[i].generation
  <2>1. \A i \in 1..Len(telemetry_queue) : telemetry_queue[i] \in Ended
    BY ElementOfSeq DEF TypeOK
  <2>2. QED  BY <2>1 DEF Accounted, Ended
<1>2. telemetry_queue \in Seq(Ended) /\ active_gen \in [Slots -> Generations]
      /\ slots \in [Slots -> SlotRecord]
  BY DEF TypeOK, SlotRecord
<1>3. CASE UNCHANGED <<slots, free_slots, telemetry_queue>>
  BY <1>3 DEF Accounted
<1>4. CASE Create
  <2>1. PICK idx \in Slots :
          /\ ~EndedHas(idx) /\ \A s \in Slots : s # idx => slots'[s] = slots[s]
          /\ \A s \in Slots : Has(free_slots', s) <=> Has(free_slots, s) /\ s # idx
          /\ UNCHANGED telemetry_queue
    BY <1>4, CreateDoes
  <2>2. \A i \in 1..Len(telemetry_queue) : telemetry_queue[i].slot # idx  BY <2>1 DEF EndedHas
  <2>3. QED  BY <2>1, <2>2, <1>1 DEF Accounted
<1>5. CASE ReclaimOne
  <2>1. PICK slot \in Slots :
          /\ \A s \in Slots : s # slot => slots'[s] = slots[s]
          /\ slots'[slot] = Emptied(slots[slot])
          /\ \A s \in Slots : Has(free_slots', s) <=> Has(free_slots, s) \/ s = slot
          /\ \A i \in 1..Len(telemetry_queue') :
               /\ i + 1 \in 1..Len(telemetry_queue)
               /\ telemetry_queue'[i] = telemetry_queue[i + 1]
               /\ telemetry_queue'[i].slot # slot
    BY <1>5, ReclaimOneDoes
  <2>2. ~slots'[slot].built
    <3>1. slots[slot] \in SlotRecord  BY <1>2
    <3>2. QED  BY <3>1, <2>1 DEF Emptied, SlotRecord
  <2>3. \A i \in 1..Len(telemetry_queue') :
          LET e == telemetry_queue'[i] IN
          slots'[e.slot].built /\ slots'[e.slot].generation = e.generation
    BY <2>1, <1>1
  <2>4. \A s \in Slots : Has(free_slots', s) => ~slots'[s].built
    BY <2>1, <2>2, <1>1
  <2>5. QED  BY <2>3, <2>4 DEF Accounted
<1>6. CASE AudioStep
  <2>1. UNCHANGED free_slots  BY <1>6, AudioReads
  <2>2. \A s \in Slots : /\ slots'[s].built = slots[s].built
                         /\ slots'[s].generation = slots[s].generation
    BY <1>6, AudioDoes
  <2>3. CASE UNCHANGED telemetry_queue  BY <2>1, <2>2, <2>3, <1>1 DEF Accounted
  <2>4. CASE Releases
    <3>1. PICK slot \in Slots, why \in Reasons : Has(active_list, slot) /\ ReleaseSlot(slot, why)
      BY <2>4 DEF Releases
    <3> DEFINE e == [slot |-> slot, generation |-> active_gen[slot], reason |-> why]
    <3>2. e \in Ended /\ telemetry_queue' = Append(telemetry_queue, e) /\ active_gen[slot] # 0
      BY <3>1, ReleaseDoes
    <3>3. e.slot = slot /\ e.generation = active_gen[slot]  OBVIOUS
    <3> HIDE DEF e
    <3>4. slots[slot].built /\ slots[slot].generation = active_gen[slot]
      BY <3>2 DEF HandedOver
    <3>5. \A i \in 1..Len(telemetry_queue') :
            (i \in 1..Len(telemetry_queue) /\ telemetry_queue'[i] = telemetry_queue[i])
              \/ telemetry_queue'[i] = e
      BY <3>2, <1>2, AppendElements
    <3>6. QED  BY <3>3, <3>4, <3>5, <2>1, <2>2, <1>1 DEF Accounted
  <2>5. QED  BY <2>3, <2>4, <1>6, AudioCases DEF Activates
<1>7. QED
  BY <1>3, <1>4, <1>5, <1>6, ControlDoes DEF Next, ControlCalls, vars, controlVars

\* A slot with a voice is in one of the three places of voices, with its
\* generation; one without is in none of them.
LEMMA ValidFollows == IInv /\ Accounted => ValidMeansNotReclaimed
<1> SUFFICES ASSUME IInv, Accounted, NEW h \in issued
             PROVE  IsValid(h) <=> HoldsVoice(h.slot, h.generation)
  BY DEF ValidMeansNotReclaimed
<1> USE DEF IInv
<1>1. h.slot \in Slots /\ h.generation # 0  BY DEF TypeOK
<1>2. /\ DOMAIN command_queue = 1..Len(command_queue)
      /\ DOMAIN telemetry_queue = 1..Len(telemetry_queue)
  BY LenProperties DEF TypeOK
<1>3. \A i : i \in ActivatingAt(h.slot) <=> Pending(i, h.slot)
  BY <1>2 DEF ActivatingAt, Pending
<1>4. \A i : i \in EndedAt(h.slot) <=> i \in 1..Len(telemetry_queue) /\ telemetry_queue[i].slot = h.slot
  BY <1>2 DEF EndedAt
<1>5. ASSUME HoldsVoice(h.slot, h.generation) PROVE IsValid(h)
  <2>1. CASE \E i \in ActivatingAt(h.slot) : command_queue[i].handle.generation = h.generation
    BY <2>1, <1>1, <1>3 DEF Pending, HandedOver, IsValid
  <2>2. CASE active_gen[h.slot] = h.generation
    BY <2>2, <1>1 DEF HandedOver, IsValid
  <2>3. CASE \E i \in EndedAt(h.slot) : telemetry_queue[i].generation = h.generation
    BY <2>3, <1>1, <1>4 DEF Accounted, IsValid
  <2>4. QED  BY <1>5, <2>1, <2>2, <2>3 DEF HoldsVoice
<1>6. ASSUME IsValid(h) PROVE HoldsVoice(h.slot, h.generation)
  <2>1. slots[h.slot].built /\ slots[h.slot].generation = h.generation
    BY <1>6 DEF IsValid
  <2>2. ~Has(free_slots, h.slot)  BY <2>1, <1>1 DEF Accounted
  <2>3. CASE Activating(h.slot)
    <3>1. PICK i \in 1..Len(command_queue) : Pending(i, h.slot)  BY <2>3 DEF Activating
    <3>2. command_queue[i].handle.generation = h.generation
      BY <3>1, <2>1 DEF Pending, HandedOver
    <3>3. QED  BY <3>1, <3>2, <1>3 DEF HoldsVoice
  <2>4. CASE Has(active_list, h.slot)
    BY <2>4, <2>1, <1>1 DEF HandedOver, HoldsVoice
  <2>5. CASE EndedHas(h.slot)
    <3>1. PICK i \in 1..Len(telemetry_queue) : telemetry_queue[i].slot = h.slot
      BY <2>5 DEF EndedHas
    <3>2. telemetry_queue[i].generation = h.generation  BY <3>1, <2>1 DEF Accounted
    <3>3. QED  BY <3>1, <3>2, <1>4 DEF HoldsVoice
  <2>6. QED  BY <2>2, <2>3, <2>4, <2>5, <1>1 DEF OwnedByOne
<1>7. QED  BY <1>5, <1>6

\* is_valid says of every handle the host was given whether its voice awaits
\* activation, plays, or ended unreclaimed, even after next_generation wrapped.
THEOREM ValidIsExact == Spec => []ValidMeansNotReclaimed
<1>1. QED  BY AccountedInit, AccountedStep, ValidFollows, Invariance, PTL DEF Spec

-----------------------------------------------------------------------------
(* Lifetime policies. *)

LEMMA PolicedInit == Init => Policed
<1> SUFFICES ASSUME Init PROVE Policed  OBVIOUS
<1>1. Len(command_queue) = 0 /\ Active = {} /\ phase = "drain"  BY DEF Init, Active
<1>2. QED  BY <1>1 DEF Policed, AwaitingFresh, PlaysOn

\* A step that leaves a slot alone leaves what its policy says of it alone.
LEMMA SameSlot ==
  ASSUME NEW s, slots'[s] = slots[s]
  PROVE  (Fresh(s)' <=> Fresh(s)) /\ (MayPlayOn(s)' <=> MayPlayOn(s))
BY DEF Fresh, MayPlayOn

\* A voice with no reason to be reaped may play on for another block.
LEMMA NoReasonMeansPlaysOn ==
  ASSUME TypeOK, NEW s \in Slots, NEW quiet \in BOOLEAN,
         slots'[s] = Aged(slots[s], quiet), ReapReason(slots[s], quiet) = "none"
  PROVE  MayPlayOn(s)'
<1> DEFINE r == slots[s]
           a == Aged(r, quiet)
<1>1. r \in SlotRecord  BY DEF TypeOK, SlotRecord
<1>2. a \in SlotRecord  BY <1>1, AgedKeeps
<1>3. ~r.finished_flag  BY DEF ReapReason
<1>4. a = [r EXCEPT !.age_blocks = Older(r),
                    !.silent_run = IF r.life.kind # "until_silent" THEN r.silent_run
                                   ELSE IF quiet THEN r.silent_run + 1 ELSE 0]
  BY <1>3 DEF Aged
<1>5. a.life = r.life /\ a.finished_flag = r.finished_flag  BY <1>1, <1>4 DEF SlotRecord
<1>6. /\ ~(r.life.kind = "timed" /\ a.age_blocks >= r.life.ttl_blocks)
      /\ ~(r.life.kind = "until_silent" /\ a.silent_run >= r.life.silence_blocks)
  BY <1>3 DEF ReapReason
<1>7. a.age_blocks \in Nat /\ a.silent_run \in Nat
      /\ r.life.ttl_blocks \in Nat /\ r.life.silence_blocks \in Nat
  BY <1>1, <1>2, PolicyAssumption DEF SlotRecord
<1>8. slots'[s] = a  OBVIOUS
<1> HIDE DEF a
<1>9. QED  BY <1>3, <1>5, <1>6, <1>7, <1>8 DEF MayPlayOn

\* A voice awaiting activation stays as create() left it: neither thread writes
\* a slot whose `activate` is in the queue.
LEMMA FreshStep == IInv /\ AwaitingFresh /\ [Next]_vars => AwaitingFresh'
<1> SUFFICES ASSUME IInv, AwaitingFresh, [Next]_vars PROVE AwaitingFresh'  OBVIOUS
<1> USE DEF IInv
<1>1. command_queue \in Seq(Command) /\ \A i \in 1..Len(command_queue) : command_queue[i] \in Command
  BY ElementOfSeq DEF TypeOK
<1>2. ASSUME NEW s \in Slots, NEW i \in 1..Len(command_queue), Pending(i, s)
      PROVE  Fresh(s)'
  <2>1. Activating(s) /\ Fresh(s)  BY <1>2 DEF Activating, Pending, AwaitingFresh
  <2>2. active_gen[s] = 0  BY <2>1 DEF OwnedByOne, HandedOver
  <2>3. slots'[s] = slots[s]
    <3>1. CASE AudioStep  BY <3>1, <2>1, <2>2, AudioDoes
    <3>2. CASE Create
      <4>1. PICK idx \in Slots : ~Activating(idx) /\ \A x \in Slots : x # idx => slots'[x] = slots[x]
        BY <3>2, CreateDoes
      <4>2. QED  BY <4>1, <2>1
    <3>3. CASE ReclaimOne
      <4>1. PICK slot \in Slots : ~Activating(slot) /\ \A x \in Slots : x # slot => slots'[x] = slots[x]
        BY <3>3, ReclaimOneDoes
      <4>2. QED  BY <4>1, <2>1
    <3>4. QED
      BY <3>1, <3>2, <3>3, ControlDoes DEF Next, ControlCalls, vars, controlVars
  <2>4. QED  BY <2>1, <2>3, SameSlot
<1>3. ASSUME \A i \in 1..Len(command_queue') :
               command_queue'[i].type = "activate" =>
                 \E j \in 1..Len(command_queue) : command_queue'[i] = command_queue[j]
      PROVE  AwaitingFresh'
  <2>1. SUFFICES ASSUME NEW i \in 1..Len(command_queue'), NEW s \in Slots,
                        command_queue'[i].type = "activate", command_queue'[i].handle.slot = s
                 PROVE  Fresh(s)'
    BY DEF AwaitingFresh
  <2>2. PICK j \in 1..Len(command_queue) : command_queue'[i] = command_queue[j]
    BY <1>3, <2>1
  <2>3. Pending(j, s)  BY <2>1, <2>2 DEF Pending
  <2>4. QED  BY <2>3, <1>2
<1>4. CASE AudioStep  BY <1>3, <1>4, AudioReads
<1>5. CASE Create
  <2>1. PICK idx \in Slots, c \in Command :
          /\ slots'[idx] = [built |-> TRUE, finished_flag |-> FALSE, target |-> 0,
                            generation |-> next_generation, life |-> ctl.life,
                            age_blocks |-> 0, silent_run |-> 0]
          /\ c.handle.slot = idx /\ command_queue' = Append(command_queue, c)
    BY <1>5, CreateDoes
  <2>2. Fresh(idx)'  BY <2>1 DEF Fresh
  <2>3. ASSUME NEW i \in 1..Len(command_queue'), NEW s \in Slots,
               command_queue'[i].type = "activate", command_queue'[i].handle.slot = s
        PROVE  Fresh(s)'
    <3>1. CASE i \in 1..Len(command_queue) /\ command_queue'[i] = command_queue[i]
      BY <3>1, <2>3, <1>2 DEF Pending
    <3>2. CASE command_queue'[i] = c  BY <3>2, <2>1, <2>2, <2>3
    <3>3. QED  BY <3>1, <3>2, <2>1, <1>1, AppendElements
  <2>4. QED  BY <2>3 DEF AwaitingFresh
<1>6. CASE ControlCalls  BY <1>1, <1>3, <1>6, AppendElements DEF ControlCalls
<1>7. CASE UNCHANGED command_queue  BY <1>3, <1>7
<1>8. QED
  BY <1>4, <1>5, <1>6, <1>7, ControlDoes DEF Next, ReclaimOne, vars, controlVars

\* set_parameter touches nothing a lifetime policy looks at.
LEMMA SetParameterKeepsLife ==
  ASSUME IInv, DrainSetParameter, NEW s \in Slots
  PROVE  MayPlayOn(s)' <=> MayPlayOn(s)
<1> DEFINE h == Head(command_queue).handle
<1>1. slots \in [Slots -> SlotRecord] /\ slots[s] \in SlotRecord
  BY DEF IInv, TypeOK, SlotRecord
<1>2. UNCHANGED slots \/ slots' = [slots EXCEPT ![h.slot].target = h.generation]
  BY DEF DrainSetParameter
<1> HIDE DEF h
<1>3. slots'[s] = slots[s] \/ slots'[s] = [slots[s] EXCEPT !.target = h.generation]
  BY <1>1, <1>2
<1>4. /\ slots'[s].finished_flag = slots[s].finished_flag /\ slots'[s].life = slots[s].life
      /\ slots'[s].age_blocks = slots[s].age_blocks /\ slots'[s].silent_run = slots[s].silent_run
  BY <1>1, <1>3 DEF SlotRecord
<1>5. QED  BY <1>4 DEF MayPlayOn

\* The control thread writes no slot of an active voice.
LEMMA ControlPlaysOn == ASSUME IInv, PlaysOn, ControlStep PROVE PlaysOn'
<1> USE DEF IInv
<1>1. UNCHANGED audioVars
  BY ControlDoes, CreateDoes, ReclaimOneDoes DEF ControlCalls
<1>2. \A s \in Slots : active_gen[s] # 0 => slots'[s] = slots[s]
  BY ControlKeepsActive
<1>3. \A s \in Slots : active_gen[s] # 0 => (MayPlayOn(s)' <=> MayPlayOn(s))
  BY <1>2, SameSlot
<1>4. \A n \in 1..Len(active_list) : active_list[n] \in Slots /\ active_gen[active_list[n]] # 0
  <2>1. \A n \in 1..Len(active_list) : active_list[n] \in Slots  BY ElementOfSeq DEF TypeOK
  <2>2. QED  BY <2>1 DEF HandedOver, Has
<1>5. \A s \in Slots : ToReap(s)' <=> ToReap(s)  BY <1>1 DEF ToReap, audioVars
<1>6. Active' = Active /\ \A s \in Active : s \in Slots /\ active_gen[s] # 0
  BY <1>1 DEF Active, audioVars
<1>7. QED  BY <1>1, <1>3, <1>4, <1>5, <1>6 DEF PlaysOn, audioVars

LEMMA DrainPlaysOn ==
  ASSUME IInv, AwaitingFresh, PlaysOn,
         DrainActivate \/ DrainKill \/ DrainSetParameter \/ DrainConnect \/ DrainDisconnect
  PROVE  PlaysOn'
<1> USE DEF IInv
<1>1. phase = "drain" /\ phase' = "drain"
  BY DEF Dequeue, DrainActivate, DrainKill, DrainSetParameter, DrainConnect, DrainDisconnect
<1>2. SUFFICES ASSUME NEW s \in Slots, active_gen'[s] # 0 PROVE MayPlayOn(s)'
  BY <1>1 DEF PlaysOn, Active
<1>3. active_gen[s] # 0 => MayPlayOn(s)  BY <1>1 DEF PlaysOn, Active
<1>4. active_gen \in [Slots -> Generations]  BY DEF TypeOK
<1>5. CASE Activates /\ UNCHANGED slots
  <2>1. PICK h \in Handle :
          /\ Dequeue("activate") /\ h = Head(command_queue).handle
          /\ active_gen' = [active_gen EXCEPT ![h.slot] = h.generation]
    BY <1>5 DEF Activates
  <2>2. CASE s # h.slot  BY <2>1, <2>2, <1>2, <1>3, <1>4, <1>5, SameSlot
  <2>3. CASE s = h.slot
    <3>1. command_queue \in Seq(Command) /\ command_queue # << >>
          /\ Head(command_queue).type = "activate"
      BY <2>1 DEF Dequeue, TypeOK
    <3>2. Head(command_queue) = command_queue[1] /\ 1 \in 1..Len(command_queue)
      BY <3>1, TailAt
    <3>3. Fresh(s)  BY <3>1, <3>2, <2>1, <2>3 DEF AwaitingFresh
    <3>4. MayPlayOn(s)  BY <3>3 DEF Fresh, MayPlayOn
    <3>5. QED  BY <3>4, <1>5, SameSlot
  <2>4. QED  BY <2>2, <2>3
<1>6. CASE Releases
  <2>1. PICK slot \in Slots : active_gen' = [active_gen EXCEPT ![slot] = 0]
    BY <1>6 DEF Releases, ReleaseSlot
  <2>2. active_gen[s] # 0  BY <2>1, <1>2, <1>4
  <2>3. UNCHANGED slots  BY <1>6 DEF Releases
  <2>4. QED  BY <2>2, <2>3, <1>3, SameSlot
<1>7. CASE DrainSetParameter
  BY <1>2, <1>3, <1>7, SetParameterKeepsLife DEF DrainSetParameter
<1>8. CASE UNCHANGED <<slots, active_gen>>  BY <1>2, <1>3, <1>8, SameSlot
<1>9. QED
  BY <1>5, <1>6, <1>7, <1>8, ActivateDoes, KillDoes
  DEF DrainConnect, DrainDisconnect, DrainActivate, controlVars

\* The scan judges the voice at the cursor and leaves those before it alone.
LEMMA ScanPlaysOn == ASSUME IInv, PlaysOn, Scan PROVE PlaysOn'
<1> USE DEF IInv
<1>1. /\ phase = "scan" /\ phase' = "scan" /\ cursor' = cursor + 1
      /\ active_list' = active_list
  BY DEF Scan
<1>2. cursor \in 1..Len(active_list)  BY DEF Scan, ReapList, TypeOK
<1>3. PICK slot \in Slots : slot = active_list[cursor]
  BY <1>2, ElementOfSeq DEF TypeOK
<1>4. PICK quiet \in BOOLEAN :
        /\ slots' = [slots EXCEPT ![slot] = Aged(@, quiet)]
        /\ reap_scratch' = IF ReapReason(slots[slot], quiet) = "none" THEN reap_scratch
              ELSE Append(reap_scratch, [slot |-> slot, why |-> ReapReason(slots[slot], quiet)])
  BY <1>3 DEF Scan
<1>5. PICK why \in Reasons \cup {"none"} : why = ReapReason(slots[slot], quiet)
  BY ReasonType
<1>6. slots \in [Slots -> SlotRecord] /\ reap_scratch \in Seq(Reap)  BY DEF TypeOK, SlotRecord
<1>7. why \in Reasons =>
        /\ \A s \in Slots : ToReap(s) => ToReap(s)'
        /\ ToReap(slot)'
  <2>1. SUFFICES ASSUME why \in Reasons
                 PROVE  (\A s \in Slots : ToReap(s) => ToReap(s)') /\ ToReap(slot)'
    OBVIOUS
  <2>2. PICK r \in Reap : r = [slot |-> slot, why |-> why]  BY <2>1 DEF Reap
  <2>3. why # "none"  BY <2>1 DEF Reasons
  <2>4. reap_scratch' = Append(reap_scratch, r)  BY <1>4, <1>5, <2>2, <2>3
  <2>5. /\ \A i \in 1..Len(reap_scratch) : i \in 1..Len(reap_scratch') /\ reap_scratch'[i] = reap_scratch[i]
        /\ \E i \in 1..Len(reap_scratch') : reap_scratch'[i] = r
    BY <1>6, <2>4, AppendElements
  <2>6. QED  BY <2>2, <2>5 DEF ToReap
<1>8. why = "none" => /\ \A s \in Slots : ToReap(s) => ToReap(s)'
                      /\ MayPlayOn(slot)'
  <2>1. slots'[slot] = Aged(slots[slot], quiet)  BY <1>4, <1>6
  <2>2. why = "none" => MayPlayOn(slot)'  BY <2>1, <1>5, NoReasonMeansPlaysOn
  <2>3. QED  BY <2>2, <1>4, <1>5 DEF ToReap
<1>9. ASSUME NEW n \in 1..Len(active_list), n < cursor, NEW s \in Slots, s = active_list[n]
      PROVE  MayPlayOn(s)' \/ ToReap(s)'
  <2>1. s # slot  BY <1>2, <1>3, <1>9 DEF OwnedOnce, Once
  <2>2. slots'[s] = slots[s]  BY <2>1, <1>4, <1>6
  <2>3. MayPlayOn(s) \/ ToReap(s)  BY <1>1, <1>9 DEF PlaysOn
  <2>4. QED  BY <2>2, <2>3, <1>5, <1>7, <1>8, SameSlot
<1>10. ASSUME NEW n \in 1..Len(active_list'), n < cursor', NEW s \in Slots, s = active_list'[n]
       PROVE  MayPlayOn(s)' \/ ToReap(s)'
  <2>1. n < cursor \/ n = cursor  BY <1>1, <1>2, <1>10
  <2>2. CASE n < cursor  BY <2>2, <1>1, <1>9, <1>10
  <2>3. CASE n = cursor  BY <2>3, <1>1, <1>3, <1>5, <1>7, <1>8, <1>10
  <2>4. QED  BY <2>1, <2>2, <2>3
<1>11. QED  BY <1>1, <1>10 DEF PlaysOn

\* Reaping removes the first voice of the list, and no other.
LEMMA ReapPlaysOn == ASSUME IInv, PlaysOn, ReapOne PROVE PlaysOn'
<1> USE DEF IInv
<1>1. /\ phase = "scan" /\ phase' = "scan" /\ cursor' = cursor /\ cursor > Len(active_list)
      /\ reap_scratch # << >> /\ reap_scratch' = Tail(reap_scratch)
      /\ ReleaseSlot(Head(reap_scratch).slot, Head(reap_scratch).why)
      /\ UNCHANGED slots
  BY DEF ReapOne, controlVars
<1>2. reap_scratch \in Seq(Reap) /\ active_list \in Seq(Slots) /\ Once(active_list)
      /\ Len(active_list) \in Nat /\ cursor \in Nat
  BY LenProperties DEF TypeOK, OwnedOnce
<1>3. PICK n \in Nat : n = Len(reap_scratch)  BY <1>2, LenProperties
<1>4. /\ Head(reap_scratch) = reap_scratch[1] /\ n >= 1 /\ Len(reap_scratch') = n - 1
      /\ Head(reap_scratch) \in Reap
      /\ \A i \in 1..n - 1 : reap_scratch'[i] = reap_scratch[i + 1]
  BY <1>1, <1>2, <1>3, TailAt
<1>5. PICK slot \in Slots : slot = reap_scratch[1].slot  BY <1>4 DEF Reap
<1>6. Has(active_list, slot)
  <2>1. 1 \in 1..Len(reap_scratch)  BY <1>3, <1>4
  <2>2. QED  BY <2>1, <1>5 DEF ReapList, Has
<1>7. active_list' = WithoutFirst(active_list, slot)  BY <1>1, <1>4, <1>5 DEF ReleaseSlot
<1>8. \A x : Has(active_list', x) <=> Has(active_list, x) /\ x # slot
  BY <1>2, <1>6, <1>7, WithoutOnce
<1>9. ASSUME NEW s \in Slots, ToReap(s), s # slot PROVE ToReap(s)'
  <2>1. PICK i \in 1..n : reap_scratch[i].slot = s  BY <1>3, <1>9 DEF ToReap
  <2>2. i # 1  BY <2>1, <1>5, <1>9
  <2>3. i - 1 \in 1..n - 1 /\ (i - 1) + 1 = i  BY <2>1, <2>2
  <2>4. reap_scratch'[i - 1].slot = s  BY <2>1, <2>3, <1>4
  <2>5. QED  BY <2>3, <2>4, <1>4 DEF ToReap
<1>10. ASSUME NEW m \in 1..Len(active_list'), NEW s \in Slots, s = active_list'[m]
       PROVE  MayPlayOn(s)' \/ ToReap(s)'
  <2>1. Has(active_list', s)  BY <1>10 DEF Has
  <2>2. Has(active_list, s) /\ s # slot  BY <2>1, <1>8
  <2>3. PICK k \in 1..Len(active_list) : active_list[k] = s  BY <2>2 DEF Has
  <2>4. k < cursor  BY <2>3, <1>1, <1>2
  <2>5. MayPlayOn(s) \/ ToReap(s)  BY <2>3, <2>4, <1>1 DEF PlaysOn
  <2>6. QED  BY <2>2, <2>5, <1>1, <1>9, SameSlot
<1>11. QED  BY <1>1, <1>10 DEF PlaysOn

LEMMA BlockPlaysOn == ASSUME IInv, PlaysOn, Compute \/ EndBlock PROVE PlaysOn'
<1> USE DEF IInv
<1>1. CASE Compute
  <2>1. phase' = "scan" /\ cursor' = 1 /\ active_list' = active_list  BY <1>1 DEF Compute
  <2>2. \A n \in 1..Len(active_list) : ~(n < 1)  OBVIOUS
  <2>3. QED  BY <2>1, <2>2 DEF PlaysOn
<1>2. CASE EndBlock
  <2>1. /\ phase = "scan" /\ phase' = "drain" /\ cursor > Len(active_list) /\ reap_scratch = << >>
        /\ UNCHANGED <<slots, active_gen, active_list>>
    BY <1>2 DEF EndBlock, controlVars
  <2>2. SUFFICES ASSUME NEW s \in Slots, active_gen[s] # 0 PROVE MayPlayOn(s)'
    BY <2>1 DEF PlaysOn, Active
  <2>3. PICK n \in 1..Len(active_list) : active_list[n] = s  BY <2>2 DEF HandedOver, Has
  <2>4. n < cursor
    <3>1. Len(active_list) \in Nat /\ cursor \in Nat  BY LenProperties DEF TypeOK
    <3>2. QED  BY <3>1, <2>1, <2>3
  <2>5. ~ToReap(s)
    <3>1. Len(reap_scratch) = 0  BY <2>1
    <3>2. QED  BY <3>1 DEF ToReap
  <2>6. MayPlayOn(s)  BY <2>1, <2>3, <2>4, <2>5 DEF PlaysOn
  <2>7. QED  BY <2>6, <2>1, SameSlot
<1>3. QED  BY <1>1, <1>2

LEMMA PolicedStep == IInv /\ Policed /\ [Next]_vars => Policed'
<1> SUFFICES ASSUME IInv, AwaitingFresh, PlaysOn, [Next]_vars PROVE PlaysOn'
  BY FreshStep DEF Policed
<1>1. CASE UNCHANGED vars
  <2>1. UNCHANGED <<slots, phase, active_gen, active_list, cursor, reap_scratch>>
    BY <1>1 DEF vars, controlVars, audioVars
  <2>2. QED  BY <2>1 DEF PlaysOn, Active, MayPlayOn, ToReap
<1>2. CASE ControlStep  BY <1>2, ControlPlaysOn
<1>3. CASE AudioStep
  BY <1>3, DrainPlaysOn, BlockPlaysOn, ScanPlaysOn, ReapPlaysOn DEF AudioStep
<1>4. QED  BY <1>1, <1>2, <1>3 DEF Next

\* A voice whose policy has expired is never played for another block: whatever
\* reap_pass's first loop leaves unlisted may play on, and its second loop
\* releases all that is listed before the next block begins.
THEOREM NobodyPlaysPastTheEnd == Spec => []NoPlayingPastTheEnd
<1>1. Policed => NoPlayingPastTheEnd  BY DEF Policed, PlaysOn, NoPlayingPastTheEnd
<1>2. QED  BY <1>1, PolicedInit, PolicedStep, Invariance, PTL DEF Spec

-----------------------------------------------------------------------------
(* The engine implements VoiceLifecycle as long as next_generation does not *)
(* come round: its handles are then all different, and every step of it is  *)
(* a step of one voice's life, or of none.  First, handles differ.          *)

LEMMA HandlesInit == Init => HandlesDiffer
<1> SUFFICES ASSUME Init PROVE HandlesDiffer  OBVIOUS
<1>1. issued = {} /\ next_generation = 1 /\ \A s \in Slots : ~slots[s].built  BY DEF Init
<1>2. IsFiniteSet(issued) /\ Cardinality(issued) = 0  BY <1>1, FS_EmptySet
<1>3. ctl.pc # "spawn"  BY DEF Init, AtRest
<1>4. QED  BY <1>1, <1>2, <1>3 DEF HandlesDiffer

\* Before it wraps, next_generation just counts.
LEMMA NextGenCounts ==
  ASSUME NEW c \in Nat, c + 1 < GenMod - 1 PROVE NextGen(c + 1) = c + 2
<1>1. (c + 1) + 1 \in 1..GenMod - 1  BY GenAssumption
<1>2. ((c + 1) + 1) % GenMod = (c + 1) + 1  BY <1>1, GenAssumption
<1>3. QED  BY <1>1, <1>2 DEF NextGen

\* The handle spawn() makes was never issued.
LEMMA CreateIsNew ==
  ASSUME NoWrap, IInv, HandlesDiffer, Create
  PROVE  /\ Cardinality(issued) \in Nat /\ Cardinality(issued) < GenMod - 1
         /\ next_generation = Cardinality(issued) + 1
         /\ \A h \in issued : h.generation < next_generation
<1>1. IsFiniteSet(issued) /\ ctl.pc = "spawn"  BY DEF HandlesDiffer, Create
<1>2. Cardinality(issued) \in Nat  BY <1>1, FS_CardinalityType
<1>3. Cardinality(issued) < MaxSpawns  BY <1>1 DEF HandlesDiffer
<1>4. Cardinality(issued) < GenMod - 1  BY <1>2, <1>3, BoundAssumption, GenAssumption DEF NoWrap
<1>5. QED  BY <1>2, <1>4 DEF HandlesDiffer

LEMMA HandlesStep == NoWrap /\ IInv /\ HandlesDiffer /\ [Next]_vars => HandlesDiffer'
<1> SUFFICES ASSUME NoWrap, IInv, HandlesDiffer, [Next]_vars PROVE HandlesDiffer'  OBVIOUS
<1>1. \A h \in issued : h.slot \in Slots /\ h.generation \in Nat
  BY ConstantTypes DEF IInv, TypeOK
<1>2. CASE UNCHANGED vars
  <2>1. UNCHANGED <<issued, slots, ctl, next_generation>>  BY <1>2 DEF vars, controlVars
  <2>2. QED  BY <2>1 DEF HandlesDiffer
<1>3. CASE ControlCalls
  <2>1. UNCHANGED <<issued, slots, next_generation>>
        /\ (ctl'.pc = "spawn" => Cardinality(issued) < MaxSpawns)
    BY <1>3 DEF ControlCalls
  <2>2. QED  BY <2>1 DEF HandlesDiffer
<1>4. CASE ReclaimOne
  <2>1. PICK slot \in Slots :
          /\ \A s \in Slots : s # slot => slots'[s] = slots[s]
          /\ slots'[slot] = Emptied(slots[slot])
          /\ UNCHANGED <<next_generation, ctl, issued>>
    BY <1>4, ReclaimOneDoes
  <2>2. ~slots'[slot].built
    <3>1. slots[slot] \in SlotRecord  BY DEF IInv, TypeOK, SlotRecord
    <3>2. QED  BY <3>1, <2>1 DEF Emptied, SlotRecord
  <2>3. \A s \in Slots : slots'[s].built => slots'[s] = slots[s]  BY <2>1, <2>2
  <2>4. QED  BY <2>1, <2>3 DEF HandlesDiffer
<1>5. CASE AudioStep
  <2>1. UNCHANGED <<next_generation, ctl, issued>>  BY <1>5, AudioReads
  <2>2. \A s \in Slots : slots'[s].built = slots[s].built /\ slots'[s].generation = slots[s].generation
    BY <1>5, AudioDoes
  <2>3. QED  BY <2>1, <2>2 DEF HandlesDiffer
<1>6. CASE Create
  <2>1. PICK idx \in Slots, h \in Handle :
          /\ h = [slot |-> idx, generation |-> next_generation]
          /\ \A s \in Slots : s # idx => slots'[s] = slots[s]
          /\ slots'[idx] = [built |-> TRUE, finished_flag |-> FALSE, target |-> 0,
                            generation |-> next_generation, life |-> ctl.life,
                            age_blocks |-> 0, silent_run |-> 0]
          /\ issued' = issued \cup {h} /\ next_generation' = NextGen(next_generation)
          /\ ctl' = IF ctl.routed THEN [ctl EXCEPT !.pc = "connect", !.h = h] ELSE AtRest
    BY <1>6, CreateDoes
  <2>2. PICK c \in Nat : /\ c = Cardinality(issued) /\ c < GenMod - 1 /\ next_generation = c + 1
                         /\ \A i \in issued : i.generation < c + 1
    BY <1>6, CreateIsNew
  <2>3. h \notin issued  BY <2>1, <2>2, <1>1
  <2>4. IsFiniteSet(issued') /\ Cardinality(issued') = c + 1
    BY <2>1, <2>2, <2>3, FS_AddElement DEF HandlesDiffer
  <2>5. \A i, j \in issued' : i.generation = j.generation => i = j
    BY <2>1, <2>2, <1>1 DEF HandlesDiffer
  <2>6. ASSUME NEW s \in Slots, slots'[s].built
        PROVE  [slot |-> s, generation |-> slots'[s].generation] \in issued'
    <3>1. CASE s = idx
      <4>1. slots'[s].generation = next_generation  BY <2>1, <3>1
      <4>2. QED  BY <4>1, <3>1, <2>1
    <3>2. CASE s # idx  BY <3>2, <2>1, <2>6 DEF HandlesDiffer
    <3>3. QED  BY <3>1, <3>2
  <2>7. ctl'.pc # "spawn"
    <3>1. ctl \in ControlPoint  BY DEF IInv, TypeOK, ControlPoint
    <3>2. QED  BY <3>1, <2>1 DEF AtRest, ControlPoint
  <2>8. c + 1 < GenMod - 1 => next_generation' = c + 2 /\ \A i \in issued' : i.generation < c + 2
    <3>1. \A i \in issued' : i.generation < c + 2  BY <2>1, <2>2, <1>1
    <3>2. QED  BY <3>1, <2>1, <2>2, NextGenCounts
  <2>9. (c + 1) + 1 = c + 2  OBVIOUS
  <2>10. QED  BY <2>4, <2>5, <2>6, <2>7, <2>8, <2>9 DEF HandlesDiffer
<1>7. QED  BY <1>2, <1>3, <1>4, <1>5, <1>6, ControlDoes DEF Next

-----------------------------------------------------------------------------
(* Where a voice stands in its life. *)

\* The stage of the voice of a handle, read from the records of its slot.
PlaceOf(h) ==
  IF ~IsValid(h) THEN "reclaimed"
  ELSE IF active_gen[h.slot] # 0 THEN "playing"
  ELSE IF EndedHas(h.slot) THEN "ended" ELSE "spawned"

Unborn(g) == \A h \in issued : h.generation # g
Staged ==
  /\ \A g \in Generations \ {0} : Unborn(g) => StageOf(g) = "unborn"
  /\ \A h \in issued : StageOf(h.generation) = PlaceOf(h)

\* A generation found in a queue or in active_gen is that of its slot's voice,
\* whose handle was issued: no two handles have it.
LEMMA FoundInSlot ==
  ASSUME IInv, Accounted, HandlesDiffer, NEW g \in Generations \ {0}, NEW s \in Slots,
         \/ \E i \in ActivatingAt(s) : command_queue[i].handle.generation = g
         \/ active_gen[s] = g
         \/ \E i \in EndedAt(s) : telemetry_queue[i].generation = g
  PROVE  /\ slots[s].built /\ slots[s].generation = g
         /\ [slot |-> s, generation |-> g] \in issued
<1> USE DEF IInv
<1>1. DOMAIN command_queue = 1..Len(command_queue) /\ DOMAIN telemetry_queue = 1..Len(telemetry_queue)
  BY LenProperties DEF TypeOK
<1>2. CASE \E i \in ActivatingAt(s) : command_queue[i].handle.generation = g
  BY <1>1, <1>2 DEF ActivatingAt, HandedOver, HandlesDiffer
<1>3. CASE active_gen[s] = g  BY <1>3 DEF HandedOver, HandlesDiffer
<1>4. CASE \E i \in EndedAt(s) : telemetry_queue[i].generation = g
  BY <1>1, <1>4 DEF EndedAt, Accounted, HandlesDiffer
<1>5. QED  BY <1>2, <1>3, <1>4

LEMMA StagedHolds == IInv /\ Accounted /\ HandlesDiffer => Staged
<1> SUFFICES ASSUME IInv, Accounted, HandlesDiffer PROVE Staged  OBVIOUS
<1> USE DEF IInv
<1> DEFINE Waits(g, s) == \E i \in ActivatingAt(s) : command_queue[i].handle.generation = g
           Gone(g) == \E i \in DOMAIN telemetry_queue : telemetry_queue[i].generation = g
<1>1. /\ DOMAIN command_queue = 1..Len(command_queue)
      /\ DOMAIN telemetry_queue = 1..Len(telemetry_queue)
      /\ telemetry_queue \in Seq(Ended)
  BY LenProperties DEF TypeOK
<1>2. ASSUME NEW i \in DOMAIN telemetry_queue PROVE telemetry_queue[i].slot \in Slots
  <2>1. telemetry_queue[i] \in Ended  BY <1>1, ElementOfSeq
  <2>2. QED  BY <2>1 DEF Ended
<1>3. ASSUME NEW g \in Generations \ {0}, Gone(g)
      PROVE  \E s \in Slots : \E i \in EndedAt(s) : telemetry_queue[i].generation = g
  BY <1>2, <1>3 DEF EndedAt
<1>4. ASSUME NEW g \in Generations \ {0}, Unborn(g) PROVE StageOf(g) = "unborn"
  <2>1. ASSUME NEW s \in Slots, [slot |-> s, generation |-> g] \in issued PROVE FALSE
    BY <1>4, <2>1 DEF Unborn
  <2>2. /\ \A s \in Slots : ~Waits(g, s) /\ active_gen[s] # g
        /\ ~Gone(g)
    <3>1. ASSUME NEW s \in Slots, Waits(g, s) \/ active_gen[s] = g PROVE FALSE
      BY <3>1, <2>1, FoundInSlot
    <3>2. ASSUME Gone(g) PROVE FALSE
      <4>1. PICK s \in Slots : \E i \in EndedAt(s) : telemetry_queue[i].generation = g
        BY <1>3, <3>2
      <4>2. QED  BY <4>1, <2>1, FoundInSlot
    <3>3. QED  BY <3>1, <3>2
  <2>3. QED  BY <1>4, <2>2 DEF StageOf, Unborn
<1>5. ASSUME NEW h \in issued PROVE StageOf(h.generation) = PlaceOf(h)
  <2> DEFINE g == h.generation
  <2>1. h \in Handle /\ g \in Generations \ {0} /\ h.slot \in Slots
        /\ h = [slot |-> h.slot, generation |-> g]
    BY ConstantTypes DEF TypeOK, Handle
  <2>2. \A s \in Slots : [slot |-> s, generation |-> g] \in issued => s = h.slot
    BY <2>1 DEF HandlesDiffer
  <2>3. IsValid(h) <=> slots[h.slot].built /\ slots[h.slot].generation = g
    BY <2>1 DEF IsValid
  <2>4. (\E s \in Slots : Waits(g, s)) <=> IsValid(h) /\ Activating(h.slot)
    <3>1. ASSUME NEW s \in Slots, Waits(g, s) PROVE IsValid(h) /\ Activating(h.slot)
      <4>1. s = h.slot /\ IsValid(h)  BY <2>1, <2>2, <2>3, <3>1, FoundInSlot
      <4>2. QED  BY <4>1, <3>1, <1>1 DEF ActivatingAt, Activating, Pending
    <3>2. ASSUME IsValid(h), Activating(h.slot) PROVE Waits(g, h.slot)
      BY <2>1, <2>3, <3>2, <1>1 DEF ActivatingAt, Activating, Pending, HandedOver
    <3>3. QED  BY <3>1, <3>2, <2>1
  <2>5. (\E s \in Slots : active_gen[s] = g) <=> IsValid(h) /\ active_gen[h.slot] # 0
    <3>1. ASSUME NEW s \in Slots, active_gen[s] = g PROVE IsValid(h) /\ active_gen[h.slot] # 0
      BY <2>1, <2>2, <2>3, <3>1, FoundInSlot
    <3>2. ASSUME IsValid(h), active_gen[h.slot] # 0 PROVE active_gen[h.slot] = g
      BY <2>1, <2>3, <3>2 DEF HandedOver
    <3>3. QED  BY <3>1, <3>2, <2>1
  <2>6. Gone(g) <=> IsValid(h) /\ EndedHas(h.slot)
    <3>1. ASSUME Gone(g) PROVE IsValid(h) /\ EndedHas(h.slot)
      <4>1. PICK s \in Slots : \E i \in EndedAt(s) : telemetry_queue[i].generation = g
        BY <1>3, <2>1, <3>1
      <4>2. s = h.slot /\ IsValid(h)  BY <2>1, <2>2, <2>3, <4>1, FoundInSlot
      <4>3. QED  BY <4>1, <4>2, <1>1 DEF EndedAt, EndedHas
    <3>2. ASSUME IsValid(h), EndedHas(h.slot) PROVE Gone(g)
      BY <2>1, <2>3, <3>2, <1>1 DEF EndedHas, Accounted
    <3>3. QED  BY <3>1, <3>2
  <2>7. IsValid(h) => ~Has(free_slots, h.slot)  BY <2>1, <2>3 DEF Accounted
  <2>8. /\ active_gen[h.slot] # 0 <=> Has(active_list, h.slot)
        /\ Has(free_slots, h.slot) \/ Activating(h.slot) \/ Has(active_list, h.slot) \/ EndedHas(h.slot)
        /\ ~(Activating(h.slot) /\ Has(active_list, h.slot))
        /\ ~(Activating(h.slot) /\ EndedHas(h.slot))
        /\ ~(Has(active_list, h.slot) /\ EndedHas(h.slot))
    BY <2>1 DEF HandedOver, OwnedByOne
  <2>9. ~\A x \in issued : x.generation # g  OBVIOUS
  <2> HIDE DEF g, Waits, Gone
  <2>10. StageOf(g) = CASE \A x \in issued : x.generation # g -> "unborn"
                        [] \E s \in Slots : Waits(g, s) -> "spawned"
                        [] \E s \in Slots : active_gen[s] = g -> "playing"
                        [] Gone(g) -> "ended"
                        [] OTHER -> "reclaimed"
    BY DEF StageOf, Waits, Gone
  <2>11. StageOf(g) = PlaceOf(h)
    BY <2>4, <2>5, <2>6, <2>7, <2>8, <2>9, <2>10 DEF PlaceOf
  <2>12. QED  BY <2>11 DEF g
<1>6. QED  BY <1>4, <1>5 DEF Staged

-----------------------------------------------------------------------------
(* Each step is a step of one voice's life, or of none. *)

Voices == Generations \ {0}

\* One voice moves and no other does; or none does.
LEMMA OneMoves ==
  ASSUME NEW v \in Voices, NEW from, NEW to, StageOf(v) = from, StageOf(v)' = to,
         \A g \in Voices \ {v} : StageOf(g)' = StageOf(g)
  PROVE  Life!Move(v, from, to)
<1>1. [g \in Voices |-> StageOf(g)][v] = from  OBVIOUS
<1>2. [g \in Voices |-> StageOf(g)']
      = [[g \in Voices |-> StageOf(g)] EXCEPT ![v] = to]
  OBVIOUS
<1>3. QED  BY <1>1, <1>2 DEF Life!Move, Voices

LEMMA NoneMoves ==
  ASSUME \A g \in Voices : StageOf(g)' = StageOf(g)
  PROVE  UNCHANGED [g \in Generations \ {0} |-> StageOf(g)]
<1>1. [g \in Voices |-> StageOf(g)'] = [g \in Voices |-> StageOf(g)]  OBVIOUS
<1>2. QED  BY <1>1 DEF Voices

\* With the same handles issued, a voice moves when its place does.
LEMMA PlacesMove ==
  ASSUME Staged, Staged', issued' = issued, NEW g \in Voices,
         \A h \in issued : h.generation = g => PlaceOf(h)' = PlaceOf(h)
  PROVE  StageOf(g)' = StageOf(g)
<1>1. CASE Unborn(g)
  <2>1. StageOf(g) = "unborn"  BY <1>1 DEF Staged, Voices
  <2>2. Unborn(g)'  BY <1>1 DEF Unborn
  <2>3. StageOf(g)' = "unborn"  BY <2>2 DEF Staged, Voices
  <2>4. QED  BY <2>1, <2>3
<1>2. CASE ~Unborn(g)
  <2>1. PICK h \in issued : h.generation = g  BY <1>2 DEF Unborn
  <2>2. StageOf(h.generation) = PlaceOf(h) /\ PlaceOf(h)' = PlaceOf(h)  BY <2>1 DEF Staged
  <2>3. (StageOf(h.generation) = PlaceOf(h))'  BY <2>1 DEF Staged
  <2>4. QED  BY <2>1, <2>2, <2>3
<1>3. QED  BY <1>1, <1>2

\* The step's two ends.
Sound == IInv /\ Accounted /\ HandlesDiffer /\ Staged

LEMMA IssuedTypes ==
  ASSUME IInv, NEW h \in issued
  PROVE  /\ h.slot \in Slots /\ h.generation \in Voices
         /\ h = [slot |-> h.slot, generation |-> h.generation]
         /\ IsValid(h) <=> slots[h.slot].built /\ slots[h.slot].generation = h.generation
<1>1. h \in [slot : Slots, generation : Generations \ {0}]  BY DEF IInv, TypeOK
<1>2. h.generation # 0  BY <1>1
<1>3. QED  BY <1>1, <1>2 DEF Voices, IsValid

LEMMA StayInPlace ==
  ASSUME Sound, Staged', issued' = issued, UNCHANGED <<active_gen, telemetry_queue>>,
         \A s \in Slots : slots'[s].built = slots[s].built
                          /\ slots'[s].generation = slots[s].generation
  PROVE  UNCHANGED [g \in Generations \ {0} |-> StageOf(g)]
<1>1. ASSUME NEW h \in issued PROVE PlaceOf(h)' = PlaceOf(h)
  <2>1. h.slot \in Slots  BY IssuedTypes DEF Sound
  <2>2. IsValid(h)' <=> IsValid(h)  BY <2>1 DEF IsValid
  <2>3. EndedHas(h.slot)' <=> EndedHas(h.slot)  BY DEF EndedHas
  <2>4. QED  BY <2>2, <2>3 DEF PlaceOf
<1>2. QED  BY <1>1, PlacesMove, NoneMoves DEF Sound

\* One voice changes place: the voice in slot s.
LEMMA SlotMoves ==
  ASSUME Sound, Staged', issued' = issued, NEW s \in Slots, slots[s].built,
         NEW from, NEW to,
         \A h \in issued : h.slot = s /\ h.generation = slots[s].generation =>
                             PlaceOf(h) = from /\ PlaceOf(h)' = to,
         \A h \in issued : h.slot # s \/ h.generation # slots[s].generation =>
                             PlaceOf(h)' = PlaceOf(h)
  PROVE  \E v \in Voices : Life!Move(v, from, to)
<1>1. PICK v \in Voices : v = slots[s].generation
  <2>1. [slot |-> s, generation |-> slots[s].generation] \in issued  BY DEF Sound, HandlesDiffer
  <2>2. QED  BY <2>1, IssuedTypes DEF Sound
<1>2. PICK h \in issued : h.slot = s /\ h.generation = v
  BY <1>1 DEF Sound, HandlesDiffer
<1>3. StageOf(h.generation) = PlaceOf(h) /\ PlaceOf(h) = from /\ PlaceOf(h)' = to
  BY <1>1, <1>2 DEF Sound, Staged
<1>4. (StageOf(h.generation) = PlaceOf(h))'  BY <1>2 DEF Staged
<1>5. ASSUME NEW g \in Voices \ {v} PROVE StageOf(g)' = StageOf(g)
  BY <1>1, PlacesMove DEF Sound
<1>6. QED  BY <1>2, <1>3, <1>4, <1>5, OneMoves

\* An `activate` that is read is the voice's Activate.
LEMMA ActivatesLife ==
  ASSUME Sound, Staged', AudioStep, Activates
  PROVE  \E v \in Voices : Life!Activate(v)
<1> USE DEF Sound
<1>1. PICK a \in Handle :
        /\ a.generation # 0 /\ active_gen[a.slot] = 0 /\ Activating(a.slot)
        /\ slots[a.slot].generation = a.generation
        /\ active_gen' = [active_gen EXCEPT ![a.slot] = a.generation]
        /\ UNCHANGED <<telemetry_queue, slots>>
  BY DEF Activates
<1>2. a.slot \in Slots /\ active_gen \in [Slots -> Generations]  BY DEF Handle, IInv, TypeOK
<1>3. issued' = issued  BY AudioReads
<1>4. slots[a.slot].built /\ ~EndedHas(a.slot)
  BY <1>1, <1>2 DEF Activating, Pending, IInv, HandedOver, OwnedByOne
<1>5. \A s \in Slots : (s # a.slot => active_gen'[s] = active_gen[s])
                       /\ (EndedHas(s)' <=> EndedHas(s))
  BY <1>1, <1>2 DEF EndedHas
<1>6. active_gen'[a.slot] # 0  BY <1>1, <1>2
<1>7. ASSUME NEW h \in issued, h.slot = a.slot, h.generation = slots[a.slot].generation
      PROVE  PlaceOf(h) = "spawned" /\ PlaceOf(h)' = "playing"
  <2>1. IsValid(h) /\ IsValid(h)'
    BY <1>1, <1>4, <1>7, IssuedTypes DEF IsValid
  <2>2. QED  BY <2>1, <1>1, <1>4, <1>6, <1>7 DEF PlaceOf
<1>8. ASSUME NEW h \in issued, h.slot # a.slot \/ h.generation # slots[a.slot].generation
      PROVE  PlaceOf(h)' = PlaceOf(h)
  <2>1. h.slot \in Slots /\ (IsValid(h)' <=> IsValid(h))
    BY <1>1, IssuedTypes DEF IsValid
  <2>2. CASE h.slot # a.slot  BY <2>1, <2>2, <1>5 DEF PlaceOf
  <2>3. CASE h.slot = a.slot
    <3>1. ~IsValid(h)  BY <1>8, <2>3 DEF IsValid
    <3>2. QED  BY <3>1, <2>1 DEF PlaceOf
  <2>4. QED  BY <2>2, <2>3
<1>9. \E v \in Voices : Life!Move(v, "spawned", "playing")
  BY <1>2, <1>3, <1>4, <1>7, <1>8, SlotMoves
<1>10. QED  BY <1>9 DEF Life!Activate

\* A release is the voice's End, whichever loop makes it.
LEMMA ReleasesLife ==
  ASSUME Sound, Staged', AudioStep, Releases
  PROVE  \E v \in Voices : Life!End(v)
<1> USE DEF Sound
<1>1. PICK slot \in Slots, why \in Reasons :
        Has(active_list, slot) /\ ReleaseSlot(slot, why) /\ UNCHANGED slots
  BY DEF Releases
<1>2. PICK e \in Ended : /\ e.slot = slot /\ e.generation = active_gen[slot]
                         /\ telemetry_queue' = Append(telemetry_queue, e)
                         /\ active_gen[slot] # 0
                         /\ active_gen' = [active_gen EXCEPT ![slot] = 0]
  BY <1>1, ReleaseDoes
<1>3. active_gen \in [Slots -> Generations] /\ telemetry_queue \in Seq(Ended)
  BY DEF IInv, TypeOK
<1>4. issued' = issued  BY AudioReads
<1>5. slots[slot].built  BY <1>2 DEF IInv, HandedOver
<1>6. /\ EndedHas(slot)'
      /\ \A s \in Slots : s # slot => (EndedHas(s)' <=> EndedHas(s))
  BY <1>2, <1>3, AppendElements DEF EndedHas
<1>7. active_gen'[slot] = 0 /\ \A s \in Slots : s # slot => active_gen'[s] = active_gen[s]
  BY <1>2, <1>3
<1>8. ASSUME NEW h \in issued, h.slot = slot, h.generation = slots[slot].generation
      PROVE  PlaceOf(h) = "playing" /\ PlaceOf(h)' = "ended"
  <2>1. IsValid(h) /\ IsValid(h)'
    BY <1>1, <1>5, <1>8, IssuedTypes DEF IsValid
  <2>2. EndedHas(h.slot)'  BY <1>6, <1>8
  <2>3. QED  BY <2>1, <2>2, <1>2, <1>7, <1>8 DEF PlaceOf
<1>9. ASSUME NEW h \in issued, h.slot # slot \/ h.generation # slots[slot].generation
      PROVE  PlaceOf(h)' = PlaceOf(h)
  <2>1. h.slot \in Slots /\ (IsValid(h)' <=> IsValid(h))
    BY <1>1, IssuedTypes DEF IsValid
  <2>2. CASE h.slot # slot
    <3>1. (EndedHas(h.slot)' <=> EndedHas(h.slot)) /\ active_gen'[h.slot] = active_gen[h.slot]
      BY <2>1, <2>2, <1>6, <1>7
    <3>2. QED  BY <3>1, <2>1 DEF PlaceOf
  <2>3. CASE h.slot = slot
    <3>1. ~IsValid(h)  BY <1>9, <2>3 DEF IsValid
    <3>2. QED  BY <3>1, <2>1 DEF PlaceOf
  <2>4. QED  BY <2>2, <2>3
<1>10. \E v \in Voices : Life!Move(v, "playing", "ended")
  BY <1>1, <1>4, <1>5, <1>8, <1>9, SlotMoves
<1>11. QED  BY <1>10 DEF Life!End

\* An iteration of reclaim() is the voice's Reclaim.
LEMMA ReclaimsLife ==
  ASSUME Sound, Staged', ReclaimOne
  PROVE  \E v \in Voices : Life!Reclaim(v)
<1> USE DEF Sound
<1>1. PICK slot \in Slots :
        /\ slot = telemetry_queue[1].slot /\ 1 \in 1..Len(telemetry_queue)
        /\ active_gen[slot] = 0
        /\ \A s \in Slots : s # slot => slots'[s] = slots[s]
        /\ slots'[slot] = Emptied(slots[slot])
        /\ UNCHANGED <<issued, audioVars>>
  BY ReclaimOneDoes
<1>2. issued' = issued /\ active_gen' = active_gen  BY <1>1 DEF audioVars
<1>3. EndedHas(slot) /\ slots[slot].built  BY <1>1 DEF EndedHas, Accounted
<1>4. slots[slot] \in SlotRecord  BY DEF IInv, TypeOK, SlotRecord
<1>5. ~slots'[slot].built  BY <1>1, <1>4 DEF Emptied, SlotRecord
<1>6. ASSUME NEW s \in Slots, s # slot PROVE EndedHas(s)' <=> EndedHas(s)
  <2>1. telemetry_queue \in Seq(Ended) /\ telemetry_queue # << >> /\ EndedOnce
        /\ telemetry_queue' = Tail(telemetry_queue) /\ slot = Head(telemetry_queue).slot
    BY <1>1, TailAt DEF ReclaimOne, IInv, TypeOK, OwnedOnce, EndedOnce
  <2>2. QED  BY <1>6, <2>1, EndedTaken
<1>7. ASSUME NEW h \in issued, h.slot = slot, h.generation = slots[slot].generation
      PROVE  PlaceOf(h) = "ended" /\ PlaceOf(h)' = "reclaimed"
  <2>1. IsValid(h)  BY <1>3, <1>7, IssuedTypes
  <2>2. ~IsValid(h)'  BY <1>5, <1>7 DEF IsValid
  <2>3. QED  BY <2>1, <2>2, <1>1, <1>3, <1>7 DEF PlaceOf
<1>8. ASSUME NEW h \in issued, h.slot # slot \/ h.generation # slots[slot].generation
      PROVE  PlaceOf(h)' = PlaceOf(h)
  <2>1. h.slot \in Slots  BY IssuedTypes
  <2>2. CASE h.slot # slot
    <3>1. IsValid(h)' <=> IsValid(h)  BY <2>1, <2>2, <1>1 DEF IsValid
    <3>2. EndedHas(h.slot)' <=> EndedHas(h.slot)  BY <2>1, <2>2, <1>6
    <3>3. QED  BY <3>1, <3>2, <1>2 DEF PlaceOf
  <2>3. CASE h.slot = slot
    <3>1. ~IsValid(h)  BY <1>8, <2>3 DEF IsValid
    <3>2. ~IsValid(h)'  BY <1>5, <2>3 DEF IsValid
    <3>3. QED  BY <3>1, <3>2 DEF PlaceOf
  <2>4. QED  BY <2>2, <2>3
<1>9. \E v \in Voices : Life!Move(v, "ended", "reclaimed")
  BY <1>1, <1>2, <1>3, <1>7, <1>8, SlotMoves
<1>10. QED  BY <1>9 DEF Life!Reclaim

\* While a slot is free, fewer voices hold storage than the pool has slots.
LEMMA FreeSlotLeavesRoom ==
  ASSUME Sound, NEW idx \in Slots, Has(free_slots, idx)
  PROVE  Cardinality({g \in Voices : StageOf(g) \in {"spawned", "playing", "ended"}}) < MaxInstances
<1> USE DEF Sound
<1> DEFINE H == {g \in Voices : StageOf(g) \in {"spawned", "playing", "ended"}}
           S == Slots \ {idx}
           T == {slots[s].generation : s \in S}
           f == [s \in S |-> slots[s].generation]
<1>1. MaxInstances \in Nat /\ Slots = 0..MaxInstances-1 /\ IsFiniteSet(Slots)
      /\ Cardinality(Slots) = MaxInstances
  BY PoolAssumption, FS_Interval DEF Slots
<1>2. IsFiniteSet(S) /\ Cardinality(S) = MaxInstances - 1
  <2>1. IsFiniteSet(Slots \ {idx}) /\ Cardinality(Slots \ {idx}) = Cardinality(Slots) - 1
    <3> HIDE DEF Sound
    <3>1. QED  BY <1>1, FS_RemoveElement
  <2>2. QED  BY <2>1, <1>1
<1>3. f \in Surjection(S, T)  BY DEF Surjection
<1>4. IsFiniteSet(T) /\ Cardinality(T) <= Cardinality(S)
  <2> HIDE DEF f, S, T
  <2>1. QED  BY <1>2, <1>3, FS_Surjection
<1>5. ASSUME NEW g \in H PROVE g \in T
  <2>1. ~Unborn(g)
    <3>1. g \in Generations \ {0} /\ StageOf(g) \in {"spawned", "playing", "ended"}
      BY <1>5 DEF Voices
    <3>2. StageOf(g) # "unborn"  BY <3>1
    <3>3. QED  BY <3>1, <3>2 DEF Staged
  <2>2. PICK h \in issued : h.generation = g  BY <2>1 DEF Unborn
  <2>3. PlaceOf(h) # "reclaimed"  BY <2>2 DEF Staged
  <2>4. IsValid(h) /\ h.slot \in Slots  BY <2>3, IssuedTypes DEF PlaceOf
  <2>5. slots[h.slot].built /\ slots[h.slot].generation = g
    BY <2>2, <2>4, IssuedTypes
  <2>6. h.slot # idx  BY <2>5 DEF Accounted
  <2>7. QED  BY <2>4, <2>5, <2>6
<1>6. Cardinality(H) <= Cardinality(T)  BY <1>4, <1>5, FS_Subset
<1>7. Cardinality(H) \in Nat /\ Cardinality(T) \in Nat
  <2>1. IsFiniteSet(H)  BY <1>4, <1>5, FS_Subset
  <2>2. QED  BY <2>1, <1>4, FS_CardinalityType
<1> HIDE DEF H, T, S
<1>8. Cardinality(H) < MaxInstances  BY <1>1, <1>2, <1>4, <1>6, <1>7
<1>9. QED  BY <1>8 DEF H

\* mgr.create() is the Spawn of the next generation.
LEMMA CreatesLife ==
  ASSUME NoWrap, Sound, Staged', Create
  PROVE  \E v \in Voices : Life!Spawn(v)
<1> USE DEF Sound
<1>0. PICK idx \in Slots, h \in Handle :
        /\ h = [slot |-> idx, generation |-> next_generation]
        /\ Has(free_slots, idx) /\ active_gen[idx] = 0 /\ ~EndedHas(idx)
        /\ \A s \in Slots : s # idx => slots'[s] = slots[s]
        /\ slots'[idx] = [built |-> TRUE, finished_flag |-> FALSE, target |-> 0,
                          generation |-> next_generation, life |-> ctl.life,
                          age_blocks |-> 0, silent_run |-> 0]
        /\ issued' = issued \cup {h}
        /\ UNCHANGED <<telemetry_queue, audioVars>>
  BY CreateDoes
<1>1. /\ h = [slot |-> idx, generation |-> next_generation]
      /\ Has(free_slots, idx) /\ active_gen[idx] = 0 /\ ~EndedHas(idx)
      /\ \A s \in Slots : s # idx => slots'[s] = slots[s]
      /\ slots'[idx].built /\ slots'[idx].generation = next_generation
      /\ issued' = issued \cup {h}
      /\ UNCHANGED <<telemetry_queue, audioVars>>
  BY <1>0
<1>2. PICK v \in Voices : v = next_generation  BY DEF IInv, TypeOK, Voices
<1>3. h.slot = idx /\ h.generation = v /\ v # 0  BY <1>1, <1>2 DEF Voices
<1>4. \A i \in issued : i.generation # v
  <2>1. \A i \in issued : i.generation \in Nat  BY IssuedTypes, ConstantTypes DEF Voices
  <2>2. \A i \in issued : i.generation < v  BY <1>2, CreateIsNew
  <2>3. QED  BY <2>1, <2>2
<1>5. StageOf(v) = "unborn"  BY <1>4 DEF Unborn, Staged, Voices
<1>6. active_gen' = active_gen /\ \A s \in Slots : EndedHas(s)' <=> EndedHas(s)
  BY <1>1 DEF audioVars, EndedHas
<1>7. PlaceOf(h)' = "spawned"
  <2>1. IsValid(h)'  BY <1>1, <1>2, <1>3 DEF IsValid
  <2>2. active_gen'[h.slot] = 0 /\ ~EndedHas(h.slot)'  BY <1>1, <1>3, <1>6
  <2>3. QED  BY <2>1, <2>2 DEF PlaceOf
<1>8. StageOf(v)' = "spawned"
  <2>1. (StageOf(h.generation) = PlaceOf(h))'  BY <1>1 DEF Staged
  <2>2. QED  BY <2>1, <1>3, <1>7
<1>9. ~slots[idx].built  BY <1>1 DEF Accounted
<1>10. ASSUME NEW g \in Voices \ {v} PROVE StageOf(g)' = StageOf(g)
  <2>1. CASE Unborn(g)
    <3>1. Unborn(g)'  BY <2>1, <1>1, <1>3 DEF Unborn
    <3>2. StageOf(g) = "unborn" /\ StageOf(g)' = "unborn"
      BY <2>1, <3>1 DEF Staged, Voices
    <3>3. QED  BY <3>2
  <2>2. CASE ~Unborn(g)
    <3>1. PICK i \in issued : i.generation = g  BY <2>2 DEF Unborn
    <3>2. i.slot \in Slots /\ (IsValid(i) => i.slot # idx)
      BY <1>9, IssuedTypes DEF IsValid
    <3>3. IsValid(i)' <=> IsValid(i)
      <4>1. CASE i.slot = idx  BY <4>1, <1>1, <1>2, <3>1, <3>2 DEF IsValid
      <4>2. CASE i.slot # idx  BY <4>2, <1>1, <3>2 DEF IsValid
      <4>3. QED  BY <4>1, <4>2
    <3>4. PlaceOf(i)' = PlaceOf(i)  BY <3>2, <3>3, <1>6 DEF PlaceOf
    <3>5. StageOf(i.generation) = PlaceOf(i)  BY DEF Staged
    <3>6. (StageOf(i.generation) = PlaceOf(i))'  BY <1>1 DEF Staged
    <3>7. QED  BY <3>1, <3>4, <3>5, <3>6
  <2>3. QED  BY <2>1, <2>2
<1>11. Life!Move(v, "unborn", "spawned")  BY <1>5, <1>8, <1>10, OneMoves
<1>12. Cardinality(Life!Holding([g \in Generations \ {0} |-> StageOf(g)])) < MaxInstances
  <2>1. Life!Holding([g \in Generations \ {0} |-> StageOf(g)])
        = {g \in Voices : StageOf(g) \in {"spawned", "playing", "ended"}}
    BY DEF Life!Holding, Voices
  <2>2. QED  BY <1>1, <2>1, FreeSlotLeavesRoom
<1>13. \A H : Life!Cardinality(H) = Cardinality(H)  BY DEF Life!Cardinality, Cardinality
<1>14. QED  BY <1>11, <1>12, <1>13 DEF Life!Spawn

-----------------------------------------------------------------------------
LEMMA LifeInit == Init /\ Staged => Life!Init
<1> SUFFICES ASSUME Init, Staged PROVE Life!Init  OBVIOUS
<1>1. issued = {}  BY DEF Init
<1>2. \A g \in Voices : StageOf(g) = "unborn"  BY <1>1 DEF Staged, Unborn, Voices
<1>3. QED  BY <1>2 DEF Life!Init, Voices

LEMMA LifeStep ==
  NoWrap /\ Sound /\ Staged' /\ [Next]_vars
    => [Life!Next]_([g \in Generations \ {0} |-> StageOf(g)])
<1> SUFFICES ASSUME NoWrap, Sound, Staged', [Next]_vars
             PROVE  \/ UNCHANGED [g \in Generations \ {0} |-> StageOf(g)]
                    \/ Life!Next
  OBVIOUS
<1>1. IInv  BY DEF Sound
<1>2. CASE UNCHANGED vars
  <2>1. UNCHANGED <<slots, issued, active_gen, telemetry_queue>>
    BY <1>2 DEF vars, controlVars, audioVars
  <2>2. QED  BY <2>1, StayInPlace
<1>3. CASE ControlStep
  <2>1. Create \/ ReclaimOne \/ ControlCalls  BY <1>1, <1>3, ControlDoes
  <2>2. CASE Create
    <3>1. PICK v \in Voices : Life!Spawn(v)  BY <2>2, CreatesLife
    <3>2. QED  BY <3>1 DEF Life!Next, Voices
  <2>3. CASE ReclaimOne
    <3>1. PICK v \in Voices : Life!Reclaim(v)  BY <2>3, ReclaimsLife
    <3>2. QED  BY <3>1 DEF Life!Next, Voices
  <2>4. CASE ControlCalls
    <3>1. UNCHANGED <<slots, issued, active_gen, telemetry_queue>>
      BY <2>4 DEF ControlCalls, audioVars
    <3>2. QED  BY <3>1, StayInPlace
  <2>5. QED  BY <2>1, <2>2, <2>3, <2>4
<1>4. CASE AudioStep
  <2>1. CASE Activates
    <3>1. PICK v \in Voices : Life!Activate(v)  BY <1>4, <2>1, ActivatesLife
    <3>2. QED  BY <3>1 DEF Life!Next, Voices
  <2>2. CASE Releases
    <3>1. PICK v \in Voices : Life!End(v)  BY <1>4, <2>2, ReleasesLife
    <3>2. QED  BY <3>1 DEF Life!Next, Voices
  <2>3. CASE UNCHANGED <<active_gen, active_list, telemetry_queue>>
    <3>1. \A s \in Slots : slots'[s].built = slots[s].built
                           /\ slots'[s].generation = slots[s].generation
      BY <1>1, <1>4, AudioDoes
    <3>2. issued' = issued  BY <1>1, <1>4, AudioReads
    <3>3. QED  BY <2>3, <3>1, <3>2, StayInPlace
  <2>4. QED  BY <1>1, <1>4, <2>1, <2>2, <2>3, AudioCases
<1>5. QED  BY <1>2, <1>3, <1>4 DEF Next

\* Every handle spawn() returns names a voice of its own, for as long as
\* next_generation does not come round (instance_manager's create(), "next_
\* generation_++" and the skipped 0).
THEOREM HandlesAreNew == NoWrap => (Spec => []HandlesDiffer)
<1> SUFFICES ASSUME NoWrap PROVE Spec => []HandlesDiffer  OBVIOUS
<1>1. IInv /\ HandlesDiffer /\ [Next]_vars => HandlesDiffer'  BY HandlesStep
<1>2. QED  BY <1>1, HandlesInit, Invariance, PTL DEF Spec

\* The safety half of ImplementsLifecycle: as long as next_generation does not
\* come round, every step of the two threads is one voice's Spawn, Activate, End
\* or Reclaim, in that order, each once, or changes no voice's stage; and mgr.
\* create() finds a free slot only when fewer voices hold storage than the pool
\* has slots.
THEOREM LifecycleIsImplemented == NoWrap => (Spec => Life!Spec)
<1> SUFFICES ASSUME NoWrap PROVE Spec => Life!Spec  OBVIOUS
<1>1. IInv /\ HandlesDiffer /\ [Next]_vars => HandlesDiffer'  BY HandlesStep
<1>2. IInv /\ Accounted /\ HandlesDiffer /\ Staged /\ Staged' /\ [Next]_vars
        => [Life!Next]_([g \in Generations \ {0} |-> StageOf(g)])
  BY LifeStep DEF Sound
<1>3. QED
  BY <1>1, <1>2, HandlesInit, AccountedInit, AccountedStep, StagedHolds, LifeInit, Invariance, PTL
     DEF Spec, Life!Spec
=============================================================================
