------------------------------- MODULE Engine -------------------------------
(***************************************************************************)
(* The instance engine (engine.hpp, engine.cpp, instance_manager.hpp): a   *)
(* control thread that creates, kills, routes and recycles voices, and an  *)
(* audio thread that runs process() once per block.  The threads share no  *)
(* lock: a slot of the instance pool is handed to the audio thread by an   *)
(* `activate` command and handed back by a telemetry event.                *)
(*                                                                         *)
(* The control thread's loops over the telemetry queue and its two         *)
(* enqueues of a spawn are separate steps, so are the audio thread's       *)
(* commands, the iterations of its reap scan and its releases: every       *)
(* interleaving of the two threads at their queues is a behaviour.         *)
(*                                                                         *)
(* Abstracted: the two queues (moodycamel::ReaderWriterQueue, external)    *)
(* are FIFO sequences; a voice has one output and one input terminal; the  *)
(* value a host sends to a voice's port is the generation of the handle it *)
(* sent it to; `routes` is a table whose order of entries is not kept (the *)
(* executors' orders are the subject of ParallelExec and SequentialExec).  *)
(***************************************************************************)
EXTENDS Integers, Sequences, FiniteSets

CONSTANTS
  MaxInstances,     \* engine::init's max_instances: the size of the pool
  GenMod,           \* 2^w, w the width of next_generation (32 in the code)
  TelemetryCap,     \* capacity of telemetry_queue
  RouteCap,         \* capacity of `routes`
  Policies,         \* the lifetime policies the host spawns voices with
  HostCalls,        \* the calls the host makes besides spawn and reclaim
  MayFinish,        \* do nodes of this run's voices raise finished_flag?
  AgeBound,         \* age_blocks saturates here, at or above every ttl
  CommandBound,     \* bound: the host waits when this many commands wait
  MaxSpawns         \* bound on the handles the host is ever given

Kinds == {"permanent", "timed", "until_finished", "until_silent"}

CommandTypes == {"activate", "kill", "set_parameter", "connect", "disconnect"}

ASSUME PoolAssumption == MaxInstances \in Nat \ {0}
ASSUME GenAssumption == GenMod \in Nat /\ GenMod >= 2
ASSUME TelemetryAssumption == TelemetryCap \in Nat /\ TelemetryCap >= MaxInstances
ASSUME BoundAssumption == CommandBound \in Nat /\ MaxSpawns \in Nat
ASSUME RouteAssumption == RouteCap \in Nat /\ HostCalls \subseteq CommandTypes
ASSUME PolicyAssumption ==
  /\ AgeBound \in Nat /\ MayFinish \in BOOLEAN
  /\ Policies \subseteq [kind : Kinds, ttl_blocks : 0..AgeBound, silence_blocks : 0..AgeBound]
  /\ Policies # {}

Slots == 0..MaxInstances-1
Generations == 0..GenMod-1
Handle == [slot : Slots, generation : Generations]
null_handle == [slot |-> 0, generation |-> 0]

VARIABLES
  \* control thread (instance_manager and the host's call in progress)
  slots, free_slots, next_generation,
  ctl,              \* where the control thread is in the call it is making
  issued,           \* the handles the host was given, ever
  \* the two queues
  command_queue, telemetry_queue,
  \* audio thread
  active_gen, active_list, routes,
  phase,            \* process(): draining (or not yet called), or in reap_pass
  cursor,           \* position of the reap scan in active_list
  reap_scratch,     \* reap_scratch and reap_reasons, side by side
  reap_capacity     \* capacity of reap_reasons

controlVars == <<slots, free_slots, next_generation, ctl, issued>>
audioVars == <<active_gen, active_list, routes, phase, cursor, reap_scratch, reap_capacity>>
vars == <<controlVars, command_queue, telemetry_queue, audioVars>>

Reasons == {"killed", "finished", "timed_out", "silent"}
Target == [to_master : BOOLEAN, dst : Handle]
Master == [to_master |-> TRUE, dst |-> null_handle]
To(h) == [to_master |-> FALSE, dst |-> h]
Command == [type : CommandTypes, handle : Handle, dest : Target]
Ended == [slot : Slots, generation : Generations, reason : Reasons]
Reap == [slot : Slots, why : Reasons]
Route == [live : BOOLEAN, src : Handle, to_master : BOOLEAN, dst : Handle]
NoRoute == [live |-> FALSE, src |-> null_handle, to_master |-> TRUE, dst |-> null_handle]

\* Mutant of Emptied: recycle() forgets inst.reset().
EmptiedKeepsInstance(s) == [s EXCEPT !.finished_flag = FALSE, !.target = 0]
\* A slot without an instance; generation and life are what they were.
Emptied(s) == [s EXCEPT !.built = FALSE, !.finished_flag = FALSE, !.target = 0]

\* A slot's `life` before its first voice; the control thread between calls.
NoLife == CHOOSE life \in Policies : TRUE
AtRest == [pc |-> "idle", life |-> NoLife, dest |-> Master, routed |-> FALSE, h |-> null_handle]

Init ==
  /\ slots = [s \in Slots |-> [built |-> FALSE, finished_flag |-> FALSE, target |-> 0,
                               generation |-> 0, life |-> NoLife,
                               age_blocks |-> 0, silent_run |-> 0]]
  /\ free_slots = [i \in 1..MaxInstances |-> MaxInstances - i]
  /\ next_generation = 1
  /\ ctl = AtRest
  /\ issued = {}
  /\ command_queue = << >> /\ telemetry_queue = << >>
  /\ active_gen = [s \in Slots |-> 0]
  /\ active_list = << >>
  /\ routes = [i \in 1..RouteCap |-> NoRoute]
  /\ phase = "drain" /\ cursor = 0 /\ reap_scratch = << >> /\ reap_capacity = 0

-----------------------------------------------------------------------------
(* Control thread. *)

Idle == ctl.pc = "idle"
Room == Len(command_queue) < CommandBound
Enqueue(type, h, dest) ==
  command_queue' = Append(command_queue, [type |-> type, handle |-> h, dest |-> dest])

IsValid(h) == /\ h.generation # 0
              /\ slots[h.slot].generation = h.generation
              /\ slots[h.slot].built

\* spawn() is entered: it reclaims first, with no `out`.
Spawn(life, dest, routed) ==
  /\ Idle /\ Len(command_queue) + 1 < CommandBound /\ Cardinality(issued) < MaxSpawns
  /\ ctl' = [AtRest EXCEPT !.pc = "spawn", !.life = life, !.dest = dest, !.routed = routed]
  /\ UNCHANGED <<slots, free_slots, next_generation, issued,
                 command_queue, telemetry_queue, audioVars>>

\* reclaim(), called by the host.
Reclaim ==
  /\ Idle
  /\ ctl' = [AtRest EXCEPT !.pc = "reclaim"]
  /\ UNCHANGED <<slots, free_slots, next_generation, issued,
                 command_queue, telemetry_queue, audioVars>>

\* Mutant of Recycle: slot 0 taken for "no slot".
RecycleNonZero(slot) ==
  /\ slots' = [slots EXCEPT ![slot] = Emptied(@)]
  /\ free_slots' = IF slot > 0 THEN Append(free_slots, slot) ELSE free_slots
Recycle(slot) ==
  /\ slots' = [slots EXCEPT ![slot] = Emptied(@)]
  /\ free_slots' = Append(free_slots, slot)

\* One iteration of reclaim's loop, for spawn() or for the host.
ReclaimOne ==
  /\ ctl.pc \in {"spawn", "reclaim"}
  /\ telemetry_queue # << >>
  /\ Recycle(Head(telemetry_queue).slot)
  /\ telemetry_queue' = Tail(telemetry_queue)
  /\ UNCHANGED <<next_generation, ctl, issued, command_queue, audioVars>>

ReclaimReturns ==
  /\ ctl.pc = "reclaim" /\ telemetry_queue = << >>
  /\ ctl' = AtRest
  /\ UNCHANGED <<slots, free_slots, next_generation, issued,
                 command_queue, telemetry_queue, audioVars>>

SpawnExhausted ==
  /\ ctl.pc = "spawn" /\ telemetry_queue = << >> /\ free_slots = << >>
  /\ ctl' = AtRest
  /\ UNCHANGED <<slots, free_slots, next_generation, issued,
                 command_queue, telemetry_queue, audioVars>>

\* Mutant of NextGen: 0 is not skipped on wrap.
NextGenWithZero(g) == (g + 1) % GenMod

\* next_generation++, skipping 0 on wrap.
NextGen(g) == IF (g + 1) % GenMod = 0 THEN 1 ELSE (g + 1) % GenMod

\* Mutant of Create: takes the front of free_slots and pops its back.
CreateFromFront ==
  /\ ctl.pc = "spawn" /\ telemetry_queue = << >> /\ free_slots # << >>
  /\ LET idx == free_slots[1]
         h == [slot |-> idx, generation |-> next_generation]
     IN /\ slots' = [slots EXCEPT ![idx] =
                       [built |-> TRUE, finished_flag |-> FALSE, target |-> 0,
                        generation |-> next_generation, life |-> ctl.life,
                        age_blocks |-> 0, silent_run |-> 0]]
        /\ issued' = issued \cup {h}
        /\ ctl' = IF ctl.routed THEN [ctl EXCEPT !.pc = "connect", !.h = h] ELSE AtRest
        /\ Enqueue("activate", h, Master)
  /\ free_slots' = SubSeq(free_slots, 1, Len(free_slots) - 1)
  /\ next_generation' = NextGen(next_generation)
  /\ UNCHANGED <<telemetry_queue, audioVars>>

\* mgr.create(): a free slot gets an instance; the `activate` is enqueued.
Create ==
  /\ ctl.pc = "spawn" /\ telemetry_queue = << >> /\ free_slots # << >>
  /\ LET idx == free_slots[Len(free_slots)]
         h == [slot |-> idx, generation |-> next_generation]
     IN /\ slots' = [slots EXCEPT ![idx] =
                       [built |-> TRUE, finished_flag |-> FALSE, target |-> 0,
                        generation |-> next_generation, life |-> ctl.life,
                        age_blocks |-> 0, silent_run |-> 0]]
        /\ issued' = issued \cup {h}
        /\ ctl' = IF ctl.routed THEN [ctl EXCEPT !.pc = "connect", !.h = h] ELSE AtRest
        /\ Enqueue("activate", h, Master)
  /\ free_slots' = SubSeq(free_slots, 1, Len(free_slots) - 1)
  /\ next_generation' = NextGen(next_generation)
  /\ UNCHANGED <<telemetry_queue, audioVars>>

\* spawn()'s second enqueue: the voice's route to its destination.
SpawnConnect ==
  /\ ctl.pc = "connect"
  /\ Enqueue("connect", ctl.h, ctl.dest)
  /\ ctl' = AtRest
  /\ UNCHANGED <<slots, free_slots, next_generation, issued, telemetry_queue, audioVars>>

\* kill, set_parameter, connect and disconnect only enqueue a command.
Send(type, h, dest) ==
  /\ Idle /\ Room
  /\ Enqueue(type, h, dest)
  /\ UNCHANGED <<controlVars, telemetry_queue, audioVars>>

Kill(h) == Send("kill", h, Master)
SetParameter(h) == Send("set_parameter", h, Master)
Connect(h, dest) == Send("connect", h, dest)
Disconnect(h, dest) == Send("disconnect", h, dest)

-----------------------------------------------------------------------------
(* Audio thread: engine::process. *)

\* try_dequeue yields a command of this type; what follows is the switch's case.
Dequeue(type) ==
  /\ phase = "drain"
  /\ command_queue # << >>
  /\ Head(command_queue).type = type
  /\ command_queue' = Tail(command_queue)
  /\ UNCHANGED <<phase, cursor, reap_scratch, reap_capacity>>

DrainActivate ==
  /\ Dequeue("activate")
  /\ LET h == Head(command_queue).handle IN
     IF active_gen[h.slot] = 0
       THEN /\ active_gen' = [active_gen EXCEPT ![h.slot] = h.generation]
            /\ active_list' = Append(active_list, h.slot)
       ELSE UNCHANGED <<active_gen, active_list>>
  /\ UNCHANGED <<controlVars, telemetry_queue, routes>>

\* Mutant of WithoutFirst: erases one past the slot it found.
WithoutNext(seq, e) ==
  IF \E i \in 1..Len(seq) : seq[i] = e
    THEN LET first == CHOOSE i \in 1..Len(seq) : seq[i] = e
         IN SubSeq(seq, 1, first) \o SubSeq(seq, first + 2, Len(seq))
    ELSE seq

\* active_list.erase(find(slot)).
WithoutFirst(seq, e) ==
  IF \E i \in 1..Len(seq) : seq[i] = e
    THEN LET first == CHOOSE i \in 1..Len(seq) :
                        seq[i] = e /\ \A j \in 1..i-1 : seq[j] # e
         IN SubSeq(seq, 1, first - 1) \o SubSeq(seq, first + 1, Len(seq))
    ELSE seq

\* Mutant of Touches: routes INTO the released slot are kept.
TouchesSource(r, slot) == r.live /\ r.src.slot = slot
Touches(r, slot) == r.live /\ (r.src.slot = slot \/ (~r.to_master /\ r.dst.slot = slot))

\* Mutants of ReleaseSlot: the queue holds one event less than it should; the
\* slot's active generation is not cleared.
ReleaseSlotFullEarly(slot, why) ==
  /\ active_gen' = [active_gen EXCEPT ![slot] = 0]
  /\ active_list' = WithoutFirst(active_list, slot)
  /\ routes' = [i \in DOMAIN routes |-> IF Touches(routes[i], slot) THEN NoRoute ELSE routes[i]]
  /\ telemetry_queue' =
       IF Len(telemetry_queue) + 1 < TelemetryCap
         THEN Append(telemetry_queue,
                     [slot |-> slot, generation |-> active_gen[slot], reason |-> why])
         ELSE telemetry_queue
ReleaseSlotKeepsGen(slot, why) ==
  /\ active_gen' = active_gen
  /\ active_list' = WithoutFirst(active_list, slot)
  /\ routes' = [i \in DOMAIN routes |-> IF Touches(routes[i], slot) THEN NoRoute ELSE routes[i]]
  /\ telemetry_queue' = Append(telemetry_queue,
                        [slot |-> slot, generation |-> active_gen[slot], reason |-> why])

\* try_enqueue never grows the queue: an event that does not fit is dropped.
ReleaseSlot(slot, why) ==
  /\ active_gen' = [active_gen EXCEPT ![slot] = 0]
  /\ active_list' = WithoutFirst(active_list, slot)
  /\ routes' = [i \in DOMAIN routes |-> IF Touches(routes[i], slot) THEN NoRoute ELSE routes[i]]
  /\ telemetry_queue' =
       IF Len(telemetry_queue) < TelemetryCap
         THEN Append(telemetry_queue,
                     [slot |-> slot, generation |-> active_gen[slot], reason |-> why])
         ELSE telemetry_queue

\* Mutants of DrainKill: the generation is not compared; a voice that has not
\* played a block yet is left alone.
DrainKillBySlot ==
  /\ Dequeue("kill")
  /\ ReleaseSlot(Head(command_queue).handle.slot, "killed")
  /\ UNCHANGED controlVars
DrainKillNotYetPlayed ==
  /\ Dequeue("kill")
  /\ LET h == Head(command_queue).handle IN
     IF active_gen[h.slot] = h.generation /\ slots[h.slot].age_blocks > 0
       THEN ReleaseSlot(h.slot, "killed")
       ELSE UNCHANGED <<active_gen, active_list, routes, telemetry_queue>>
  /\ UNCHANGED controlVars

DrainKill ==
  /\ Dequeue("kill")
  /\ LET h == Head(command_queue).handle IN
     IF active_gen[h.slot] = h.generation
       THEN ReleaseSlot(h.slot, "killed")
       ELSE UNCHANGED <<active_gen, active_list, routes, telemetry_queue>>
  /\ UNCHANGED controlVars

\* Mutant of DrainSetParameter: the generation is not compared.
DrainSetParameterBySlot ==
  /\ Dequeue("set_parameter")
  /\ LET h == Head(command_queue).handle IN
     IF slots[h.slot].built
       THEN slots' = [slots EXCEPT ![h.slot].target = h.generation]
       ELSE UNCHANGED slots
  /\ UNCHANGED <<free_slots, next_generation, ctl, issued, telemetry_queue,
                 active_gen, active_list, routes>>

DrainSetParameter ==
  /\ Dequeue("set_parameter")
  /\ LET h == Head(command_queue).handle IN
     IF active_gen[h.slot] = h.generation /\ slots[h.slot].built
       THEN slots' = [slots EXCEPT ![h.slot].target = h.generation]
       ELSE UNCHANGED slots
  /\ UNCHANGED <<free_slots, next_generation, ctl, issued, telemetry_queue,
                 active_gen, active_list, routes>>

Live(h) == active_gen[h.slot] = h.generation
RouteLive(r) == Live(r.src) /\ (r.to_master \/ Live(r.dst))

\* add_route: both ends must be active now, and the table must have room.
DrainConnect ==
  /\ Dequeue("connect")
  /\ LET cmd == Head(command_queue)
         r == [live |-> TRUE, src |-> cmd.handle,
               to_master |-> cmd.dest.to_master, dst |-> cmd.dest.dst]
     IN IF RouteLive(r) /\ \E i \in DOMAIN routes : ~routes[i].live
          THEN \E i \in DOMAIN routes :
                 /\ ~routes[i].live /\ \A j \in 1..i-1 : routes[j].live
                 /\ routes' = [routes EXCEPT ![i] = r]
          ELSE UNCHANGED routes
  /\ UNCHANGED <<controlVars, telemetry_queue, active_gen, active_list>>

\* remove_route: every route with these two ends.
DrainDisconnect ==
  /\ Dequeue("disconnect")
  /\ LET cmd == Head(command_queue)
         Matches(r) == /\ r.live /\ r.src = cmd.handle /\ r.to_master = cmd.dest.to_master
                       /\ r.to_master \/ r.dst = cmd.dest.dst
     IN routes' = [i \in DOMAIN routes |-> IF Matches(routes[i]) THEN NoRoute ELSE routes[i]]
  /\ UNCHANGED <<controlVars, telemetry_queue, active_gen, active_list>>

\* The queue is seen empty; every active instance computes its block.  A node
\* may raise its instance's finished_flag while it does.
Active == {s \in Slots : active_gen[s] # 0}

Compute ==
  /\ phase = "drain" /\ command_queue = << >>
  /\ \E raised \in IF MayFinish THEN SUBSET Active ELSE {{}} :
       slots' = [s \in Slots |-> IF s \in raised THEN [slots[s] EXCEPT !.finished_flag = TRUE]
                                                 ELSE slots[s]]
  /\ phase' = "scan" /\ cursor' = 1 /\ reap_scratch' = << >>
  /\ UNCHANGED <<free_slots, next_generation, ctl, issued, command_queue, telemetry_queue,
                 active_gen, active_list, routes, reap_capacity>>

\* should_reap, for a block whose peak is (or is not) under the threshold: the
\* slot it leaves, and whether and why it asks for the voice to be reaped.
Older(s) == IF s.age_blocks < AgeBound THEN s.age_blocks + 1 ELSE s.age_blocks
Aged(s, quiet) ==
  IF s.finished_flag THEN s
  ELSE [s EXCEPT !.age_blocks = Older(s),
                 !.silent_run = IF s.life.kind # "until_silent" THEN @
                                ELSE IF quiet THEN s.silent_run + 1 ELSE 0]
\* Mutant of ReapReason: > for >=.
ReapReasonLate(s, quiet) ==
  CASE s.finished_flag -> "finished"
    [] ~s.finished_flag /\ s.life.kind = "timed"
       /\ Aged(s, quiet).age_blocks > s.life.ttl_blocks -> "timed_out"
    [] ~s.finished_flag /\ s.life.kind = "until_silent"
       /\ Aged(s, quiet).silent_run >= s.life.silence_blocks -> "silent"
    [] OTHER -> "none"
ReapReason(s, quiet) ==
  CASE s.finished_flag -> "finished"
    [] ~s.finished_flag /\ s.life.kind = "timed"
       /\ Aged(s, quiet).age_blocks >= s.life.ttl_blocks -> "timed_out"
    [] ~s.finished_flag /\ s.life.kind = "until_silent"
       /\ Aged(s, quiet).silent_run >= s.life.silence_blocks -> "silent"
    [] OTHER -> "none"

\* One iteration of reap_pass's first loop.  reap_reasons grows when it must.
Scan ==
  /\ phase = "scan" /\ cursor <= Len(active_list)
  /\ \E quiet \in BOOLEAN :
       LET slot == active_list[cursor]
           why == ReapReason(slots[slot], quiet)
       IN /\ slots' = [slots EXCEPT ![slot] = Aged(@, quiet)]
          /\ reap_scratch' = IF why = "none" THEN reap_scratch
                             ELSE Append(reap_scratch, [slot |-> slot, why |-> why])
          /\ reap_capacity' = IF Len(reap_scratch') > reap_capacity
                                THEN Len(reap_scratch') ELSE reap_capacity
  /\ cursor' = cursor + 1
  /\ UNCHANGED <<free_slots, next_generation, ctl, issued, command_queue, telemetry_queue,
                 active_gen, active_list, routes, phase>>

\* reap_pass's second loop.
ReapOne ==
  /\ phase = "scan" /\ cursor > Len(active_list) /\ reap_scratch # << >>
  /\ ReleaseSlot(Head(reap_scratch).slot, Head(reap_scratch).why)
  /\ reap_scratch' = Tail(reap_scratch)
  /\ UNCHANGED <<controlVars, command_queue, phase, cursor, reap_capacity>>

EndBlock ==
  /\ phase = "scan" /\ cursor > Len(active_list) /\ reap_scratch = << >>
  /\ phase' = "drain" /\ cursor' = 0
  /\ UNCHANGED <<controlVars, command_queue, telemetry_queue,
                 active_gen, active_list, routes, reap_scratch, reap_capacity>>

-----------------------------------------------------------------------------
AudioStep ==
  \/ DrainActivate \/ DrainKill \/ DrainSetParameter \/ DrainConnect
  \/ DrainDisconnect \/ Compute \/ Scan \/ ReapOne \/ EndBlock

\* The call the control thread is in goes on.
ControlGoesOn == ReclaimOne \/ ReclaimReturns \/ SpawnExhausted \/ Create \/ SpawnConnect

\* The destinations a host can name.
Dests == {Master} \cup (IF "connect" \in HostCalls THEN {To(h) : h \in issued} ELSE {})

\* The host passes handles it was given.  It spawns into a voice only when
\* is_valid says that voice is alive (runtime::spawn).
ControlStep ==
  \/ ControlGoesOn
  \/ Reclaim
  \/ \E life \in Policies : Spawn(life, Master, FALSE)
  \/ /\ "connect" \in HostCalls
     /\ \E life \in Policies : \E dest \in Dests :
          (dest.to_master \/ IsValid(dest.dst)) /\ Spawn(life, dest, TRUE)
  \/ "kill" \in HostCalls /\ \E h \in issued : Kill(h)
  \/ "set_parameter" \in HostCalls /\ \E h \in issued : SetParameter(h)
  \/ "connect" \in HostCalls /\ \E h \in issued : \E dest \in Dests : Connect(h, dest)
  \/ "disconnect" \in HostCalls /\ \E h \in issued : \E dest \in Dests : Disconnect(h, dest)

Next == ControlStep \/ AudioStep

\* The backend keeps asking for blocks, a call that was made returns, and the
\* host keeps pumping.
Fairness == WF_vars(AudioStep) /\ WF_vars(ControlGoesOn) /\ WF_vars(Reclaim)

Spec == Init /\ [][Next]_vars
FairSpec == Spec /\ Fairness
=============================================================================
