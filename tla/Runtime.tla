------------------------------- MODULE Runtime -------------------------------
(***************************************************************************)
(* The runtime facade (api.cpp): spawn and pump on the control thread,     *)
(* with the on_voice_end callback, which pump() fires for each voice it    *)
(* reclaimed and which may itself call the runtime.  The control thread is *)
(* a stack of calls: a pump in progress may hold a spawn, or another pump, *)
(* made by its callback.                                                   *)
(*                                                                         *)
(* Below it is the engine as VoiceLifecycle promises it (module Engine     *)
(* implements that): a spawned voice ends at some time, in any order, and  *)
(* its event waits in telemetry_queue until reclaim() takes it.            *)
(*                                                                         *)
(* Abstracted: generations do not wrap; a callback is installed (without   *)
(* one pump() only reclaims); calls that are refused before they reach the *)
(* engine (unknown blueprint, terminal or parameter) change nothing; a     *)
(* kill only makes a voice end.                                            *)
(***************************************************************************)
EXTENDS Integers, Sequences, FiniteSets

CONSTANTS
  MaxInstances,     \* size of the pool
  Blueprints,       \* registered blueprints
  CallbackCalls,    \* what the callback may call: "spawn", "pump"
  MaxSpawns,        \* bound on the voices ever spawned
  MaxDepth          \* bound on the calls in progress at one time

invalid_blueprint == "invalid"

ASSUME SizeAssumption == MaxInstances \in Nat \ {0} /\ MaxSpawns \in Nat /\ MaxDepth \in Nat
ASSUME NameAssumption == invalid_blueprint \notin Blueprints /\ CallbackCalls \subseteq {"spawn", "pump"}

Slots == 0..MaxInstances-1
Handle == [slot : Slots, generation : 1..MaxSpawns]
Voice(h, id) == [handle |-> h, blueprint |-> id]

VARIABLES
  \* instance_manager, and the engine's queue of events
  generation, built,  \* per slot
  free_slots, next_generation, telemetry_queue,
  \* runtime
  slot_blueprint,
  ended_scratch,      \* the storage of the vector; clear() leaves it as it is
  scratch_size,       \* the vector's size
  stack,              \* the calls in progress, the innermost last
  \* what the host has seen
  given,              \* the voices spawn returned
  events,             \* the voices on_voice_end was called with, in order
  ended               \* the handles whose voices ended, in order

managerVars == <<generation, built, free_slots, next_generation>>
hostVars == <<given, events, ended>>
vars == <<managerVars, telemetry_queue, slot_blueprint, ended_scratch, scratch_size, stack, hostVars>>

Init ==
  /\ generation = [s \in Slots |-> 0] /\ built = [s \in Slots |-> FALSE]
  /\ free_slots = [i \in 1..MaxInstances |-> MaxInstances - i] /\ next_generation = 1
  /\ telemetry_queue = << >>
  /\ slot_blueprint = [s \in Slots |-> invalid_blueprint]
  /\ ended_scratch = << >> /\ scratch_size = 0
  /\ stack = << >>
  /\ given = {} /\ events = << >> /\ ended = << >>

Alive(h) == generation[h.slot] = h.generation /\ built[h.slot]

\* Voices the audio thread holds: spawned and not ended.
Held == {v.handle : v \in given} \ {ended[i] : i \in DOMAIN ended}

EndVoice(h) ==
  /\ h \in Held
  /\ telemetry_queue' = Append(telemetry_queue, h)
  /\ ended' = Append(ended, h)
  /\ UNCHANGED <<managerVars, slot_blueprint, ended_scratch, scratch_size, stack, given, events>>

-----------------------------------------------------------------------------
(* The stack of calls. *)

Top == stack[Len(stack)]
TopIs(pc) == stack # << >> /\ Top.pc = pc
Return == stack' = SubSeq(stack, 1, Len(stack) - 1)
ReplaceTop(frame) == stack' = [stack EXCEPT ![Len(stack)] = frame]

PumpFrame == [pc |-> "reclaim", i |-> 1, end |-> 0, moved |-> FALSE, respawned |-> FALSE]
SpawnFrame(id) == [pc |-> "spawn", id |-> id]

\* The host's own code runs: between calls, or in a callback that may make this one.
HostMayCall(call) ==
  \/ stack = << >>
  \/ TopIs("callback") /\ call \in CallbackCalls /\ Len(stack) < MaxDepth

-----------------------------------------------------------------------------
(* pump() *)

CallPump ==
  /\ HostMayCall("pump")
  /\ scratch_size' = 0
  /\ stack' = Append(stack, PumpFrame)
  /\ UNCHANGED <<managerVars, telemetry_queue, slot_blueprint, ended_scratch, hostVars>>

\* Mutant of Recycle: the slot is not given back.
RecycleKeepsSlot(slot) ==
  /\ built' = [built EXCEPT ![slot] = FALSE]
  /\ UNCHANGED <<generation, free_slots, next_generation>>
Recycle(slot) ==
  /\ built' = [built EXCEPT ![slot] = FALSE]
  /\ free_slots' = Append(free_slots, slot)
  /\ UNCHANGED <<generation, next_generation>>

\* A push_back beyond the storage moves it: pumps in progress keep iterators
\* into memory that was freed.
PushEnded(h) ==
  /\ scratch_size' = scratch_size + 1
  /\ IF scratch_size < Len(ended_scratch)
       THEN ended_scratch' = [ended_scratch EXCEPT ![scratch_size + 1] = h] /\ UNCHANGED stack
       ELSE /\ ended_scratch' = Append(ended_scratch, h)
            /\ stack' = [n \in DOMAIN stack |-> IF stack[n].pc = "callback"
                                                  THEN [stack[n] EXCEPT !.moved = TRUE]
                                                  ELSE stack[n]]

\* One iteration of reclaim(&ended_scratch).
PumpReclaimOne ==
  /\ TopIs("reclaim") /\ telemetry_queue # << >>
  /\ PushEnded(Head(telemetry_queue))
  /\ Recycle(Head(telemetry_queue).slot)
  /\ telemetry_queue' = Tail(telemetry_queue)
  /\ UNCHANGED <<slot_blueprint, hostVars>>

\* Mutant of PumpReclaimed: the loop stops before the last event.
PumpReclaimedButLast ==
  /\ TopIs("reclaim") /\ telemetry_queue = << >>
  /\ ReplaceTop([Top EXCEPT !.pc = "report",
                            !.end = IF scratch_size > 1 THEN scratch_size - 1 ELSE scratch_size])
  /\ UNCHANGED <<managerVars, telemetry_queue, slot_blueprint, ended_scratch, scratch_size, hostVars>>

\* reclaim() returned; the loop over ended_scratch takes its end once.
PumpReclaimed ==
  /\ TopIs("reclaim") /\ telemetry_queue = << >>
  /\ ReplaceTop([Top EXCEPT !.pc = "report", !.end = scratch_size])
  /\ UNCHANGED <<managerVars, telemetry_queue, slot_blueprint, ended_scratch, scratch_size, hostVars>>

\* Mutant of ReportOne: the newest event first.
ReportLast ==
  /\ TopIs("report") /\ Top.i <= Top.end
  /\ LET h == ended_scratch[Top.end + 1 - Top.i] IN
     events' = Append(events, Voice(h, slot_blueprint[h.slot]))
  /\ ReplaceTop([Top EXCEPT !.pc = "callback", !.i = @ + 1, !.respawned = FALSE])
  /\ UNCHANGED <<managerVars, telemetry_queue, slot_blueprint, ended_scratch, scratch_size, given, ended>>

\* The next event goes to the callback, with the blueprint slot_blueprint has
\* for its slot now.  An iterator into moved storage may read anything.
ReportOne ==
  /\ TopIs("report") /\ Top.i <= Top.end
  /\ \E h \in IF Top.moved THEN {v.handle : v \in given} ELSE {ended_scratch[Top.i]} :
       events' = Append(events, Voice(h, slot_blueprint[h.slot]))
  /\ ReplaceTop([Top EXCEPT !.pc = "callback", !.i = @ + 1, !.respawned = FALSE])
  /\ UNCHANGED <<managerVars, telemetry_queue, slot_blueprint, ended_scratch, scratch_size, given, ended>>

CallbackReturns ==
  /\ TopIs("callback")
  /\ ReplaceTop([Top EXCEPT !.pc = "report"])
  /\ UNCHANGED <<managerVars, telemetry_queue, slot_blueprint, ended_scratch, scratch_size, hostVars>>

PumpReturns ==
  /\ TopIs("report") /\ Top.i > Top.end
  /\ Return
  /\ UNCHANGED <<managerVars, telemetry_queue, slot_blueprint, ended_scratch, scratch_size, hostVars>>

-----------------------------------------------------------------------------
(* spawn() *)

\* A callback makes one replacement for the voice it was told of.
CallSpawn(id) ==
  /\ HostMayCall("spawn") /\ Cardinality(given) < MaxSpawns
  /\ IF stack = << >> THEN stack' = <<SpawnFrame(id)>>
     ELSE ~Top.respawned /\ stack' = Append([stack EXCEPT ![Len(stack)].respawned = TRUE], SpawnFrame(id))
  /\ UNCHANGED <<managerVars, telemetry_queue, slot_blueprint, ended_scratch, scratch_size, hostVars>>

\* engine::spawn reclaims first, with no vector to report to.
SpawnReclaimOne ==
  /\ TopIs("spawn") /\ telemetry_queue # << >>
  /\ Recycle(Head(telemetry_queue).slot)
  /\ telemetry_queue' = Tail(telemetry_queue)
  /\ UNCHANGED <<slot_blueprint, ended_scratch, scratch_size, stack, hostVars>>

\* The pool is exhausted: no_voice.
SpawnFails ==
  /\ TopIs("spawn") /\ telemetry_queue = << >> /\ free_slots = << >>
  /\ Return
  /\ UNCHANGED <<managerVars, telemetry_queue, slot_blueprint, ended_scratch, scratch_size, hostVars>>

NewHandle == [slot |-> free_slots[Len(free_slots)], generation |-> next_generation]

\* mgr.create() takes the slot freed last; spawn() notes its blueprint.
SpawnCreates ==
  /\ TopIs("spawn") /\ telemetry_queue = << >> /\ free_slots # << >>
  /\ generation' = [generation EXCEPT ![NewHandle.slot] = next_generation]
  /\ built' = [built EXCEPT ![NewHandle.slot] = TRUE]
  /\ next_generation' = next_generation + 1
  /\ free_slots' = SubSeq(free_slots, 1, Len(free_slots) - 1)
  /\ slot_blueprint' = [slot_blueprint EXCEPT ![NewHandle.slot] = Top.id]
  /\ given' = given \cup {Voice(NewHandle, Top.id)}
  /\ Return
  /\ UNCHANGED <<telemetry_queue, ended_scratch, scratch_size, events, ended>>

-----------------------------------------------------------------------------
\* The call in progress goes on.
GoOn ==
  \/ PumpReclaimOne \/ PumpReclaimed \/ ReportOne \/ CallbackReturns \/ PumpReturns
  \/ SpawnReclaimOne \/ SpawnFails \/ SpawnCreates

Next ==
  \/ GoOn
  \/ CallPump
  \/ \E id \in Blueprints : CallSpawn(id)
  \/ \E h \in Held : EndVoice(h)

Spec == Init /\ [][Next]_vars

-----------------------------------------------------------------------------
Reported == {events[i].handle : i \in DOMAIN events}
Reclaimed == {ended[i] : i \in 1..Len(ended) - Len(telemetry_queue)}

\* Every variable has its type; the free list and the batch a pump reports fit
\* the pool.
TypeOK ==
  /\ generation \in [Slots -> 0..MaxSpawns] /\ built \in [Slots -> BOOLEAN]
  /\ free_slots \in Seq(Slots) /\ Len(free_slots) <= MaxInstances
  /\ next_generation \in 1..MaxSpawns + 1
  /\ telemetry_queue \in Seq(Handle)
  /\ slot_blueprint \in [Slots -> Blueprints \cup {invalid_blueprint}]
  /\ ended_scratch \in Seq(Handle) /\ scratch_size \in 0..Len(ended_scratch)
  /\ Len(stack) <= MaxDepth + 1
  /\ \A n \in DOMAIN stack : stack[n].pc \in {"reclaim", "report", "callback", "spawn"}
  /\ given \subseteq {Voice(h, id) : h \in Handle, id \in Blueprints}
  /\ ended \in Seq(Handle)

\* on_voice_end is called in the order the voices ended in, and so at most once
\* for each, although its slot may be spawned into again by the callback and end
\* again while pump() runs; and none of these is alive, nor ever again.
EventsInOrder ==
  /\ \A i, j \in DOMAIN events : \A m, n \in DOMAIN ended :
       i < j /\ events[i].handle = ended[m] /\ events[j].handle = ended[n] => m < n
  /\ \A h \in Reported : ~Alive(h)

\* Whatever a pump reclaimed it has reported when it returns: no event is left
\* in ended_scratch, whatever the callback did.
BatchIsReported ==
  [][PumpReturns => \A n \in 1..scratch_size : ended_scratch[n] \in Reported]_vars

\* A callback that replaces the voice it is told of always gets one: the slots
\* of the whole batch are recycled before the first callback (README.md, "the
\* slot is already recycled by the time the callback runs").
ReplacementFits == [][SpawnFails => Len(stack) = 1]_vars

\* An event carries the voice the host was given (api.hpp's voice_event: "`v`
\* is the handle you were given at spawn"; alive(), set() and route() need both
\* its parts).
EventNamesTheVoice == \A i \in DOMAIN events : events[i] \in given

\* Every voice that ended is reported when its end is reclaimed (api.hpp, on
\* on_voice_end: "Called for every voice that has ended, from inside pump()").
EveryEndIsReported == stack = << >> => Reclaimed \subseteq Reported

-----------------------------------------------------------------------------
(* The inductive invariant, of callbacks that may spawn but not pump.       *)

Handles == [slot : Slots, generation : Nat]
PumpFrames == [pc : {"reclaim", "report", "callback"}, i : Nat \ {0}, end : Nat,
               moved : {FALSE}, respawned : BOOLEAN]
SpawnFrames == [pc : {"spawn"}, id : Blueprints]

\* The types of TypeOK, without its bounds.
Typed ==
  /\ generation \in [Slots -> Nat] /\ built \in [Slots -> BOOLEAN]
  /\ free_slots \in Seq(Slots) /\ next_generation \in Nat
  /\ telemetry_queue \in Seq(Handles) /\ ended \in Seq(Handles) /\ ended_scratch \in Seq(Handles)
  /\ scratch_size \in 0..Len(ended_scratch)
  /\ slot_blueprint \in [Slots -> Blueprints \cup {invalid_blueprint}]
  /\ given \subseteq [handle : Handles, blueprint : Blueprints]
  /\ events \in Seq([handle : Handles, blueprint : Blueprints \cup {invalid_blueprint}])

\* A pump or a spawn is in progress, or a spawn made by a pump's callback.
Stacked ==
  /\ stack \in Seq(PumpFrames \cup SpawnFrames) /\ Len(stack) <= 2
  /\ Len(stack) = 2 => /\ stack[1].pc = "callback" /\ stack[1].respawned
                       /\ stack[2].pc = "spawn"
InPump == stack # << >> /\ stack[1].pc # "spawn"

\* The ends whose events left the queue; the events that wait are of the others.
Taken == Len(ended) - Len(telemetry_queue)
Queued ==
  /\ Taken \in Nat
  /\ \A n \in DOMAIN telemetry_queue : telemetry_queue[n] = ended[Taken + n]

\* A voice ends once.  A handle whose event left the queue is not alive, and the
\* counter is past it.
EndsOnce == \A m, n \in DOMAIN ended : ended[m] = ended[n] => m = n
Dead == \A m \in 1..Taken : ~Alive(ended[m])
Past == /\ \A v \in given : v.handle.generation < next_generation
        /\ \A m \in DOMAIN ended : ended[m].generation < next_generation

\* Every event tells of an end that left the queue, in the order of the ends.
Told == \A e \in DOMAIN events : \E m \in 1..Taken : events[e].handle = ended[m]
InOrder ==
  \A i, j \in DOMAIN events : \A m, n \in DOMAIN ended :
    i < j /\ events[i].handle = ended[m] /\ events[j].handle = ended[n] => m < n

\* What is known of the ends and the events, whatever call is in progress.
Ledger == Queued /\ EndsOnce /\ Dead /\ Past /\ Told /\ InOrder

\* A pump's batch is a run of the ends, those after some b; of it the first i - 1
\* were reported, and no later end was.
Batch ==
  \E b \in 0..Taken - scratch_size :
    /\ stack[1].pc = "reclaim" => b + scratch_size = Taken
    /\ \A n \in 1..scratch_size : ended_scratch[n] = ended[b + n]
    /\ \A e \in DOMAIN events : \E m \in 1..b + stack[1].i - 1 : events[e].handle = ended[m]
Pumping == InPump =>
  /\ stack[1].pc = "reclaim" => stack[1].i = 1
  /\ stack[1].pc # "reclaim" => stack[1].end = scratch_size /\ stack[1].i <= scratch_size + 1
  /\ \A n \in 1..stack[1].i - 1 : ended_scratch[n] \in Reported
  /\ Batch

\* The slots a batch freed and its callbacks may still ask for.
Owed ==
  IF ~InPump THEN 0
  ELSE IF stack[1].pc = "reclaim" THEN scratch_size
  ELSE scratch_size + 1 - stack[1].i
       + IF stack[1].pc = "callback" /\ (~stack[1].respawned \/ Len(stack) = 2) THEN 1 ELSE 0

IInv ==
  Typed /\ Stacked /\ Ledger /\ Pumping /\ Len(free_slots) >= Owed
=============================================================================
