--------------------------- MODULE EngineProperties ---------------------------
(***************************************************************************)
(* What makes the engine of module Engine correct.                         *)
(***************************************************************************)
EXTENDS Engine

\* Every variable has its type; the queue bounds are those of the model.
TypeOK ==
  /\ slots \in [Slots -> [built : BOOLEAN, finished_flag : BOOLEAN, target : Generations,
                          generation : Generations, life : Policies,
                          age_blocks : 0..AgeBound, silent_run : Nat]]
  /\ free_slots \in Seq(Slots)
  /\ next_generation \in Generations \ {0}
  /\ ctl \in [pc : {"idle", "spawn", "reclaim", "connect"}, life : Policies,
              dest : Target, routed : BOOLEAN, h : Handle]
  /\ issued \in SUBSET [slot : Slots, generation : Generations \ {0}]
  /\ command_queue \in Seq(Command)
  /\ telemetry_queue \in Seq(Ended)
  /\ active_gen \in [Slots -> Generations]
  /\ active_list \in Seq(Slots)
  /\ routes \in [1..RouteCap -> Route]
  /\ phase \in {"drain", "scan"}
  /\ cursor \in Nat
  /\ reap_scratch \in Seq(Reap)
  /\ reap_capacity \in Nat

-----------------------------------------------------------------------------
(* Ownership of a slot. *)

FreeAt(s) == {i \in DOMAIN free_slots : free_slots[i] = s}
ActivatingAt(s) == {i \in DOMAIN command_queue :
                      command_queue[i].type = "activate" /\ command_queue[i].handle.slot = s}
ActiveAt(s) == {i \in DOMAIN active_list : active_list[i] = s}
EndedAt(s) == {i \in DOMAIN telemetry_queue : telemetry_queue[i].slot = s}

Places(s) == {<<"free", i>> : i \in FreeAt(s)} \cup {<<"activating", i>> : i \in ActivatingAt(s)}
             \cup {<<"active", i>> : i \in ActiveAt(s)} \cup {<<"ended", i>> : i \in EndedAt(s)}

\* Every slot of the pool is in exactly one place, once: free, in one pending
\* `activate`, in active_list, or in one pending telemetry event.  So no two
\* voices ever share a slot, no `activate` finds its slot taken, no telemetry
\* event is dropped by a full queue, and no slot leaks (instance_manager.hpp's
\* "ownership is handed off via the engine's command/telemetry queues").
SlotOwnership == \A s \in Slots : \E p \in Places(s) : Places(s) = {p}

\* The audio thread's two records of what is active agree, and a slot it may
\* touch -- active, or still to be released by reap_pass -- holds an instance
\* of the very generation that was activated.
ActiveConsistent ==
  /\ \A s \in Slots : (active_gen[s] # 0) <=> (ActiveAt(s) # {})
  /\ \A s \in Slots : active_gen[s] # 0 =>
                        slots[s].built /\ slots[s].generation = active_gen[s]
  /\ \A i \in DOMAIN reap_scratch : active_gen[reap_scratch[i].slot] # 0

\* The control thread never writes the slot of an active voice (the comment on
\* instance_manager: "control never mutates an active slot").
ControlLeavesActiveAlone ==
  [][ControlStep => \A s \in Slots : active_gen[s] # 0 => slots'[s] = slots[s]]_vars

\* A stored route always joins voices that are active now: release_slot removes
\* every route of a slot before the slot can be given to another voice.
RoutesJoinLiveVoices == \A i \in DOMAIN routes : routes[i].live => RouteLive(routes[i])

\* A value sent to a handle reaches the voice of that handle or none: a slot's
\* port holds its default or a value sent to the slot's present generation.
NoParameterCrossTalk ==
  \A s \in Slots : slots[s].built => slots[s].target \in {0, slots[s].generation}

\* A kill read from the queue whose handle names no voice -- null, or its voice
\* reclaimed -- changes nothing ("commands carrying an old handle are dropped
\* rather than hitting the wrong voice", instance_manager.hpp).
StaleKillsAreDropped ==
  [][DrainKill /\ ~IsValid(Head(command_queue).handle) =>
       UNCHANGED <<active_gen, active_list, routes, telemetry_queue>>]_vars

HoldsVoice(s, g) ==
  \/ \E i \in ActivatingAt(s) : command_queue[i].handle.generation = g
  \/ active_gen[s] = g
  \/ \E i \in EndedAt(s) : telemetry_queue[i].generation = g

\* runtime::alive and engine::is_valid say of every handle the host was given
\* whether its voice still awaits activation, plays, or ended unreclaimed.
ValidMeansNotReclaimed ==
  \A h \in issued : IsValid(h) <=> HoldsVoice(h.slot, h.generation)

MayPlayOn(s) ==
  /\ ~slots[s].finished_flag
  /\ slots[s].life.kind = "timed" =>
       slots[s].age_blocks < slots[s].life.ttl_blocks \/ slots[s].age_blocks = 0
  /\ slots[s].life.kind = "until_silent" =>
       slots[s].silent_run < slots[s].life.silence_blocks \/ slots[s].silent_run = 0

\* A voice whose policy has expired is never played for another block: a timed
\* voice that computes has played fewer than its ttl_blocks, an until_silent
\* one fewer than its silence_blocks quiet blocks, and none is finished.
NoPlayingPastTheEnd == phase = "drain" => \A s \in Active : MayPlayOn(s)

\* The audio thread does not allocate: reap_reasons has room for what the scan
\* pushes ("audio path must not allocate", engine.cpp's process).
ScanDoesNotAllocate == [][Scan => reap_capacity' = reap_capacity]_vars

\* A recycled slot has a new generation (engine.cpp's comment in reclaim:
\* "recycle() bumps the slot's generation").
RecycleBumpsGeneration ==
  [][ReclaimOne => LET s == Head(telemetry_queue).slot IN
                   slots'[s].generation # slots[s].generation]_vars

-----------------------------------------------------------------------------
(* The inductive invariant: what makes SlotOwnership and ActiveConsistent  *)
(* preserved by every step.                                                *)

Has(q, x) == \E i \in 1..Len(q) : q[i] = x
Once(q) == \A i, j \in 1..Len(q) : q[i] = q[j] => i = j

Pending(i, slot) == /\ i \in 1..Len(command_queue)
                    /\ command_queue[i].type = "activate"
                    /\ command_queue[i].handle.slot = slot
Activating(slot) == \E i \in 1..Len(command_queue) : Pending(i, slot)
EndedHas(slot) == \E i \in 1..Len(telemetry_queue) : telemetry_queue[i].slot = slot

\* No place names a slot twice, and each slot is in one of the four places.
OwnedOnce ==
  /\ Once(free_slots) /\ Once(active_list)
  /\ \A s \in Slots : \A i, j \in 1..Len(command_queue) : Pending(i, s) /\ Pending(j, s) => i = j
  /\ \A i, j \in 1..Len(telemetry_queue) :
       telemetry_queue[i].slot = telemetry_queue[j].slot => i = j
OwnedByOne ==
  \A s \in Slots :
    /\ Has(free_slots, s) \/ Activating(s) \/ Has(active_list, s) \/ EndedHas(s)
    /\ ~(Has(free_slots, s) /\ Activating(s))
    /\ ~(Has(free_slots, s) /\ Has(active_list, s))
    /\ ~(Has(free_slots, s) /\ EndedHas(s))
    /\ ~(Activating(s) /\ Has(active_list, s))
    /\ ~(Activating(s) /\ EndedHas(s))
    /\ ~(Has(active_list, s) /\ EndedHas(s))

\* A slot on its way to the audio thread, or there, holds the instance of the
\* generation it was, or will be, activated with.
HandedOver ==
  /\ \A i \in 1..Len(command_queue) : command_queue[i].handle.generation # 0
  /\ ctl.pc = "connect" => ctl.h.generation # 0
  /\ \A i \in 1..Len(command_queue) : command_queue[i].type = "activate" =>
       LET h == command_queue[i].handle IN
       slots[h.slot].built /\ slots[h.slot].generation = h.generation
  /\ \A s \in Slots : (active_gen[s] # 0) <=> Has(active_list, s)
  /\ \A s \in Slots : active_gen[s] # 0 =>
                        slots[s].built /\ slots[s].generation = active_gen[s]

\* What is left to reap is active, was scanned, and is listed once.
ReapList ==
  /\ phase = "drain" => reap_scratch = << >>
  /\ phase = "scan" => cursor >= 1
  /\ \A i, j \in 1..Len(reap_scratch) : reap_scratch[i].slot = reap_scratch[j].slot => i = j
  /\ \A i \in 1..Len(reap_scratch) : \E k \in 1..Len(active_list) :
       k < cursor /\ active_list[k] = reap_scratch[i].slot

\* SlotOwnership and ActiveConsistent with what keeps them: every command names
\* a voice, a pending `activate` carries its slot's generation, and what
\* reap_pass still has to release was scanned and is active.
IInv == TypeOK /\ OwnedOnce /\ OwnedByOne /\ HandedOver /\ ReapList

-----------------------------------------------------------------------------
(* What the other safety properties need besides IInv.                     *)

\* No destination waiting in a spawn or a command is the null handle, and none
\* of a stored route's ends is: a generation of 0 would fit any idle slot.
Names(dest) == dest.to_master \/ dest.dst.generation # 0
RouteEnds ==
  /\ Names(ctl.dest)
  /\ \A i \in 1..Len(command_queue) : Names(command_queue[i].dest)
  /\ \A i \in 1..RouteCap : routes[i].live =>
       RouteLive(routes[i]) /\ routes[i].src.generation # 0 /\ Names(routes[i])

\* A free slot is empty, and a slot whose voice ended holds that voice still.
Accounted ==
  /\ \A s \in Slots : Has(free_slots, s) => ~slots[s].built
  /\ \A i \in 1..Len(telemetry_queue) :
       LET e == telemetry_queue[i] IN
       slots[e.slot].built /\ slots[e.slot].generation = e.generation

\* A voice not yet activated is as create() left it; in reap_pass, a voice the
\* scan has passed may play on or is to be reaped.
Fresh(s) == ~slots[s].finished_flag /\ slots[s].age_blocks = 0 /\ slots[s].silent_run = 0
ToReap(s) == \E i \in 1..Len(reap_scratch) : reap_scratch[i].slot = s
AwaitingFresh ==
  \A i \in 1..Len(command_queue) : \A s \in Slots :
    command_queue[i].type = "activate" /\ command_queue[i].handle.slot = s => Fresh(s)
PlaysOn ==
  /\ phase = "drain" => \A s \in Active : MayPlayOn(s)
  /\ phase = "scan" => \A n \in 1..Len(active_list) : \A s \in Slots :
       n < cursor /\ s = active_list[n] => MayPlayOn(s) \/ ToReap(s)
Policed == AwaitingFresh /\ PlaysOn

\* next_generation does not come round: every handle has its own generation.
NoWrap == MaxSpawns < GenMod
HandlesDiffer ==
  /\ IsFiniteSet(issued)
  /\ \A h, i \in issued : h.generation = i.generation => h = i
  /\ \A s \in Slots : slots[s].built =>
       [slot |-> s, generation |-> slots[s].generation] \in issued
  /\ ctl.pc = "spawn" => Cardinality(issued) < MaxSpawns
  /\ Cardinality(issued) < GenMod - 1 =>
       next_generation = Cardinality(issued) + 1
         /\ \A h \in issued : h.generation < next_generation

-----------------------------------------------------------------------------
(* Liveness. *)

\* The host sent a kill for h that the audio thread has not read.
KillPending(h) == \E i \in DOMAIN command_queue :
                    command_queue[i].type = "kill" /\ command_queue[i].handle = h

\* A kill is never lost, even one sent before the voice was activated.
KillTakesEffect == \A s \in Slots : \A g \in Generations \ {0} :
  LET h == [slot |-> s, generation |-> g] IN KillPending(h) ~> active_gen[s] # g

\* The slot of a voice that ended comes back to the pool.
EndedSlotsComeBack == \A s \in Slots : EndedAt(s) # {} ~> FreeAt(s) # {}

-----------------------------------------------------------------------------
(* The engine implements the life of voices that VoiceLifecycle promises. *)

StageOf(g) ==
  CASE \A h \in issued : h.generation # g -> "unborn"
    [] \E s \in Slots : \E i \in ActivatingAt(s) : command_queue[i].handle.generation = g -> "spawned"
    [] \E s \in Slots : active_gen[s] = g -> "playing"
    [] \E i \in DOMAIN telemetry_queue : telemetry_queue[i].generation = g -> "ended"
    [] OTHER -> "reclaimed"

Life == INSTANCE VoiceLifecycle
  WITH Voices <- Generations \ {0}, Capacity <- MaxInstances,
       stage <- [g \in Generations \ {0} |-> StageOf(g)]

\* Every voice is spawned, plays, ends and is reclaimed, in that order, each
\* once; and the engine's fairness gives the two steps the promise asks for.
ImplementsLifecycle == Life!FairSpec
=============================================================================
