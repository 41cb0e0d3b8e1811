# Xrune in TLA+

Xrune is a real-time audio engine: blueprints of audio nodes are compiled to flat
schedules, and *voices*, instances of a schedule, are spawned, routed into each
other, played and reaped while a control thread and an audio thread work side by
side without a lock. This directory holds TLA+ modules of that machinery, TLC
configurations that check them on small instances, and proofs that TLAPS checks for
every size.

Paths are those of the repository (`include/xrune/...`, `src/...`, `tests/...`).

## 1. The system: parts, state, interactions

| Part | State | Operations | Correct when |
|---|---|---|---|
| engine, `engine.hpp`, `engine.cpp`, `instance_manager.hpp` | instance pool (`slots`, `free_slots`, `next_generation`); `command_queue`, `telemetry_queue`; the audio thread's `active_gen`, `active_list`, `routes`, `reap_scratch`, `reap_reasons` | control thread: `spawn`, `kill`, `set_parameter`, `connect`, `disconnect`, `reclaim`; audio thread: `process` (drain commands, compute, reap, telemetry) | a slot has one owner at a time; a stale handle touches nothing; a kill ends its voice; a voice ends for the reason its policy gives; no slot leaks; the audio thread does not allocate or wait |
| block executors, `engine.cpp`, `util/worker_pool.hpp` | `order_scratch`, `indeg_scratch`; `dep`, `tasks_remaining`, `block_active`, workers | `compute_order`, `compute_sequential`, `compute_parallel`, `execute_instance_task`, worker loop, `start`, `stop` | every active instance is computed once per block, after those routed into it; the block ends; parallel equals sequential |
| ready queue, `util/mpmc_queue.hpp` | cells (`seq`, `val`), `enqueue_pos`, `dequeue_pos` | `push`, `pop` | a bounded FIFO; no cell is used by two threads at a time; no call waits for another thread |
| runtime facade, `api.hpp`, `api.cpp` | blueprints and schedules by name, `slot_blueprint`, `ended_scratch`, `on_voice_end` | `spawn`, `kill`, `alive`, `pump`, parameters and routes by name | the host hears of every end, once, in order, with the handle it was given |
| schedule compiler, `schedule.hpp`, `schedule.cpp` | `compiled_schedule` | `compile`: sort, rates and blocks, layouts, wiring | accepts exactly the consistent graphs; sources first; no two nodes share memory |
| voice instance, `instance.hpp`, `core.hpp` | arena, contexts, views, buffer pool, ports | `build`, `process`, parameter ramps, terminals | the arena is large enough; every call reads this cycle's samples and writes its own |
| arena, `util/arena.hpp` | `storage`, `offset`; a pool of blocks | `reserve`, `allocate`, `reset`; `acquire`, `release` | blocks are inside, aligned and apart |
| multirate nodes, `node/multirate.hpp` | filter histories | `up2`, `down2`, `upbloc`, `downbloc` | read and write whole slices of a cycle |
| blueprint, `blueprint.hpp` | nodes, connections, terminals, params | `add`, `connect`, `connect_param`, `set_*` | only connections between ports that exist |
| serialisation, `serialize.*`, `util/json.*` | none | `to_json`, `from_json`; JSON values, `dump`, `parse` | what is read back is what was written; a document is accepted only if it describes a blueprint `connect` would have built |
| language: lowering, `lang/lower.hpp`, `lang/compile.hpp`, `lang/node_registry.hpp` | the blueprint being made, `env`, `prefix` and `counters`, `uses` and `direct_uses`, `out_terminals`; diagnostics | statements (bindings, wires, `~>`, `->`, `input`, `out`), expressions, sigils, `over`; `load` | a blueprint is the diagram its text composes; an ill-formed rune is refused and leaves nothing behind; a parameter follows where it says it does |
| language: lexer and parser, `lang/parser/` | the position, bracket depth and last token of the lexer; the parser's position and diagnostics; the tree | `lex`, `parse_program` and the descent below it, `synchronize` | a text is accepted exactly if it follows the grammar, as the tree its precedences prescribe; an error spoils its own line only |
| nodes, `node/standard_nodes.hpp`, `node/fft.hpp`, `node/faust/` | per voice: phases, seeds, held samples, rings | `init_state`, `process` | a block boundary is never heard; `ola_stft` gives back its input |
| backends, `audio/` | device or file | `start`, `stop`, callback | call `engine::process` and no longer after `stop` |
| applications, tools, editors, tests | | `xrune`: play, check, export | |

How they interact. The host calls the runtime on the control thread; it resolves
names and calls the engine. `engine::spawn` builds an instance (arena, views) in a
free slot and sends `activate`; every other call sends a command too. The backend
calls `engine::process` on the audio thread: it takes the commands, computes the
active instances (alone, or with the worker pool through the ready queue), decides
which voices end, and sends one telemetry event for each. `reclaim`, called by
`runtime::pump` and by every `spawn`, takes those events, destroys the instance and
frees the slot; `pump` then calls the host back, and the callback may call the
runtime again. What a voice is an instance of comes from `load`: a text is parsed, its
program is lowered to blueprints, each is registered with the runtime, and registering
compiles it. A blueprint can instead be written as a JSON document, and a document read
back into a blueprint.

What is hard about it: the hand-over of a slot between two threads through two
queues; handles kept after their slot was given away; commands that arrive before
their voice or after it; routes whose ends die; the ready queue's claims and
publications; counting down dependencies while seeding; the barrier between blocks;
callbacks that re-enter; layouts and slices computed by arithmetic on rates and
blocks; what a node keeps from one slice to the next; operators that concatenate open
ports, nested, broadcast and mixed; a rune abandoned halfway; texts and documents that
are damaged. `PROJECT.json` lists these hazards line by line with the properties that
watch them.

## 2. Modules

| Module | Models | How |
|---|---|---|
| `Engine` | `engine.cpp` but its executors, `instance_manager.hpp` | `controlVars` are the control thread's (slots, free list, counter, the call it is in), `audioVars` the audio thread's (`active_gen`, `active_list`, `routes`, the scan). Spawn and reclaim are split at each queue operation; a drained command, an iteration of the reap scan and a release are steps. |
| `EngineProperties` | | its invariants, action and liveness properties, the inductive invariant, and the refinement mapping to `VoiceLifecycle` |
| `VoiceLifecycle` | | the promise: a voice is spawned, plays, ends and is reclaimed, in that order, and never more than the pool holds |
| `Engine_proofs`, `EngineVoices_proofs` | | theorems about `Engine`: ownership of slots; routes, handles, parameters and lifetimes; the refinement of `VoiceLifecycle` |
| `BlockCompute` | | the promise of a block: each active instance once, after its upstreams unless a cycle feeds it, and the block ends |
| `SequentialExec` | `compute_order`, `compute_sequential` | their steps, one per iteration of their loops, which `ParallelExec` takes |
| `ParallelExec`, `ParallelProperties` | `process`'s choice of executor, `compute_parallel`, `execute_instance_task`, `worker_pool.hpp`, `start` and `stop` | one step per shared access; an engine may have no workers, and a block of one instance is computed alone; implements `BlockCompute`; `ParallelProperties` has the properties and the inductive invariant |
| `ParallelExec_proofs` | | theorems about both executors |
| `MPMCQueue` | `mpmc_queue.hpp` | one step per load, store and compare-exchange; its inductive invariant; implements `ReadyQueue` |
| `MPMCQueue_proofs` | | theorems about `MPMCQueue` |
| `ReadyQueue` | | the promise: a bounded FIFO |
| `BlockQueue` | how the executor uses the queue | `MPMCQueue` composed with blocks in which every slot is pushed once; what lets `ParallelExec` take a push or a pop as one step |
| `Runtime` | `api.cpp`'s `spawn`, `pump` and the callback | the control thread is a stack of calls; beneath it voices end as `VoiceLifecycle` lets them; its inductive invariant |
| `Runtime_proofs` | | theorems about `Runtime` |
| `Lower` | `lower.hpp`, the node types it makes | a program is lowered statement by statement, and one state holds the lowerer; evaluating an expression is an operator, recursive as `eval_expr` is; a failure drops the rune |
| `LowerProperties` | | the reference: what a program's text means, as trees of signals, without nodes or connections, and what a blueprint gives out |
| `Syntax` | `token.hpp`, `ast.hpp` with `dump` | tokens and trees as records; a dump is a sequence of tokens |
| `Parser` | `lexer.hpp`'s newlines and brackets, `parser.hpp` | a text is a sequence of tokens; each parsing function is a recursive operator from a reading state to a tree and a reading state, errors and recovery included; a definition is a step |
| `ParserProperties` | | the reference: the trees a text has by splitting it at its loosest operators, lines and `end`s, from above |
| `Json` | `json.hpp`, `json.cpp` | values, `dump` to tokens, and the reader with its errors |
| `Serialize` | `serialize.cpp` but `to_dot` | `to_json_value`; `from_json` through the node registry and `connect` of `Lower`, giving up where the code does |
| `SerializeProperties` | | the reference: when a text is one JSON value, and which blueprint it describes, read off its tokens by position |
| `StandardNodes` | `process` of the nodes of `standard_nodes.hpp` | a sample of a stateless node is a function of one moment's; `sample_and_hold` and `call_counter` with their state |
| `Spectra` | `fft.hpp` | the radix-2 transform on exact complex numbers, `ola_stft` with both its rings, `stft_forward`, `stft_backward` |
| `Compile` | `schedule.cpp` | Kahn's sort, rate propagation, layouts, one node a step; a refusal is a state; its inductive invariant `CompileInv` |
| `Instance` | `graph_instance`: `build`, `process`, `update_control_ramps`, `init_parameter`, `set_parameter`; the contracts of `core.hpp` and `multirate.hpp` | extends `Compile`: what it laid out is what is run; a sample is its value, who wrote it and in which cycle; one call of one node is a step, and ports are set between cycles. `InstanceSpec` compiles blueprint after blueprint and runs the last, what `Load` does with those it made |
| `Instance_proofs` | | theorems about `Compile` and `Instance`, with the arithmetic they need |
| `Diagram_proofs` | | what transforms, overlapping frames and held samples make of a signal cut into blocks; that a voice plays its diagram |
| `Load` | `load`, `register_blueprint`, `xrune -j` | composes `Parser`, `Lower`, `Compile`, `Instance` and `Serialize`: what was parsed is lowered, what lowering made is compiled, or exported and read back, and what was compiled is run |
| `SmallBlueprints` | shapes of `standard_nodes.hpp`, `fft.hpp` and `multirate.hpp` | the blueprints TLC is given: every wiring of a few lists of nodes, and chosen graphs of spectral, held and modulated ones |
| `SmallPrograms`, `SmallTexts`, `SmallDocuments` | | the programs, texts and documents TLC is given |
| `InstanceMemory` | `build`'s budget, `memory_arena::reserve` and `allocate` | seven regions in the code's order, each aligned, from any base address |
| `InstanceMemory_proofs` | | theorems about `InstanceMemory` |
| `MC*` | | the instances TLC checks |

Composition: `Load` parses with `Parser`, lowers with `Lower`, compiles with `Compile`,
runs with `Instance` and saves and restores with `Serialize`; `BlockQueue` extends `MPMCQueue`; `ParallelExec` contains
`SequentialExec`, and both ways of computing a block implement `BlockCompute`, which
is why they are interchangeable (instances own disjoint buffers, so who was computed
before whom decides the output); `Runtime` stands on the promise `Engine` is shown to
keep.

A definition named `...` after a comment "Mutant of" is a plausible bug in the
definition it stands before, used to show that a property can fail.

### Abstractions

- In `Instance` a sample is an integer with its writer and its cycle. Nodes with real
  values (`sine`, `noise`, `pan`, filters, Faust) give a signal of their own, another
  one per node, channel and moment; `Known` nodes compute theirs. Signals are even and
  port values multiples of the block, so that windows and ramps are exact. In the
  executors an instance's output is old, being written, or done.
- Transforms have 2 or 4 points, whose roots of unity are whole; their windows are in
  halves. A port has one ramp per call, as in the code, of which the last is kept.
- A text is a sequence of tokens, a document one of JSON tokens: characters, comments,
  escapes and the spelling of numbers are left out, and a character nothing starts with
  is one `bad` token. Names and strings are TLA+ strings that are only compared.
- `from_json`'s conversion of an integer to `size_t` wraps at `MaxSize`, not at 2^64.
- `moodycamel::ReaderWriterQueue` (vendored) is a FIFO sequence, its contract for one
  producer and one consumer.
- C++ memory orders are read as sequential consistency; the queue's acquire and
  release pairs are on the very accesses that hand a cell over.
- In `Engine` a voice has one output and one input terminal, and a parameter's value
  is the generation of the handle it was sent to, so that a value reaching the wrong
  voice shows. `ParallelExec` takes a push or a pop as one step, which `BlockQueue`
  justifies.
- Node shapes, block sizes and region sizes are taken from small sets.
- In `Lower` numbers are fractions, not doubles; strings and booleans, which are
  arguments of Faust nodes only, are left out, and so are the Faust node types; `over`
  goes up to 4, where the code sets no limit; no sigil of the programs calls itself.
  `LoweringIsFaithful` and `RefusesTheIllFormed` speak of runes in which a block
  with open inputs is named once (`Plain`): a name is a node, not a copy of one, so
  elsewhere what drives its inputs depends on every place that names it.
- Bounds: `MaxSpawns`, `CommandBound` (how many commands the host lets wait; the
  queue itself grows), `AgeBound` (`age_blocks` saturates there, at or above every
  lifetime), `MaxPushes`, `MaxDepth` (nested callbacks), `MaxCycles`, `TunedNodes` and
  `MaxTunings` (which nodes' ports are set, and how often), `MaxValue`, `SampleRate`,
  `MaxSize`. Generations are
  counted modulo `GenMod`, as `uint32_t` wraps modulo 2^32.

## 3. Runs

| Run | Instance | Shows |
|---|---|---|
| `EngineVoices` | 2 slots, 4 spawns, 2 waiting commands, generations modulo 5; the host kills and tunes any handle it ever held | `TypeOK`; `SlotOwnership`: a slot is free, awaiting activation, active or ended, exactly one and once; `ActiveConsistent`; `ValidMeansNotReclaimed`: `is_valid` says exactly which handles still name a voice; `NoParameterCrossTalk`; `ControlLeavesActiveAlone`; `StaleKillsAreDropped` |
| `EngineRoutes` | 2 slots, 3 spawns, 2 routes; connect, disconnect, spawn into | `RoutesJoinLiveVoices`: no stored route names a voice that is gone |
| `EngineLifetimes` | lifetimes of 0 and 2 blocks and of 2 silent blocks, any voice may finish, 2 spawns, kills; fair | `NoPlayingPastTheEnd`, `KillTakesEffect`, `EndedSlotsComeBack`, `ImplementsLifecycle` |
| `ParallelBlock` | 3 slots, 2 workers and the audio thread: blocks with no route, a chain, two into one, one into two, a double route, one voice alone; no workers: every list of at most two routes, loops included, and every triangle; `stop` at any time; fair | `InputsComplete`: an instance is computed when its upstreams are; `BarrierHolds`; `OrderIsPermutation`: `compute_order` lists each active instance once; `StopReturns`; `ImplementsBlock`, which says too that a block ends |
| `QueueCells` | 2 threads, 2 cells, 5 pushes, exchanges that fail for no reason | `OnlyFullRefuses`, `ImplementsFifo`, `NeverWaitsForOthers` |
| `QueueBlocks` | 3 threads, 2 cells, 2 tasks, 3 blocks; fair | `CellIsExclusive`; `TasksAreRun`, so no push is refused |
| `RuntimeEvents` | 2 slots, 5 spawns, 2 blueprints, a callback that spawns | `EventsInOrder`: each end once, in order, of a voice that is dead; `BatchIsReported`, `ReplacementFits` |
| `LoadAndRun` | texts: some 430 programs (every operator between sources, nodes of several arities, numbers and a parameter, again nested once, with selections, calls, sigils, `over`, wires, modulations and terminals, and a rune after each of these) every chain of three operators and group of two, and two texts with all the forms of the language and one token lost, put in, replaced or swapped; each blueprint exported and read back, and a document with one value lost, doubled or replaced, or one token amiss; graphs built by hand: every wiring of lists of 3 nodes (sources, mixers, pans, up2, down2, upbloc, downbloc) and of regions of 4, adapters of 1 to 4 channels, spectral, held, counted and modulated nodes in oversampled and finer regions; blocks of 4; 2 cycles; a port set once, before either | text: `NothingIsMisread`, `DamageIsContained`; program: `LoweringIsFaithful`, `RefusesTheIllFormed`; document: `ReloadIsExact`, `AcceptedIsDescribed`; schedule: `AcceptsTheConsistent`, `LayoutIsDisjoint`; voice: `ReadsAreFresh`, `InputsAreReadOnce`, `OutputsAreComplete`; `PlaysItsDiagram`: a sample is what the diagram says of that moment, whatever the slices; `PortsGlide` |
| `InstanceBudget` | region sizes 0, 1, 8, 1024; arenas at 0, 16 and 40 | `BudgetSuffices`, `RegionsAreApart` |
| `ParallelSeedRace` | 2 voices, the first routed into the second | `OncePerBlock` is violated |
| `RuntimeSwallow` | 2 slots, 4 spawns | `EveryEndIsReported` is violated |
| `LoadPartial` | a parameter as the level of two channels, and in an expression | `ParametersFollow` is violated |

Why the bounds suffice. Two slots are what ownership needs: one being recycled while
another plays, and `free_slots` in either order; four spawns make each slot be used
again while handles of its first voice, commands and events are still about, and take
`next_generation` to its wrap. Two waiting commands put any two in either order;
`spawn` itself needs two. A block of three instances has every relation of upstream
and downstream there is (none, one, two, in a chain, twice); two workers and the
audio thread contend for the last decrement, the last pop and the barrier. Five
pushes take two cells through more than two rounds, so that each cell is seen with a
sequence number of an old, the present and the next round. Two cycles show what the
first leaves in the buffers, and with blocks of 4 they are long enough for the rings of
a 4-point `ola_stft` to come round and for a hold of 6 or 3 samples to straddle a block;
sizes 2 and 4 make a block longer than a frame, as long, and, in a finer region,
shorter. One tuning before or between the cycles makes every ramp there is: none, one
from the default, and none after it. Lists of three nodes have parallel paths that meet, with
each pair of adapters on them. An operator's cases are decided by whether an operand
is a number and by its numbers of inputs and outputs, 0, 1, 2 and more: operands of
each sort stand on both sides of every operator, and once under another. One token
lost, doubled, replaced or out of place is what one slip makes of a text or a document,
and puts the parser and the reader into each of their error branches. Two runes
show what a lowered or a dropped one leaves to the next.

Fairness. `Engine`: the backend keeps asking for blocks (`WF` of the audio thread), a
call that was made returns (`WF` of its steps) and the host keeps pumping (`WF` of
`Reclaim`); the host is not obliged to make any other call. `ParallelExec`: the
operating system runs every thread, so each worker, the audio thread in a block, and
the join in `stop` get weak fairness; the start of another block and `stop` itself
get none. `BlockQueue`: every thread keeps looking
for tasks, as workers spin and the audio thread helps. `QueueCells` assumes no
fairness of its specification: `NeverWaitsForOthers` has the fairness of the one
thread it speaks of as its premise, with strong fairness of a successful exchange
(`compare_exchange_weak` does not fail spuriously for ever).

Deadlock is checked except in `LoadAndRun`, `LoadPartial` and `InstanceBudget`:
`load`, `compile` and `build` end, and so does a run after `MaxCycles`.

### What the three violations show

- `ParallelSeedRace`. `compute_parallel` opens the block, then walks `active_list`
  and pushes every instance whose `dep` is 0. A worker that already ran an earlier
  instance may take the `dep` of a later one to 0 and push it before the walk reads
  it: it is pushed twice and computed twice. It needs a route from a voice into one
  activated after it, which `runtime::route` makes; voices spawned into older ones
  are safe, and that is what `ParallelBlock` checks.
- `RuntimeSwallow`. `engine::spawn` calls `reclaim` without a place for the events, so
  the end of a voice reclaimed there is never reported by `pump`.
- `LoadPartial`. A rune parameter is `partial` when it was evaluated more often than
  it was bound to a port; `partial` tells the host that some use was folded and will
  not follow it. `scale` counts a binding for each channel of the scaled signal, for
  one evaluation: in `out (sine : pan) * f , sine(f * 2)` two uses meet two bindings,
  `partial` is false, and `f * 2` stays what it was. The comment on `partial` in
  `blueprint.hpp` and `README.md` ("The honest caveat") promise the contrary. A second
  way into the same disagreement: a sigil's own parameter that is named like a rune
  parameter is counted and bound as if it were that one (`sine : level(4)` with
  `sigil level(f)`).

## 4. Known disagreements without a run

Each was met while modelling; the property is defined in the module named, and the
instance that refutes it is given.

| Property | Instance | What happens |
|---|---|---|
| `StaleKillsAreDropped`, under `NullKillSpec` (`MCEngine`) | `EngineVoices` | `kill(null_handle)` has generation 0, and so has `active_gen[0]` while nothing is active there: slot 0 is released and comes back to `free_slots` a second time |
| `ScanDoesNotAllocate` (`EngineProperties`) | `EngineVoices` | `reap_reasons` is never reserved: the first ends allocate on the audio thread |
| `RecycleBumpsGeneration` (`EngineProperties`) | `EngineVoices` | a comment in `engine.cpp` says `recycle()` does; `create()` does |
| `BlockEnds`, `ImplementsBlock` (`ParallelProperties`) | `Graphs <- RoutedInACycle`, `AloneGraphs = {}` | two voices routed into each other leave no root to seed; `compute_parallel` waits for ever, `compute_order` has a fallback |
| `PoolOutlivesBlock` (`ParallelProperties`) | `Backend = "hardware"` | `stop()` destroys the workers before the backend is stopped, whose callback may still use them |
| `EventNamesTheVoice` (`Runtime`) | `RuntimeEvents` | a callback that spawns changes `slot_blueprint` of a slot whose old voice is still to be reported |
| `EventsInOrder` (`Runtime`) | `CallbackCalls = {"pump"}`, 4 slots | a nested `pump` overwrites the batch the outer one is walking |
| `OutputsAreComplete` (`Instance`) | `LoadAndRun`, blocks of 1 | an up2 with one sample per call is handed empty views and writes nothing |
| `ChannelsAreAligned` (`Instance`) | `Blueprints <- Stereo`, blocks of 4 | channels are 64-byte aligned from a block of 8 doubles on, not for every power of two |
| `SetUpAtItsRate` (`Instance`) | `Blueprints <- HostedGraphs` | a Faust node in an oversampled region is set up with the engine's rate |

More were read in the code and are kept out of the inputs, or stated as they are:

- `lower.hpp`: `zip` with an operand of no outputs next to one of one output reads
  `a.outs[0]` of an empty vector; `~>` and `->` in a sigil's body name their target
  without the prefix of the call, and two calls outside a binding make nodes of the same
  name, of which `find_node` returns the first; a sigil that calls itself is expanded
  for ever.
- `serialize.hpp` calls `to_json`'s document "a complete, reloadable description", but a
  rune's parameters are neither written nor restored: `ReloadIsExact` says equal but for
  these. A terminal's `ch` and `input_node` and `output_node` are taken from a document
  unchecked, where node ids and connections are checked: `AcceptedIsDescribed` asks no
  more of them than the code does.
- `node_registry.hpp`: a named argument that is a string or a boolean is read as the
  number 0.
- `fft.hpp`: "it perfectly reconstructs the input" holds from sample N/2 on: the first
  N/2 samples are under one window only. `stft(1)` has a hop of 0, and its first sample
  takes a remainder by 0; `adapt(0, 2)` takes one by 0 in the same way.

## 5. Proofs

Each is for every value of the constants that the named assumptions allow. An
invariant that TLC checks is seldom inductive; what it takes to prove it is defined
next to the properties of its module (`EngineProperties`, `MPMCQueue`,
`ParallelProperties`, `Runtime`, `Compile`, `Instance`), so that TLC can check it too.
Where a theorem has a hypothesis, it is named below with the case it excludes.

**The engine** (`PoolAssumption`: the pool is not empty; `GenAssumption`: a generation
has at least two values; `TelemetryAssumption`: the telemetry queue holds at least one
event per slot, as `init` makes it; types of the rest): for every pool size, generation
width, route capacity, policy set and set of host calls,

| Theorem | States |
|---|---|
| `Engine_proofs!TypeCorrect`, `Ownership`, `ActiveIsConsistent` | `TypeOK`, `SlotOwnership`, `ActiveConsistent` |
| `Engine_proofs!ControlNeverTouchesActive` | `ControlLeavesActiveAlone` |
| `EngineVoices_proofs!ParametersDoNotCross`, `StaleKillsChangeNothing` | `NoParameterCrossTalk`, `StaleKillsAreDropped` |
| `EngineVoices_proofs!RoutesAreLive`, `ValidIsExact` | `RoutesJoinLiveVoices`, `ValidMeansNotReclaimed` |
| `EngineVoices_proofs!NobodyPlaysPastTheEnd` | `NoPlayingPastTheEnd` |
| `EngineVoices_proofs!LifecycleIsImplemented` | under `NoWrap`, the safety half of `ImplementsLifecycle` |

`SlotOwnership` is not inductive. A pending `kill` releases whatever its slot holds if
the generation fits, so one must know that commands name voices (not the null
handle), that a pending `activate` carries the generation its slot has, and, since
the reap scan collects slots first and releases them later, that what it still holds
is active and listed once. `IInv` is `TypeOK`, ownership split into "at most one place
of each kind" (`OwnedOnce`) and "one kind" (`OwnedByOne`), the hand-over
(`HandedOver`) and the reap list (`ReapList`). The proof has a lemma per action, over
lemmas on what removing the head, the first occurrence or the tail does to the
elements of a sequence. That the telemetry queue never refuses an event is a
consequence: the slots with a pending event are distinct and the one being released
is not among them (`RoomForEnded`).

The others are inductive relative to `IInv`. `RouteEnds`: neither a stored route nor a
destination that still waits in a command names the null handle, whose generation 0 would
fit any idle slot. `Accounted`: a free slot is empty, and a slot whose voice ended
holds that voice until its event is taken; with `SlotOwnership` this makes `is_valid` exact
even after generations wrapped. `Policed`: a voice not yet activated is as `create()`
left it (`AwaitingFresh`), and behind the scan's cursor every voice may play on or is
in `reap_scratch` (`PlaysOn`). `LifecycleIsImplemented` maps each step to a step of one
voice's life or to none; a voice is its generation there, so it assumes that the counter does
not come round (`NoWrap`, 2^32 spawns in the code), from which `HandlesAreNew`.

**The ready queue** (`CapacityAssumption`: the capacity is a power of two, at least 2, as the constructor
makes it), for every set of threads and number of pushes: `CellsAreExclusive`
(`CellIsExclusive`), `RefusesOnlyWhenFull` (`OnlyFullRefuses`) and `QueueIsFifo`
(`ImplementsFifo`). `IInv` gives each of the `Capacity` positions from `dequeue_pos` on
a cell: `Queued` and `Empty` say how far the position's push, or the pop of the one
before it, has come, by `seq`; `WritersHold`, `ReadersHold` and `ClaimedOnce` that a
thread between its claim and its last store has that cell alone; `Attempts` that
what a thread loaded is old or still holds, which is why the compare-exchange
suffices. `CapacityAssumption` is what makes positions of one window have different cells.

**The executors**: `OrderIsAlwaysPermutation`, for every list of instances and
any routes, cycles included; and for routes into older voices (`SpawnedIntoOlder`), any
number of voices and workers: `InputsAreComplete` (`InputsComplete`),
`TheBarrierHolds` (`BarrierHolds`), `NobodyRunsTwice` (`OncePerBlock`) and
`BlockIsImplemented`, the safety half of `ImplementsBlock`. `IInv` is `AloneInv`
(what `compute_order` has counted and ordered; what is left over waits for something
left over, so a cycle feeds it), `ComputedAlone`, and `BlockInv`: a task is in one
place (`OnePlace`), `dep` is the number of routes not followed and `tasks_remaining`
that of instances not finished (`Counted`), and whatever is ready is behind the
seeding loop (`Seeded`). The last is where the hypothesis is used, and
`ParallelSeedRace` is the run that refutes `OncePerBlock` without it: theorem and
counterexample mark the two sides of one condition.

**The facade**: for every pool, set of blueprints and bound, and a callback that may spawn but does
not pump (`CallbacksDoNotPump`; a nested `pump` is listed in section 4):
`EventsComeInOrder` (`EventsInOrder`), `PumpReportsItsBatch` (`BatchIsReported`),
`ReplacementsFit` (`ReplacementFits`). The invariant: what a pump took is a run of
the ends, of which a prefix was told (`Batch`), and for each event it has still to tell
of there is a free slot (`Owed`).

**The compiler and the voice** (`BlueprintsAssumption`: what `connect` lets in;
`BlockSizesAssumption`: powers of two), for every blueprint and block size, of
`InstanceSpec`:

| Theorem | States | Under |
|---|---|---|
| `NodesShareNothing` | `LayoutIsDisjoint` | |
| `ConsistentAreAccepted` | `AcceptsTheConsistent` | `Factors`, `RatesFit` |
| `PortsNeverJump` | `PortsGlide` | `StepsAreWhole` |
| `EachSampleOnce` | `InputsAreReadOnce` | `Octaves`, `NoTinyDoubling` |
| `NothingStale` | `OutputsAreComplete` | `Octaves`, `NoTinyDoubling` |
| `CallsReadThisCycle` | `ReadsAreFresh` | `Octaves`, `NoTinyDoubling` |
| `VoicePlaysItsDiagram` | `PlaysItsDiagram` | `Octaves`, `NoTinyDoubling`, `Declared` |

`CompileInv` has a part per pass. `Sorting`: a node was taken or is queued exactly if its
sources were taken, and until then `in_degree` is what it waits for; `Rated`: a node's
rate, exponent and block follow from those of each of its sources; `LaidOut`: the
ranges stand in a row (`InARow`), so they are apart. `Typed` has the fact
all slicing rests on: `calls` times `node_block` is a cycle of the node. From it
`Slicing` derives that the calls of a node cut what comes from each source into equal
parts, whole blocks or halves and doubles of one, and `Cut` that equal parts take every
sample once. `Playing` says which part of a cycle is written: all of the nodes
before `pos`, and the blocks of the current node before `call`. Since the order has
sources first and the ranges are disjoint, a call finds this cycle's samples and
destroys nobody's.

`ConsistentAreAccepted` needs what is known of a refusal (`Refusal`): the sort left nodes
that each wait for one another, which is a cycle, or every node before `next` follows
from its sources and `next` has no plan. By induction along a path (`AlongPaths`), the
rate and the exponent of a node that follows are those the path amounts to. Hence in an
accepted graph all paths to a node agree; and in a consistent one the sources of `next`,
each at the end of some path (`SomePath`), agree with each other, and then there is a
plan (`NextIsAccepted`). The paths are a recursive function; that it satisfies its own
equation (`PathsOfAll`), and every induction here, is by a least counterexample.

`Factors`: ratios are those of up2, down2, upbloc and downbloc, the nodes that have any;
`RatesFit`: no path doubles the rate more than 16 times, as far as the model's powers of
two go. `Octaves`: a node at a rate boundary has a factor of two and no control ports, as
`up2` and `down2` are, the only such nodes there are. `NoTinyDoubling`: no up2 is called
for a single sample, where `OutputsAreComplete` fails (section 4).
`StepsAreWhole`: a ramp's values are whole, since the model's integers stand for the
reals of the code, which any block divides. `Declared`: a node whose samples are known is at no
boundary and has the outputs and ports its `process` takes for granted, as all that the
library registers are; its transforms have 2 or 4 points. All six hold in every state of
`LoadAndRun`.

`PlaysItsDiagram` speaks of the end of a cycle, and of what comes out. `Sounding`, its
invariant, speaks of every moment: each sample that was made is right (`IsRight`), and
what a node keeps is right for as many samples as it was given (`Kept`). For `ola_stft`
after `t` samples (`Overlapping`) the input ring holds the last `n`, and the accumulator,
at each of the 2n places it still has, the windowed parts of the complete frames
that overlap there. That is needed because a hop may fall anywhere in a block, and a
place is cleared in one call and filled in another. For a `sample_and_hold` (`Holds`)
the counter is `t` modulo the interval, and what is held is the sample at its last
multiple. TLC checked `Sounding` with three cycles and two tunings on the graphs of
`LoadAndRun` before it was proved. The proof has four parts:

- Transforms. `TransformOfTwo` and `TransformOfFour` unroll the passes; `TurnsBack` says
  that the inverse of a transform is what was transformed, for all complex integers.
- Nodes. `StftBlock` and `HoldBlock` say what a block of any length makes of
  `Overlapping` and `Holds`, by a least counterexample over its samples;
  `LateIsTheInput` that two overlapping windows add up to the sample of n - 1 ago.
- Calls. `Handed` and `HandedPort`: what `build`'s views and ramps hand to a call is
  what the sources wrote at that moment of this cycle, whatever the ratio of blocks,
  since a node with known samples is at the rate of its sources; `MadeRight`: hence what
  it writes is right.
- Steps. What a call writes leaves all other samples as they were (`RightKept`), what it
  keeps is `Kept` for one call more, and between cycles no call is lost (`NextCycle`).

The attempt corrected the model. `Untuned` used to say that a port's target is its
preset, which a port set and set back meets while its ramps are still gliding: with two
tunings `PlaysItsDiagram` was then too strong to be true of the code. `tunings`
remembers which nodes were set, and `Untuned` now says that this one was not.

**The arena**, for all natural sizes and every base address: `BuildGetsItsMemory`
(`BudgetSuffices`: no allocation of `build` fails) and `RegionsNeverOverlap`
(`RegionsAreApart`). After each region the arena's offset exceeds the sum of sizes by at
most 64 per region, because `(cur + a - 1) & ~(a - 1)` adds less than `a`
(`AlignedFits`), and the budget has 64 to spare for each.

**Only model-checked.** Liveness, and the fairness halves of the refinements
(`ENABLED` is out of the prover's reach): `KillTakesEffect`, `EndedSlotsComeBack`,
`StopReturns`, `TasksAreRun`, `NeverWaitsForOthers`, and that `ImplementsLifecycle`
and `ImplementsBlock` make progress. Parser, lowering and documents: nothing can be
proved in a module that reaches `Parser`, `Lower` or `Json`, whose descent, evaluation
and reader are `RECURSIVE` operators, so `NothingIsMisread`, `DamageIsContained`,
`LoweringIsFaithful`, `RefusesTheIllFormed`, `ReloadIsExact` and `AcceptedIsDescribed`
stay with `LoadAndRun`.

## 6. Not modelled, and why

Listed with their status in `PROJECT.json`. Nodes with real values (oscillators, pan,
filters, Faust, transforms of 8 points and more) have no exact small instance. Spelling
tokens and numbers with characters, diagnostics' wording and `to_dot` are conversions
over characters. Device I/O, the Faust compiler, tools and editor
files are outside the engine. Sizes read from the control thread without synchronisation, for display
(`active_voices`, `route_count`) decide nothing.

## 7. Plan

Done: the engine and its proofs, executors, queue, facade, lexer and parser,
lowering, documents, compiler, instance with its ports, standard and spectral nodes,
memory. The theorems of section 5 are proved. What the model still lacks: the views
the engine takes of a voice's terminals, and teardown; `graph_blueprint` and its
fluent builder step by step; `memory_arena::reset` and `fixed_block_pool`;
parameters and routes of the facade by name; the backends' partial blocks; a
document read back, registered and played.
