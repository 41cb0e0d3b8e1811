------------------------------ MODULE Instance ------------------------------
(***************************************************************************)
(* A voice of a compiled schedule (instance.hpp): build() cuts the views   *)
(* of every (node, call) out of the buffer pool, process() runs one cycle, *)
(* each node in topological order and as often as its calls.  A sample is  *)
(* represented by its value, who wrote it, and in which cycle.             *)
(*                                                                         *)
(* What a node's process() reads and writes is the contract of core.hpp: a *)
(* node at a rate boundary goes by the size of its input views             *)
(* (multirate.hpp's up2 and down2), any other by ctx.block_size.  What it  *)
(* computes is modelled for the spectral nodes (Spectra) and most standard *)
(* ones (StandardNodes); any other gives a signal of its own.              *)
(***************************************************************************)
EXTENDS Compile

CONSTANTS
  MaxCycles,    \* bound: cycles processed
  TunedNodes,   \* bound: the nodes whose ports are set
  MaxTunings    \* bound: how often one is
ASSUME MaxCyclesAssumption == MaxCycles \in Nat
ASSUME MaxTuningsAssumption == MaxTunings \in Nat

F == INSTANCE Spectra

VARIABLES
  built,        \* build() has returned true
  setup_rate,   \* the rate setup_state was told, in multiples of the engine's
  cycle,        \* cycles begun
  pos, call,    \* process()'s loops: index in topo_order, call of that node
  buffer_pool,  \* each sample
  node_state,   \* what each spectral node keeps in state_region
  tunings,      \* the node of each port that was set, in turn
  controls,     \* each port's control: the value it has and the one asked for
  param_views   \* the ramp each port was handed last

audioVars == <<buffer_pool, node_state>>
portVars == <<tunings, controls, param_views>>
runVars == <<setup_rate, cycle, pos, call, audioVars, portVars>>
instanceVars == <<vars, built, runVars>>

SampleBytes == 8
simd_align == 64
Never == [node |-> 0, cycle |-> 0, x |-> 0]
MaxValue == 16     \* the range of a port is up to this
SampleRate == 24   \* the engine's, for the interval of a sample_and_hold

OutOffset(v, ch) == out_base_sample[v] + ch * out_stride(v)
MaxStride == LET strides == {out_stride(v) : v \in Nodes} IN
             IF strides = {} THEN B ELSE Max(strides)
SilentSize == Max({MaxStride, 2 * B})

\* Mutant of PerCall: every call is handed one block of its own.
PerCallBlock(v, u) == node_block[v]

\* Samples of a channel of u that one call of v is handed.
PerCall(v, u) == out_stride(u) \div calls[v]

\* The view of a connected port (build's in_views and param buffers).
View(v, c, k) == [at |-> OutOffset(c.src, c.out) + k * PerCall(v, c.src),
                  size |-> PerCall(v, c.src)]
SilentIn(v) == (node_block[v] * Node(v).rden) \div Node(v).rnum

Boundary(v) == Node(v).rnum # Node(v).rden
InSize(v, c) == IF Boundary(v) THEN PerCall(v, c.src) ELSE node_block[v]

\* The samples call k of v reads from connection c.
Reads(v, c, k) ==
  Span(View(v, c, k).at, IF c.param THEN node_block[v] ELSE InSize(v, c))

\* How many samples a call of v writes to each output.
Produced(v) ==
  LET sizes == {PerCall(v, c.src) : c \in Wire(v, FALSE, 0)}
      size == IF sizes = {} THEN SilentIn(v) ELSE CHOOSE s \in sizes : TRUE
  IN IF ~Boundary(v) THEN node_block[v]
     ELSE IF Node(v).rnum = 2 THEN 2 * size ELSE (size + 1) \div 2

\* The samples call k of v writes: from out_views on.
Writes(v, k) ==
  UNION {Span(OutOffset(v, ch) + k * node_block[v], Produced(v)) :
           ch \in 0..(Node(v).outs - 1)}

----------------------------------------------------------------------------
\* What process() computes.

\* The signal of a node that is not spectral: even numbers, other ones per node,
\* channel and position in time.
Signal(v, ch, t) == 2 * ((t * t + 3 * t + v + ch) % 5)
Elapsed(v, s) == (cycle - 1) * out_stride(v) + ((s - out_base_sample[v]) % out_stride(v))
ChannelAt(v, s) == (s - out_base_sample[v]) \div out_stride(v)

\* A sample call k of v is handed on an input; an unconnected one is silent.
Input(v, port, k, i) ==
  LET wired == Wire(v, FALSE, port) IN
  IF wired = {} THEN 0 ELSE buffer_pool[View(v, CHOOSE c \in wired : TRUE, k).at + i - 1].x
Slice(v, port, k) == [i \in 1..node_block[v] |-> Input(v, port, k, i)]

PortsOf(v) == 0..(Node(v).params - 1)
Controlled(v, p) == Wire(v, TRUE, p) = {}
\* One call's ramp of a port, from the value it has to the one asked for.
Ramp(v, p) ==
  [base |-> controls[v][p].current,
   inc |-> (controls[v][p].target - controls[v][p].current) \div node_block[v]]
\* A sample of a port: of its ramp, or of what drives it at audio rate.
PortAt(v, p, k, i) ==
  IF Controlled(v, p) THEN Ramp(v, p).base + Ramp(v, p).inc * (i - 1)
  ELSE buffer_pool[View(v, CHOOSE c \in Wire(v, TRUE, p) : TRUE, k).at + i - 1].x

\* Call k of a node: its channels, and the state it leaves.
Moment(v, k, i) ==
  [o \in 0..(Node(v).outs - 1) |->
     N!Sample(Node(v).dsp, Node(v).outs, o, [p \in 0..(Node(v).ins - 1) |-> Input(v, p, k, i)],
              [p \in PortsOf(v) |-> PortAt(v, p, k, i)])]
Computed(v, k) ==
  LET n == Node(v)
      Alone(r) == [outs |-> <<r.out>>, s |-> r.s]
      Pure(outs) == [outs |-> outs, s |-> node_state[v]]
      Across(moments) == [o \in 1..n.outs |-> [i \in 1..node_block[v] |-> moments[i][o - 1]]]
  IN CASE n.dsp = "stft" -> Alone(F!Stft(node_state[v], Slice(v, 0, k), n.size))
       [] n.dsp = "stft_fwd" -> Pure(F!Forward(Slice(v, 0, k), n.size, node_block[v]))
       [] n.dsp = "stft_bwd" -> Pure(F!Backward(Slice(v, 0, k), Slice(v, 1, k), n.size, node_block[v]))
       [] n.dsp = "counter" -> Alone(N!Count(node_state[v], Slice(v, 0, k)))
       [] n.dsp = "sah" ->
            Alone(N!Hold(node_state[v], Slice(v, 0, k), PortAt(v, 0, k, 1), SampleRate * region_rate[v]))
       [] n.dsp \in N!Stateless -> Pure(Across([i \in 1..node_block[v] |-> Moment(v, k, i)]))

Known(v) == Node(v).dsp # "any"
\* A call of v writes a value to each sample of its own.
Written(v, X(_)) ==
  [s \in DOMAIN buffer_pool |->
     IF s \in Writes(v, call) THEN [node |-> v, cycle |-> cycle, x |-> X(s)] ELSE buffer_pool[s]]
Process(v) ==
  LET Spelled(r) ==
        /\ buffer_pool' = Written(v, LAMBDA s : r.outs[ChannelAt(v, s) + 1][(Elapsed(v, s) % node_block[v]) + 1])
        /\ node_state' = [node_state EXCEPT ![v] = r.s]
  IN IF Known(v) THEN Spelled(Computed(v, call))
     ELSE /\ buffer_pool' = Written(v, LAMBDA s : Signal(v, ChannelAt(v, s), Elapsed(v, s)))
          /\ UNCHANGED node_state

----------------------------------------------------------------------------
\* Control ports.

\* A value is brought into the port's range.
Clamp(x) == IF x > MaxValue THEN MaxValue ELSE x

\* Mutant of UpdateRamps: the port forgets that it has arrived.
UpdateRampsLeft(v) ==
  /\ param_views' = [param_views EXCEPT ![v] = [p \in PortsOf(v) |->
       IF Controlled(v, p) THEN Ramp(v, p) ELSE @[p]]]
  /\ UNCHANGED <<controls, tunings>>

\* update_control_ramps: each port's ramp, which it has then gone; a port driven at
\* audio rate has none.
UpdateRamps(v) ==
  /\ param_views' = [param_views EXCEPT ![v] = [p \in PortsOf(v) |->
       IF Controlled(v, p) THEN Ramp(v, p) ELSE @[p]]]
  /\ controls' = [controls EXCEPT ![v] = [p \in PortsOf(v) |->
       IF Controlled(v, p) THEN [@[p] EXCEPT !.current = controls[v][p].target] ELSE @[p]]]
  /\ UNCHANGED tunings

----------------------------------------------------------------------------
InstanceInit ==
  /\ Init /\ built = FALSE
  /\ setup_rate = << >> /\ cycle = 0 /\ pos = 0 /\ call = 0
  /\ buffer_pool = << >> /\ node_state = << >>
  /\ tunings = << >> /\ controls = << >> /\ param_views = << >>

Compiling == Next /\ UNCHANGED <<built, runVars>>

StateInit(n) ==
  CASE n.dsp = "stft" -> F!StftInit(n.size)
    [] n.dsp = "sah" -> N!HeldInit
    [] n.dsp = "counter" -> N!CounterInit
    [] OTHER -> << >>

\* build(): memory cleared, nodes with state set up, ports at their defaults, views
\* as defined above.
Build ==
  /\ pass = "ok" /\ ~built
  /\ built' = TRUE
  /\ buffer_pool' = [s \in 0..(off.out - 1) |-> Never]
  /\ node_state' = [v \in Nodes |-> StateInit(Node(v))]
  /\ setup_rate' = [v \in {w \in Nodes : Node(w).hosted} |-> 1]
  /\ controls' = [v \in Nodes |-> [p \in PortsOf(v) |-> [current |-> Node(v).preset, target |-> Node(v).preset]]]
  /\ param_views' = [v \in Nodes |-> [p \in PortsOf(v) |-> [base |-> Node(v).preset, inc |-> 0]]]
  /\ UNCHANGED <<vars, cycle, pos, call, tunings>>

\* Between cycles the engine sets a port, at spawn both its values.
Tunable(v, p) ==
  /\ built /\ pos = 0 /\ cycle < MaxCycles /\ Len(tunings) < MaxTunings
  /\ v \in TunedNodes \cap Nodes /\ p \in PortsOf(v)
Tuned(v, p, c) ==
  /\ controls' = [controls EXCEPT ![v][p] = c]
  /\ tunings' = Append(tunings, v)
  /\ UNCHANGED <<vars, built, setup_rate, cycle, pos, call, audioVars, param_views>>
InitParameter(v, p, x) ==
  Tunable(v, p) /\ cycle = 0 /\ Tuned(v, p, [current |-> Clamp(x), target |-> Clamp(x)])
SetParameter(v, p, x) ==
  Tunable(v, p) /\ Tuned(v, p, [controls[v][p] EXCEPT !.target = Clamp(x)])
Tune ==
  \E v \in TunedNodes, x \in {MaxValue \div 2, 2 * MaxValue} : \E p \in 0..1 :
    InitParameter(v, p, x) \/ SetParameter(v, p, x)

\* process() is called.
StartCycle ==
  /\ built /\ pos = 0 /\ cycle < MaxCycles
  /\ cycle' = cycle + 1 /\ pos' = 1 /\ call' = 0
  /\ UNCHANGED <<vars, built, setup_rate, audioVars, portVars>>

Running == built /\ pos \in 1..Len(topo_order)
Current == topo_order[pos]

\* Mutant of Call: a node is called once per cycle.
CallOnce ==
  /\ Running /\ UpdateRamps(Current) /\ Process(Current)
  /\ pos' = pos + 1 /\ call' = 0
  /\ UNCHANGED <<vars, built, setup_rate, cycle>>

\* One call of one node; then its next call, or the next node's first.
Call ==
  /\ Running /\ UpdateRamps(Current) /\ Process(Current)
  /\ IF call + 1 < calls[Current]
       THEN call' = call + 1 /\ pos' = pos
       ELSE call' = 0 /\ pos' = pos + 1
  /\ UNCHANGED <<vars, built, setup_rate, cycle>>

EndCycle ==
  /\ built /\ pos > Len(topo_order)
  /\ pos' = 0
  /\ UNCHANGED <<vars, built, setup_rate, cycle, call, audioVars, portVars>>

VoiceNext == Build \/ Tune \/ StartCycle \/ Call \/ EndCycle

\* Blueprints are compiled one after another, and a voice of the last one is built
\* and run: what Load does with what was parsed, lowered or built by hand.
Registering == ~built /\ (\E b \in Blueprints : Begin(b)) /\ UNCHANGED <<built, runVars>>
InstanceNext == Registering \/ Compiling \/ VoiceNext
InstanceSpec == InstanceInit /\ [][InstanceNext]_instanceVars

----------------------------------------------------------------------------
Channel(c) == Span(OutOffset(c.src, c.out), out_stride(c.src))
Connections(v) == {bp.conns[i] : i \in Into(bp, v)}
Wrote(s, v) == buffer_pool[s].node = v /\ buffer_pool[s].cycle = cycle

(***************************************************************************)
(* What a call reads is this cycle's output of the node connected to it,   *)
(* never the cycle before's nor another channel's, for audio inputs and    *)
(* for ports driven at audio rate; and what it reads of an unconnected     *)
(* input is inside the silent buffer.                                      *)
(***************************************************************************)
ReadsAreFresh ==
  Running =>
    /\ \A c \in Connections(Current) : \A s \in Reads(Current, c, call) :
         /\ s \in Channel(c)
         /\ Wrote(s, c.src)
    /\ SilentIn(Current) <= SilentSize /\ node_block[Current] <= SilentSize

(***************************************************************************)
(* The calls of a cycle take each sample of a connected input once:        *)
(* nothing is skipped between slices and nothing is heard twice, whatever  *)
(* the rates and blocks on both sides.                                     *)
(***************************************************************************)
InputsAreReadOnce ==
  built =>
    \A v \in Nodes : \A c \in Connections(v) : \A s \in Channel(c) :
      Cardinality({k \in 0..(calls[v] - 1) : s \in Reads(v, c, k)}) = 1

(***************************************************************************)
(* When a cycle ends, every sample of every output was written in it, by   *)
(* the node it belongs to: no stale audio is left in a buffer.             *)
(***************************************************************************)
OutputsAreComplete ==
  built /\ pos > Len(topo_order) =>
    \A v \in Nodes : \A s \in Span(out_base_sample[v], Node(v).outs * out_stride(v)) :
      Wrote(s, v)

\* What is on an output, and on what feeds an input or a port, at sample i of the
\* cycle just played.
Heard(v, o, i) == buffer_pool[OutOffset(v, o) + i].x
Fed(v, param, port, i, unfed) ==
  LET wired == Wire(v, param, port) IN
  IF wired = {} THEN unfed ELSE LET c == CHOOSE c \in wired : TRUE IN Heard(c.src, c.out, i)
\* The nodes without a known meaning that feed an input: their signal is one in time.
Plain(v, port) == {c \in Wire(v, FALSE, port) : ~Known(c.src)}
\* No port of v was set: each has its preset.
Untuned(v) == \A n \in DOMAIN tunings : tunings[n] # v

\* The time of sample i of the cycle, and the last multiple of m until then.
Now(v, i) == (cycle - 1) * out_stride(v) + i
Begun(v, i, m) == Now(v, i) - (Now(v, i) % m)

\* What sample i of a node is, by what the node is.
MadeOfItsInputs(v, i) ==
  Untuned(v) => \A o \in 0..(Node(v).outs - 1) :
    Heard(v, o, i) =
      N!Sample(Node(v).dsp, Node(v).outs, o, [p \in 0..(Node(v).ins - 1) |-> Fed(v, FALSE, p, i, 0)],
               [p \in PortsOf(v) |-> Fed(v, TRUE, p, i, Node(v).preset)])
HeldTo(v) ==
  IF Node(v).preset > 0
  THEN LET period == (SampleRate * region_rate[v]) \div Node(v).preset IN IF period = 0 THEN 1 ELSE period
  ELSE node_block[v]
Held(v, i) ==
  Untuned(v) /\ Controlled(v, 0) => \A c \in Plain(v, 0) :
    Heard(v, 0, i) = IF Node(v).preset = 0 THEN 0 ELSE Signal(c.src, c.out, Begun(v, i, HeldTo(v)))
Reconstructed(v, i) ==
  LET latency == Node(v).size - 1 IN
  \A c \in Plain(v, 0) :
    /\ Now(v, i) < latency => Heard(v, 0, i) = 0
    /\ Now(v, i) >= latency + Node(v).size \div 2 =>
         Heard(v, 0, i) = Signal(c.src, c.out, Now(v, i) - latency)
\* The two halves of a transform back have come from one transform of its size.
Paired(v, re, im) ==
  /\ re.src = im.src /\ Node(re.src).dsp = "stft_fwd" /\ <<re.out, im.out>> = <<0, 1>>
  /\ Node(re.src).size = Node(v).size
TurnedBack(v, i) ==
  \A re \in Wire(v, FALSE, 0), im \in Wire(v, FALSE, 1) : \A c \in Plain(re.src, 0) :
    Paired(v, re, im) =>
      Heard(v, 0, i) = IF node_block[v] = Node(v).size THEN Signal(c.src, c.out, Now(v, i)) ELSE 0
Sounds(v, i) ==
  CASE Node(v).dsp \in N!Stateless -> MadeOfItsInputs(v, i)
    [] Node(v).dsp = "counter" -> Heard(v, 0, i) = Fed(v, FALSE, 0, i, 0)
    [] Node(v).dsp = "sah" -> Held(v, i)
    [] Node(v).dsp = "stft" -> Reconstructed(v, i)
    [] Node(v).dsp = "stft_fwd" -> node_block[v] # Node(v).size => Heard(v, 0, i) = 0
    [] Node(v).dsp = "stft_bwd" -> TurnedBack(v, i)

(***************************************************************************)
(* What a voice plays is what its diagram says, at the same moment, for    *)
(* any block, rate and slicing: each sample of a stateless node is made of *)
(* its sources' samples of that moment, ports driven at audio rate         *)
(* included; a sample_and_hold samples every sample_rate / rate samples of *)
(* its region and not once more at a block's edge; a counter is called     *)
(* once per slice.  ola_stft gives its input back n - 1 samples late ("it  *)
(* perfectly reconstructs the input"), from the first sample that two      *)
(* frames overlap on; a forward and a backward transform of the block's    *)
(* size give it back at once, those of any other size give silence.        *)
(***************************************************************************)
PlaysItsDiagram ==
  built /\ pos > Len(topo_order) =>
    \A v \in {w \in Nodes : Known(w)} :
      /\ \A i \in 0..(out_stride(v) - 1) : Sounds(v, i)
      /\ Node(v).dsp = "counter" => node_state[v].calls = cycle * calls[v]

(***************************************************************************)
(* A port never jumps: each call's ramp starts where the call before left  *)
(* it, but for the value a voice starts with, and leaves it at the value   *)
(* last asked for ("a click-free linear ramp from last block's value to    *)
(* the new target"), also when calls are finer than cycles.                *)
(***************************************************************************)
PortsGlide ==
  [][Running => \A p \in {q \in PortsOf(Current) : Controlled(Current, q)} :
       LET Ends(ramp) == ramp.base + ramp.inc * node_block[Current] IN
       /\ cycle + call > 1 => param_views'[Current][p].base = Ends(param_views[Current][p])
       /\ Ends(param_views'[Current][p]) = controls[Current][p].target]_instanceVars

(***************************************************************************)
(* instance.hpp: "with a power-of-two block size, each per-channel buffer  *)
(* within buffer_pool also lands on a 64-byte boundary".                   *)
(***************************************************************************)
ChannelsAreAligned ==
  built => \A v \in Nodes : \A ch \in 0..(Node(v).outs - 1) :
             (OutOffset(v, ch) * SampleBytes) % simd_align = 0

(***************************************************************************)
(* core.hpp's "rate-aware setup": a node is set up with the rate its       *)
(* process() is then told to run at.                                       *)
(***************************************************************************)
SetUpAtItsRate ==
  built => \A v \in DOMAIN setup_rate : setup_rate[v] = region_rate[v]

-----------------------------------------------------------------------------
(* The inductive invariant, and what the theorems about reads assume.       *)

Own(v) == Span(out_base_sample[v], Node(v).outs * out_stride(v))

\* A voice is built of a finished schedule, and keeps it.
Looping ==
  /\ ~built => pos = 0
  /\ built => pass = "ok" /\ pos \in 0..(Len(topo_order) + 1)

\* What is before the loops is this cycle's, of the node they are in as far as its
\* calls have come.
Playing ==
  /\ Looping
  /\ built =>
       /\ DOMAIN buffer_pool = 0..(off.out - 1)
       /\ \A n \in 1..pos - 1 : \A s \in Own(topo_order[n]) : Wrote(s, topo_order[n])
  /\ Running =>
       /\ call \in 0..(calls[Current] - 1)
       /\ \A ch \in 0..(Node(Current).outs - 1) :
            \A s \in Span(OutOffset(Current, ch), call * node_block[Current]) : Wrote(s, Current)

\* The nodes at a rate boundary are up2, down2 and the like: a factor of two and no
\* control ports.
Octaves ==
  \A b \in Blueprints : \A n \in {b.nodes[v] : v \in DOMAIN b.nodes} :
    /\ {n.rnum, n.rden} \subseteq {1, 2}
    /\ n.rnum # n.rden => n.params = 0

\* The nodes whose samples are known are what the library registers: none is at a rate
\* or block boundary, and each has the ports its process() takes for granted.
Declared ==
  \A b \in Blueprints : \A n \in {b.nodes[v] : v \in DOMAIN b.nodes} :
    n.dsp # "any" =>
      /\ n.rnum = n.rden /\ n.bnum = n.bden
      /\ n.dsp \notin N!Stateless => n.outs >= 1
      /\ n.dsp = "sah" => n.params >= 1
      /\ n.dsp \in {"stft", "stft_fwd", "stft_bwd"} => n.size \in F!Sizes

\* No up2 is called for one sample at a time, which it cannot do.
NoTinyDoubling ==
  pass = "ok" => \A v \in Nodes : Node(v).rnum = 2 * Node(v).rden => node_block[v] # 1

\* The nodes called since the voice was spawned.
HasRun(v) ==
  \/ cycle > 1
  \/ cycle = 1 /\ (pos = 0 \/ (\E n \in 1..pos - 1 : topo_order[n] = v))
  \/ cycle = 1 /\ Running /\ v = Current /\ call > 0

\* A port has the value its last ramp led to.
RampEnd(v, ramp) == ramp.base + ramp.inc * node_block[v]
Gliding ==
  /\ Looping /\ cycle \in Nat /\ call \in Nat /\ (pos > 0 => cycle > 0)
  /\ built =>
       /\ DOMAIN controls = Nodes /\ DOMAIN param_views = Nodes
       /\ \A v \in Nodes :
            /\ DOMAIN controls[v] = PortsOf(v) /\ DOMAIN param_views[v] = PortsOf(v)
            /\ \A p \in PortsOf(v) :
                 /\ controls[v][p] \in [current : Int, target : Int]
                 /\ Controlled(v, p) /\ HasRun(v) =>
                      RampEnd(v, param_views[v][p]) = controls[v][p].current

\* The values of ports stand for reals: those asked for lead to them in whole steps.
StepsAreWhole ==
  built => \A v \in Nodes : \A p \in PortsOf(v) :
    (controls[v][p].target - controls[v][p].current) % node_block[v] = 0

(***************************************************************************)
(* What PlaysItsDiagram rests on: in the midst of a cycle, too, whatever   *)
(* was made is right, and so is what each node keeps for its next call.    *)
(***************************************************************************)
\* The calls of the node at index k of topo_order in the cycle that is played, or was last.
CallsMade(k) ==
  IF pos = 0 \/ k < pos THEN calls[topo_order[k]] ELSE IF k = pos THEN call ELSE 0
\* A source's signal in time, and n samples of it from `start` on.
SignalOf(c) == [t \in Nat |-> Signal(c.src, c.out, t)]
FrameOf(x, start, n) == [i \in 0..(n - 1) |-> F!Real(x[start + i])]

\* A sample that was made.
Transformed(v, i) ==
  LET n == Node(v).size IN
  node_block[v] = n =>
    \A c \in Plain(v, 0) : \A o \in (0..1) \cap (0..(Node(v).outs - 1)) :
      Heard(v, o, i) = F!Transform(FrameOf(SignalOf(c), Begun(v, i, n), n), n, FALSE)[Now(v, i) % n][o + 1]
IsRight(v, i) ==
  IF Known(v) THEN Sounds(v, i) /\ (Node(v).dsp = "stft_fwd" => Transformed(v, i))
  ELSE \A o \in 0..(Node(v).outs - 1) : Heard(v, o, i) = Signal(v, o, Now(v, i))

\* ola_stft after t samples of x: its ring holds the last n, its accumulator what the
\* complete frames say of p, where two overlap.
Part(x, p, t, i, n) == IF 0 <= p - i /\ p - i <= t - n THEN F!Windowed(x[p], i, n) ELSE 0
\* Two frames overlap at p.
Content(x, p, t, n) ==
  LET h == n \div 2 IN Part(x, p, t, p % h, n) + Part(x, p, t, (p % h) + h, n)
Overlapping(s, x, t, n) ==
  /\ s.t = t
  /\ s = [t |-> s.t, in_ring |-> s.in_ring, ola |-> s.ola]
  /\ DOMAIN s.in_ring = 0..(n - 1) /\ DOMAIN s.ola = 0..(2 * n - 1)
  /\ \A p \in (t - n)..(t - 1) : p >= 0 => s.in_ring[p % n] = x[p]
  /\ \A p \in (t - n + 1)..(t + n) : s.ola[p % (2 * n)] = Content(x, p, t, n)

\* What a sample_and_hold keeps after t samples of x, each held for m.
Holds(s, x, t, m) ==
  /\ s = [held |-> s.held, counter |-> t % m]
  /\ t > 0 => s.held = x[(t - 1) - ((t - 1) % m)]

\* What a node has kept, from call to call and from cycle to cycle, when its state is s
\* and it has been called `made` times in this cycle.
Kept(v, s, made) ==
  LET n == Node(v)
      samples == (cycle - 1) * out_stride(v) + made * node_block[v]
  IN /\ n.dsp = "counter" => s = [calls |-> (cycle - 1) * calls[v] + made]
     /\ n.dsp = "sah" /\ Untuned(v) /\ Controlled(v, 0) =>
          \A c \in Plain(v, 0) :
            IF n.preset > 0 THEN Holds(s, SignalOf(c), samples, HeldTo(v))
            ELSE s = [held |-> s.held, counter |-> s.counter] /\ (n.preset = 0 => s.held = 0)
     /\ n.dsp = "stft" => \A c \in Plain(v, 0) : Overlapping(s, SignalOf(c), samples, n.size)

\* A port that was not set has its preset.
PresetsStay ==
  /\ DOMAIN controls = Nodes
  /\ \A v \in Nodes :
       /\ DOMAIN controls[v] = PortsOf(v)
       /\ Untuned(v) => \A p \in PortsOf(v) :
            controls[v][p] = [current |-> Node(v).preset, target |-> Node(v).preset]

\* Whatever was made so far in this cycle is right, and what is kept is right for the
\* calls that were made.
Sounding ==
  /\ cycle \in Nat /\ (~built => cycle = 0) /\ (pos > 0 => cycle > 0)
  /\ tunings \in Seq(TunedNodes)
  /\ built =>
       /\ DOMAIN node_state = Nodes /\ PresetsStay
       /\ \A k \in DOMAIN topo_order : Kept(topo_order[k], node_state[topo_order[k]], CallsMade(k))
       /\ pos > 0 => \A k \in DOMAIN topo_order :
            \A i \in 0..(CallsMade(k) * node_block[topo_order[k]] - 1) : IsRight(topo_order[k], i)
=============================================================================
