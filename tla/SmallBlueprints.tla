-------------------------- MODULE SmallBlueprints --------------------------
(***************************************************************************)
(* Blueprints for TLC: the shapes of the library's nodes, wired in every   *)
(* way graph_blueprint::connect and connect_param allow.                   *)
(***************************************************************************)
EXTENDS Integers, Sequences

Shape(i, o, p) == [ins |-> i, outs |-> o, params |-> p, rnum |-> 1, rden |-> 1,
                   bnum |-> 1, bden |-> 1, bytes |-> 0, align |-> 8, hosted |-> FALSE,
                   dsp |-> "any", size |-> 0, preset |-> 0]
Osc == [Shape(0, 1, 1) EXCEPT !.bytes = 8]       \* a phase
Noise == [Shape(0, 1, 0) EXCEPT !.bytes = 8]     \* a seed
Pan == Shape(1, 2, 1)
Mix == Shape(2, 1, 0)
Up2 == [Shape(1, 1, 0) EXCEPT !.rnum = 2, !.bytes = 256]
Down2 == [Shape(1, 1, 0) EXCEPT !.rden = 2, !.bytes = 256]
Faust == [Shape(1, 1, 0) EXCEPT !.bytes = 32, !.hosted = TRUE]
UpBloc == [Shape(1, 1, 0) EXCEPT !.bnum = 2]
DownBloc == [Shape(1, 1, 0) EXCEPT !.bden = 2]

Stft(n) == [Shape(1, 1, 0) EXCEPT !.dsp = "stft", !.size = n, !.bytes = 8 + 40 * n]
Forward(n) == [Shape(1, 2, 0) EXCEPT !.dsp = "stft_fwd", !.size = n]
Backward(n) == [Shape(2, 1, 0) EXCEPT !.dsp = "stft_bwd", !.size = n, !.bytes = 8 * n]

\* The ports of nodes ns in a list: audio inputs, then control ports.
Ports(ns) ==
  LET n == Len(ns)
      all == [i \in 1..(3 * n) |->
                [param |-> i > 2 * n, dst |-> ((i - 1) % n) + 1,
                 port |-> IF i > n /\ i <= 2 * n THEN 1 ELSE 0]]
  IN SelectSeq(all, LAMBDA p :
       p.port < IF p.param THEN ns[p.dst].params ELSE ns[p.dst].ins)

\* All ways to connect each port to one output, or to none.
Wirings(ns) ==
  LET ports == Ports(ns)
      outs == {o \in (DOMAIN ns) \X (0..1) : o[2] < ns[o[1]].outs}
      From(o, p) == [src |-> o[1], out |-> o[2], dst |-> p.dst, param |-> p.param,
                     port |-> p.port]
      List(f) == LET used == SelectSeq([i \in DOMAIN ports |-> i],
                                       LAMBDA i : f[i] # <<0, 0>>)
                 IN [j \in DOMAIN used |-> From(f[used[j]], ports[used[j]])]
  IN {[nodes |-> ns, conns |-> List(f)] : f \in [DOMAIN ports -> outs \cup {<<0, 0>>}]}

\* Every graph of a source and any two adapters or mixers, or of a source, an
\* adapter and a pan (two outputs, a control port).
Others == {Mix, Up2, Down2, UpBloc, DownBloc}
SmallGraphs == UNION {Wirings(ns) : ns \in {<<a, Osc, b>> : a \in Others, b \in Others}
                                           \cup {<<Up2, Osc, Pan>>}}

\* A region at another rate or block between a source and a mix of two signals.
Regions == UNION {Wirings(ns) : ns \in {<<Noise, Up2, Down2, Mix>>, <<Noise, DownBloc, UpBloc, Mix>>}}

\* A mono source, in two channels, oversampled or not.
Stereo == Wirings(<<Osc, Up2, Pan>>)

\* A source, an adapter and a node that hosts a sub-engine.
HostedGraphs == Wirings(<<Osc, Up2, Faust>>)

\* Blocks halved to nothing.
Halvings == Wirings(<<DownBloc, DownBloc, DownBloc>>)

\* A source or its region at another rate or block, then a spectral node, or a
\* transform and back.
Link(src, out, dst, port) == [src |-> src, out |-> out, dst |-> dst, param |-> FALSE, port |-> port]
Regional == {Mix, Up2, DownBloc}
SpectralGraphs ==
  {[nodes |-> <<Noise, a, Stft(n)>>, conns |-> <<Link(1, 0, 2, 0), Link(2, 0, 3, 0)>>] :
     a \in Regional, n \in {2, 4}}
  \cup {[nodes |-> <<Noise, a, Backward(n), Forward(n)>>,
        conns |-> <<Link(1, 0, 2, 0), Link(2, 0, 4, 0), Link(4, 0, 3, 0), Link(4, 1, 3, 1)>>] :
          a \in Regional, n \in {2, 4}}

\* Standard nodes whose samples are known: with every input from a source of their
\* own, and modulated, held or counted in a region of another rate or block.
Standard(dsp, i, o, p, preset) == [Shape(i, o, p) EXCEPT !.dsp = dsp, !.preset = preset]
Multi(o) == Shape(0, o, 0)
Feeding(node) ==
  [nodes |-> <<Multi(node.ins), node>>, conns |-> [i \in 1..node.ins |-> Link(1, i - 1, 2, i - 1)]]
Fans == {Standard("adapt", i, o, 0, 0) : i \in 1..4, o \in 1..4}
        \cup {Standard("mix", 3, 1, 0, 0), Standard("smix", 4, 2, 0, 0), Standard("sinv", 2, 2, 0, 0),
              Standard("fader", 2, 2, 1, 8)}
Sah(preset) == [Standard("sah", 1, 1, 1, preset) EXCEPT !.bytes = 16]
Counter == [Standard("counter", 1, 1, 0, 0) EXCEPT !.bytes = 8]
Driven(src, dst) == [Link(src, 0, dst, 0) EXCEPT !.param = TRUE]
StandardGraphs ==
  {Feeding(n) : n \in Fans}
  \cup {[nodes |-> <<Noise, Standard("div", 2, 1, 0, 0)>>, conns |-> <<Link(1, 0, 2, 0), Link(1, 0, 2, 1)>>]}
  \cup {[nodes |-> <<Noise, a, n>>, conns |-> <<Link(1, 0, 2, 0), Link(2, 0, 3, 0)>>] :
          a \in Regional, n \in {Sah(-4), Sah(0), Sah(4), Sah(8), Counter, Standard("gain", 1, 1, 1, 4)}}
  \cup {[nodes |-> <<Noise, a, n, Standard("constant", 0, 1, 1, 4)>>,
         conns |-> <<Link(1, 0, 2, 0), Link(2, 0, 3, 0), Driven(d, 3)>>] :
          a \in Regional, n \in {Sah(4), Standard("gain", 1, 1, 1, 4)}, d \in {2, 4}}

InstanceBlueprints == SmallGraphs \cup Regions \cup HostedGraphs \cup Halvings \cup SpectralGraphs
                      \cup StandardGraphs
=============================================================================
