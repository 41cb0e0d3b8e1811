---------------------------- MODULE StandardNodes ----------------------------
(***************************************************************************)
(* What the standard nodes compute (standard_nodes.hpp), on integers.      *)
(* Most are stateless: a sample of an output is a function of the inputs'  *)
(* and the ports' samples of that moment.  Inputs x, ports p and outputs   *)
(* are numbered from 0.  Left out: sine, noise and pan, whose values are   *)
(* real numbers.                                                           *)
(***************************************************************************)
EXTENDS Integers, Sequences, FiniteSetsExt

Stateless == {"gain", "mix", "smix", "fader", "adapt", "m2s", "s2m", "inv", "sinv",
              "add", "div", "mul", "constant"}

\* The sum of some inputs.
Total(x, chosen) == MapThenSumSet(LAMBDA i : x[i], chosen)
Mix(x) == Total(x, DOMAIN x)
StereoMix(x, o) == Total(x, {i \in DOMAIN x : i % 2 = o})

\* The inputs an adapter of n inputs to m outputs sums on output o: a multiple is
\* folded or spread in turn, and otherwise the last input fills what is left.
Adapted(n, m, o) ==
  IF n % m = 0 THEN {i \in 0..(n - 1) : i % m = o}
  ELSE IF m % n = 0 THEN {o % n}
  ELSE {IF o < n THEN o ELSE n - 1}
Adapt(x, outs, o) == Total(x, Adapted(Cardinality(DOMAIN x), outs, o))

Gain(x, p) == x[0] * p[0]
Fader(x, p, o) == x[o] * p[0]
StereoToMono(x) == (x[0] + x[1]) \div 2
Invert(x, o) == -x[o]
Add(x) == x[0] + x[1]
Divide(x) == IF x[1] = 0 THEN 0 ELSE x[0] \div x[1]
Multiply(x) == x[0] * x[1]

\* The sample of output o of outs.
Sample(dsp, outs, o, x, p) ==
  CASE dsp = "gain" -> Gain(x, p)
    [] dsp = "mix" -> Mix(x)
    [] dsp = "smix" -> StereoMix(x, o)
    [] dsp = "fader" -> Fader(x, p, o)
    [] dsp = "adapt" -> Adapt(x, outs, o)
    [] dsp = "m2s" -> x[0]
    [] dsp = "s2m" -> StereoToMono(x)
    [] dsp \in {"inv", "sinv"} -> Invert(x, o)
    [] dsp = "add" -> Add(x)
    [] dsp = "div" -> Divide(x)
    [] dsp = "mul" -> Multiply(x)
    [] dsp = "constant" -> p[0]

----------------------------------------------------------------------------
\* Nodes with a state: a block of samples in, the state they leave and one channel.

HeldInit == [held |-> 0, counter |-> 0]
CounterInit == [calls |-> 0]
Count(s, xs) == [s |-> [calls |-> s.calls + 1], out |-> xs]

\* sample_and_hold re-samples each interval; at a negative rate each block, at none
\* never.
Interval(rate, sample_rate) == Max({1, sample_rate \div rate})
Holding(s, xs) == [s |-> s, out |-> [i \in DOMAIN xs |-> s.held]]
Resampled(s, xs, interval) ==
  LET Taken(u, x) == IF u.counter = 0 THEN [u EXCEPT !.held = x] ELSE u
      Counted(u) == [u EXCEPT !.counter = IF @ + 1 >= interval THEN 0 ELSE @ + 1]
      after[i \in 0..Len(xs)] == IF i = 0 THEN s ELSE Counted(Taken(after[i - 1], xs[i]))
  IN [s |-> after[Len(xs)], out |-> [i \in 1..Len(xs) |-> after[i].held]]
\* Mutant of Hold: each block is sampled anew.
HoldAnew(s, xs, rate, sample_rate) ==
  IF rate > 0 THEN Resampled([s EXCEPT !.counter = 0], xs, Interval(rate, sample_rate))
  ELSE Holding(IF rate < 0 THEN [s EXCEPT !.held = xs[1]] ELSE s, xs)
Hold(s, xs, rate, sample_rate) ==
  IF rate > 0 THEN Resampled(s, xs, Interval(rate, sample_rate))
  ELSE Holding(IF rate < 0 THEN [s EXCEPT !.held = xs[1]] ELSE s, xs)
=============================================================================
