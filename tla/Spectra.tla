------------------------------- MODULE Spectra -------------------------------
(***************************************************************************)
(* The spectral nodes (fft.hpp): the radix-2 transform, the overlap-add    *)
(* ola_stft and the halves of the split transform, on exact numbers.  The  *)
(* roots of unity of 2 and 4 points are whole complex numbers, the Hann    *)
(* window is in halves, so samples are even integers.                      *)
(***************************************************************************)
EXTENDS Integers, Sequences

Sizes == {2, 4}     \* bound: fft sizes

\* Complex numbers are <<re, im>>; a frame is a function from 0..n-1.
Sum(a, b) == <<a[1] + b[1], a[2] + b[2]>>
Difference(a, b) == <<a[1] - b[1], a[2] - b[2]>>
Product(a, b) == <<a[1] * b[1] - a[2] * b[2], a[1] * b[2] + a[2] * b[1]>>

\* The cosine and the sine of 2 Pi k / n.
Cos(k, n) == <<1, 0, -1, 0>>[((k * (4 \div n)) % 4) + 1]
Sin(k, n) == <<0, 1, 0, -1>>[((k * (4 \div n)) % 4) + 1]
Twiddle(k, n, inv) == <<Cos(k, n), IF inv THEN Sin(k, n) ELSE -Sin(k, n)>>

\* i with its bits in reverse.
Brev(i, n) == IF n = 4 THEN 2 * (i % 2) + (i \div 2) ELSE i

\* One pass of butterflies over groups of len.
Pass(z, n, len, inv) ==
  LET half == len \div 2
      Turned(b) == Product(Twiddle((b % half) * (n \div len), n, inv), z[b])
  IN [i \in 0..(n - 1) |->
        IF i % len < half THEN Sum(z[i], Turned(i + half)) ELSE Difference(z[i - half], Turned(i))]
Scaled(z, n, inv) ==
  IF inv THEN [i \in 0..(n - 1) |-> <<z[i][1] \div n, z[i][2] \div n>>] ELSE z
Transform(z, n, inv) ==
  LET permuted == [i \in 0..(n - 1) |-> z[Brev(i, n)]]
      Passes(y) == IF n = 4 THEN Pass(Pass(y, n, 2, inv), n, 4, inv) ELSE Pass(y, n, 2, inv)
  IN Scaled(Passes(permuted), n, inv)

Real(x) == <<x, 0>>

----------------------------------------------------------------------------
\* ola_stft.  State: the samples so far, the last n of them, and the frames that
\* overlap, 2n samples from the next one to give out.

Silence(n) == [i \in 0..(n - 1) |-> 0]
StftInit(n) == [t |-> 0, in_ring |-> Silence(n), ola |-> Silence(2 * n)]

\* A sample under the window 0.5 * (1 - cos).
Windowed(x, i, n) == (x * (1 - Cos(i, n))) \div 2
\* The windowed frame from `start` on; its spectrum is left as it is
\* (process_spectrum's default) and turned back.
Frame(s, start, n) ==
  Transform(Transform([i \in 0..(n - 1) |-> Real(Windowed(s.in_ring[(start + i) % n], i, n))],
                      n, FALSE), n, TRUE)
Overlap(s, start, n, y) ==
  LET At(r) == (r - start) % (2 * n) IN
  [s EXCEPT !.ola = [r \in DOMAIN @ |-> IF At(r) < n THEN @[r] + y[At(r)][1] ELSE @[r]]]

\* A sample in.
Heard(s, x, n) ==
  LET start == s.t - (n - 1)
      With(u) == IF start >= 0 /\ start % (n \div 2) = 0 THEN Overlap(u, start, n, Frame(u, start, n))
                 ELSE u
  IN With([s EXCEPT !.in_ring[s.t % n] = x])

\* Mutant of Given: what was given out stays in its slot.
GivenKept(s, n) ==
  LET start == s.t - (n - 1) IN
  [s |-> [s EXCEPT !.t = @ + 1], x |-> IF start >= 0 THEN s.ola[start % (2 * n)] ELSE 0]
\* The sample that is complete, n - 1 late; its slot is cleared.
Given(s, n) ==
  LET start == s.t - (n - 1) IN
  IF start >= 0
    THEN [s |-> [s EXCEPT !.ola[start % (2 * n)] = 0, !.t = @ + 1], x |-> s.ola[start % (2 * n)]]
    ELSE [s |-> [s EXCEPT !.t = @ + 1], x |-> 0]

\* A block of samples: the state, and one channel out.
Stft(state, xs, n) ==
  LET after[i \in 0..Len(xs)] ==
        IF i = 0 THEN [s |-> state, x |-> 0] ELSE Given(Heard(after[i - 1].s, xs[i], n), n)
  IN [s |-> after[Len(xs)].s, out |-> [i \in 1..Len(xs) |-> after[i].x]]

----------------------------------------------------------------------------
\* The split transform, one channel: a block is a frame, or there is silence.

Channels(z, n) ==
  <<[i \in 1..n |-> z[i - 1][1]], [i \in 1..n |-> z[i - 1][2]]>>
Mute(count, block) == [c \in 1..count |-> [i \in 1..block |-> 0]]
Forward(xs, n, block) ==
  IF block # n THEN Mute(2, block)
  ELSE Channels(Transform([i \in 0..(n - 1) |-> Real(xs[i + 1])], n, FALSE), n)
Backward(re, im, n, block) ==
  IF block # n THEN Mute(1, block)
  ELSE <<Channels(Transform([i \in 0..(n - 1) |-> <<re[i + 1], im[i + 1]>>], n, TRUE), n)[1]>>
=============================================================================
