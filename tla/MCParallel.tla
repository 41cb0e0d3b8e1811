------------------------------ MODULE MCParallel ------------------------------
(***************************************************************************)
(* Instances of the executors for TLC.                                     *)
(***************************************************************************)
EXTENDS ParallelProperties

CONSTANTS w1, w2

Pair(s, d) == [src |-> s, dst |-> d]

\* Three instances in the order of their activation, with routes from later
\* instances into earlier ones, voices spawned into voices that were there: none,
\* a chain, two into one, one into two (by its own wish and a later route), and
\* a route made twice.
SpawnedInto ==
  {[active |-> <<0, 1, 2>>, routes |-> rs] :
     rs \in {<< >>, <<Pair(2, 1), Pair(1, 0)>>, <<Pair(1, 0), Pair(2, 0)>>,
             <<Pair(2, 1), Pair(2, 0)>>, <<Pair(1, 0), Pair(1, 0)>>}}
  \cup {[active |-> <<2>>, routes |-> << >>]}

\* An earlier voice is routed into a later one (runtime::route).
RoutedLater == {[active |-> <<0, 1>>, routes |-> <<Pair(0, 1)>>]}

\* Two voices routed into each other.
RoutedInACycle == {[active |-> <<0, 1>>, routes |-> <<Pair(0, 1), Pair(1, 0)>>]}

\* Any two routes among three instances, loops to itself included, and any three
\* that join them pairwise: cycles of one, two and three, an instance after a
\* cycle, the same route twice, every order of making.
Lists(S, n) == UNION {[1..m -> S] : m \in 0..n}
AllPairs == {Pair(s, d) : s \in Slots, d \in Slots}
Ends(p) == {p.src, p.dst}
Triangles == {rs \in [1..3 -> {p \in AllPairs : p.src # p.dst}] :
                \A m, n \in 1..3 : Ends(rs[m]) = Ends(rs[n]) => m = n}
AnyGraph == {[active |-> <<1, 0, 2>>, routes |-> rs] : rs \in Lists(AllPairs, 2) \cup Triangles}
=============================================================================
