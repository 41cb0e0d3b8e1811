------------------------- MODULE SerializeProperties -------------------------
(***************************************************************************)
(* What saving a blueprint and reading a document must mean.  The text of  *)
(* a document is read from above: its brackets match, what a token may     *)
(* follow is fixed by the innermost bracket around it, and a value is      *)
(* named by the position of its first token.                               *)
(***************************************************************************)
EXTENDS Serialize, FiniteSets

Openers == {"{", "["}
Closers == {"}", "]"}
Scalars == {"string", "number", "true", "false", "null"}

\* The bracket each token is in; open are those not closed yet, the innermost first.
RECURSIVE Homes(_, _, _)
Homes(ts, home, open) ==
  LET i == Len(home) + 1
      inner == IF open = << >> THEN 0 ELSE Head(open)
  IN IF i > Len(ts) THEN home
     ELSE Homes(ts, Append(home, inner),
                IF ts[i].k \in Openers THEN <<i>> \o open
                ELSE IF ts[i].k \in Closers /\ open # << >> THEN Tail(open) ELSE open)
Document(ts) == [ts |-> ts, home |-> Homes(ts, << >>, << >>)]

\* What surrounds a token: the bracket it is in and the token before it.
Around(D, i) == IF D.home[i] = 0 THEN "none" ELSE D.ts[D.home[i]].k
Before(D, i) == IF i = 1 THEN "none" ELSE D.ts[i - 1].k
IsKey(D, i) == Around(D, i) = "{" /\ D.ts[i].k = "string" /\ Before(D, i) \in {"{", ","}
Begins(D, i) == D.ts[i].k \in Openers \cup Scalars /\ ~IsKey(D, i)
Ends(D, i) == D.ts[i].k \in Closers \/ (D.ts[i].k \in Scalars /\ ~IsKey(D, i))

Fits(D, i) ==
  \/ IsKey(D, i)
  \/ i = 1 /\ Begins(D, i)
  \/ i > 1 /\ Begins(D, i) /\ <<Around(D, i), Before(D, i)>> \in {<<"{", ":">>, <<"[", "[">>, <<"[", ",">>}
  \/ i > 1 /\ <<Around(D, i), D.ts[i].k>> \in {<<"{", "}">>, <<"[", "]">>}
           /\ (D.home[i] = i - 1 \/ Ends(D, i - 1))
  \/ i > 1 /\ D.ts[i].k = "," /\ D.home[i] # 0 /\ Ends(D, i - 1)
  \/ i > 1 /\ D.ts[i].k = ":" /\ IsKey(D, i - 1)
Among(D, ks) == Cardinality({i \in DOMAIN D.ts : D.ts[i].k \in ks})
Strict(D) ==
  /\ D.ts # << >> /\ Among(D, Openers) = Among(D, Closers)
  /\ \A i \in DOMAIN D.ts : Fits(D, i)

\* The value of an object's member, of its first of that name, if it is of a kind.
Member(D, i, key, kinds) ==
  LET keys == {k \in DOMAIN D.ts : D.home[k] = i /\ IsKey(D, k) /\ D.ts[k].str = key}
  IN IF keys # {} /\ D.ts[Min(keys) + 2].k \in kinds THEN {Min(keys) + 2} ELSE {}
Only(S, default) == IF S = {} THEN default ELSE CHOOSE x \in S : TRUE
Integral(D, i, key, default) == Only({J!Nearest(D.ts[v].num) : v \in Member(D, i, key, {"number"})}, default)
Text(D, i, key) == Only({D.ts[v].str : v \in Member(D, i, key, {"string"})}, "")
Within(D, i) == SelectSeq([v \in DOMAIN D.ts |-> v], LAMBDA v : D.home[v] = i /\ Begins(D, v))
Items(D, i, key) == Only({Within(D, v) : v \in Member(D, i, key, {"["})}, << >>)

----------------------------------------------------------------------------
\* What the document says of a node, an end of a connection, a terminal.

Given(D, i) ==
  LET members == SelectSeq(Only({Within(D, a) : a \in Member(D, i, "args", {"{"})}, << >>),
                           LAMBDA v : D.ts[v].k \in Scalars \ {"null"})
  IN [m \in DOMAIN members |-> [name |-> D.ts[members[m] - 2].str, x |-> D.ts[members[m]].num]]
Node(D, i) == Make(Text(D, i, "type"), Given(D, i)) @@ [name |-> Text(D, i, "name")]

Knows(D, i, n, key) == Integral(D, i, key, -1) \in 0..(n - 1)
Source(D, c) == Chan(Integral(D, c, "src", -1) + 1, Integral(D, c, "out", 0))
Target(D, c) == Chan(Integral(D, c, "dst", -1) + 1, Integral(D, c, "in", 0))
Modulated(D, m) ==
  [src |-> Source(D, m), dst |-> Integral(D, m, "dst", -1) + 1, port |-> Integral(D, m, "param", 0) + 1]
Wire(D, c) == [src |-> Source(D, c), dst |-> Target(D, c)]

IsSilent(D, c) == Member(D, c, "silent", {"true", "false", "null", "string", "number"} \cup Openers)
                  \cap {v \in DOMAIN D.ts : D.ts[v].k = "true"} # {}
Heard(D, c) ==
  IF IsSilent(D, c) THEN Silent ELSE Chan(Integral(D, c, "node", -1) + 1, AsSize(Integral(D, c, "ch", 0)))
Gives(D, t) ==
  LET channels == Items(D, t, "channels") IN
  Terminal(Text(D, t, "name"), Integral(D, t, "node", -1) + 1,
           [c \in DOMAIN channels |-> Heard(D, channels[c])])
Placed(D, n, t) ==
  /\ Knows(D, t, n, "node")
  /\ LET channels == Items(D, t, "channels") IN
     \A c \in DOMAIN channels : IsSilent(D, channels[c]) \/ Knows(D, channels[c], n, "node")

EachOf(D, Of(_, _), items) == [i \in DOMAIN items |-> Of(D, items[i])]
Distinct(seq) == \A i, j \in DOMAIN seq : seq[i] = seq[j] => i = j

\* A document that describes a graph: known nodes, ends that exist, one source for
\* each input and each port.
Consistent(D) ==
  LET ns == Items(D, 1, "nodes")
      cs == Items(D, 1, "connections")
      ms == Items(D, 1, "modulations")
      At(i) == Node(D, ns[i])
      Ranged(c) ==
        /\ Knows(D, c, Len(ns), "src") /\ Knows(D, c, Len(ns), "dst")
        /\ Integral(D, c, "out", 0) \in 0..(At(Integral(D, c, "src", -1) + 1).outs - 1)
      InRange(c) == Integral(D, c, "in", 0) \in 0..(At(Integral(D, c, "dst", -1) + 1).ins - 1)
      HasPort(m) == Integral(D, m, "param", 0) + 1 \in DOMAIN At(Integral(D, m, "dst", -1) + 1).values
  IN /\ D.ts[1].k = "{" /\ Integral(D, 1, "xrune", 0) = Version /\ Member(D, 1, "nodes", {"["}) # {}
     /\ \A i \in DOMAIN ns : Text(D, ns[i], "type") \in Types
     /\ \A i \in DOMAIN cs : Ranged(cs[i]) /\ InRange(cs[i])
     /\ \A i \in DOMAIN ms : Ranged(ms[i]) /\ HasPort(ms[i])
     /\ Distinct([i \in DOMAIN cs |-> Target(D, cs[i])])
     /\ Distinct([i \in DOMAIN ms |-> [Modulated(D, ms[i]) EXCEPT !.src = Silent]])
     /\ \A key \in {"input_terminals", "output_terminals"} :
          LET ts == Items(D, 1, key) IN \A t \in DOMAIN ts : Placed(D, Len(ns), ts[t])

Described(D) ==
  [nodes |-> EachOf(D, Node, Items(D, 1, "nodes")), conns |-> EachOf(D, Wire, Items(D, 1, "connections")),
   pconns |-> EachOf(D, Modulated, Items(D, 1, "modulations")),
   outs |-> EachOf(D, Gives, Items(D, 1, "output_terminals")),
   ins |-> EachOf(D, Gives, Items(D, 1, "input_terminals")),
   input |-> Integral(D, 1, "input_node", -1) + 1, output |-> Integral(D, 1, "output_node", -1) + 1,
   params |-> << >>]

----------------------------------------------------------------------------
\* What was read back from the export of a blueprint b is that blueprint, node for
\* node and wire for wire, without its rune's parameters: serialize.hpp promises
\* "a complete, reloadable description".
ReloadIsExact(b, r) == r.ok /\ r.bp = [b EXCEPT !.params = << >>]

\* from_json takes a text only if it is one whole JSON value that describes a
\* graph, and then builds that graph: a damaged file is never half read.
AcceptedIsDescribed(ts, r) ==
  LET Judge(D) == /\ r.ok <=> Strict(D) /\ Consistent(D)
                  /\ r.ok => r.bp = Described(D)
  IN Judge(Document(ts))
=============================================================================
