---------------------------- MODULE SmallDocuments ----------------------------
(***************************************************************************)
(* Documents for TLC: a blueprint that has all a document may have, with   *)
(* one value of it lost, doubled or taken for another, and a short one     *)
(* with one token lost, put in or taken for another.                       *)
(***************************************************************************)
EXTENDS Json

N(key, n) == <<key, Integer(n)>>
X(key, x) == <<key, String(x)>>
L(key, objects) == <<key, Array([i \in DOMAIN objects |-> Object(objects[i])])>>
Wire(src, dst, key, port) == <<N("src", src), N("out", 0), N("dst", dst), N(key, port)>>

Blueprint ==
  Object(<<N("xrune", 1),
    L("nodes", <<<<X("type", "sine"), X("name", "x"), <<"args", Object(<<N("freq", 3)>>)>>>>,
                 <<X("type", "mix"), <<"args", Object(<<N("inputs", 2)>>)>>>>,
                 <<X("type", "bus"), <<"args", Object(<<N("channels", 1)>>)>>>>>>),
    L("connections", <<Wire(0, 1, "in", 1), Wire(2, 1, "in", 0)>>),
    L("modulations", <<Wire(2, 0, "param", 0)>>),
    L("input_terminals", <<<<X("name", "x"), N("node", 2)>>>>),
    L("output_terminals", <<<<X("name", "out"), N("node", 1),
        L("channels", <<<<N("node", 1), N("ch", 0)>>, <<<<"silent", Boolean(TRUE)>>>>>>)>>>>),
    N("input_node", 2), N("output_node", 1)>>)

Others == {Null, Boolean(TRUE), Boolean(FALSE), String("sine"), String("mix"), Array(<< >>), NoObject}
          \cup {Integer(n) : n \in -1..3}

\* One value of v is another, or twice there, or missing.
RECURSIVE Altered(_)
Altered(v) ==
  LET At(i) == {[v EXCEPT !.items[i] = w] : w \in Altered(v.items[i])}
      Twice(i) == [v EXCEPT !.items = InsertAt(@, i, v.items[i]),
                            !.keys = IF @ = << >> THEN @ ELSE InsertAt(@, i, v.keys[i])]
      Without(i) == [v EXCEPT !.items = RemoveAt(@, i), !.keys = IF @ = << >> THEN @ ELSE RemoveAt(@, i)]
  IN Others \cup UNION {At(i) \cup {Twice(i), Without(i)} : i \in DOMAIN v.items}

Alphabet == {Sym(k) : k \in {"{", "}", "[", "]", ",", ":", "null", "true", "bad"}} \cup {Word("nodes")}
Short == Dump(Object(<<N("xrune", 1), L("nodes", <<<<X("type", "bus")>>, <<X("type", "sine")>>>>)>>))
Damaged(ts) ==
  {RemoveAt(ts, i) : i \in DOMAIN ts}
  \cup {ReplaceAt(ts, i, t) : i \in DOMAIN ts, t \in Alphabet}
  \cup {InsertAt(ts, i, t) : i \in DOMAIN ts, t \in Alphabet}

SmallDocumentSet == {Dump(v) : v \in Altered(Blueprint)} \cup Damaged(Short)
=============================================================================
