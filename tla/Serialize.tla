------------------------------ MODULE Serialize ------------------------------
(***************************************************************************)
(* A blueprint as a JSON document and back (serialize.cpp).  from_json     *)
(* builds the graph through the node registry and connect(), as the        *)
(* language does, and gives up at the first thing that is wrong; the       *)
(* graph under construction is the st of Lower.  Nodes are numbered from 0 *)
(* in a document and from 1 in a blueprint, where node 0 is none.          *)
(***************************************************************************)
EXTENDS Lower

J == INSTANCE Json

Version == 1
MaxSize == 1000000     \* bound: one more than the largest size_t

----------------------------------------------------------------------------
\* to_json_value.

Numeral(key, n) == <<key, J!Integer(n)>>
Listing(key, items) == <<key, J!Array(items)>>

\* config_args(), and each port's default.
ConfigArgs(v) ==
  LET Counted(slot, n) == IF slot[2] = 0 THEN << >> ELSE <<Numeral(slot[1], n)>>
  IN Counted(Registry[v.type].ins, v.ins) \o Counted(Registry[v.type].outs, v.outs)
PortArgs(v) ==
  [p \in DOMAIN v.values |-> <<Registry[v.type].ports[p][1], J!Number(v.values[p])>>]

NodeJson(nodes, i) ==
  LET args == ConfigArgs(nodes[i]) \o PortArgs(nodes[i])
  IN J!Object(<<Numeral("id", i - 1), <<"type", J!String(nodes[i].type)>>, <<"name", J!String(nodes[i].name)>>>>
              \o IF args = << >> THEN << >> ELSE <<<<"args", J!Object(args)>>>>)

ConnJson(c) ==
  J!Object(<<Numeral("src", c.src.node - 1), Numeral("out", c.src.ch), Numeral("dst", c.dst.node - 1), Numeral("in", c.dst.ch)>>)
ModJson(c) ==
  J!Object(<<Numeral("src", c.src.node - 1), Numeral("out", c.src.ch), Numeral("dst", c.dst - 1), Numeral("param", c.port - 1)>>)

\* Mutant of ChannelJson: a channel nothing was assigned to is listed as any other.
ChannelJsonPlain(c) == J!Object(<<Numeral("node", Max({c.node, 1}) - 1), Numeral("ch", c.ch)>>)
ChannelJson(c) ==
  IF c = Silent THEN J!Object(<<<<"silent", J!Boolean(TRUE)>>>>)
  ELSE J!Object(<<Numeral("node", c.node - 1), Numeral("ch", c.ch)>>)
TerminalJson(t) ==
  LET channels == [c \in DOMAIN t.channels |-> ChannelJson(t.channels[c])]
  IN J!Object(<<<<"name", J!String(t.name)>>, Numeral("node", t.node - 1)>>
              \o IF channels = << >> THEN << >> ELSE <<Listing("channels", channels)>>)

ToJson(b, name) ==
  J!Object(<<Numeral("xrune", Version), <<"name", J!String(name)>>,
    Listing("nodes", [i \in DOMAIN b.nodes |-> NodeJson(b.nodes, i)]),
    Listing("connections", [i \in DOMAIN b.conns |-> ConnJson(b.conns[i])]),
    Listing("modulations", [i \in DOMAIN b.pconns |-> ModJson(b.pconns[i])]),
    Listing("input_terminals", [i \in DOMAIN b.ins |-> TerminalJson(b.ins[i])]),
    Listing("output_terminals", [i \in DOMAIN b.outs |-> TerminalJson(b.outs[i])]),
    Numeral("input_node", b.input - 1), Numeral("output_node", b.output - 1)>>)
ToText(b, name) == J!Dump(ToJson(b, name))

----------------------------------------------------------------------------
\* from_json.

\* A number as size_t: a negative one wraps around.
AsSize(n) == IF n < 0 THEN MaxSize + n ELSE n
Valid(st, i) == i >= 0 /\ i < Len(st.nodes)

\* Members that are numbers, strings or booleans; node_args::num takes the last
\* two as 0.
Args(jn) ==
  LET given == J!Find(jn, "args")
      a == CHOOSE v \in given : TRUE
      kept == SelectSeq([i \in DOMAIN a.items |-> i],
                        LAMBDA i : a.items[i].k \in {"number", "string", "true", "false"})
  IN IF given = {} THEN << >>
     ELSE [i \in DOMAIN kept |-> [name |-> a.keys[kept[i]], x |-> a.items[kept[i]].num]]

\* Each step is skipped once st has failed.
AddNode(st, jn) ==
  IF ~st.ok \/ jn.k # "object" \/ J!AsText(jn, "type") \notin Types THEN Fail(st)
  ELSE Add(st, Make(J!AsText(jn, "type"), Args(jn)), J!AsText(jn, "name"))

\* The ends of a connection or a modulation.
Src(c) == J!AsInteger(c, "src", -1)
Dst(c) == J!AsInteger(c, "dst", -1)
From(c) == Chan(Src(c) + 1, AsSize(J!AsInteger(c, "out", 0)))
Into(c, key) == AsSize(J!AsInteger(c, key, 0))

\* Mutant of AddConn: the ends are checked, but not that the input is free.
AddConnDirect(st, c) ==
  IF ~st.ok \/ ~Valid(st, Src(c)) \/ ~Valid(st, Dst(c)) THEN Fail(st)
  ELSE ConnectTwice(st, From(c), Chan(Dst(c) + 1, Into(c, "in")))
AddConn(st, c) ==
  IF ~st.ok \/ ~Valid(st, Src(c)) \/ ~Valid(st, Dst(c)) THEN Fail(st)
  ELSE Connect(st, From(c), Chan(Dst(c) + 1, Into(c, "in")))
AddMod(st, c) ==
  IF ~st.ok \/ ~Valid(st, Src(c)) \/ ~Valid(st, Dst(c)) THEN Fail(st)
  ELSE ConnectParam(st, From(c), Dst(c) + 1, Into(c, "param") + 1)

\* A channel's node is checked, its number within the node is not.
NodeOf(x) == J!AsInteger(x, "node", -1)
SilentHere(c) == \E s \in J!Find(c, "silent") : s.k = "true"
ChannelOf(c) == IF SilentHere(c) THEN Silent ELSE Chan(NodeOf(c) + 1, AsSize(J!AsInteger(c, "ch", 0)))
TerminalOf(t) ==
  LET channels == J!AsItems(t, "channels")
  IN Terminal(J!AsText(t, "name"), NodeOf(t) + 1, [i \in DOMAIN channels |-> ChannelOf(channels[i])])
Found(st, t) ==
  /\ Valid(st, NodeOf(t))
  /\ \A c \in ToSet(J!AsItems(t, "channels")) : SilentHere(c) \/ Valid(st, NodeOf(c))
AddTerminals(st, key, ts) ==
  IF ~st.ok \/ \E t \in ToSet(ts) : ~Found(st, t) THEN Fail(st)
  ELSE [st EXCEPT ![key] = [i \in DOMAIN ts |-> TerminalOf(ts[i])]]

\* The document's parts, one after the other.
Nodes(root) == FoldLeft(AddNode, Fresh(<< >>), J!AsItems(root, "nodes"))
Connections(st, root) == FoldLeft(AddConn, st, J!AsItems(root, "connections"))
Modulations(st, root) == FoldLeft(AddMod, st, J!AsItems(root, "modulations"))
Terminals(st, root) ==
  AddTerminals(AddTerminals(st, "input_terminals", J!AsItems(root, "input_terminals")),
               "out_terminals", J!AsItems(root, "output_terminals"))
\* input_node and output_node are any numbers.
Ended(st, root) ==
  [ok |-> st.ok,
   bp |-> [Graph(st, st.out_terminals) EXCEPT
             !.input = J!AsInteger(root, "input_node", -1) + 1,
             !.output = J!AsInteger(root, "output_node", -1) + 1]]
Refused == Ended(Fail(Fresh(<< >>)), J!Null)

Restore(root) ==
  IF J!AsInteger(root, "xrune", 0) # Version \/ ~\E ns \in J!Find(root, "nodes") : ns.k = "array"
    THEN Refused
  ELSE Ended(Terminals(Modulations(Connections(Nodes(root), root), root), root), root)
FromJson(text) ==
  LET Read(r) == IF r.ok THEN Restore(r.v) ELSE Refused IN Read(J!Parse(text))
=============================================================================
