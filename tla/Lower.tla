-------------------------------- MODULE Lower --------------------------------
(***************************************************************************)
(* lower.hpp: the runes of a program become blueprints.  Evaluating an     *)
(* expression adds nodes and connections to the blueprint and yields a     *)
(* number or a fragment, the open inputs and the outputs of what it added. *)
(* A rune is lowered statement by statement; an error drops the rune and   *)
(* the next one starts afresh.                                             *)
(*                                                                         *)
(* An expression is a record: k is its kind, name its identifier, callee   *)
(* or operator, q its number or index, sub its operands, args the          *)
(* arguments of a call (Syntax).  A number is a fraction <<p, q>>; strings and      *)
(* booleans, arguments of Faust nodes only, are left out.  The state of    *)
(* the lowerer is the record st: the blueprint (nodes, conns, pconns,      *)
(* params, terminals), the scope (prefix, env), and whether it goes on.    *)
(***************************************************************************)
EXTENDS Integers, Sequences, SequencesExt

----------------------------------------------------------------------------
\* Numbers.

Whole(n) == <<n, 1>>
IsZero(q) == q[1] = 0
Recip(q) == IF q[1] < 0 THEN <<-q[2], -q[1]>> ELSE <<q[2], q[1]>>
Times(a, b) == <<a[1] * b[1], a[2] * b[2]>>
Plus(a, b) == <<a[1] * b[2] + b[1] * a[2], a[2] * b[2]>>
Minus(a) == <<-a[1], a[2]>>
\* std::fmod of what the operands are multiples of (both are taken as positive).
Mod(a, b) == <<(a[1] * b[2]) % (b[1] * a[2]), a[2] * b[2]>>
Rounded(q) == (2 * q[1] + q[2]) \div (2 * q[2])

\* Arithmetic on two numbers: the result, or nothing for a division by zero.
Fold(op, a, b) ==
  CASE op = "+" -> {Plus(a, b)}
    [] op = "-" -> {Plus(a, Minus(b))}
    [] op = "*" -> {Times(a, b)}
    [] op = "/" -> IF IsZero(b) THEN {} ELSE {Times(a, Recip(b))}
    [] op = "%" -> IF IsZero(b) THEN {} ELSE {Mod(a, b)}

----------------------------------------------------------------------------
\* Node types, those of standard_registry that the programs use.  Inputs and
\* outputs are counted by an argument (its name, position and default) or fixed.

Fixed(n) == <<"", 0, n>>
Type(ins, outs, ports) == [ins |-> ins, outs |-> outs, ports |-> ports]
Port(name, default) == <<name, 1, default>>

Registry ==
  [sine |-> Type(Fixed(0), Fixed(1), <<Port("freq", 440)>>),
   noise |-> Type(Fixed(0), Fixed(1), << >>),
   constant |-> Type(Fixed(0), Fixed(1), <<Port("value", 1)>>),
   gain |-> Type(Fixed(1), Fixed(1), <<Port("gain", 1)>>),
   pan |-> Type(Fixed(1), Fixed(2), <<Port("pan", 0)>>),
   mix |-> Type(<<"inputs", 1, 2>>, Fixed(1), << >>),
   adapt |-> Type(<<"inputs", 1, 1>>, <<"outputs", 2, 1>>, << >>),
   bus |-> Type(Fixed(0), <<"channels", 1, 2>>, << >>),
   m2s |-> Type(Fixed(1), Fixed(2), << >>),
   s2m |-> Type(Fixed(2), Fixed(1), << >>),
   inv |-> Type(Fixed(1), Fixed(1), << >>),
   add |-> Type(Fixed(2), Fixed(1), << >>),
   mul |-> Type(Fixed(2), Fixed(1), << >>),
   div |-> Type(Fixed(2), Fixed(1), << >>),
   cut |-> Type(Fixed(1), Fixed(0), << >>),
   up2 |-> Type(Fixed(1), Fixed(1), << >>),
   down2 |-> Type(Fixed(1), Fixed(1), << >>)]

Types == DOMAIN Registry
\* config_args() is empty: a positional argument is a control port.
PositionalIsPort(type) == Registry[type].ins[2] = 0 /\ Registry[type].outs[2] = 0

\* An argument by name, else by position, else its default (node_args::num).
Arg(args, slot) ==
  LET named == SelectSeq(args, LAMBDA a : a.name # "" /\ a.name = slot[1])
      placed == SelectSeq(args, LAMBDA a : a.name = "")
  IN IF named # << >> THEN named[1].x
     ELSE IF slot[2] \in DOMAIN placed THEN placed[slot[2]].x ELSE Whole(slot[3])

\* A count that is negative is taken as its default (node_args::count).
Count(args, slot) ==
  LET n == Arg(args, slot) IN IF n[1] < 0 THEN slot[3] ELSE Rounded(n)

Make(type, args) ==
  LET t == Registry[type] IN
  [type |-> type, ins |-> Count(args, t.ins), outs |-> Count(args, t.outs),
   values |-> [p \in DOMAIN t.ports |-> Arg(args, t.ports[p])]]

----------------------------------------------------------------------------
\* Fragments and values.

Chan(v, c) == [node |-> v, ch |-> c]
Frag(ins, outs) == [ins |-> ins, outs |-> outs]
BlockVal(f) == [num |-> FALSE, x |-> Whole(0), frag |-> f]
Number(q) == [num |-> TRUE, x |-> q, frag |-> Frag(<< >>, << >>)]

Fresh(sigils) ==
  [ok |-> TRUE, nodes |-> << >>, conns |-> << >>, pconns |-> << >>, params |-> << >>,
   out_terminals |-> << >>, input_terminals |-> << >>, prefix |-> << >>, env |-> << >>,
   sigils |-> sigils]

Fail(st) == [st EXCEPT !.ok = FALSE]
Require(st, cond) == IF cond THEN st ELSE Fail(st)

\* Nodes named by a binding have its path; the others are numbered within theirs.
Named(path) == [path |-> path, count |-> 0]
Gen(st) ==
  LET same == SelectSeq(st.nodes, LAMBDA v : v.name.path = st.prefix /\ v.name.count > 0)
  IN [path |-> st.prefix, count |-> Len(same) + 1]

Add(st, node, name) == [st EXCEPT !.nodes = Append(@, node @@ [name |-> name])]
Newest(st) == Len(st.nodes)

NodeFrag(st, v) ==
  Frag([i \in 1..st.nodes[v].ins |-> Chan(v, i - 1)],
       [o \in 1..st.nodes[v].outs |-> Chan(v, o - 1)])

\* Mutant of Connect: an input may have two sources.
ConnectTwice(st, out, in) ==
  IF out.ch >= st.nodes[out.node].outs \/ in.ch >= st.nodes[in.node].ins THEN Fail(st)
  ELSE [st EXCEPT !.conns = Append(@, [src |-> out, dst |-> in])]

\* graph_blueprint::connect: both ends exist and the input is not driven yet.
Connect(st, out, in) ==
  IF \/ out.ch >= st.nodes[out.node].outs \/ in.ch >= st.nodes[in.node].ins
     \/ \E i \in DOMAIN st.conns : st.conns[i].dst = in
  THEN Fail(st)
  ELSE [st EXCEPT !.conns = Append(@, [src |-> out, dst |-> in])]

\* Outputs to inputs, pair by pair.
ConnectAll(st, pairs) == FoldLeft(LAMBDA s, p : Connect(s, p[1], p[2]), st, pairs)

\* The newest node's inputs are driven by the channels of a group, in their order.
Feed(st, g) == ConnectAll(st, [i \in DOMAIN g |-> <<g[i], Chan(Newest(st), i - 1)>>])
Grown(acc, st) == [st |-> st, outs |-> Append(acc.outs, Chan(Newest(st), 0))]

\* One node for each group of channels: the state and the outputs, in the order
\* of the groups.
Through(st, type, args, groups) ==
  FoldLeft(LAMBDA acc, g : Grown(acc, Feed(Add(acc.st, Make(type, args), Gen(acc.st)), g)),
           [st |-> st, outs |-> << >>], groups)
WithIns(ins, t) == [st |-> t.st, frag |-> Frag(ins, t.outs)]

Singly(chans) == [c \in DOMAIN chans |-> <<chans[c]>>]
OneArg(name, x) == <<[name |-> name, x |-> x]>>

\* The newest node as a fragment.
Latest(st) == [st |-> st, frag |-> NodeFrag(st, Newest(st))]
AsBlock(r) == [st |-> r.st, v |-> BlockVal(r.frag)]
Failed(st) == [st |-> Fail(st), frag |-> Frag(<< >>, << >>)]
Nothing(st) == [st |-> st, v |-> Number(Whole(0))]

\* A number where a signal is expected is a constant (to_frag, eval_fragment).
ToFrag(r) ==
  IF r.v.num THEN Latest(Add(r.st, Make("constant", OneArg("value", r.v.x)), Gen(r.st)))
  ELSE [st |-> r.st, frag |-> r.v.frag]
\* A signal where a number is expected is an error.
AsNumber(r) == [r EXCEPT !.st = Require(@, r.v.num)]

----------------------------------------------------------------------------
\* Rune parameters: how often each was evaluated and bound, and to which ports.

Param(st, name) == {i \in DOMAIN st.params : st.params[i].name = name}

Used(st, name) ==
  [st EXCEPT !.params = [i \in DOMAIN @ |->
     IF @[i].name = name THEN [@[i] EXCEPT !.uses = @ + 1] ELSE @[i]]]

Bind(st, name, v, port) ==
  [st EXCEPT !.params = [i \in DOMAIN @ |->
     IF @[i].name = name
       THEN [@[i] EXCEPT !.direct = @ + 1, !.targets = Append(@, [node |-> v, port |-> port])]
       ELSE @[i]]]

\* find_param: the port of that name.
PortNamed(type, name) ==
  {p \in DOMAIN Registry[type].ports : Registry[type].ports[p][1] = name}

\* The port an argument of a node call feeds.
PortsFed(type, args, a) ==
  LET pos == Len(SelectSeq(SubSeq(args, 1, a), LAMBDA b : b.name = "")) IN
  IF args[a].name # "" THEN PortNamed(type, args[a].name)
  ELSE IF PositionalIsPort(type) THEN {pos} \cap DOMAIN Registry[type].ports ELSE {}

\* bind_rune_params: arguments that are exactly a rune parameter.
BindRuneParams(st, args, v) ==
  FoldLeft(LAMBDA s, a :
             IF args[a].e.k = "id" /\ Param(s, args[a].e.name) # {}
               THEN FoldLeft(LAMBDA t, p : Bind(t, args[a].e.name, v, p), s,
                             SetToSeq(PortsFed(s.nodes[v].type, args, a)))
               ELSE s,
           st, [a \in DOMAIN args |-> a])

----------------------------------------------------------------------------
\* The connection algebra, on fragments.  Each yields a state and a fragment.

Both(a, b) == a.ins \o b.ins

\* `a : b`
Seq2(st, a, b) ==
  LET s == Require(st, Len(a.outs) = Len(b.ins)) IN
  [st |-> IF s.ok THEN ConnectAll(s, [i \in DOMAIN a.outs |-> <<a.outs[i], b.ins[i]>>]) ELSE s,
   frag |-> Frag(a.ins, b.outs)]

\* `a , b`
Par(st, a, b) == [st |-> st, frag |-> Frag(Both(a, b), a.outs \o b.outs)]

\* Mutant of Split: each output drives a run of neighbouring inputs.
SplitInRuns(st, a, b) ==
  LET n == Len(a.outs)  m == Len(b.ins)
      s == Require(st, n # 0 /\ m % n = 0)
  IN [st |-> IF s.ok THEN ConnectAll(s, [j \in 1..m |-> <<a.outs[((j - 1) \div (m \div n)) + 1], b.ins[j]>>])
                     ELSE s,
      frag |-> Frag(a.ins, b.outs)]

\* `a <: b`
Split(st, a, b) ==
  LET n == Len(a.outs)  m == Len(b.ins)
      s == Require(st, n # 0 /\ m % n = 0)
  IN [st |-> IF s.ok THEN ConnectAll(s, [j \in 1..m |-> <<a.outs[((j - 1) % n) + 1], b.ins[j]>>])
                     ELSE s,
      frag |-> Frag(a.ins, b.outs)]

\* `a :> b`: outputs whose indices agree modulo the inputs of b are mixed.
Merge(st, a, b) ==
  LET n == Len(a.outs)  m == Len(b.ins)
      s == Require(st, m # 0 /\ n % m = 0)
      Group(i) == [g \in 1..(n \div m) |-> a.outs[i + (g - 1) * m]]
      Mixed(t, i) == Through(t, "mix", OneArg("inputs", Whole(n \div m)), <<Group(i)>>)
      Into(mix, i) == Connect(mix.st, mix.outs[1], b.ins[i])
      FeedOne(t, i) == IF n = m THEN Connect(t, a.outs[i], b.ins[i]) ELSE Into(Mixed(t, i), i)
  IN [st |-> IF s.ok THEN FoldLeft(FeedOne, s, [i \in 1..m |-> i]) ELSE s,
      frag |-> Frag(a.ins, b.outs)]

\* One node of a type on each output of a fragment.
Each(st, type, args, a) == WithIns(a.ins, Through(st, type, args, Singly(a.outs)))

\* If the factor was a rune parameter, it drives the gains g that it became.
Follows(g, scalar) ==
  IF scalar.k = "id" /\ Param(g.st, scalar.name) # {}
    THEN [g EXCEPT !.st = FoldLeft(LAMBDA s, c : Bind(s, scalar.name, c.node, 1), @, g.frag.outs)]
    ELSE g

\* A gain on each output.
Scale(st, a, k, scalar) == Follows(Each(st, "gain", OneArg("gain", k), a), scalar)

\* A two-input node for each pair of channels; a mono operand goes to all.
Combine(st, type, a, b) ==
  LET na == Len(a.outs)  nb == Len(b.outs)
      pairs == [i \in 1..(IF na > nb THEN na ELSE nb) |->
                  <<a.outs[IF na = 1 THEN 1 ELSE i], b.outs[IF nb = 1 THEN 1 ELSE i]>>]
  IN IF st.ok /\ (na = nb \/ 1 \in {na, nb})
       THEN WithIns(Both(a, b), Through(st, type, << >>, pairs))
     ELSE Failed(st)
Combined(type, left, right) == Combine(right.st, type, left.frag, right.frag)

\* Arithmetic with a signal: l and r are what the operands e1 and e2 came to.
Arith(st, op, l, r, e1, e2) ==
  LET Signal(s, v) == ToFrag([st |-> s, v |-> v])
      left == Signal(st, l)
      right == Signal(left.st, r)
      negated == IF r.num THEN Signal(left.st, Number(Minus(r.x)))
                 ELSE Each(left.st, "inv", << >>, r.frag)
  IN CASE op = "*" /\ r.num -> Scale(st, l.frag, r.x, e2)
       [] op = "*" /\ l.num -> Scale(st, r.frag, l.x, e1)
       [] op = "*" /\ ~l.num /\ ~r.num -> Combined("mul", left, right)
       [] op = "/" /\ r.num ->
            IF IsZero(r.x) THEN Failed(st) ELSE Each(st, "gain", OneArg("gain", Recip(r.x)), l.frag)
       [] op = "/" /\ ~r.num -> Combined("div", left, right)
       [] op = "+" -> Combined("add", left, right)
       [] op = "-" -> Combined("add", left, negated)
       [] op = "%" -> Failed(st)

\* A chain of k nodes after a channel.
Chain(st, type, c, k) ==
  LET End(t) == [st |-> t.st, out |-> t.outs[1]] IN
  FoldLeft(LAMBDA acc, i : End(Through(acc.st, type, << >>, <<<<acc.out>>>>)),
           [st |-> st, out |-> c], [i \in 1..k |-> i])

\* over(2^k, region): as many up2 before the region as down2 after it.  The first
\* up2, the newest node of st, is the region's input.
Oversampled(st, k, f) ==
  LET up == Chain(st, "up2", Chan(Newest(st), 0), k - 1)
      down == Chain(Connect(up.st, up.out, f.ins[1]), "down2", f.outs[1], k)
  IN [st |-> down.st, frag |-> Frag(<<Chan(Newest(st), 0)>>, <<down.out>>)]
Over(st, k, f) ==
  IF k = 0 THEN [st |-> st, frag |-> f]
  ELSE IF st.ok /\ Len(f.ins) = 1 /\ Len(f.outs) = 1
    THEN Oversampled(Add(st, Make("up2", << >>), Gen(st)), k, f)
  ELSE Failed(st)

----------------------------------------------------------------------------
\* Expressions and statements.  Eval yields a state and a value; `path` names the
\* node of a call that is a binding's whole value.

RECURSIVE Eval(_, _, _), DoStmt(_, _, _)

EvalFrag(st, e) == ToFrag(Eval(st, e, << >>))
EvalNumber(st, e) == AsNumber(Eval(st, e, << >>))

\* A name: what it is bound to, the wire `_` and the cut `!`, or a node type.
EvalName(st, name) ==
  LET type == IF name = "_" THEN "adapt" ELSE IF name = "!" THEN "cut" ELSE name
  IN IF name \in DOMAIN st.env THEN [st |-> Used(st, name), v |-> st.env[name]]
     ELSE IF type \in Types THEN AsBlock(Latest(Add(st, Make(type, << >>), Gen(st))))
     ELSE Nothing(Fail(st))

\* What two operands come to: two fragments, two values.
Join(op, a, b) ==
  CASE op = ":" -> Seq2(b.st, a.frag, b.frag)
    [] op = "," -> Par(b.st, a.frag, b.frag)
    [] op = "<:" -> Split(b.st, a.frag, b.frag)
    [] op = ":>" -> Merge(b.st, a.frag, b.frag)
Operate(e, l, r) ==
  LET results == Fold(e.name, l.v.x, r.v.x) IN
  IF ~l.v.num \/ ~r.v.num THEN AsBlock(Arith(r.st, e.name, l.v, r.v, e.sub[1], e.sub[2]))
  ELSE IF results = {} THEN Nothing(Fail(r.st))
  ELSE [st |-> r.st, v |-> Number(CHOOSE x \in results : TRUE)]

EvalBinary(st, e) ==
  LET l == Eval(st, e.sub[1], << >>)
      a == ToFrag(l)
  IN IF e.name \in {":", ",", "<:", ":>"}
       THEN AsBlock(Join(e.name, a, EvalFrag(a.st, e.sub[2])))
       ELSE Operate(e, l, Eval(l.st, e.sub[2], << >>))

\* The arguments of a node: every one is a number.
EvalArgs(st, args) ==
  LET Given(acc, a, r) == [st |-> r.st, xs |-> Append(acc.xs, [name |-> a.name, x |-> r.v.x])] IN
  FoldLeft(LAMBDA acc, a : Given(acc, a, EvalNumber(acc.st, a.e)), [st |-> st, xs |-> << >>], args)

\* type(args), named or numbered; given is what the arguments came to.
NewNode(given, e, path) ==
  LET name == IF path = << >> THEN Gen(given.st) ELSE Named(path)
      added == Add(given.st, Make(e.name, given.xs), name)
  IN IF given.st.ok THEN AsBlock(Latest(BindRuneParams(added, e.args, Newest(added))))
     ELSE Nothing(given.st)

\* over(n, region): n is a power of two, up to a bound of 4 here.
EvalOver(st, e) ==
  LET n == EvalNumber(st, e.args[1].e)
      Times2(q, f) == LET k == {i \in 0..2 : Rounded(q) = 2^i} IN
                      IF k = {} THEN Failed(f.st) ELSE Over(f.st, CHOOSE i \in k : TRUE, f.frag)
  IN IF Len(e.args) # 2 THEN Nothing(Fail(st))
     ELSE AsBlock(Times2(n.v.x, EvalFrag(n.st, e.args[2].e)))

\* A sigil: its arguments by name, position or default, evaluated in the caller's
\* scope; then its statements in a scope of its own.  Its last one is its value.
EvalSigil(st, e) ==
  LET sig == st.sigils[e.name]
      Given(i) ==
        LET named == SelectSeq(e.args, LAMBDA a : a.name = sig.params[i].name)
            placed == SelectSeq(e.args, LAMBDA a : a.name = "")
        IN IF named # << >> THEN <<named[1].e>>
           ELSE IF i <= Len(placed) THEN <<placed[i].e>> ELSE sig.params[i].default
      Pass(acc, i) ==
        IF Given(i) = << >> THEN [acc EXCEPT !.st = Fail(@)]
        ELSE LET r == Eval(acc.st, Given(i)[1], << >>)
             IN [st |-> r.st, env |-> acc.env @@ (sig.params[i].name :> r.v)]
      passed == FoldLeft(Pass, [st |-> st, env |-> << >>], [i \in DOMAIN sig.params |-> i])
      body == FoldLeft(LAMBDA r, s : DoStmt(r.st, s, FALSE),
                       [st |-> [passed.st EXCEPT !.env = passed.env], v |-> Number(Whole(0))],
                       sig.body)
      valued == sig.body # << >> /\ sig.body[Len(sig.body)].k = "wire"
  IN [body EXCEPT !.st = [Require(@, valued) EXCEPT !.env = st.env]]

EvalCall(st, e, path) ==
  IF e.name = "over" THEN EvalOver(st, e)
  ELSE IF e.name # "finer" /\ e.name \in DOMAIN st.sigils THEN EvalSigil(st, e)
  ELSE IF e.name \in Types THEN NewNode(EvalArgs(st, e.args), e, path)
  ELSE Nothing(Fail(st))

Negated(a) ==
  IF a.v.num THEN [a EXCEPT !.v.x = Minus(@)] ELSE AsBlock(Each(a.st, "inv", << >>, a.v.frag))
Selected(f, c) ==
  IF c < Len(f.frag.outs) THEN [f EXCEPT !.frag.outs = <<@[c + 1]>>] ELSE Failed(f.st)

Eval(st, e, path) ==
  CASE ~st.ok -> Nothing(st)
    [] st.ok /\ e.k = "num" -> [st |-> st, v |-> Number(e.q)]
    [] st.ok /\ e.k = "id" -> EvalName(st, e.name)
    [] st.ok /\ e.k = "call" -> EvalCall(st, e, path)
    [] st.ok /\ e.k = "bin" -> EvalBinary(st, e)
    [] st.ok /\ e.k = "neg" -> Negated(Eval(st, e.sub[1], << >>))
    [] st.ok /\ e.k = "sel" -> AsBlock(Selected(EvalFrag(st, e.sub[1]), e.q[1]))

FindNode(st, path) == {v \in DOMAIN st.nodes : st.nodes[v].name = Named(path)}
First(S) == CHOOSE v \in S : \A w \in S : v <= w

\* graph_blueprint::connect_param
ConnectParam(st, out, v, p) ==
  LET taken == \E i \in DOMAIN st.pconns : st.pconns[i].dst = v /\ st.pconns[i].port = p IN
  IF out.ch >= st.nodes[out.node].outs \/ p > Len(st.nodes[v].values) \/ taken THEN Fail(st)
  ELSE [st EXCEPT !.pconns = Append(@, [src |-> out, dst |-> v, port |-> p])]

\* `source ~> node.port`; src is what the source came to.
Modulate(src, s) ==
  LET vs == FindNode(src.st, s.path)
      ports == PortNamed(src.st.nodes[First(vs)].type, s.name)
  IN IF ~src.st.ok \/ Len(src.frag.outs) # 1 \/ vs = {} THEN Fail(src.st)
     ELSE IF ports = {} THEN Fail(src.st)
     ELSE ConnectParam(src.st, src.frag.outs[1], First(vs), First(ports))

\* `source -> node[input]`
ExplicitWire(src, s) ==
  LET vs == FindNode(src.st, s.path) IN
  IF ~src.st.ok \/ Len(src.frag.outs) # 1 \/ vs = {} THEN Fail(src.st)
  ELSE Connect(src.st, src.frag.outs[1], Chan(First(vs), s.index))

\* A terminal is a node, or the channels at its positions.
Terminal(name, v, chans) == [name |-> name, node |-> v, channels |-> chans]
TerminalName(s) == IF s.name = "" THEN "out" ELSE s.name
BaseOf(s) == IF s.index < 0 THEN 0 ELSE s.index

\* The accumulated terminals with the channels of added in the one that is named.
Assigned(terminals, name, added) ==
  LET known == {i \in DOMAIN terminals : terminals[i].name = name} IN
  IF known = {} THEN Append(terminals, [name |-> name, by_index |-> added])
  ELSE [terminals EXCEPT ![First(known)].by_index = added @@ @]

\* Mutant of Out: a channel assigned twice keeps what it was assigned last.
OutOverwrites(f, s) ==
  LET base == BaseOf(s)
      n == Len(f.frag.outs)
      added == [c \in base..(base + n - 1) |-> f.frag.outs[c - base + 1]]
  IN IF ~f.st.ok \/ n = 0 \/ s.name = "out" THEN Fail(f.st)
     ELSE [f.st EXCEPT !.out_terminals = Assigned(@, TerminalName(s), added)]

\* `out[index] e as name`: the channels f of e are those of the terminal from the
\* index on, and each of those is assigned once.
Out(f, s) ==
  LET base == BaseOf(s)
      n == Len(f.frag.outs)
      added == [c \in base..(base + n - 1) |-> f.frag.outs[c - base + 1]]
      clash == \E t \in DOMAIN f.st.out_terminals :
                 /\ f.st.out_terminals[t].name = TerminalName(s)
                 /\ DOMAIN f.st.out_terminals[t].by_index \cap DOMAIN added # {}
  IN IF ~f.st.ok \/ n = 0 \/ s.name = "out" \/ clash THEN Fail(f.st)
     ELSE [f.st EXCEPT !.out_terminals = Assigned(@, TerminalName(s), added)]

\* `input name(channels)`: a bus the engine fills; given is what its arguments are.
Input(given, s) ==
  LET added == Add(given.st, Make("bus", given.xs), Named(<<s.name>>))
      v == Newest(added)
  IN IF ~given.st.ok THEN given.st
     ELSE [added EXCEPT !.input_terminals = Append(@, Terminal(s.name, v, << >>)),
                        !.env = (s.name :> BlockVal(NodeFrag(added, v))) @@ @]

\* What a statement's expression comes to.  The single node of a binding takes its
\* name; what else a binding makes is named under it.
Value(st, s) ==
  LET path == Append(st.prefix, s.name)
      single == /\ s.e.k = "call" /\ s.e.name \notin {"over", "finer"}
                /\ s.e.name \notin DOMAIN st.sigils /\ s.e.name \in Types
  IN Eval(IF s.k = "bind" /\ ~single THEN [st EXCEPT !.prefix = path] ELSE st, s.e,
          IF s.k = "bind" /\ single THEN path ELSE << >>)

Binding(st, r, s) == [r.st EXCEPT !.prefix = st.prefix, !.env = (s.name :> r.v) @@ @]

\* A statement of a rune or, without `input` and `out`, of a sigil, in the state
\* st; r is its Value.
Do(st, r, s, inRune) ==
  LET new == s.name \notin DOMAIN st.env
      sound == /\ s.k \in {"bind", "input"} => new
               /\ s.k \in {"input", "out"} => inRune
  IN CASE ~sound -> Nothing(Fail(st))
       [] sound /\ s.k = "wire" -> r
       [] sound /\ s.k = "bind" -> Nothing(Binding(st, r, s))
       [] sound /\ s.k = "modulate" -> Nothing(Modulate(ToFrag(r), s))
       [] sound /\ s.k = "explicit" -> Nothing(ExplicitWire(ToFrag(r), s))
       [] sound /\ s.k = "input" -> Nothing(Input(EvalArgs(st, s.e.args), s))
       [] sound /\ s.k = "out" -> Nothing(Out(ToFrag(r), s))

DoStmt(st, s, inRune) == IF st.ok THEN Do(st, Value(st, s), s, inRune) ELSE Nothing(st)

----------------------------------------------------------------------------
\* A program: rune by rune, statement by statement.

VARIABLES
  prog,         \* its runes, and its sigils by name
  rune, stmt,   \* the rune and the statement to come
  low,          \* the lowerer
  blueprints,   \* lower_result: the rune and the blueprint of each that was lowered
  diags         \* the runes an error dropped

lowerVars == <<prog, rune, stmt, low, blueprints, diags>>

LowerInit ==
  /\ prog = [runes |-> << >>, sigils |-> << >>]
  /\ rune = 1 /\ stmt = 0 /\ low = Fresh(prog.sigils)
  /\ blueprints = << >> /\ diags = {}

Lowering == rune <= Len(prog.runes)
ThisRune == prog.runes[rune]

\* A parameter is a number, its default's d; the blueprint has it from here on.
Declare(st, p, d) ==
  LET param == [name |-> p.name, default |-> d.v.x, targets |-> << >>, uses |-> 0, direct |-> 0]
  IN IF ~st.ok \/ p.default = << >> THEN Fail(st)
     ELSE [d.st EXCEPT !.params = Append(@, param), !.env = (p.name :> Number(d.v.x)) @@ @]
DeclareParam(st, p) == Declare(st, p, EvalNumber(st, p.default[1]))

\* lower_rune begins: nothing is left of the rune before.
DeclareParams ==
  /\ Lowering /\ stmt = 0
  /\ low' = FoldLeft(DeclareParam, Fresh(prog.sigils), ThisRune.params)
  /\ stmt' = 1
  /\ UNCHANGED <<prog, rune, blueprints, diags>>

Statement ==
  /\ Lowering /\ low.ok /\ stmt \in DOMAIN ThisRune.body
  /\ low' = DoStmt(low, ThisRune.body[stmt], TRUE).st
  /\ stmt' = stmt + 1
  /\ UNCHANGED <<prog, rune, blueprints, diags>>

Silent == Chan(0, 0)

\* finalize_outputs: each terminal has its channels up to the last assigned.
Channels(by_index) ==
  LET last == CHOOSE i \in DOMAIN by_index : \A j \in DOMAIN by_index : j <= i IN
  [c \in 1..(last + 1) |-> IF c - 1 \in DOMAIN by_index THEN by_index[c - 1] ELSE Silent]

Output(name, chans) == Terminal(name, IF chans[1] = Silent THEN 1 ELSE chans[1].node, chans)

\* The first node assigned to the terminal `out`, or none.
OutputNode(outs) ==
  LET Placed(t) == IF outs[t].name = "out" THEN outs[t].channels ELSE << >>
      heard == SelectSeq(FlattenSeq([t \in DOMAIN outs |-> Placed(t)]), LAMBDA c : c # Silent)
  IN IF heard = << >> THEN 0 ELSE heard[1].node

\* A parameter is partial if a use of it was not bound to a port.
Graph(st, outs) ==
  [nodes |-> st.nodes, conns |-> st.conns, pconns |-> st.pconns,
   outs |-> outs, ins |-> st.input_terminals, input |-> 0, output |-> OutputNode(outs),
   params |-> [p \in DOMAIN st.params |->
                 [name |-> st.params[p].name, targets |-> st.params[p].targets,
                  partial |-> st.params[p].uses > st.params[p].direct]]]
Blueprint(st) ==
  Graph(st, [t \in DOMAIN st.out_terminals |->
               Output(st.out_terminals[t].name, Channels(st.out_terminals[t].by_index))])

HasOut == \E t \in DOMAIN low.out_terminals : low.out_terminals[t].name = "out"
AtEnd == Lowering /\ low.ok /\ stmt > Len(ThisRune.body)

FinishRune ==
  /\ AtEnd /\ HasOut
  /\ blueprints' = Append(blueprints, [rune |-> rune, bp |-> Blueprint(low)])
  /\ rune' = rune + 1 /\ stmt' = 0
  /\ UNCHANGED <<prog, low, diags>>

\* lang_abort: the rune is dropped, with a diagnostic.
DropRune ==
  /\ Lowering /\ stmt > 0 /\ (~low.ok \/ (AtEnd /\ ~HasOut))
  /\ diags' = diags \cup {rune}
  /\ rune' = rune + 1 /\ stmt' = 0
  /\ UNCHANGED <<prog, low, blueprints>>

LowerNext == DeclareParams \/ Statement \/ FinishRune \/ DropRune
=============================================================================
