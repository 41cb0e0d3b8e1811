-------------------------- MODULE LowerProperties --------------------------
(***************************************************************************)
(* What lowering must preserve.  The meaning of an expression, from its    *)
(* text alone, is a block of a diagram: it has inputs and, given a signal  *)
(* on each, outputs.  `:` composes blocks, `,` sets them side by side, and *)
(* so on; a name stands for the expression it is bound to.  A signal is a  *)
(* tree: the node it comes out of, the channel, the values of its ports,   *)
(* and the signals on its inputs and its ports.  The meaning of a          *)
(* blueprint is the tree above each channel of its output terminals.       *)
(***************************************************************************)
EXTENDS Lower, FiniteSets

Tree(type, ch, values, ins, mods) ==
  [type |-> type, ch |-> ch, values |-> values, ins |-> ins, mods |-> mods]
Silence == Tree("silence", 0, << >>, << >>, << >>)
Quiet(n) == [i \in 1..n |-> Silence]
Unary(type, values, x) == Tree(type, 0, values, <<x>>, Quiet(Len(values)))
Steady(q) == Tree("constant", 0, <<q>>, << >>, Quiet(1))

----------------------------------------------------------------------------
\* Blueprints.

\* The tree above a channel; a node is on no path more than once, so no path is
\* longer than fuel allows unless there is a cycle.
RECURSIVE Above(_, _, _)
Above(b, c, fuel) ==
  LET v == b.nodes[c.node]
      Of(conns) == IF conns = << >> THEN Silence ELSE Above(b, conns[1].src, fuel - 1)
  IN IF c = Silent THEN Silence
     ELSE IF fuel = 0 THEN [Silence EXCEPT !.type = "cycle"]
     ELSE Tree(v.type, c.ch, v.values,
               [i \in 1..v.ins |-> Of(SelectSeq(b.conns, LAMBDA w : w.dst = Chan(c.node, i - 1)))],
               [p \in DOMAIN v.values |->
                  Of(SelectSeq(b.pconns, LAMBDA w : w.dst = c.node /\ w.port = p))])

\* What comes out of which channel of which terminal.
Heard(b) ==
  UNION {{<<b.outs[t].name, c - 1, Above(b, b.outs[t].channels[c], Len(b.nodes) + 1)>> :
            c \in DOMAIN b.outs[t].channels} : t \in DOMAIN b.outs}

----------------------------------------------------------------------------
\* Expressions.  A scope gives each name its expression, that one's scope, and
\* the path that a `->` or `~>` statement names it by; pre is the path so far.

Scope(names, pre) == [names |-> names, pre |-> pre]
Under(sc, x) == [sc EXCEPT !.pre = Append(@, x)]
IsNode(P, e) ==
  e.k = "call" /\ e.name # "over" /\ e.name \notin DOMAIN P.sigils /\ e.name \in Types
Bound(P, sc, x, e) ==
  LET path == Append(sc.pre, x) IN
  [sc EXCEPT !.names =
     (x :> [e |-> e, sc |-> IF IsNode(P, e) THEN sc ELSE [sc EXCEPT !.pre = path],
            path |-> IF IsNode(P, e) THEN path ELSE << >>]) @@ @]

Call(type, args) == [k |-> "call", name |-> type, q |-> Whole(0), sub |-> << >>, args |-> args]

\* The scope after the first n statements of a rune, or of a sigil's body.
After(P, sc, body, n) ==
  FoldLeft(LAMBDA s, i :
             IF body[i].k = "bind" THEN Bound(P, s, body[i].name, body[i].e)
             ELSE IF body[i].k = "input"
               THEN Bound(P, s, body[i].name, Call("bus", body[i].e.args))
             ELSE s,
           sc, [i \in 1..n |-> i])

\* The argument, or default, of each parameter; none if one is missing.
Passed(sig, args, i) ==
  LET named == SelectSeq(args, LAMBDA a : a.name = sig.params[i].name)
      placed == SelectSeq(args, LAMBDA a : a.name = "")
  IN IF named # << >> THEN <<named[1].e>>
     ELSE IF i \in DOMAIN placed THEN <<placed[i].e>> ELSE sig.params[i].default

Complete(sig, args) == \A i \in DOMAIN sig.params : Passed(sig, args, i) # << >>

\* The scope of the body of a sigil called in sc.
Local(sig, args, sc) ==
  LET At(x) == CHOOSE i \in DOMAIN sig.params : sig.params[i].name = x
      Closure(x) == [e |-> Passed(sig, args, At(x))[1], sc |-> sc, path |-> << >>]
  IN Scope([x \in {sig.params[i].name : i \in DOMAIN sig.params} |-> Closure(x)], sc.pre)

RuneScope(r) ==
  Scope([x \in {r.params[i].name : i \in DOMAIN r.params} |->
           LET i == CHOOSE i \in DOMAIN r.params : r.params[i].name = x IN
           [e |-> r.params[i].default[1], sc |-> Scope(<< >>, << >>), path |-> << >>]], << >>)

\* What an expression is: a number, or a block of so many inputs and outputs;
\* ok is false if some part of it does not fit.
Is(ok, num, x, ins, outs) == [ok |-> ok, num |-> num, x |-> x, ins |-> ins, outs |-> outs]
IsNum(x) == Is(TRUE, TRUE, x, 0, 1)
IsBlock(ok, ins, outs) == Is(ok, FALSE, Whole(0), ins, outs)
Ill == IsBlock(FALSE, 0, 0)

RECURSIVE Kind(_, _, _)

NodeOf(P, e, sc) ==
  Make(e.name, [a \in DOMAIN e.args |->
                  [name |-> e.args[a].name, x |-> Kind(P, e.args[a].e, sc).x]])
Default(name) ==
  Call(IF name = "_" THEN "adapt" ELSE IF name = "!" THEN "cut" ELSE name, << >>)

KindOfCall(P, e, sc) ==
  LET args == {Kind(P, e.args[a].e, sc) : a \in DOMAIN e.args}
      node == NodeOf(P, e, sc)
      sig == P.sigils[e.name]
      local == Local(sig, e.args, sc)
      last == sig.body[Len(sig.body)]
      parts == {Kind(P, sig.body[i].e, After(P, local, sig.body, i - 1)) : i \in DOMAIN sig.body}
      value == Kind(P, last.e, After(P, local, sig.body, Len(sig.body) - 1))
      n == Kind(P, e.args[1].e, sc)
      region == Kind(P, e.args[2].e, sc)
      stages == {i \in 0..2 : Rounded(n.x) = 2^i}
  IN IF e.name = "over"
       THEN IF Len(e.args) # 2 THEN Ill
            ELSE IsBlock(/\ n.ok /\ n.num /\ stages # {} /\ region.ok
                         /\ stages # {0} => region.ins = 1 /\ region.outs = 1,
                         region.ins, region.outs)
     ELSE IF e.name \in DOMAIN P.sigils
       THEN IF ~Complete(sig, e.args) THEN Ill
            ELSE [value EXCEPT !.ok = /\ last.k = "wire" /\ \A p \in parts : p.ok
                                      /\ \A a \in args : a.ok]
     ELSE IF e.name \notin Types \/ \E a \in args : ~a.ok \/ ~a.num THEN Ill
     ELSE IsBlock(TRUE, node.ins, node.outs)

KindOfBinary(e, a, b) ==
  LET op == e.name
      na == a.outs  nb == b.outs
      ok == a.ok /\ b.ok
      results == Fold(op, a.x, b.x)
      max == IF na > nb THEN na ELSE nb
  IN IF ~ok THEN Ill
     ELSE CASE op = ":" -> IsBlock(na = b.ins, a.ins, nb)
            [] op = "," -> IsBlock(TRUE, a.ins + b.ins, na + nb)
            [] op = "<:" -> IsBlock(na # 0 /\ b.ins % na = 0, a.ins, nb)
            [] op = ":>" -> IsBlock(b.ins # 0 /\ na % b.ins = 0, a.ins, nb)
            [] OTHER ->
                 IF a.num /\ b.num
                   THEN IF results = {} THEN Ill ELSE IsNum(CHOOSE x \in results : TRUE)
                 ELSE IsBlock(/\ op # "%" /\ ~(op = "/" /\ b.num /\ IsZero(b.x))
                              /\ na = nb \/ 1 \in {na, nb},
                              a.ins + b.ins, max)

Kind(P, e, sc) ==
  LET Sub(i) == Kind(P, e.sub[i], sc)
      c == sc.names[e.name]
  IN CASE e.k = "num" -> IsNum(e.q)
       [] e.k = "neg" -> [Sub(1) EXCEPT !.x = Minus(@)]
       [] e.k = "sel" -> IsBlock(Sub(1).ok /\ e.q[1] < Sub(1).outs, Sub(1).ins, 1)
       [] e.k = "bin" -> KindOfBinary(e, Sub(1), Sub(2))
       [] e.k = "call" -> KindOfCall(P, e, sc)
       [] e.k = "id" ->
            IF e.name \in DOMAIN sc.names THEN Kind(P, c.e, c.sc)
            ELSE IF Default(e.name).name \in Types THEN KindOfCall(P, Default(e.name), sc)
            ELSE Ill

----------------------------------------------------------------------------
\* The outputs of an expression of rune r, given the signals xs on its inputs.

RECURSIVE Meaning(_, _, _, _, _)

\* The signal that a statement of r brings to a node named by a path, if any.
Brought(P, r, js) ==
  IF js = {} THEN << >>
  ELSE LET j == First(js) IN
       Meaning(P, r, r.body[j].e, After(P, RuneScope(r), r.body, j - 1), << >>)
Into(r, path, i) ==
  {j \in DOMAIN r.body : /\ r.body[j].k = "explicit" /\ path # << >>
                         /\ r.body[j].path = path /\ r.body[j].index = i - 1}
Onto(r, path, port) ==
  {j \in DOMAIN r.body : /\ r.body[j].k = "modulate" /\ path # << >>
                         /\ r.body[j].path = path /\ r.body[j].name = port}

MeaningOfNode(P, r, node, path, xs) ==
  LET Or(brought, x) == IF brought = << >> THEN x ELSE brought[1]
      ins == [i \in 1..node.ins |-> Or(Brought(P, r, Into(r, path, i)), xs[i])]
      mods == [p \in DOMAIN node.values |->
                 Or(Brought(P, r, Onto(r, path, Registry[node.type].ports[p][1])), Silence)]
  IN [o \in 1..node.outs |-> Tree(node.type, o - 1, node.values, ins, mods)]

RECURSIVE Nested(_, _, _)
Nested(type, k, x) == IF k = 0 THEN x ELSE Unary(type, << >>, Nested(type, k - 1, x))

MeaningOfArith(op, a, b, A, C) ==
  LET n == IF Len(A) > Len(C) THEN Len(A) ELSE Len(C)
      Of(X, i) == X[IF Len(X) = 1 THEN 1 ELSE i]
      Two(type, Right(_)) == [i \in 1..n |-> Tree(type, 0, << >>, <<Of(A, i), Right(Of(C, i))>>, << >>)]
      Same(x) == x
      Inverted(x) == IF b.num THEN Steady(Minus(b.x)) ELSE Unary("inv", << >>, x)
      Gains(X, k) == [i \in DOMAIN X |-> Unary("gain", <<k>>, X[i])]
  IN CASE op = "*" /\ b.num -> Gains(A, b.x)
       [] op = "*" /\ a.num -> Gains(C, a.x)
       [] op = "/" /\ b.num -> Gains(A, Recip(b.x))
       [] op = "*" /\ ~a.num /\ ~b.num -> Two("mul", Same)
       [] op = "/" /\ ~b.num -> Two("div", Same)
       [] op = "+" -> Two("add", Same)
       [] op = "-" -> Two("add", Inverted)

\* a and b are the kinds of the operands.
MeaningOfBinary(P, r, e, sc, xs, a, b) ==
  LET op == e.name
      A == Meaning(P, r, e.sub[1], sc, SubSeq(xs, 1, a.ins))
      Then(ys) == Meaning(P, r, e.sub[2], sc, ys)
      C == Then(SubSeq(xs, a.ins + 1, a.ins + b.ins))
      Sum(i) == IF a.outs = b.ins THEN A[i]
                ELSE Tree("mix", 0, << >>,
                          [g \in 1..(a.outs \div b.ins) |-> A[i + (g - 1) * b.ins]], << >>)
  IN CASE op = ":" -> Then(A)
       [] op = "," -> A \o C
       [] op = "<:" -> Then([j \in 1..b.ins |-> A[((j - 1) % a.outs) + 1]])
       [] op = ":>" -> Then([i \in 1..b.ins |-> Sum(i)])
       [] OTHER -> MeaningOfArith(op, a, b, A, C)

\* A region between stages, as many as make q.
MeaningOfOver(P, r, e, sc, xs, q) ==
  LET k == CHOOSE i \in 0..2 : Rounded(q) = 2^i
      Region(ys) == Meaning(P, r, e, sc, ys)
  IN IF k = 0 THEN Region(xs) ELSE <<Nested("down2", k, Region(<<Nested("up2", k, xs[1])>>)[1])>>

MeaningOfCall(P, r, e, sc, path, xs) ==
  LET sig == P.sigils[e.name]
      last == Len(sig.body)
  IN IF e.name = "over"
       THEN MeaningOfOver(P, r, e.args[2].e, sc, xs, Kind(P, e.args[1].e, sc).x)
     ELSE IF e.name \in DOMAIN P.sigils
       THEN Meaning(P, r, sig.body[last].e, After(P, Local(sig, e.args, sc), sig.body, last - 1), xs)
     ELSE MeaningOfNode(P, r, NodeOf(P, e, sc), path, xs)

MeaningOfName(P, r, e, sc, xs) ==
  LET c == sc.names[e.name]
      bound == e.name \in DOMAIN sc.names
      node == ~bound \/ c.path # << >>
  IN IF node THEN MeaningOfCall(P, r, IF bound THEN c.e ELSE Default(e.name),
                                IF bound THEN c.sc ELSE sc, IF bound THEN c.path ELSE << >>, xs)
     ELSE Meaning(P, r, c.e, c.sc, xs)

Meaning(P, r, e, sc, xs) ==
  LET Sub == Meaning(P, r, e.sub[1], sc, xs)
      KindOf(d) == Kind(P, d, sc)
      As(kind) ==
        CASE kind.num -> <<Steady(kind.x)>>
          [] ~kind.num /\ e.k = "neg" -> [i \in DOMAIN Sub |-> Unary("inv", << >>, Sub[i])]
          [] ~kind.num /\ e.k = "sel" -> <<Sub[e.q[1] + 1]>>
          [] ~kind.num /\ e.k = "bin" ->
               MeaningOfBinary(P, r, e, sc, xs, KindOf(e.sub[1]), KindOf(e.sub[2]))
          [] ~kind.num /\ e.k = "call" -> MeaningOfCall(P, r, e, sc, << >>, xs)
          [] ~kind.num /\ e.k = "id" -> MeaningOfName(P, r, e, sc, xs)
  IN As(KindOf(e))

----------------------------------------------------------------------------
\* Runes.

ScopeAt(P, r, i) == After(P, RuneScope(r), r.body, i - 1)
KindAt(P, r, i) ==
  LET s == r.body[i] IN
  Kind(P, IF s.k = "input" THEN Call("bus", s.e.args) ELSE s.e, ScopeAt(P, r, i))
Statements(r, k) == {i \in DOMAIN r.body : r.body[i].k = k}

\* The channels a rune says it gives out, and the signal on each.
Said(P, r) ==
  LET Signals(i) == Meaning(P, r, r.body[i].e, ScopeAt(P, r, i), Quiet(KindAt(P, r, i).ins)) IN
  UNION {{<<TerminalName(r.body[i]), BaseOf(r.body[i]) + c - 1, Signals(i)[c]>> :
            c \in 1..KindAt(P, r, i).outs} : i \in Statements(r, "out")}

\* The node of a path, named by a binding of the rune or of a sigil's body.
Target(P, r, i) ==
  LET path == r.body[i].path
      sc == ScopeAt(P, r, i)
      c == sc.names[path[1]]
      sig == P.sigils[c.e.name]
      inner == {j \in DOMAIN sig.body : sig.body[j].k = "bind" /\ sig.body[j].name = path[2]}
  IN IF path[1] \notin DOMAIN sc.names THEN {}
     ELSE IF Len(path) = 1 THEN IF c.path = << >> THEN {} ELSE {NodeOf(P, c.e, c.sc)}
     ELSE IF c.e.k # "call" \/ c.e.name \notin DOMAIN P.sigils THEN {}
     ELSE {NodeOf(P, sig.body[j].e, After(P, Local(sig, c.e.args, c.sc), sig.body, j - 1)) :
             j \in inner}

\* A statement that means something.
FitsAt(P, r, i) ==
  LET s == r.body[i]
      earlier == {j \in Statements(r, s.k) : j < i /\ r.body[j].path = s.path}
      known == DOMAIN ScopeAt(P, r, i).names
      span == BaseOf(s)..(BaseOf(s) + KindAt(P, r, i).outs - 1)
      Others == {j \in Statements(r, "out") : j < i /\ TerminalName(r.body[j]) = TerminalName(s)}
  IN /\ KindAt(P, r, i).ok
     /\ s.k \in {"bind", "input"} => s.name \notin known
     /\ s.k = "modulate" =>
          /\ KindAt(P, r, i).outs = 1
          /\ \E t \in Target(P, r, i) : PortNamed(t.type, s.name) # {}
          /\ \A j \in earlier : r.body[j].name # s.name
     /\ s.k = "explicit" =>
          /\ KindAt(P, r, i).outs = 1
          /\ \E t \in Target(P, r, i) : s.index < t.ins
          /\ \A j \in earlier : r.body[j].index # s.index
     /\ s.k = "out" =>
          /\ s.name # "out" /\ KindAt(P, r, i).outs > 0
          /\ \A j \in Others :
               span \cap (BaseOf(r.body[j])..(BaseOf(r.body[j]) + KindAt(P, r, j).outs - 1)) = {}

Fits(P, r) ==
  /\ \A i \in DOMAIN r.params :
       /\ r.params[i].default # << >>
       /\ LET d == Kind(P, r.params[i].default[1], Scope(<< >>, << >>)) IN d.ok /\ d.num
  /\ \A i \in DOMAIN r.body : FitsAt(P, r, i)
  /\ \E i \in Statements(r, "out") : TerminalName(r.body[i]) = "out"

\* How often an expression names x.
RECURSIVE Mentions(_, _)
Mentions(e, x) ==
  LET Sum(S, F(_)) == FoldLeft(LAMBDA n, i : n + F(i), 0, [i \in 1..Len(S) |-> i]) IN
  (IF e.k = "id" /\ e.name = x THEN 1 ELSE 0)
  + Sum(e.sub, LAMBDA i : Mentions(e.sub[i], x))
  + Sum(e.args, LAMBDA i : Mentions(e.args[i].e, x))

\* A name is a node and not a copy of one: what drives its inputs drives them
\* wherever it is named.  In a plain rune nothing depends on that: a block with
\* open inputs is named once, or only to be given out.
Plain(P, r) ==
  \A b \in Statements(r, "bind") :
    LET x == r.body[b].name
        naming == {i \in DOMAIN r.body : Mentions(r.body[i].e, x) > 0}
        wired == \E i \in Statements(r, "explicit") : r.body[i].path = <<x>>
    IN \/ KindAt(P, r, b).ins = 0
       \/ \A i \in naming : r.body[i].k = "out" /\ r.body[i].e.k = "id"
       \/ ~wired /\ \E i \in naming : naming = {i} /\ Mentions(r.body[i].e, x) = 1

\* A blueprint is what its rune says, however the rune before it ended: each
\* channel of each terminal carries the signal the text composes (operators by
\* their arities, sigils and names by what they stand for, `over` as stages around
\* its region, `->` and `~>` at the node they name), and unassigned ones silence.
LoweringIsFaithful ==
  \A i \in DOMAIN blueprints :
    LET r == prog.runes[blueprints[i].rune] IN
    Plain(prog, r) =>
      {h \in Heard(blueprints[i].bp) : h[3] # Silence} = Said(prog, r)

\* A rune is dropped exactly if it does not fit: an arity, a name, a number where
\* a signal is due or the reverse, an input, a port or a channel given twice, no
\* output.  No rune is dropped for what an earlier one did.
RefusesTheIllFormed ==
  \A i \in 1..(rune - 1) :
    Plain(prog, prog.runes[i]) => (i \in diags <=> ~Fits(prog, prog.runes[i]))

----------------------------------------------------------------------------
\* A blueprint whose parameter p the host has set to x: all its targets hold x.
SetParam(b, p, x) ==
  FoldLeft(LAMBDA c, t : [c EXCEPT !.nodes[t.node].values[t.port] = x], b, b.params[p].targets)

\* The rune with another default for that parameter.
WithDefault(r, p, x) == [r EXCEPT !.params[p].default =
  <<[k |-> "num", name |-> "", q |-> x, sub |-> << >>, args |-> << >>]>>]

\* blueprint.hpp: a use in an expression "is folded to a constant and cannot
\* follow the parameter at run time -- `partial` records exactly that, so the
\* host is told rather than silently surprised".  Set a parameter that is not
\* partial: the voice is the one of a rune written with that value.
ParametersFollow ==
  \A i \in DOMAIN blueprints :
    LET r == prog.runes[blueprints[i].rune]
        b == blueprints[i].bp
    IN \A p \in DOMAIN b.params :
         ~b.params[p].partial /\ Plain(prog, r) =>
           {h \in Heard(SetParam(b, p, Whole(7))) : h[3] # Silence}
             = Said(prog, WithDefault(r, p, Whole(7)))
=============================================================================
