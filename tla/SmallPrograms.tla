--------------------------- MODULE SmallPrograms ---------------------------
(***************************************************************************)
(* Programs for TLC: every small expression over sources, nodes of several *)
(* arities, numbers and a parameter, and runes that bind, wire, modulate,  *)
(* call sigils and give out to several terminals.                          *)
(***************************************************************************)
EXTENDS Syntax

N(n) == NumberExpr(n)
Id(x) == Ident(x)
Neg(a) == Negation(a)
Sel(a, i) == Select(a, i)
Op(a, op, b) == Binary(op, a, b)
Fn(f, args) == Call(f, args)
Pos(e) == Argument("", e)
Kw(x, e) == Argument(x, e)

Let(x, e) == Stmt("bind", x, e, << >>, -1)
Do(e) == Stmt("wire", "", e, << >>, -1)
OutTo(name, i, e) == Stmt("out", name, e, << >>, i)
Give(e) == OutTo("", -1, e)
In(x, n) == Stmt("input", x, Call("", <<Pos(N(n))>>), << >>, -1)
Mod(e, path, port) == Stmt("modulate", port, e, path, -1)
To(e, path, i) == Stmt("explicit", "", e, path, i)

Par(x, d) == Parameter(x, <<N(d)>>)
Needs(x) == Parameter(x, << >>)
Rune(params, body) == Def("tone", params, body)

sine == Id("sine")
f == Id("f")

\* Sigils: a chain with an inner name, one that names its argument twice, one
\* with a default of its own.
Sigils ==
  <<Def("voice", <<Needs("g")>>,
        <<Let("o", Fn("sine", <<Pos(Id("g"))>>)), Do(Op(Id("o"), ":", Id("pan")))>>),
    Def("twin", <<Needs("x")>>, <<Do(Op(Id("x"), ",", Id("x")))>>),
    Def("level", <<Par("f", 3)>>, <<Do(Fn("gain", <<Pos(f)>>))>>),
    Def("void", << >>, <<Let("o", sine)>>)>>

WithF(body) == Rune(<<Par("f", 2)>>, body)
One(body) == Program(<<WithF(body)>>, Sigils)

Operators == {":", ",", "<:", ":>", "+", "-", "*", "/", "%"}
Leaves == {sine, Id("pan"), Id("mix"), N(2), f}
Simple == {Op(a, op, b) : a \in Leaves, op \in Operators, b \in Leaves}
Stereo1 == Op(sine, ":", Id("pan"))
Nested2 == {Op(a, op, b) : a \in {Stereo1, Op(sine, ",", N(2)), Op(Id("pan"), ",", Id("pan"))},
                           op \in Operators,
                           b \in {Stereo1, Id("mix"), f, Op(Id("pan"), ",", Id("mix")),
                                 Op(Id("mix"), ",", Id("mix"))}}
Singles == {Neg(Stereo1), Neg(f), Sel(Stereo1, 1), Sel(Stereo1, 2), Sel(f, 0), Id("nowhere"),
            Id("!"), Op(sine, ":", Id("_")), Op(Stereo1, ":", Op(Id("_"), ",", Id("!"))),
            Op(f, "/", N(0)), Op(sine, "/", N(0))}
Calls == {Fn("sine", <<Pos(f)>>), Fn("sine", <<Kw("freq", Op(f, "*", N(2)))>>), Fn("sine", <<Pos(sine)>>),
          Op(Op(sine, ",", sine), ":>", Fn("mix", <<Pos(f)>>)), Fn("nowhere", << >>),
          Op(sine, ":", Fn("over", <<Pos(N(2)), Pos(Fn("gain", <<Pos(f)>>))>>)),
          Op(sine, ":", Fn("over", <<Pos(N(4)), Pos(Id("gain"))>>)),
          Op(sine, ":", Fn("over", <<Pos(N(1)), Pos(Id("pan"))>>)),
          Op(sine, ":", Fn("over", <<Pos(f), Pos(Id("pan"))>>)),
          Op(sine, ":", Fn("over", <<Pos(N(3)), Pos(Id("gain"))>>)),
          Fn("voice", <<Pos(Op(f, "+", N(1)))>>), Fn("voice", << >>), Fn("voice", <<Kw("g", f)>>),
          Fn("twin", <<Pos(Fn("sine", <<Pos(f)>>))>>), Fn("twin", <<Pos(f)>>), Fn("void", << >>),
          Op(sine, ":", Fn("level", <<Pos(N(4))>>))}
\* A parameter as the level of two channels, and as a number.
Faders == {Op(Stereo1, "*", f), Op(Op(f, "*", Stereo1), ":>", Id("gain")),
           Op(Op(Stereo1, "*", f), ",", Fn("sine", <<Pos(Op(f, "*", N(2)))>>))}
Expressions == Faders \cup Simple \cup Nested2 \cup Singles \cup Calls

\* Statements: names and their scopes, wires and modulations to nodes named by the
\* rune or by a sigil, terminals with gaps and clashes, buses.
lfo == Fn("sine", <<Pos(N(3))>>)
Bodies == {
  <<Let("a", lfo), Let("b", Fn("sine", <<Kw("freq", f)>>)), Mod(Id("a"), <<"b">>, "freq"), Give(Id("b"))>>,
  <<Let("b", sine), Let("c", Fn("sine", <<Pos(N(1))>>)), Mod(lfo, <<"c">>, "freq"), Mod(lfo, <<"c">>, "freq"), Give(Id("c"))>>,
  <<Let("c", Fn("sine", <<Pos(N(1))>>)), Mod(lfo, <<"c">>, "gain"), Give(Id("c"))>>,
  <<Let("c", Fn("sine", <<Pos(N(1))>>)), Mod(Op(lfo, ",", lfo), <<"c">>, "freq"), Give(Id("c"))>>,
  <<Mod(lfo, <<"c">>, "freq"), Give(sine)>>,
  <<Let("v", Fn("voice", <<Pos(N(5))>>)), Mod(lfo, <<"v", "o">>, "freq"), Give(Id("v"))>>,
  <<Let("v", Fn("voice", <<Pos(N(5))>>)), Let("w", Fn("voice", <<Pos(N(6))>>)),
    Mod(lfo, <<"w", "o">>, "freq"), Give(Op(Id("v"), "+", Id("w")))>>,
  <<Let("m", Fn("mix", <<Pos(N(3))>>)), To(sine, <<"m">>, 0), To(lfo, <<"m">>, 2), Give(Id("m"))>>,
  <<Let("m", Fn("mix", << >>)), To(sine, <<"m">>, 0), To(lfo, <<"m">>, 0), Give(Id("m"))>>,
  <<Let("m", Fn("mix", << >>)), To(sine, <<"m">>, 2), Give(Id("m"))>>,
  <<In("bus1", 2), Give(Op(Id("bus1"), ":>", Id("mix"))), OutTo("dry", 1, Id("bus1"))>>,
  <<In("bus1", 2), Let("bus1", sine), Give(Id("bus1"))>>,
  <<Let("x", sine), Let("x", lfo), Give(Id("x"))>>,
  <<OutTo("", 3, sine), OutTo("", 0, Stereo1)>>,
  <<OutTo("", 1, sine), OutTo("", 0, Stereo1)>>,
  <<Give(sine), Give(lfo)>>,
  <<OutTo("send", 0, sine)>>,
  <<Give(Op(sine, ":", Id("!")))>>,
  <<Let("g", Fn("gain", <<Pos(f)>>)), Do(Op(sine, ":", Op(Id("g"), ":", Id("!")))), Give(lfo)>>,
  <<Let("p", Op(sine, ":", Op(Id("_"), "<:", Op(Id("gain"), ",", Neg(Id("_")))))),
    Give(Op(Id("p"), ":>", Fn("gain", <<Pos(f)>>)))>>}
FaderPrograms == {One(<<Give(e)>>) : e \in Faders}
BodyPrograms == {One(b) : b \in Bodies}

\* A rune after one that was lowered, and one that was dropped halfway.
TwoRunes == {Program(<<WithF(b), Rune(<<Par("f", 5), Par("g", 1)>>,
                 <<Let("x", Fn("voice", <<Pos(Id("g"))>>)), Let("b", Fn("sine", <<Pos(f)>>)),
                   OutTo("wet", 0, Id("b")), Give(Id("x"))>>)>>, Sigils) : b \in Bodies}
            \cup {Program(<<Rune(<<Needs("f")>>, <<Give(sine)>>), WithF(<<Give(sine)>>)>>, Sigils)}

SmallProgramSet == {One(<<Give(e)>>) : e \in Expressions} \cup BodyPrograms \cup TwoRunes
=============================================================================
