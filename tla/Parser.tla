-------------------------------- MODULE Parser --------------------------------
(***************************************************************************)
(* The parser (parser.hpp) and what comes before it in the lexer           *)
(* (lexer.hpp): which newlines end a line.  A text is a sequence of tokens *)
(* with every newline in it; one that is `unknown` is a character the      *)
(* lexer has reported.                                                     *)
(*                                                                         *)
(* A procedure of the parser is an operator from its state, the tokens,    *)
(* the position and whether nothing has been reported so far, to a state   *)
(* and a value.  After an error it goes on, as the code does.              *)
(***************************************************************************)
EXTENDS Syntax

\* run(), next(): no newline within brackets or after a continuation, none at the
\* start, one for several.  l is the lexer, at token i of the text.
Deeper(d, k) == CASE k \in Openers -> d + 1
                  [] k \in Closers /\ d > 0 -> d - 1
                  [] OTHER -> d
Word(l, t) == [l EXCEPT !.i = @ + 1, !.out = Append(@, t), !.depth = Deeper(@, t.k), !.last = t.k]
Line(l) ==
  LET dropped == \/ l.depth > 0 \/ l.last \in ContinuesLine
                 \/ l.out = << >> \/ (l.out # << >> /\ Last(l.out) = Newline)
  IN [l EXCEPT !.i = @ + 1, !.out = IF dropped THEN @ ELSE Append(@, Newline)]

RECURSIVE LexRest(_)
LexRest(l) ==
  IF l.i > Len(l.text) THEN Append(l.out, End)
  ELSE LexRest(IF l.text[l.i] = Newline THEN Line(l) ELSE Word(l, l.text[l.i]))
Lex(text) == LexRest([text |-> text, i |-> 1, out |-> << >>, depth |-> 0, last |-> "newline"])

Reading(toks) == [toks |-> toks, pos |-> 1, ok |-> \A i \in DOMAIN toks : toks[i].k # "unknown"]

Cur(s) == s.toks[s.pos]
Peek(s) == s.toks[IF s.pos < Len(s.toks) THEN s.pos + 1 ELSE s.pos]
At(s, k) == Cur(s).k = k
AtAny(s, ks) == Cur(s).k \in ks
Adv(s) == IF s.pos < Len(s.toks) THEN [s EXCEPT !.pos = @ + 1] ELSE s
Error(s) == [s EXCEPT !.ok = FALSE]
Require(s, cond) == IF cond THEN s ELSE Error(s)
Expect(s, k) == IF At(s, k) THEN Adv(s) ELSE Error(s)

\* The first token from s on of one of these kinds, or the end of input.
SkipTo(s, ks) ==
  [s EXCEPT !.pos = SelectInSubSeq(s.toks, @, Len(s.toks),
                                   LAMBDA t : t.k \in ks \cup {"end-of-input"})]
SkipNewlines(s) == IF At(s, "newline") THEN Adv(s) ELSE s
SynchronizeFar(s) == SkipTo(s, {"end"} \cup Definers)
Synchronize(s) == SkipTo(s, {"newline", "end"} \cup Definers)
\* What took nothing is passed over.
Progressed(s, before) == IF s.pos = before.pos THEN Adv(s) ELSE s

Got(s, v) == [s |-> s, v |-> v]
With(r, F(_)) == [r EXCEPT !.v = F(@)]

----------------------------------------------------------------------------
\* Expressions.

BinPrecFlat(k) ==
  CASE k = ":>" -> 1 [] k = "<:" -> 2 [] k \in {":", ","} -> 3
    [] k \in {"+", "-"} -> 5 [] k \in {"*", "/", "%"} -> 6 [] OTHER -> 0
BinPrec(k) ==
  CASE k = ":>" -> 1 [] k = "<:" -> 2 [] k = ":" -> 3 [] k = "," -> 4
    [] k \in {"+", "-"} -> 5 [] k \in {"*", "/", "%"} -> 6 [] OTHER -> 0

RECURSIVE ParseBinary(_, _, _), BinaryRest(_, _, _), ParseUnary(_), ParsePostfix(_), ArgumentsRest(_)

ParseExpr(s, inArgs) == ParseBinary(s, 1, inArgs)
ParseBinary(s, least, inArgs) == BinaryRest(ParseUnary(s), least, inArgs)

\* Operators of at least that precedence after a left operand; in a call's
\* arguments a comma is none.
Operated(left, op, right) == Got(right.s, Binary(op, left.v, right.v))
BinaryRest(left, least, inArgs) ==
  LET op == Cur(left.s).k
      p == BinPrec(op)
  IN IF p = 0 \/ p < least \/ (op = "," /\ inArgs) THEN left
     ELSE BinaryRest(Operated(left, op, ParseBinary(Adv(left.s), p + 1, inArgs)), least, inArgs)

ParseIndex(s) == IF At(s, "number") THEN Got(Adv(s), Cur(s).n) ELSE Got(Error(s), 0)

\* argument { , argument } `)`
ArgumentGiven(r, name, e) == Got(e.s, Append(r.v, Argument(name, e.v)))
OneArgument(r) ==
  IF At(r.s, "identifier") /\ Peek(r.s).k = "="
    THEN ArgumentGiven(r, Cur(r.s).x, ParseExpr(Adv(Adv(r.s)), TRUE))
  ELSE ArgumentGiven(r, "", ParseExpr(r.s, TRUE))
ArgumentsRest(r) ==
  LET More(a) == IF At(a.s, ",") THEN ArgumentsRest(Got(Adv(a.s), a.v))
                 ELSE Got(Expect(a.s, ")"), a.v)
  IN More(OneArgument(r))
ParseCallArgs(s) ==
  LET open == Expect(s, "(") IN
  IF At(open, ")") THEN Got(Adv(open), << >>) ELSE ArgumentsRest(Got(open, << >>))

\* A name, a call, a number or a group; anything else is an error, taken for 0.
Primary(s) ==
  LET Grouped(r) == Got(Expect(r.s, ")"), r.v)
      Called(f, r) == Got(r.s, Call(f, r.v))
  IN CASE At(s, "!") -> Got(Adv(s), Ident("!"))
       [] At(s, "(") -> Grouped(ParseExpr(Adv(s), FALSE))
       [] At(s, "number") -> Got(Adv(s), NumberExpr(Cur(s).n))
       [] At(s, "identifier") /\ Peek(s).k = "(" -> Called(Cur(s).x, ParseCallArgs(Adv(s)))
       [] At(s, "identifier") /\ Peek(s).k # "(" -> Got(Adv(s), Ident(Cur(s).x))
       [] OTHER -> Got(Error(s), NumberExpr(0))

ParsePostfix(base) ==
  LET Selected(i) == Got(Expect(i.s, "]"), Select(base.v, i.v))
  IN IF At(base.s, "[") THEN ParsePostfix(Selected(ParseIndex(Adv(base.s)))) ELSE base

ParseUnary(s) ==
  IF At(s, "-") THEN With(ParseUnary(Adv(s)), Negation) ELSE ParsePostfix(Primary(s))

----------------------------------------------------------------------------
\* Statements and definitions.

\* node.port: at least two names.
RECURSIVE PathRest(_)
PathRest(r) ==
  LET named == Got(Expect(r.s, "identifier"), Append(r.v, Cur(r.s).x)) IN
  IF At(named.s, ".") THEN PathRest(Got(Adv(named.s), named.v))
  ELSE Got(Require(named.s, Len(named.v) > 1), named.v)

ModulateTo(e, path) == Got(path.s, Stmt("modulate", Last(path.v), e, Front(path.v), -1))
WireTo(e, node, i) == Got(Expect(i.s, "]"), Stmt("explicit", "", e, <<node>>, i.v))

\* An expression, and what it is for.
ParseWire(e) ==
  CASE At(e.s, "~>") -> ModulateTo(e.v, PathRest(Got(Adv(e.s), << >>)))
    [] At(e.s, "->") -> WireTo(e.v, Cur(Adv(e.s)).x,
                               ParseIndex(Expect(Expect(Adv(e.s), "identifier"), "[")))
    [] OTHER -> With(e, LAMBDA v : Stmt("wire", "", v, << >>, -1))

ParseInput(s) ==
  With(ParseCallArgs(Expect(s, "identifier")),
       LAMBDA args : Stmt("input", Cur(s).x, Call("", args), << >>, -1))

OutAs(e, i) ==
  IF At(e.s, "as") THEN Got(Expect(Adv(e.s), "identifier"), Stmt("out", Cur(Adv(e.s)).x, e.v, << >>, i))
  ELSE Got(e.s, Stmt("out", "", e.v, << >>, i))
ParseOut(s) ==
  LET Indexed(i) == OutAs(ParseExpr(Expect(i.s, "]"), FALSE), i.v)
  IN IF At(s, "[") THEN Indexed(ParseIndex(Adv(s))) ELSE OutAs(ParseExpr(s, FALSE), -1)

ParseStatement(s) ==
  CASE At(s, "input") -> ParseInput(Adv(s))
    [] At(s, "out") -> ParseOut(Adv(s))
    [] At(s, "identifier") /\ Peek(s).k = "=" ->
         With(ParseExpr(Adv(Adv(s)), FALSE), LAMBDA e : Stmt("bind", Cur(s).x, e, << >>, -1))
    [] OTHER -> ParseWire(ParseExpr(s, FALSE))

RECURSIVE ParamsRest(_)
ParamsRest(r) ==
  LET name == Cur(r.s).x
      named == Expect(r.s, "identifier")
      Given(e) == Got(e.s, Append(r.v, Parameter(name, <<e.v>>)))
      More(p) == IF At(p.s, ",") THEN ParamsRest(Got(Adv(p.s), p.v)) ELSE Got(Expect(p.s, ")"), p.v)
  IN More(IF At(named, "=") THEN Given(ParseExpr(Adv(named), TRUE))
          ELSE Got(named, Append(r.v, Parameter(name, << >>))))
ParseParams(s) ==
  CASE ~At(s, "(") -> Got(s, << >>)
    [] At(s, "(") /\ Peek(s).k = ")" -> Got(Adv(Adv(s)), << >>)
    [] OTHER -> ParamsRest(Got(Adv(s), << >>))

\* The statements up to `end`; what is left of a line is passed over.
RECURSIVE ParseBody(_)
ParseBody(r) ==
  LET Ended(s) == IF AtAny(s, {"newline", "end", "end-of-input"}) THEN s ELSE Synchronize(Error(s))
      Next(st) == ParseBody(Got(SkipNewlines(Progressed(Ended(st.s), r.s)), Append(r.v, st.v)))
  IN IF AtAny(r.s, {"end", "end-of-input"}) THEN r ELSE Next(ParseStatement(r.s))

ParseDef(s) ==
  LET Whole(name, ps, body) == Got(Expect(body.s, "end"), Def(name, ps, body.v))
      Headed(name, ps) == Whole(name, ps.v, ParseBody(Got(SkipNewlines(ps.s), << >>)))
  IN Headed(Cur(Adv(s)).x, ParseParams(Expect(Adv(s), "identifier")))

\* A program, definition by definition: r is the parser and what it has so far.
Start(text) == Got(SkipNewlines(Reading(Lex(text))), Program(<< >>, << >>))
AtEnd(r) == At(r.s, "end-of-input")
ParseNext(r) ==
  LET Then(s, p) == Got(SkipNewlines(Progressed(s, r.s)), p)
      Rune(d) == Then(d.s, [r.v EXCEPT !.runes = Append(@, d.v)])
      Sigil(d) == Then(d.s, [r.v EXCEPT !.sigils = Append(@, d.v)])
  IN CASE At(r.s, "rune") -> Rune(ParseDef(r.s))
       [] At(r.s, "sigil") -> Sigil(ParseDef(r.s))
       [] OTHER -> Then(Synchronize(Error(r.s)), r.v)
=============================================================================
