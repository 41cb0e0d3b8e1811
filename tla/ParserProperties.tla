--------------------------- MODULE ParserProperties ---------------------------
(***************************************************************************)
(* What the parser must make of a text.  The grammar is stated from above: *)
(* an expression is split at the last of its loosest operators outside     *)
(* brackets, a definition at its newlines, a program at each `end`.  Each  *)
(* operator here yields the set of the trees that some tokens stand for:   *)
(* one tree, or none.                                                      *)
(***************************************************************************)
EXTENDS Parser

Among(ts, ks) == {i \in DOMAIN ts : ts[i].k \in ks}
Depth(ts, i) == LET before == SubSeq(ts, 1, i - 1)
                    Count(ks) == Len(SelectSeq(before, LAMBDA t : t.k \in ks))
                IN Count(Openers) - Count(Closers)
Outside(ts, ks) == {i \in Among(ts, ks) : Depth(ts, i) = 0}
Least(S) == CHOOSE i \in S : \A j \in S : i <= j

\* The pieces of ts between the tokens at cuts.
RECURSIVE Pieces(_, _)
Pieces(ts, cuts) ==
  IF cuts = {} THEN <<ts>>
  ELSE LET c == Least(cuts) IN
       <<SubSeq(ts, 1, c - 1)>>
       \o Pieces(SubSeq(ts, c + 1, Len(ts)), {i - c : i \in cuts \ {c}})
Commas(ts) == IF ts = << >> THEN << >> ELSE Pieces(ts, Outside(ts, {","}))

\* A sequence of the trees of each piece.
Every(pieces, Trees(_)) ==
  IF \E i \in DOMAIN pieces : Trees(pieces[i]) = {} THEN {}
  ELSE {[i \in DOMAIN pieces |-> CHOOSE t \in Trees(pieces[i]) : TRUE]}

Kinds(ts) == [i \in DOMAIN ts |-> ts[i].k]
Prefixed(ts) == Len(ts) > 2 /\ Kinds(SubSeq(ts, 1, 2)) = <<"identifier", "=">>
Inner(ts, i) == SubSeq(ts, i, Len(ts) - 1)
\* ts is brackets, or a name and brackets, that end where they begin.
Enclosed(ts, i) ==
  /\ Len(ts) > i /\ ts[i].k = "(" /\ Last(ts).k = ")"
  /\ Outside(ts, {ts[j].k : j \in DOMAIN ts}) = 1..i

RECURSIVE Trees(_)
Arguments(ts) ==
  Every(Commas(ts), LAMBDA p :
    IF Prefixed(p) THEN {Argument(p[1].x, e) : e \in Trees(SubSeq(p, 3, Len(p)))}
    ELSE {Argument("", e) : e \in Trees(p)})
\* Operators from the loosest to the tightest.
Level(op) ==
  CHOOSE i \in 1..6 :
    op \in <<{":>"}, {"<:"}, {":"}, {","}, {"+", "-"}, {"*", "/", "%"}>>[i]
IndexAt(ts) == Len(ts) > 3 /\ Kinds(SubSeq(ts, Len(ts) - 2, Len(ts))) = <<"[", "number", "]">>
Trees(ts) ==
  LET ops == {i \in Outside(ts, {":>", "<:", ":", ",", "+", "-", "*", "/", "%"}) :
                i > 1 /\ ts[i - 1].k \in {"identifier", "number", "!"} \cup Closers}
      Looser(i, j) == \/ Level(ts[i].k) < Level(ts[j].k)
                      \/ Level(ts[i].k) = Level(ts[j].k) /\ i >= j
      at == CHOOSE i \in ops : \A j \in ops : Looser(i, j)
      n == Len(ts)
  IN IF ops # {}
       THEN {Binary(ts[at].k, a, b) : a \in Trees(SubSeq(ts, 1, at - 1)),
                                      b \in Trees(SubSeq(ts, at + 1, n))}
     ELSE CASE n > 1 /\ ts[1].k = "-" -> {Negation(a) : a \in Trees(Tail(ts))}
            [] n > 1 /\ ts[1].k # "-" /\ IndexAt(ts) ->
                 {Select(a, ts[n - 1].n) : a \in Trees(SubSeq(ts, 1, n - 3))}
            [] Enclosed(ts, 1) -> Trees(Inner(ts, 2))
            [] n > 1 /\ ts[1].k = "identifier" /\ Enclosed(ts, 2) ->
                 {Call(ts[1].x, args) : args \in Arguments(Inner(ts, 3))}
            [] n = 1 /\ ts[1].k = "identifier" -> {Ident(ts[1].x)}
            [] n = 1 /\ ts[1].k = "!" -> {Ident("!")}
            [] n = 1 /\ ts[1].k = "number" -> {NumberExpr(ts[1].n)}
            [] OTHER -> {}

\* The trees of a line.
OutLine(ts, name, from) ==
  IF Len(ts) >= from + 2 /\ Kinds(SubSeq(ts, from, from + 2)) = <<"[", "number", "]">>
    THEN {Stmt("out", name, e, << >>, ts[from + 1].n) : e \in Trees(SubSeq(ts, from + 3, Len(ts)))}
  ELSE {Stmt("out", name, e, << >>, -1) : e \in Trees(SubSeq(ts, from, Len(ts)))}
Names(ts) ==
  LET parts == Pieces(ts, Among(ts, {"."})) IN
  IF Len(parts) > 1 /\ \A i \in DOMAIN parts : Kinds(parts[i]) = <<"identifier">>
    THEN {[i \in DOMAIN parts |-> parts[i][1].x]} ELSE {}
Lines(ts) ==
  LET arrows == Among(ts, {"~>", "->"})
      from == SubSeq(ts, 1, Least(arrows) - 1)
      to == SubSeq(ts, Least(arrows) + 1, Len(ts))
      n == Len(ts)
      as == n > 2 /\ Kinds(SubSeq(ts, n - 1, n)) = <<"as", "identifier">>
      head == ts[1].k
  IN CASE head = "input" ->
            IF n > 3 /\ ts[2].k = "identifier" /\ Enclosed(Tail(ts), 2)
              THEN {Stmt("input", ts[2].x, Call("", a), << >>, -1) : a \in Arguments(Inner(ts, 4))}
            ELSE {}
       [] head = "out" -> IF as THEN OutLine(SubSeq(ts, 1, n - 2), ts[n].x, 2) ELSE OutLine(ts, "", 2)
       [] head \notin {"input", "out"} /\ Prefixed(ts) ->
            {Stmt("bind", ts[1].x, e, << >>, -1) : e \in Trees(SubSeq(ts, 3, n))}
       [] head \notin {"input", "out"} /\ ~Prefixed(ts) /\ arrows # {} ->
            IF ts[Least(arrows)].k = "~>"
              THEN {Stmt("modulate", Last(p), e, Front(p), -1) : e \in Trees(from), p \in Names(to)}
            ELSE IF Kinds(to) = <<"identifier", "[", "number", "]">>
              THEN {Stmt("explicit", "", e, <<to[1].x>>, to[3].n) : e \in Trees(from)}
            ELSE {}
       [] OTHER -> {Stmt("wire", "", e, << >>, -1) : e \in Trees(ts)}

Params(ts) ==
  Every(Commas(ts), LAMBDA p :
    IF Prefixed(p) THEN {Parameter(p[1].x, <<e>>) : e \in Trees(SubSeq(p, 3, Len(p)))}
    ELSE IF Kinds(p) = <<"identifier">> THEN {Parameter(p[1].x, << >>)} ELSE {})

\* Newlines that end a line: outside brackets, and after a token that ends one.
EndsLine(text, i) ==
  LET words == SelectSeq(SubSeq(text, 1, i), LAMBDA t : t # Newline) IN
  Depth(text, i) <= 0 /\ (words = << >> \/ Last(words).k \notin ContinuesLine)
Significant(text) ==
  LET kept == SelectSeq([i \in DOMAIN text |-> i], LAMBDA i : text[i] # Newline \/ EndsLine(text, i))
  IN [j \in DOMAIN kept |-> text[kept[j]]]
NonEmpty(pieces) == SelectSeq(pieces, LAMBDA p : p # << >>)
BodyLines(ts) == NonEmpty(Pieces(ts, Among(ts, {"newline"})))

\* A definition without its keyword and its `end`.
Definitions(ts) ==
  LET close == {i \in Among(ts, {")"}) : Depth(ts, i) = 1}
      c == Least(close)
      Body(i) == Every(BodyLines(SubSeq(ts, i, Len(ts))), Lines)
  IN CASE ts = << >> \/ (ts # << >> /\ ts[1].k # "identifier") -> {}
       [] ts # << >> /\ Len(ts) > 1 /\ ts[1].k = "identifier" /\ ts[2].k = "(" ->
            IF close = {} THEN {}
            ELSE {Def(ts[1].x, p, b) : p \in Params(SubSeq(ts, 3, c - 1)), b \in Body(c + 1)}
       [] OTHER -> {Def(ts[1].x, << >>, b) : b \in Body(2)}

RECURSIVE Programs(_)
Programs(ts) ==
  LET ends == Among(ts, {"end"})
      rest == Programs(SubSeq(ts, Least(ends) + 1, Len(ts)))
      defs == Definitions(SubSeq(ts, 2, Least(ends) - 1))
  IN CASE ts = << >> -> {Program(<< >>, << >>)}
       [] ts # << >> /\ ts[1] = Newline -> Programs(Tail(ts))
       [] ts # << >> /\ ts[1].k \in Definers /\ ends # {} ->
            IF ts[1].k = "rune" THEN {[p EXCEPT !.runes = <<d>> \o @] : d \in defs, p \in rest}
            ELSE {[p EXCEPT !.sigils = <<d>> \o @] : d \in defs, p \in rest}
       [] OTHER -> {}

----------------------------------------------------------------------------
\* The lines of a text, each a sequence of tokens.
RawLines(text) == NonEmpty(Pieces(text, Among(text, {"newline"})))
\* A line that leaves no bracket open and is not continued.
Whole(ts) ==
  /\ \A i \in DOMAIN ts : Depth(ts, i) >= (IF ts[i].k \in Closers THEN 1 ELSE 0)
  /\ Depth(ts, Len(ts) + 1) = 0 /\ Last(ts).k \notin ContinuesLine
\* A text of one definition with its head and its `end` on lines of their own, and
\* whole lines between them.
Blocked(text) ==
  LET ls == RawLines(text) IN
  /\ Len(ls) > 1 /\ Kinds(Last(ls)) = <<"end">> /\ ls[1][1].k \in Definers
  /\ \A i \in 1..(Len(ls) - 1) : Whole(ls[i])
  /\ \A i \in 2..(Len(ls) - 1) : Among(ls[i], {"end"} \cup Definers) = {}
  /\ \E d \in Definitions(Tail(ls[1])) : d.body = << >>

\* A text is accepted exactly if it follows the grammar, and then the tree is the
\* one its precedences, brackets, commas and line ends prescribe: nothing in it is
\* passed over in silence or taken for something else.
NothingIsMisread(text, r) ==
  Programs(Significant(text)) = IF r.s.ok THEN {r.v} ELSE {}

\* parser.hpp: it "recovers at statement / definition boundaries".  A line that
\* reads well is read as it stands, whatever is wrong with the lines around it.
DamageIsContained(text, r) ==
  Blocked(text) =>
    LET ls == RawLines(text)
        def == (r.v.runes \o r.v.sigils)[1]
    IN /\ Len(r.v.runes \o r.v.sigils) = 1 /\ Len(def.body) = Len(ls) - 2
       /\ \A i \in DOMAIN def.body :
            Lines(ls[i + 1]) # {} => Lines(ls[i + 1]) = {def.body[i]}
=============================================================================
