------------------------------ MODULE SmallTexts ------------------------------
(***************************************************************************)
(* Texts for TLC: every way to chain three operators and to put two in     *)
(* brackets, in the arguments of a call or behind a minus, and two         *)
(* programs with all the forms of the language, damaged at every token.    *)
(* Their names are none that lowering knows.                               *)
(***************************************************************************)
EXTENDS Syntax

Operators == {":", ",", "<:", ":>", "+", "-", "*", "/", "%"}
w == Name("w")  x == Name("x")  y == Name("y")  z == Name("z")
Out(ts) == <<Keyword("rune"), w, Newline, Keyword("out")>> \o ts \o <<Newline, Keyword("end"), Newline>>
Two(op, p) == <<x, Sym(op), y, Sym(p), z>>
Chains == {<<w, Sym(op)>> \o Two(p, q) : op \in Operators, p \in Operators, q \in Operators}
Groups == UNION {{InParens(Two(op, p)), <<w>> \o InParens(Two(op, p)), <<Sym("-")>> \o Two(op, p),
                  <<x, Sym(op)>> \o InParens(<<y, Sym(p), z>>) \o Index(1),
                  InParens(<<x, Sym(op), Sym("-"), y>>) \o <<Sym(p), z>> \o Index(0),
                  <<w>> \o InParens(<<x, Sym("=")>> \o InParens(<<y, Sym(op), z>>) \o <<Sym(p), w>>)} :
                   op \in Operators, p \in Operators}

Lines(lines) == FlattenSeq([i \in DOMAIN lines |-> Append(lines[i], Newline)])
Sigil == Lines(<<<<Keyword("sigil"), y>> \o InParens(<<x, Sym(","), z, Sym("="), Digits(2)>>),
                 <<x, Sym(":"), Sym("!")>>, <<Keyword("end")>>>>)
Rune == Lines(<<<<Keyword("rune"), z>> \o InParens(<<x, Sym("="), Sym("-"), Digits(3)>>),
                <<Keyword("input"), w>> \o InParens(<<Digits(2)>>),
                <<x, Sym("="), w>> \o InParens(<<y, Sym(","), z, Sym("="), y>>) \o Index(1),
                <<x, Sym("~>"), y, Sym("."), z, Sym("."), w>>,
                <<x, Sym("->"), y>> \o Index(0),
                <<Keyword("out")>> \o Index(1) \o InParens(<<x, Sym(":"), y>>) \o <<Keyword("as"), z>>,
                <<Keyword("end")>>>>)

\* One token lost, put in, or taken for another; two that change places.
Alphabet == {Sym(k) : k \in ContinuesLine \cup Closers \cup {"unknown"}}
            \cup {Keyword(k) : k \in {"rune", "sigil", "end", "input", "out", "as"}}
            \cup {Newline, Digits(1), w}
Damaged(ts) ==
  {RemoveAt(ts, i) : i \in DOMAIN ts}
  \cup {ReplaceAt(ts, i, t) : i \in DOMAIN ts, t \in Alphabet}
  \cup {InsertAt(ts, i, t) : i \in DOMAIN ts, t \in Alphabet}
  \cup {ReplaceAt(ReplaceAt(ts, i, ts[i + 1]), i + 1, ts[i]) : i \in 1..(Len(ts) - 1)}

SmallTextSet == {Out(ts) : ts \in Chains \cup Groups} \cup {<< >>} \cup {Sigil \o Rune}
                \cup Damaged(Rune) \cup Damaged(Sigil)
=============================================================================
