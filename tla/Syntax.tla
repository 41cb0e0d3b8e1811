-------------------------------- MODULE Syntax --------------------------------
(***************************************************************************)
(* Tokens (token.hpp) and syntax trees (ast.hpp) of the language.          *)
(*                                                                         *)
(* A token has a kind, k, named as tok_name does, its text x if it is a    *)
(* name or a keyword, and its number n.  Strings and booleans, arguments   *)
(* of Faust nodes only, are left out, and so are positions in the text.    *)
(***************************************************************************)
EXTENDS Integers, Sequences, SequencesExt

Token(k, x, n) == [k |-> k, x |-> x, n |-> n]
Sym(k) == Token(k, "", 0)
Name(x) == Token("identifier", x, 0)
Digits(n) == Token("number", "", n)
Keyword(k) == Token(k, k, 0)

Newline == Sym("newline")
End == Sym("end-of-input")
Definers == {"rune", "sigil"}
Openers == {"(", "["}
Closers == {")", "]"}

\* After these a newline continues the line.
ContinuesLine ==
  Openers \cup {"=", ",", ".", ":", "<:", ":>", "~>", "->", "+", "-", "*", "/", "%", "~"}

----------------------------------------------------------------------------
\* Expressions: k is the kind, name an identifier, a callee or an operator, q a
\* number (a fraction) or an index, sub the operands, args what a call is given.

E(k, name, q, sub, args) == [k |-> k, name |-> name, q |-> q, sub |-> sub, args |-> args]
NumberExpr(n) == E("num", "", <<n, 1>>, << >>, << >>)
Ident(x) == E("id", x, <<0, 1>>, << >>, << >>)
Negation(a) == E("neg", "", <<0, 1>>, <<a>>, << >>)
Select(a, i) == E("sel", "", <<i, 1>>, <<a>>, << >>)
Binary(op, a, b) == E("bin", op, <<0, 1>>, <<a, b>>, << >>)
Call(f, args) == E("call", f, <<0, 1>>, << >>, args)
Argument(name, e) == [name |-> name, e |-> e]

\* Statements: e is the value, the expression or the source, the arguments of an
\* `input` being those of a call; name what is bound, a terminal, or the port at
\* the end of a path; path the names before it; index a channel, or -1.
Stmt(k, name, e, path, index) == [k |-> k, name |-> name, e |-> e, path |-> path, index |-> index]
Parameter(name, default) == [name |-> name, default |-> default]
Def(name, params, body) == [name |-> name, params |-> params, body |-> body]
Program(runes, sigils) == [runes |-> runes, sigils |-> sigils]

----------------------------------------------------------------------------
\* dump(): the text of a tree, operators in parentheses.

Separated(parts, sep) ==
  FoldLeft(LAMBDA ts, i : ts \o (IF i = 1 THEN << >> ELSE <<Sym(sep)>>) \o parts[i],
           << >>, [i \in DOMAIN parts |-> i])
InParens(ts) == <<Sym("(")>> \o ts \o <<Sym(")")>>
Index(i) == <<Sym("["), Digits(i), Sym("]")>>

RECURSIVE DumpExpr(_)

DumpArgs(args) ==
  LET Named(a) == IF a.name = "" THEN << >> ELSE <<Name(a.name), Sym("=")>>
  IN InParens(Separated([i \in DOMAIN args |-> Named(args[i]) \o DumpExpr(args[i].e)], ","))

DumpExpr(e) ==
  CASE e.k = "num" -> <<Digits(e.q[1])>>
    [] e.k = "id" -> <<IF e.name = "!" THEN Sym("!") ELSE Name(e.name)>>
    [] e.k = "neg" -> InParens(<<Sym("-")>> \o DumpExpr(e.sub[1]))
    [] e.k = "sel" -> DumpExpr(e.sub[1]) \o Index(e.q[1])
    [] e.k = "bin" -> InParens(DumpExpr(e.sub[1]) \o <<Sym(e.name)>> \o DumpExpr(e.sub[2]))
    [] e.k = "call" -> <<Name(e.name)>> \o DumpArgs(e.args)

Path(names) == Separated([i \in DOMAIN names |-> <<Name(names[i])>>], ".")

DumpStmt(s) ==
  CASE s.k = "bind" -> <<Name(s.name), Sym("=")>> \o DumpExpr(s.e)
    [] s.k = "wire" -> DumpExpr(s.e)
    [] s.k = "modulate" -> DumpExpr(s.e) \o <<Sym("~>")>> \o Path(Append(s.path, s.name))
    [] s.k = "explicit" -> DumpExpr(s.e) \o <<Sym("->")>> \o Path(s.path) \o Index(s.index)
    [] s.k = "input" -> <<Keyword("input"), Name(s.name)>> \o DumpArgs(s.e.args)
    [] s.k = "out" -> <<Keyword("out")>> \o (IF s.index < 0 THEN << >> ELSE Index(s.index))
                      \o DumpExpr(s.e)
                      \o (IF s.name = "" THEN << >> ELSE <<Keyword("as"), Name(s.name)>>)

\* A definition: its head, a line for each statement, `end`.  dump() leaves out the
\* defaults of parameters and the index of an `out`; a text has them.
DumpDef(keyword, d) ==
  LET Param(p) == <<Name(p.name)>>
                  \o (IF p.default = << >> THEN << >> ELSE <<Sym("=")>> \o DumpExpr(p.default[1]))
  IN <<Keyword(keyword), Name(d.name)>>
     \o InParens(Separated([i \in DOMAIN d.params |-> Param(d.params[i])], ",")) \o <<Newline>>
     \o FlattenSeq([i \in DOMAIN d.body |-> Append(DumpStmt(d.body[i]), Newline)])
     \o <<Keyword("end"), Newline>>

Dump(p) ==
  FlattenSeq([i \in DOMAIN p.sigils |-> DumpDef("sigil", p.sigils[i])]
             \o [i \in DOMAIN p.runes |-> DumpDef("rune", p.runes[i])])
=============================================================================
