--------------------------------- MODULE Json ---------------------------------
(***************************************************************************)
(* JSON values and their text (util/json.cpp).  A text is a sequence of    *)
(* tokens: white space, escapes and digits are left to the characters, and *)
(* a token that is `bad` is a character no value starts with.  Objects     *)
(* keep their members in order, as object_t does.                          *)
(***************************************************************************)
EXTENDS Integers, Sequences, SequencesExt

\* k is the kind; num a fraction, str a string, items what an array or an object
\* holds, keys the names of an object's members.
Value(k, num, str, keys, items) ==
  [k |-> k, num |-> num, str |-> str, keys |-> keys, items |-> items]
Scalar(k) == Value(k, <<0, 1>>, "", << >>, << >>)
Null == Scalar("null")
Boolean(b) == Scalar(IF b THEN "true" ELSE "false")
Number(q) == Value("number", q, "", << >>, << >>)
Integer(n) == Number(<<n, 1>>)
String(x) == Value("string", <<0, 1>>, x, << >>, << >>)
Array(items) == Value("array", <<0, 1>>, "", << >>, items)
NoObject == Value("object", <<0, 1>>, "", << >>, << >>)

Set(o, key, v) == [o EXCEPT !.keys = Append(@, key), !.items = Append(@, v)]
Push(a, v) == [a EXCEPT !.items = Append(@, v)]
\* An object of <<key, value>> pairs.
Object(members) == FoldLeft(LAMBDA o, m : Set(o, m[1], m[2]), NoObject, members)

\* The first member of that name, if v is an object that has one: value::find.
Find(v, key) ==
  LET named == SelectInSeq(v.keys, LAMBDA x : x = key) IN
  IF v.k = "object" /\ named > 0 THEN {v.items[named]} ELSE {}
\* What Find found, if it is of a kind; a default if not.
Typed(found, kind, Of(_), default) ==
  LET fit == {v \in found : v.k = kind} IN IF fit = {} THEN default ELSE Of(CHOOSE v \in fit : TRUE)
\* std::llround: halves away from zero.
Nearest(q) ==
  LET Up(n) == (2 * n + q[2]) \div (2 * q[2]) IN IF q[1] < 0 THEN -Up(-q[1]) ELSE Up(q[1])
AsInteger(v, key, default) == Typed(Find(v, key), "number", LAMBDA x : Nearest(x.num), default)
AsText(v, key) == Typed(Find(v, key), "string", LAMBDA x : x.str, "")
AsItems(v, key) == Typed(Find(v, key), "array", LAMBDA x : x.items, << >>)

----------------------------------------------------------------------------
\* Text.

Token(k, num, str) == [k |-> k, num |-> num, str |-> str]
Sym(k) == Token(k, <<0, 1>>, "")
Word(x) == Token("string", <<0, 1>>, x)

\* Parts with a comma between them.
Listed(parts) ==
  FlattenSeq([i \in DOMAIN parts |-> IF i = Len(parts) THEN parts[i] ELSE Append(parts[i], Sym(","))])

RECURSIVE Dump(_)
Dump(v) ==
  CASE v.k = "array" ->
         <<Sym("[")>> \o Listed([i \in DOMAIN v.items |-> Dump(v.items[i])]) \o <<Sym("]")>>
    [] v.k = "object" ->
         <<Sym("{")>>
         \o Listed([i \in DOMAIN v.items |-> <<Word(v.keys[i]), Sym(":")>> \o Dump(v.items[i])])
         \o <<Sym("}")>>
    [] OTHER -> <<Token(v.k, v.num, v.str)>>

\* The parser: its tokens and position, whether it has not failed, and a value.
Reader(toks, pos, ok, v) == [toks |-> toks, pos |-> pos, ok |-> ok, v |-> v]
Kind(r) == IF r.pos \in DOMAIN r.toks THEN r.toks[r.pos].k ELSE "eof"
Skip(r) == [r EXCEPT !.pos = @ + 1]
Failed(r) == [r EXCEPT !.ok = FALSE]
Read(r, v) == [r EXCEPT !.pos = @ + 1, !.v = v]

RECURSIVE ParseValue(_), Members(_, _), Items(_, _)

\* After a member or an item: another one, or the end of the object or the array.
Another(r, More(_), close) ==
  CASE ~r.ok -> r
    [] r.ok /\ Kind(r) = "," -> More(Skip(r))
    [] r.ok /\ Kind(r) = close -> Skip(r)
    [] OTHER -> Failed(r)

Members(r, o) ==
  LET Member(read) == Another([read EXCEPT !.v = Set(o, r.toks[r.pos].str, @)],
                              LAMBDA next : Members(next, next.v), "}")
  IN IF Kind(r) = "string" /\ Kind(Skip(r)) = ":" THEN Member(ParseValue(Skip(Skip(r))))
     ELSE Failed(r)
Items(r, a) ==
  LET Item(read) == Another([read EXCEPT !.v = Push(a, @)],
                            LAMBDA next : Items(next, next.v), "]")
  IN Item(ParseValue(r))

ParseValue(r) ==
  CASE Kind(r) = "{" -> IF Kind(Skip(r)) = "}" THEN Read(Skip(r), NoObject) ELSE Members(Skip(r), NoObject)
    [] Kind(r) = "[" -> IF Kind(Skip(r)) = "]" THEN Read(Skip(r), Array(<< >>))
                        ELSE Items(Skip(r), Array(<< >>))
    [] Kind(r) \in {"string", "number", "true", "false", "null"} ->
         Read(r, Value(Kind(r), r.toks[r.pos].num, r.toks[r.pos].str, << >>, << >>))
    [] OTHER -> Failed(r)

\* One value, and nothing after it.
Parse(text) ==
  LET Alone(r) == IF r.ok /\ Kind(r) # "eof" THEN Failed(r) ELSE r
  IN Alone(ParseValue(Reader(text, 1, TRUE, Null)))
=============================================================================
