------------------------------- MODULE MCParser -------------------------------
(***************************************************************************)
(* Parser for TLC.  Three families of programs: printed trees (operators   *)
(* nested to depth three, blocks of up to three statements, every item),   *)
(* every short token sequence in a body, and in a signature.               *)
(***************************************************************************)
EXTENDS ParserSound

Name(text) == Node(text, <<>>)
X == Name("x")
Y == Name("y")
Unary(op, e) == Node(op, <<e>>)
Both(op, l, r) == Node(op, <<l, r>>)

(* The places of an expression that an expression can stand in. *)
Around(operators, e) ==
  UNION {{Both(op, e, Y), Both(op, Y, e)} : op \in operators}
    \cup {Unary(op, e) : op \in {"-", "&", "&mut", "*", "return"}}
    \cup {Both("as", e, Name("S")), Both("call", e, Y), Both("call", Y, e), Both("[]", e, Y),
          Both("[]", Y, e), Both(".", e, Name("y"))}
OperatorOfEachLevel == {"=", "||", "&&", "<", "|", "^", "&", "<<", "+", "-", "*", "+="}
FewOperators == {"=", "<", "&&", "-", "*"}
Depth2 == UNION {Around(OperatorOfEachLevel, e) : e \in Around(OperatorOfEachLevel, X)}
Few2 == UNION {Around(FewOperators, e) : e \in Around(FewOperators, X)}
Depth3 == UNION {Around(FewOperators, e) : e \in Few2}

BlockOf(statements) == Node("block", statements)
Empty == BlockOf(<<>>)
Yields(e) == BlockOf(<<Node("nosemi", <<e>>)>>)
If == Node("if", <<X, Yields(Y), Yields(X)>>)
ElseIf == Node("if", <<X, Empty, Node("if", <<Y, Empty>>)>>)
Unnamed ==
  {Node("array", <<>>), Node("array", <<X>>), Node("array", <<X, Y>>), Both("[;]", X, Name("2")), Name("()"),
   Both("::", Name("Self"), X), Both("::", Name("S"), X), Name("self"), Name("continue"), Name("1"),
   Node("struct literal", <<Name("Self")>>), Node("struct literal", <<Name("S"), Both("value:", X, Y)>>),
   Node("call", <<X>>), Node("call", <<X, Y, Y>>), Unary("!", X), Name("return"), Name("break"), Unary("break", X),
   If, Both("+", If, Empty), Both("=", X, Node("loop", <<Empty>>)), Both("while", X, Empty)}

Blocks == {If, ElseIf, Both("while", X, Empty), Node("loop", <<Empty>>), Empty, Yields(Y)}
Marked(e) == IF e.k = "while" THEN Node("nosemi", <<e>>) ELSE Node("must_return_unit", <<e>>)
Types == {Name("S"), Name("()"), Name("Self"), Unary("&", Name("S")), Unary("&mut", Both("[;]", Name("S"), X))}
Lets == {Node("let", <<Unary("&mut", X), type>>) : type \in Types} \cup {Node("let", <<X, Name("S"), If>>)}
Semis == {Node("semi", <<e>>) : e \in {X, If, Name("return")}}
Inner == {Node("item", <<Node("const", <<X, Name("S"), Name("1")>>)>>)} \cup Semis \cup Lets \cup {Marked(e) : e \in Blocks}
Tails == (Inner \ {Node("must_return_unit", <<e>>) : e \in Blocks}) \cup {Node("nosemi", <<e>>) : e \in Blocks \cup {X}}
Bodies ==
  {<<>>} \cup {<<t>> : t \in Tails} \cup {<<s, t>> : s \in Inner, t \in Tails}
    \cup {<<r, s, t>> : r, s \in Semis \cup {Marked(e) : e \in Blocks}, t \in Tails}

Function(receiver, params, type, statements) ==
  Node("fn", <<Name("x"), Name(receiver), Node("params", params), type, BlockOf(statements)>>)
Plain(statements) == <<Function("no self", <<>>, Name("no type"), statements)>>
Param(pattern, type) == Both("param", pattern, type)
ParamLists == {<<>>, <<Param(X, Name("S"))>>, <<Param(Unary("mut", X), Name("S")), Param(Unary("&", Y), Unary("&", Name("S")))>>}
Signatures ==
  {Function(receiver, params, type, <<>>) :
     receiver \in {"no self", "self", "&self", "&mut self"}, params \in ParamLists, type \in Types \cup {Name("no type")}}
Items ==
  Signatures
    \cup {Node("impl", <<Name("S")>> \o methods) : methods \in {<<>>} \cup {<<f, f>> : f \in Signatures}}
    \cup {Node("struct", <<Name("S")>>), Node("struct", <<Name("S"), Both("field:", X, Name("S")), Both("field:", Y, Name("()"))>>),
          Node("enum", <<Name("S"), X, Y>>), Node("enum", <<Name("S")>>), Node("const", <<X, Name("S"), If>>)}

Printed(program) == [tokens |-> FlattenSeq([i \in 1..Len(program) |-> Text(program[i])]), trees |-> program]
Raw(tokens) == [tokens |-> tokens, trees |-> <<>>]
UpTo(n, words) == UNION {[1..m -> words] : m \in 0..n}

BodyWords == {"x", "{", "}", "(", ")", ";", "if", "while", "-", "else", "return"}
SignatureWords == {"self", "&", "mut", "x", ":", ",", "["}

MCFamilies ==
  {{Printed(Plain(<<Node("semi", <<e>>)>>)) : e \in Depth2 \cup Depth3 \cup Unnamed},
   {Printed(Plain(s)) : s \in Bodies},
   {Printed(<<item>>) : item \in Items},
   {Printed(<<item, Function("self", <<>>, Name("S"), <<>>)>>) : item \in Items},
   {Raw(<<"fn", "x", "(", ")", "{">> \o s \o <<"}">>) : s \in UpTo(4, BodyWords)},
   {Raw(<<"fn", "x", "(">> \o s \o <<")", "{", "}">>) : s \in UpTo(4, SignatureWords)},
   {Raw(s) : s \in UpTo(2, {"fn", "x", "(", "{"})}}
=============================================================================
