----------------------------- MODULE MCAggregates -----------------------------
(***************************************************************************)
(* Aggregates for TLC: a struct in a struct, an array of numbers and one   *)
(* of structs, a reference into a struct; every expression of every type   *)
(* in every place, and values that are copied and then changed.            *)
(***************************************************************************)
EXTENDS AggregatesSound

S == Struct("S")
T == Struct("T")
A == Array(I32, 2)
B == Array(S, 2)
MCStructs ==
  [S |-> <<[name |-> "x", type |-> I32], [name |-> "y", type |-> I32]>>,
   T |-> <<[name |-> "p", type |-> S], [name |-> "q", type |-> I32]>>]

Node(k, a, t, s) == [k |-> k, a |-> a, t |-> t, s |-> s]
Lit(n) == Node("literal", ToString(n), I32, <<>>)
Var(name, t) == Node("identifier", name, t, <<>>)
Field(e, name) ==
  Node("field", name, LET d == Structs[referent(e.t).struct] IN d[CHOOSE i \in DOMAIN d : d[i].name = name].type, <<e>>)
Elem(e, i) == Node("index", "", referent(e.t).of, <<e, i>>)
Ref(e) == Node("ref", "", Reference(e.t), <<e>>)
Deref(e) == Node("deref", "", e.t.to, <<e>>)
Add(l, r) == Node("binary", "+", I32, <<l, r>>)
Set(l, op, r) == Node("assign", op, Unit, <<l, r>>)
Init2(name, e) == Node("init", name, Unit, <<e>>)
Pair(x, y) == Node("struct", "S", S, <<Init2("x", x), Init2("y", y)>>)
Reversed(x, y) == Node("struct", "S", S, <<Init2("y", y), Init2("x", x)>>)
Nest(p, q) == Node("struct", "T", T, <<Init2("p", p), Init2("q", q)>>)
Nested(p, q) == Node("struct", "T", T, <<Init2("q", q), Init2("p", p)>>)
List(s) == Node("array", "", Array(s[1].t, Len(s)), s)
Repeat(e) == Node("repeat", "", Array(e.t, 2), <<e>>)
Call(f, t, s) == Node("call", f, t, s)
Method(f, t, s) == Node("method", f, t, s)
Let(name, e) == Node("let", name, e.t, <<e>>)
Block(s) == Node("block", "", Last(s).t, s)
Return(e) == Node("return", "", e.t, <<e>>)

Fn(name, receiver, params, ret, statements) ==
  [name |-> name, receiver |-> receiver, impl |-> "S", params |-> params, ret |-> ret,
   body |-> Node("block", "", ret, statements)]
Param(name, type) == [name |-> name, type |-> type]
SelfOf(type) == Node("self", "self", type, <<>>)
X == Var("n", I32)

Library ==
  <<Fn("say", "none", <<Param("n", I32)>>, I32, <<Call("printlnInt", Unit, <<X>>), X>>),
    Fn("mk", "none", <<Param("n", I32)>>, S, <<Pair(X, Add(X, Lit(1)))>>),
    Fn("swap", "none", <<Param("v", S)>>, S,
       <<Set(Field(Var("v", S), "x"), "+=", Lit(1)), Return(Pair(Field(Var("v", S), "y"), Field(Var("v", S), "x")))>>),
    Fn("set", "none", <<Param("v", Reference(S)), Param("n", I32)>>, I32,
       <<Set(Field(Var("v", Reference(S)), "x"), "=", X), Return(Field(Var("v", Reference(S)), "y"))>>),
    Fn("sum", "&self", <<>>, I32, <<Add(Field(SelfOf(Reference(S)), "x"), Field(SelfOf(Reference(S)), "y"))>>),
    Fn("put", "&mut self", <<Param("n", I32)>>, Unit, <<Set(Field(SelfOf(Reference(S)), "y"), "=", X)>>),
    Fn("take", "self", <<Param("n", I32)>>, S, <<Let("w", SelfOf(S)), Set(Field(Var("w", S), "x"), "=", X), Var("w", S)>>)>>

s == Var("s", S)
t == Var("t", T)
a == Var("a", A)
b == Var("b", B)
i == Var("i", Usize)
r == Var("r", Reference(S))
v == Var("v", S)

Setup ==
  <<Let("s", Pair(Lit(1), Lit(2))), Let("a", List(<<Lit(3), Lit(4)>>)), Let("i", [Lit(1) EXCEPT !.t = Usize]),
    Let("t", Nest(Pair(Lit(5), Lit(6)), Lit(7))), Let("r", Ref(Field(t, "p"))), Let("b", List(<<s, Call("mk", S, <<Lit(8)>>)>>))>>

(* Says every number in a variable. *)
Zero == [Lit(0) EXCEPT !.t = Usize]
One == [Lit(1) EXCEPT !.t = Usize]
RECURSIVE Shown(_)
Shown(e) ==
  CASE is_ref(e.t) -> Shown(Deref(e))
    [] e.t.k = "array" -> Shown(Elem(e, Zero)) \o Shown(Elem(e, One))
    [] e.t.k = "struct" -> FlattenSeq([j \in DOMAIN Structs[e.t.struct] |-> Shown(Field(e, Structs[e.t.struct][j].name))])
    [] OTHER -> <<Call("printlnInt", Unit, <<e>>)>>
ShowAll(es) == Node("block", "", Unit, FlattenSeq([j \in DOMAIN es |-> Shown(es[j])]))

Names(stmts, kinds) == UNION {{n.a : n \in {m \in nodes_of(stmts[j]) : m.k \in kinds}} : j \in DOMAIN stmts}
(* The variables and the functions that are used, and no others. *)
Prog(stmts) ==
  LET uses == Names(stmts, {"identifier"})
      needed == uses \cup (IF "r" \in uses THEN {"t"} ELSE {}) \cup (IF "b" \in uses THEN {"s"} ELSE {})
      setup == SelectSeq(Setup, LAMBDA e : e.a \in needed)
      shown == SelectSeq(setup \o stmts, LAMBDA e : e.k = "let" /\ e.a \notin {"i", "r"})
      main == setup \o stmts \o <<ShowAll([j \in DOMAIN shown |-> Var(shown[j].a, shown[j].t)])>>
      calls == Names(main, {"call", "method"})
  IN SelectSeq(Library, LAMBDA f : f.name \in calls) \o <<Fn("main", "none", <<>>, Unit, main)>>

-----------------------------------------------------------------------------
(* Expressions of each type, and where they can stand. *)

Structures == {s, Field(t, "p"), Deref(r), Elem(b, i), Elem(b, Zero)}
Ints0 == {Lit(0), Field(s, "x"), Field(r, "y"), Elem(a, i), Field(Elem(b, i), "x")}
S0 == Structures \cup {Pair(Lit(9), Field(s, "x"))}
Acts == {Call("say", I32, <<Field(s, "y")>>), Call("set", I32, <<Ref(s), Lit(9)>>), Call("set", I32, <<r, Elem(a, i)>>),
         Block(<<Set(Field(s, "x"), "=", Lit(9)), Field(s, "y")>>), Block(<<Set(i, "=", Zero), Elem(a, i)>>)}
Small == {Lit(9), Field(s, "x")} \cup Acts

S1 == S0
  \cup UNION {{Pair(x, y), Reversed(x, y)} : x \in Small, y \in Small}
  \cup UNION {{Call("swap", S, <<e>>), Method("take", S, <<e, Lit(9)>>), Block(<<e>>), Field(Nested(e, Field(s, "x")), "p"),
               Block(<<Let("w", e), Set(Field(Var("w", S), "x"), "=", Lit(8)), Var("w", S)>>)} : e \in S0}
  \cup {Call("mk", S, <<x>>) : x \in Small}
  \cup {Method("take", S, <<r, x>>) : x \in Small} \cup {Method("take", S, <<s, x>>) : x \in Small}
  \cup {Elem(List(<<s, e>>), i) : e \in S0} \cup {Elem(Block(<<b>>), i), Field(Block(<<t>>), "p")}

Ints1 == Ints0 \cup Small
  \cup {Add(x, y) : x \in Ints0 \cup Acts, y \in Ints0 \cup Acts}
  \cup UNION {{Field(e, "y"), Method("sum", I32, <<e>>), Call("set", I32, <<Ref(e), Lit(9)>>)} : e \in S1}
  \cup {Call("say", I32, <<x>>) : x \in Small} \cup {Elem(List(<<x, y>>), i) : x, y \in Small}
  \cup {Elem(Block(<<a>>), i), Elem(Repeat(Lit(0)), i), Elem(Repeat(Field(s, "x")), i), Method("sum", I32, <<r>>)}

T1 == {t, Block(<<t>>)} \cup UNION {{Nest(e, x), Nested(e, x)} : e \in S0, x \in Small}
A1 == {a, Block(<<a>>), Repeat(Lit(0))} \cup {Repeat(x) : x \in Small} \cup {List(<<x, y>>) : x, y \in Small}
B1 == {b, Block(<<b>>)} \cup {Repeat(e) : e \in S0} \cup {List(<<e, e2>>) : e \in S0, e2 \in S0}
      \cup {List(<<e, Call("mk", S, <<x>>)>>) : e \in S0, x \in Small}

Assignments ==
  {Set(place, "=", e) : place \in Structures, e \in S1}
    \cup {Set(place, "=", x) : place \in {Field(r, "y"), Elem(a, i), Elem(a, Block(<<Set(i, "=", Zero), i>>))}, x \in Ints1}
    \cup {Set(place, op, x) : place \in {Field(s, "x"), Elem(a, i), Field(Elem(b, i), "x"), Field(t, "q")},
                              op \in {"=", "+="}, x \in Ints0 \cup Small}
    \cup {Set(t, "=", e) : e \in T1} \cup {Set(a, "=", e) : e \in A1} \cup {Set(b, "=", e) : e \in B1}

Changes == {Set(s, "=", Pair(Lit(8), Lit(9))), Set(Field(s, "x"), "+=", Lit(1)), Set(Field(t, "p"), "=", s), Method("put", Unit, <<s, Lit(9)>>),
            Set(Elem(b, i), "=", s), Set(Elem(a, i), "=", Lit(9)), Method("put", Unit, <<r, Lit(9)>>)}
Copies == {Let("v", e) : e \in S1 \cup T1 \cup A1 \cup B1} \cup {Let("v", Ref(e)) : e \in S1} \cup {Let("v", Ref(x)) : x \in Ints0}
Copied ==
  {<<c, e>> : c \in Copies, e \in Changes}
    \cup {<<Let("v", e), Set(Field(v, "x"), "=", Lit(9))>> : e \in S1}
    \cup {<<Let("v", Ref(e)), Set(Field(Var("v", Reference(S)), "x"), "=", Lit(9))>> : e \in S1}
    \cup {<<Let("v", Ref(e)), Set(Elem(Var("v", Reference(A)), i), "=", Lit(9))>> : e \in A1}

MCPrograms ==
  {Prog(stmts) : stmts \in Copied}
    \cup {Prog(<<e>>) : e \in Assignments}
    \cup {Prog(<<Method("put", Unit, <<e, x>>)>>) : e \in S1 \cup {r}, x \in Small}
=============================================================================
