----------------------------- MODULE MCConstEval -----------------------------
(***************************************************************************)
(* ConstEval for TLC: integers of three bits, every operator at the limits *)
(* of every kind, and constants, casts, sizes and scopes that depend on    *)
(* each other in every order.                                              *)
(***************************************************************************)
EXTENDS ConstEvalSound

MCWidth == 3

Node(k, a, s) == [k |-> k, a |-> a, s |-> s]
Lit(kind, n) == Node("literal", scalar(kind, n), <<>>)
Num(n) == Lit("anyint", n)
Un(op, e) == Node("unary", op, <<e>>)
Bin(op, l, r) == Node("binary", op, <<l, r>>)
Ref(scope, name) == Node("name", [scope |-> scope, name |-> name], <<>>)
Path(kind) == Node("path", kind, <<>>)
UnitType == Node("unittype", "", <<>>)
Arr(id, type, size) == Node("arraytype", id, <<type, size>>)
As(e, type) == Node("cast", type, <<e>>)
List(s) == Node("array", "", s)
Rep(id, e, n) == Node("repeat", id, <<e, n>>)
Item(e, i) == Node("index", "", <<e, i>>)
Call == Node("call", "", <<>>)
Const(scope, name, type, e) == Node("const", [scope |-> scope, name |-> name], <<type, e>>)
Let(type, e) == Node("let", "", <<type, e>>)

(* The nodes of a program, as deep as they nest here. *)
Below(nodes) ==
  nodes \cup UNION {Range(n.s) : n \in nodes} \cup {n.a : n \in {m \in nodes : m.k = "cast"}}
Nodes(roots) == Below(Below(Below(Below(Below(Below(roots))))))
Sized(nodes) == {n \in nodes : n.k \in {"arraytype", "repeat"}}

Prog(items, functions) ==
  LET nodes == Nodes(Range(items))
      sized == Sized(nodes)
  IN [items |-> items, functions |-> functions,
      sizes |-> [id \in {n.a : n \in sized} |-> (CHOOSE n \in sized : n.a = id).s[2]],
      cast_sizes |-> {n.a : n \in Sized(Nodes({m.a : m \in {c \in nodes : c.k = "cast"}}))}]

R == <<>>
One(type, e) == Prog(<<Const(R, "A", type, e)>>, {})

Operators == Arithmetic \cup Comparisons \cup Logical \cup Shifts
Lowest(kind) == Bin("-", Un("-", Lit(kind, 3)), Lit(kind, 1))
LowestAny == Bin("-", Un("-", Num(31)), Num(1))
Operands ==
  {Num(n) : n \in {0, 1, 2, 3, 4, 7, 31}} \cup {Un("-", Num(1)), Un("-", Num(4)), LowestAny}
    \cup {Lit("i32", n) : n \in {0, 2, 3}} \cup {Un("-", Lit("i32", 1)), Lowest("i32")}
    \cup {Lit("u32", n) : n \in {0, 3, 7}} \cup {Lit("usize", 2), Lit("isize", 1)}
    \cup {Lit("bool", 0), Lit("bool", 1), Lit("char", 1)}
TooLarge == {Lit("i32", 4), Lit("u32", 8)}
Targets == {"i32", "u32", "usize", "isize", "bool", "char"}

(* Every operator on every pair, as a constant that any result fits. *)
Operations ==
  {One(Path(IF op \in Comparisons \cup Logical THEN "bool" ELSE "isize"), Bin(op, l, r)) :
     op \in Operators, l \in Operands, r \in Operands}
    \cup {One(Path("u32"), Bin(op, l, r)) :
            op \in Arithmetic, l \in {Lit("u32", n) : n \in {0, 3, 7}}, r \in {Lit("u32", 7), Num(2)}}
    \cup {One(Path(kind), Un(op, e)) : kind \in Targets, op \in {"-", "!"}, e \in Operands}
    \cup {One(Path(kind), e) : kind \in Targets, e \in Operands \cup TooLarge \cup {Call, Node("unit", "", <<>>)}}
    \cup {One(Path("isize"), As(e, Path(kind))) : kind \in Targets, e \in Operands}
    \cup {One(UnitType, e) : e \in {Node("unit", "", <<>>), Num(1)}}

(* A scope declares a name once. *)
Clean(programs) ==
  {p \in programs : LET d == [i \in DOMAIN p.items |-> p.items[i].a]
                    IN IsInjective(d) /\ Range(d) \cap p.functions = {}}

(* Three constants, in three orders, in the root and in a function. *)
Chain(b, c, s) ==
  {<<Const(R, "A", Path("i32"), Num(2)), Const(s, "B", Path("u32"), b), Const(s, "C", Path("i32"), c)>>,
   <<Const(s, "C", Path("i32"), c), Const(R, "A", Path("i32"), Num(2)), Const(s, "B", Path("u32"), b)>>,
   <<Const(R, "A", Path("i32"), Num(2)), Const(s, "A", Path("i32"), c), Const(s, "B", Path("u32"), b)>>}
Uses(s) == {As(Ref(s, "A"), Path("u32")), Ref(s, "B"), Bin("+", Ref(s, "A"), Num(1)), Bin("-", Ref(s, "B"), Ref(s, "A")),
            Bin("*", Ref(R, "A"), Num(3))}
Orders ==
  Clean({Prog(items, f) :
     items \in UNION {Chain(b, c, s) : b \in Uses(R) \cup Uses(<<1>>), c \in Uses(R) \cup Uses(<<1>>), s \in {R, <<1>>}},
     f \in {{}, {[scope |-> <<1>>, name |-> "A"]}}})

(* Arrays: sizes that are expressions, constants and later constants. *)
Sizes == {Num(0), Num(1), Num(2), Lit("usize", 2), Lit("i32", 2), Un("-", Num(1)), Ref(R, "N"), Bin("+", Ref(R, "N"), Num(1)),
          As(Num(2), Path("usize")), Call}
Elements == {List(<<>>), List(<<Num(1)>>), List(<<Num(1), Num(9)>>), List(<<Num(1), Lit("i32", 3)>>), List(<<Lit("bool", 1), Num(0)>>),
             Rep(2, Num(3), Num(2)), Rep(2, Lit("u32", 7), Ref(R, "N")), Rep(2, Lit("bool", 1), Lit("i32", 1)), Num(2)}
N(kind) == Const(R, "N", Path(kind), Num(2))
Arrays ==
  {Prog(items, {}) : items \in
     UNION {{<<N("usize"), Const(R, "A", Arr(1, Path(kind), n), e), Const(R, "B", Path("i32"), Item(Ref(R, "A"), i))>>,
             <<Const(R, "A", Arr(1, Path(kind), n), e), N("usize")>>,
             <<Let(Arr(1, Path(kind), n), e), N("usize")>>} :
        kind \in {"i32", "u32", "bool"}, n \in Sizes, e \in Elements, i \in {Num(1), Num(2), Ref(R, "N")}}}
Nested(n, e) == Const(R, "A", Arr(2, Arr(1, Path("u32"), Num(2)), n), e)
Pair(a, b) == List(<<Num(a), Num(b)>>)
Units == Const(R, "A", Arr(1, UnitType, Num(1)), List(<<Node("unit", "", <<>>)>>))
Deep ==
  {Prog(items, {}) : items \in
     {<<Nested(n, e), Const(R, "B", Path("u32"), Item(Item(Ref(R, "A"), Num(i)), Num(1)))>> :
        n \in {Num(1), Num(2)}, e \in {List(<<Pair(1, 2), Pair(3, 4)>>), List(<<Pair(1, 2), Num(1)>>), List(<<Pair(1, 2), List(<<Num(1)>>)>>),
                                      Rep(3, Pair(5, 6), Num(2)), List(<<Pair(1, 2)>>)}, i \in {0, 1}}
     \cup {<<Const(R, "A", Path("u32"), Item(As(e, Arr(1, Path("u32"), n)), Num(0))), N("usize")>> :
             e \in {List(<<>>), Pair(1, 2), Num(1)}, n \in {Num(0), Num(2), Ref(R, "N")}}
     \cup {<<Const(R, "A", Arr(1, Path("u32"), Num(0)), As(List(<<>>), Arr(2, Path("u32"), Num(2))))>>, <<Units>>}
     \cup {<<Let(Arr(1, Path("char"), Ref(R, "N")), Rep(2, Lit("char", 1), Ref(R, "N"))), N(kind)>> : kind \in {"usize", "i32"}}}

MCPrograms == Operations \cup Orders \cup Arrays \cup Deep
=============================================================================
