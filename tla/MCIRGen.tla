------------------------------ MODULE MCIRGen -------------------------------
(***************************************************************************)
(* IRGen for TLC: accepted programs of one deep statement between two      *)
(* observations, of type (), bool and main.                                *)
(***************************************************************************)
EXTENDS IRGenSound

CONSTANT DivergeMark
Analysis == INSTANCE Semantics

ask == Leaf("ask")
x == Leaf("x")
yes == Leaf("true")
Say(e) == Node1("say", e)
Set(e) == Node1("asg", e)
ret == Leaf("ret")
brk == Leaf("brk")
cont == Leaf("cont")
Do(s) == Node1("block", s)
Do2(s, t) == Node2("block", s, t)
Give(s, e) == Node2("blockt", s, e)
Value(e) == Node1("blockt", e)

(* Expressions around statement s and expression e, and statements around them. *)
Expressions(s, e) ==
  {Node1("not", e), Node2("and", ask, e), Node2("or", e, x), Node2("xor", x, e), Node2("xor", e, ask),
   Give(s, e), Node3("if", e, Value(yes), Give(s, x)), Node1("loop", Do2(s, Node1("brk", e)))}

Statements(s, e) ==
  {Say(e), Set(e), Node1("let", e), Node1("ret", e), Do2(s, Say(e)),
   Node1("fn", Do(s)), Node1("fnb", Give(s, e)),
   Node2("if", e, Do(s)), Node3("if", ask, Do(s), Do(Set(e))), Node3("if", e, Do(ret), Do(s)),
   Node2("while", e, Do(s)), Node1("loop", Do2(s, brk)),
   Node1("loop", Do2(Node2("if", e, Do(brk)), s)), Node2("while", ask, Do2(s, Say(e)))}

S0 == {Say(x), Set(yes), ret, brk, cont}
E0 == {ask, x}

S1 == S0 \cup UNION {Statements(s, e) : s \in S0, e \in E0}
E1 == E0 \cup UNION {Expressions(s, e) : s \in S0, e \in E0}
S2 == UNION {Statements(s, ask) : s \in S1} \cup UNION {Statements(s, e) : s \in {Say(x), brk}, e \in E1}

Function(kind, s) ==
  Node1(kind, CASE kind = "fn" -> Do2(s, Say(x))
                [] kind = "fnb" -> Give(s, x)
                [] kind = "main" -> Do2(s, Leaf("exit")))

(* The trees that are accepted, with what the analyses say of each node. *)
Accepted(trees) ==
  {t \in {Analysis!annotated(u, "unit") : u \in {v \in trees : Analysis!well_formed(v)}} : t.type # "CE"}

(* Literals as statements, a jump in the condition of a while, and a break *)
(* whose value has a loop; a branch that leaves the function from inside.  *)
Escapes(s) == Node2("while", Give(Node2("if", ask, Do(s)), x), Do(Say(x)))
Rets == Do(Node1("ret", x))
Dead(s) == Node3("if", ask, Value(s), Value(x))

Rare ==
  {Leaf("unit"), Say(Leaf("false")), Say(Node1("loop", Do(Node1("brk", Node1("loop", Do(Node1("brk", x)))))))}
    \cup {Say(Dead(Node3("if", ask, Rets, Rets))), Say(Dead(Node1("loop", Rets)))}
    \cup UNION {{Escapes(s), Node1("loop", Do2(Escapes(s), brk))} : s \in {brk, cont}}

(* A comprehension and no UNION: TLC joins large sets in quadratic time. *)
AllPrograms == Accepted({Function(kind, s) : kind \in FunctionKinds, s \in S1 \cup S2 \cup Rare})
(* Names of their own for the sets: TLC then computes each once. *)
MCPrograms == AllPrograms

(* The nodes of the programs that are orderly throughout. *)
RECURSIVE with_children(_), orderly_throughout(_)
with_children(nodes) ==
  IF nodes = {} THEN {}
  ELSE nodes \cup with_children({c[1].s[c[2]] : c \in {d \in nodes \X (1..3) : d[2] <= Len(d[1].s)}})

orderly_throughout(n) == orderly_node(n) /\ \A i \in DOMAIN n.s : orderly_throughout(n.s[i])

AllOrderly == with_children({p \in MCPrograms : orderly_throughout(p)})
MCOrderlyNodes == AllOrderly

(* The nodes of the programs that are sound throughout, each in its place. *)
RECURSIVE places_in(_), sound_throughout(_, _)
places_in(places) ==
  IF places = {} THEN {}
  ELSE places \cup places_in({<<p[1][1].s[p[2]], place_of(p[1][1], p[1][2], p[2])>> :
                                p \in {q \in places \X (1..3) : q[2] <= Len(q[1][1].s)}})

sound_throughout(n, c) ==
  sound_place(n, c) /\ \A i \in DOMAIN n.s : sound_throughout(n.s[i], place_of(n, c, i))

AllSound == places_in({<<p, TopPlace>> : p \in {q \in MCPrograms : sound_throughout(q, TopPlace)}})
MCSoundPlaces == AllSound

(* The programs that the generator is not known to get wrong are sound. *)
ASSUME OrdinaryIsSound ==
  \A p \in MCPrograms : Ordinary(p) => p \in OrderlyNodes /\ <<p, TopPlace>> \in SoundPlaces
=============================================================================
