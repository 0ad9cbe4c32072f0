--------------------------- MODULE AggregatesSound ---------------------------
(***************************************************************************)
(* What the lowering of data must keep: a program says the same numbers    *)
(* when its instructions are executed as when its text is read with Rust's *)
(* rules: operands in the order they are written and the right side of an  *)
(* assignment first, a value of a struct or array is a copy, a reference   *)
(* is the place it was taken of.                                           *)
(***************************************************************************)
EXTENDS Aggregates

-----------------------------------------------------------------------------
(* Meaning: what the text says.  A state is the memory, where the names    *)
(* are, what was said, and the value (or the place) found last.            *)

saying(m, v) == [m EXCEPT !.trace = Append(@, v)]
yields(m, v) == [m EXCEPT !.val = v]
new_object(m, v) == [m EXCEPT !.memory = Append(@, v), !.val = Place(Len(m.memory) + 1, <<>>)]
store_at(m, place, v) == [m EXCEPT !.memory = write(@, place, v), !.val = Parts(<<>>)]

PlaceExpressions == {"identifier", "self", "deref", "field", "index"}

RECURSIVE Eval(_, _), PlaceOf(_, _), Invoke(_, _, _)

EvalAll(m, es) ==
  FoldLeft(LAMBDA v, e : LET after == Eval(v.m, e) IN [m |-> after, values |-> Append(v.values, after.val)],
           [m |-> m, values |-> <<>>], es)

Sum(a, b) == IF {"number"} = DOMAIN a \cap DOMAIN b THEN Number(a.number + b.number) ELSE Undefined

(* The place of an expression, one of its own when it is a value. *)
PlaceOrTemporary(m, e) ==
  IF e.k \in PlaceExpressions THEN PlaceOf(m, e) ELSE LET v == Eval(m, e) IN new_object(v, v.val)
Referred(m, e) == IF is_ref(e.t) THEN Eval(m, e) ELSE PlaceOrTemporary(m, e)

PlaceOf(m, e) ==
  CASE e.k \in {"identifier", "self"} -> yields(m, m.names[e.a])
    [] e.k = "deref" -> Eval(m, e.s[1])
    [] e.k = "field" ->
         LET base == Referred(m, e.s[1]) IN yields(base, inside(base.val, field_index(referent(e.s[1].t), e.a)))
    [] e.k = "index" ->
         LET base == Referred(m, e.s[1])
             index == Eval(base, e.s[2])
         IN yields(index, inside(base.val, index.val.number + 1))

EvalStruct(m, e) ==
  LET given == EvalAll(m, [i \in DOMAIN e.s |-> e.s[i].s[1]])
      value(name) == given.values[CHOOSE i \in DOMAIN e.s : e.s[i].a = name]
  IN yields(given.m, Parts([i \in DOMAIN Structs[e.t.struct] |-> value(Structs[e.t.struct][i].name)]))

EvalAssign(m, e) ==
  LET right == Eval(m, e.s[2])
      left == PlaceOf(right, e.s[1])
  IN store_at(left, left.val, IF e.a = "=" THEN right.val ELSE Sum(read(left.memory, left.val), right.val))

EvalMethod(m, e) ==
  LET receiver == callee_of(program, e.a).receiver
      base == Referred(m, e.s[1])
      self == IF receiver = "self" THEN read(base.memory, base.val) ELSE base.val
      others == EvalAll(base, Tail(e.s))
  IN Invoke(others.m, e.a, <<self>> \o others.values)

Eval(m, e) ==
  CASE e.k \in PlaceExpressions -> LET p == PlaceOf(m, e) IN yields(p, read(p.memory, p.val))
    [] e.k = "literal" -> yields(m, Number(CHOOSE n \in 0..9 : ToString(n) = e.a))
    [] e.k = "binary" -> LET v == EvalAll(m, e.s) IN yields(v.m, Sum(v.values[1], v.values[2]))
    [] e.k = "assign" -> EvalAssign(m, e)
    [] e.k = "ref" -> PlaceOrTemporary(m, e.s[1])
    [] e.k = "struct" -> EvalStruct(m, e)
    [] e.k = "array" -> LET v == EvalAll(m, e.s) IN yields(v.m, Parts(v.values))
    [] e.k = "repeat" -> LET v == Eval(m, e.s[1]) IN yields(v, Parts([i \in 1..e.t.size |-> v.val]))
    [] e.k = "call" -> LET v == EvalAll(m, e.s) IN Invoke(v.m, e.a, v.values)
    [] e.k = "method" -> EvalMethod(m, e)
    [] e.k = "let" ->
         LET v == Eval(m, e.s[1])
             own == new_object(v, v.val)
         IN [own EXCEPT !.names = (e.a :> own.val) @@ @]
    [] e.k \in {"block", "return"} -> FoldLeft(Eval, m, e.s)

Invoke(m, name, args) ==
  IF name = "printlnInt" THEN saying(m, args[1])
  ELSE LET f == callee_of(program, name)
           names == (IF f.receiver = "none" THEN <<>> ELSE <<"self">>) \o [i \in DOMAIN f.params |-> f.params[i].name]
           bind(b, i) == LET own == new_object(b, args[i]) IN [own EXCEPT !.names = (names[i] :> own.val) @@ @]
           entered == FoldLeft(bind, [m EXCEPT !.names = <<>>], [i \in DOMAIN names |-> i])
           left == Eval(entered, f.body)
       IN [left EXCEPT !.names = m.names]

-----------------------------------------------------------------------------
(* Behaviour: what the instructions do. *)

operand(m, o) ==
  CASE "reg" \in DOMAIN o -> m.regs[o.reg]
    [] "const" \in DOMAIN o -> Number(o.const)
    [] "param" \in DOMAIN o -> IF o.param <= Len(m.args) THEN m.args[o.param] ELSE Undefined

stored(m, place, v) == [m EXCEPT !.memory = write(@, place, v)]

RECURSIVE Run(_, _, _)

(* What an instruction leaves in its register is in val. *)
Execute(m, inst) ==
  LET arg(i) == operand(m, inst.args[i])
  IN CASE inst.op = "alloca" -> new_object(m, filled(inst.of, Undefined))
       [] inst.op = "load" -> yields(m, read(m.memory, arg(1)))
       [] inst.op = "store" -> stored(m, arg(2), arg(1))
       [] inst.op = "getelementptr" ->
            yields(m, IF "number" \in DOMAIN arg(2) THEN inside(arg(1), arg(2).number + 1) ELSE Undefined)
       [] inst.op = "add" -> yields(m, Sum(arg(1), arg(2)))
       [] inst.op = "memcpy" -> stored(m, arg(1), read(m.memory, arg(2)))
       [] inst.op = "memset" -> stored(m, arg(1), filled(inst.of, Number(0)))
       [] inst.op = "fill" ->
            LET v == IF is_aggregate_type(inst.of.of) THEN read(m.memory, arg(2)) ELSE arg(2)
            IN stored(m, arg(1), Parts([i \in 1..inst.of.size |-> v]))
       [] inst.op = "call" -> Run(m, inst.of.callee, [i \in DOMAIN inst.args |-> arg(i)])
       [] inst.op = "ret" -> IF inst.args = <<>> THEN m ELSE yields(m, arg(1))

step(m, inst) ==
  LET after == Execute(m, inst) IN IF inst.named THEN [after EXCEPT !.regs = Append(@, after.val)] ELSE after

(* A FoldLeft of step, which TLC would evaluate in cubic time. *)
RECURSIVE executed(_, _)
executed(m, insts) == IF insts = <<>> THEN m ELSE step(executed(m, Front(insts)), Last(insts))

Run(m, name, args) ==
  IF name = "printlnInt" THEN saying(m, args[1])
  ELSE LET left == executed([m EXCEPT !.regs = <<>>, !.args = args], code[name])
       IN [left EXCEPT !.regs = m.regs, !.args = m.args]

Nowhere == [memory |-> <<>>, trace |-> <<>>, val |-> Undefined, names |-> <<>>, regs |-> <<>>, args |-> <<>>]
Meaning == Invoke(Nowhere, "main", <<>>).trace
Behaviour == Run(Nowhere, "main", <<>>).trace

-----------------------------------------------------------------------------
(* Programs that mean the same in any order the visitor may choose.        *)

RECURSIVE nodes_of(_)
nodes_of(e) == {e} \cup UNION {nodes_of(e.s[i]) : i \in DOMAIN e.s}

writes(e) ==
  \E n \in nodes_of(e) :
    \/ n.k = "assign"
    \/ n.k = "method" /\ callee_of(program, n.a).receiver = "&mut self"
    \/ n.k = "call" /\ \E i \in DOMAIN n.s : is_ref(n.s[i].t)
speaks(e) == \E n \in nodes_of(e) : n.k = "call" /\ n.a \in {"printlnInt", "say"}
acts(e) == writes(e) \/ speaks(e)
reads(e) == \E n \in nodes_of(e) : n.k \in {"identifier", "self"}

(* What an operand leaves is a place that somebody can still write to. *)
RECURSIVE in_place(_)
in_place(e) ==
  \/ e.k \in PlaceExpressions
  \/ e.k = "block" /\ is_aggregate_type(e.t) /\ in_place(Last(e.s))

(* An operand is loaded after the later ones are evaluated. *)
read_late(e) ==
  /\ e.k \in {"binary", "call", "method"}
  /\ \E i, j \in DOMAIN e.s : i < j /\ in_place(e.s[i]) /\ writes(e.s[j])

(* The place that is assigned is found before the value. *)
depends(e) == \E n \in nodes_of(e) : n.k = "index" \/ is_ref(n.t)
target_first(e) ==
  /\ e.k = "assign"
  /\ \/ acts(e.s[1]) /\ (acts(e.s[2]) \/ reads(e.s[2]))
     \/ depends(e.s[1]) /\ writes(e.s[2])

(* The fields of a literal are not in the order of the declaration. *)
out_of_order(e) ==
  /\ e.k = "struct"
  /\ [i \in DOMAIN e.s |-> e.s[i].a] # [i \in DOMAIN e.s |-> Structs[e.t.struct][i].name]
  /\ \E i, j \in DOMAIN e.s : i # j /\ ((acts(e.s[i]) /\ acts(e.s[j])) \/ (writes(e.s[i]) /\ reads(e.s[j])))

(* A block's value, or a part of it, that is changed in place: its tail's. *)
RECURSIVE in_block(_)
in_block(e) ==
  \/ e.k = "block" /\ in_place(e)
  \/ e.k \in {"field", "index"} /\ ~is_ref(e.s[1].t) /\ in_block(e.s[1])
borrowed_block(e) ==
  /\ e.k = "ref" \/ (e.k = "method" /\ callee_of(program, e.a).receiver = "&mut self")
  /\ in_block(e.s[1])

nodes == UNION {nodes_of(program[i].body) : i \in DOMAIN program}
Ordinary == \A e \in nodes : ~read_late(e) /\ ~target_first(e) /\ ~out_of_order(e) /\ ~borrowed_block(e)

lowered == item > Len(program)

(* An ordinary program says the same, lowered or not: structs and arrays   *)
(* are copied where a value is wanted and nowhere shared, through any nest *)
(* of fields, elements, references, blocks, arguments and results.         *)
SameData == lowered /\ Ordinary => Behaviour = Meaning

(* No program, ordinary or not, says what no slot was given: parameters,   *)
(* the place of a result, literals and locals are written before they are  *)
(* read, and a reference is never taken for the value behind it.           *)
SlotsWrittenFirst == lowered => \A i \in DOMAIN Behaviour : "number" \in DOMAIN Behaviour[i]
=============================================================================
