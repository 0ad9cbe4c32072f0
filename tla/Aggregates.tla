------------------------------ MODULE Aggregates ------------------------------
(***************************************************************************)
(* The lowering of data (IRGenVisitor): how values, references and copies  *)
(* of structs and arrays become loads, stores and memcpy.  Control is in   *)
(* IRGen; here code is a straight line, so a function is one sequence of   *)
(* instructions and the visits that C++ nests are recursive operators.  A  *)
(* node is [k, a, t, s]: kind, attribute, type, children.                  *)
(***************************************************************************)
EXTENDS Places

CONSTANT Programs   (* sequences of functions *)

VARIABLES
  program,
  item,     (* the function that is lowered *)
  at_stmt,  (* position in its body, 0 before the prologue *)
  gen,      (* what the visitor and the builder know about it *)
  code      (* name of a function -> its instructions *)

vars == <<program, item, at_stmt, gen, code>>

(* The two maps of the visitor hold one entry for a visited expression:    *)
(* a value in expr_value_map_ or a place in expr_address_map_.             *)
NoResult == [in |-> "nothing"]
InValueMap(v) == [in |-> "value", v |-> v]
InAddressMap(v) == [in |-> "address", v |-> v]

Register(n) == [reg |-> n]
Constant(n) == [const |-> n]
Parameter(n) == [param |-> n]

(* code, the number of registers, the slots, and the result of the last    *)
(* visit or call of the builder.                                           *)
FreshGen == [code |-> <<>>, regs |-> 0, local_slots |-> <<>>, self_slot |-> Constant(0), return_slot |-> Constant(0),
             result |-> NoResult]

-----------------------------------------------------------------------------
(* IRBuilder. *)

insert_instruction(g, op, of, args) ==
  [g EXCEPT !.code = Append(@, [op |-> op, of |-> of, args |-> args, named |-> FALSE])]
create_temp(g, op, of, args) ==
  [g EXCEPT !.code = Append(@, [op |-> op, of |-> of, args |-> args, named |-> TRUE]),
            !.regs = @ + 1, !.result = InValueMap(Register(g.regs + 1))]

create_temp_alloca(g, type) == create_temp(g, "alloca", type, <<>>)
create_load(g, address) == create_temp(g, "load", Unit, <<address>>)
create_store(g, value, address) == insert_instruction(g, "store", Unit, <<value, address>>)
create_gep(g, base, index) == create_temp(g, "getelementptr", Unit, <<base, index>>)
create_add(g, lhs, rhs) == create_temp(g, "add", Unit, <<lhs, rhs>>)
create_memcpy(g, dst, src) == insert_instruction(g, "memcpy", Unit, <<dst, src>>)
create_memset(g, dst, type) == insert_instruction(g, "memset", type, <<dst>>)

-----------------------------------------------------------------------------
(* The helpers of the visitor. *)

with_result(g, r) == [g EXCEPT !.result = r]

get_rvalue(g, r) == IF r.in = "value" THEN with_result(g, r) ELSE create_load(g, r.v)

get_lvalue(g, r) ==
  IF r.in = "address" THEN with_result(g, r)
  ELSE LET slot == create_temp_alloca(g, I32) IN create_store(slot, r.v, slot.result.v)

emit_memcpy(g, dst, src) == create_memcpy(g, dst, src)

store_expression_result(g, r, address, type) ==
  IF is_aggregate_type(type)
  THEN LET src == get_lvalue(g, r) IN emit_memcpy(src, address, src.result.v)
  ELSE LET value == get_rvalue(g, r) IN create_store(value, value.result.v, address)

ensure_slot_for_decl(g, name, type) ==
  IF name \in DOMAIN g.local_slots THEN g
  ELSE LET slot == create_temp_alloca(g, type)
       IN [slot EXCEPT !.local_slots = (name :> slot.result.v) @@ @]

RECURSIVE is_zero_initializer_expr(_)
is_zero_initializer_expr(e) ==
  CASE e.k = "literal" -> e.a = "0"
    [] e.k = "repeat" -> is_zero_initializer_expr(e.s[1])
    [] e.k = "array" -> \A i \in DOMAIN e.s : is_zero_initializer_expr(e.s[i])
    [] OTHER -> FALSE

(* The visits below are the cases of Visit: what visiting e does to g. *)
RECURSIVE Visit(_, _)

(* Visits one after the other, and the values of what they left. *)
visit_all(g, es) ==
  FoldLeft(LAMBDA v, e : LET after == Visit(v.gen, e) IN [gen |-> after, results |-> Append(v.results, after.result)],
           [gen |-> g, results |-> <<>>], es)
get_rvalues(g, results) ==
  FoldLeft(LAMBDA v, r : LET after == get_rvalue(v.gen, r) IN [gen |-> after, values |-> Append(v.values, after.result.v)],
           [gen |-> g, values |-> <<>>], results)

visit_identifier(g, e) == with_result(g, InAddressMap(g.local_slots[e.a]))
visit_self(g, e) == with_result(g, InAddressMap(g.self_slot))
visit_literal(g, e) == with_result(g, InValueMap(Constant(CHOOSE n \in 0..9 : ToString(n) = e.a)))

visit_binary(g, e) ==
  LET visited == visit_all(g, e.s)
      values == get_rvalues(visited.gen, visited.results)
  IN create_add(values.gen, values.values[1], values.values[2])

(* The left operand is visited first; an operator loads it afterwards. *)
visit_assign(g, e) ==
  LET visited == visit_all(g, e.s)
      address == visited.results[1].v
      rhs == get_rvalue(visited.gen, visited.results[2])
      old == create_load(rhs, address)
      sum == create_add(old, old.result.v, rhs.result.v)
  IN CASE is_aggregate_type(e.s[1].t) -> store_expression_result(visited.gen, visited.results[2], address, e.s[2].t)
       [] e.a = "=" -> create_store(rhs, rhs.result.v, address)
       [] e.a = "+=" -> create_store(sum, sum.result.v, address)

visit_reference(g, e) ==
  LET visited == Visit(g, e.s[1])
      address == get_lvalue(visited, visited.result)
  IN with_result(address, InValueMap(address.result.v))

visit_dereference(g, e) ==
  LET visited == Visit(g, e.s[1])
      pointer == get_rvalue(visited, visited.result)
  IN with_result(pointer, InAddressMap(pointer.result.v))

(* The place of a base, behind the reference if it is one. *)
auto_deref(g, r, type) ==
  LET address == get_lvalue(g, r) IN IF is_ref(type) THEN create_load(address, address.result.v) ELSE address

element(g, base, index) ==
  LET gep == create_gep(g, base, index) IN with_result(gep, InAddressMap(gep.result.v))

visit_field(g, e) ==
  LET visited == Visit(g, e.s[1])
      base == auto_deref(visited, visited.result, e.s[1].t)
  IN element(base, base.result.v, Constant(field_index(referent(e.s[1].t), e.a) - 1))

visit_index(g, e) ==
  LET visited == visit_all(g, e.s)
      base == auto_deref(visited.gen, visited.results[1], e.s[1].t)
      index == get_rvalue(base, visited.results[2])
  IN element(index, base.result.v, index.result.v)

-----------------------------------------------------------------------------
(* Literals are built part by part in a slot of their own. *)

store_part(g, slot, i, e, type) ==
  LET visited == Visit(g, e)
      part == create_gep(visited, slot, Constant(i - 1))
  IN store_expression_result(part, visited.result, part.result.v, type)

(* Fields are visited in the order of the declaration. *)
visit_struct(g, e) ==
  LET fields == Structs[e.t.struct]
      init(name) == SelectSeq(e.s, LAMBDA f : f.a = name)[1].s[1]
      slot == create_temp_alloca(g, e.t)
      built == FoldLeft(LAMBDA h, i : store_part(h, slot.result.v, i, init(fields[i].name), fields[i].type),
                        slot, [i \in DOMAIN fields |-> i])
  IN with_result(built, InAddressMap(slot.result.v))

visit_array(g, e) ==
  LET slot == create_temp_alloca(g, e.t)
      built == FoldLeft(LAMBDA h, i : store_part(h, slot.result.v, i, e.s[i], e.t.of), slot, [i \in DOMAIN e.s |-> i])
  IN with_result(built, InAddressMap(slot.result.v))

(* The loop that fills the array is one instruction. *)
visit_repeat(g, e) ==
  LET slot == create_temp_alloca(g, e.t)
      visited == Visit(slot, e.s[1])
      source == IF is_aggregate_type(e.t.of) THEN get_lvalue(visited, visited.result)
                                             ELSE get_rvalue(visited, visited.result)
      filling == IF is_zero_initializer_expr(e.s[1])
                 THEN create_memset(slot, slot.result.v, e.t)
                 ELSE insert_instruction(source, "fill", e.t, <<slot.result.v, source.result.v>>)
  IN with_result(filling, InAddressMap(slot.result.v))

-----------------------------------------------------------------------------
(* Calls. *)

(* A function that returns an aggregate is given a place for it. *)
create_call(g, name, type, args) ==
  LET slot == create_temp_alloca(g, type)
      aggregate == insert_instruction(slot, "call", [callee |-> name], Append(args, slot.result.v))
      plain == IF type = Unit THEN with_result(insert_instruction(g, "call", [callee |-> name], args), NoResult)
                              ELSE create_temp(g, "call", [callee |-> name], args)
  IN IF is_aggregate_type(type) THEN with_result(aggregate, InAddressMap(slot.result.v)) ELSE plain

visit_call(g, e) ==
  LET visited == visit_all(g, e.s)
      values == get_rvalues(visited.gen, visited.results)
  IN create_call(values.gen, e.a, e.t, values.values)

callee_of(p, name) == LET i == CHOOSE j \in DOMAIN p : p[j].name = name IN p[i]

self_not_loaded(g, r, type, receiver) ==                   \* mutant of self_operand
  IF receiver = "self" THEN get_rvalue(g, r) ELSE get_lvalue(g, r)

(* A receiver of the callee's kind: behind a reference a second load. *)
self_operand(g, r, type, receiver) ==
  LET own == IF receiver = "self" THEN get_rvalue(g, r) ELSE get_lvalue(g, r)
  IN IF is_ref(type) THEN create_load(own, own.result.v) ELSE own

visit_method_call(g, e) ==
  LET visited == visit_all(g, e.s)
      self == self_operand(visited.gen, visited.results[1], e.s[1].t, callee_of(program, e.a).receiver)
      values == get_rvalues(self, Tail(visited.results))
  IN create_call(values.gen, e.a, e.t, <<self.result.v>> \o values.values)

-----------------------------------------------------------------------------
(* Statements and blocks. *)

let_shares(g, e) ==                                        \* mutant of visit_let
  LET slot == ensure_slot_for_decl(g, e.a, e.t)
      visited == Visit(slot, e.s[1])
  IN IF is_aggregate_type(e.t) THEN [visited EXCEPT !.local_slots = (e.a :> visited.result.v) @@ @]
     ELSE store_expression_result(visited, visited.result, visited.local_slots[e.a], e.t)

visit_let(g, e) ==
  LET slot == ensure_slot_for_decl(g, e.a, e.t)
      visited == Visit(slot, e.s[1])
  IN store_expression_result(visited, visited.result, visited.local_slots[e.a], e.t)

(* The value of a block: of an aggregate the place where its tail is. *)
visit_block(g, e) ==
  LET tail == visit_all(g, e.s).gen
  IN CASE e.t = Unit -> with_result(tail, NoResult)
       [] is_aggregate_type(e.t) -> get_lvalue(tail, tail.result)
       [] OTHER -> get_rvalue(tail, tail.result)

visit_return(g, e) ==
  LET visited == Visit(g, e.s[1]) IN store_expression_result(visited, visited.result, g.return_slot, e.s[1].t)

Visit(g, e) ==
  CASE e.k = "literal" -> visit_literal(g, e)
    [] e.k = "identifier" -> visit_identifier(g, e)
    [] e.k = "self" -> visit_self(g, e)
    [] e.k = "binary" -> visit_binary(g, e)
    [] e.k = "assign" -> visit_assign(g, e)
    [] e.k = "ref" -> visit_reference(g, e)
    [] e.k = "deref" -> visit_dereference(g, e)
    [] e.k = "field" -> visit_field(g, e)
    [] e.k = "index" -> visit_index(g, e)
    [] e.k = "struct" -> visit_struct(g, e)
    [] e.k = "array" -> visit_array(g, e)
    [] e.k = "repeat" -> visit_repeat(g, e)
    [] e.k = "call" -> visit_call(g, e)
    [] e.k = "method" -> visit_method_call(g, e)
    [] e.k = "let" -> visit_let(g, e)
    [] e.k = "block" -> visit_block(g, e)
    [] e.k = "return" -> visit_return(g, e)

-----------------------------------------------------------------------------
(* visit(FnItem): the prologue, the body statement by statement, the end.  *)

fn == program[item]
body == fn.body.s
has_receiver == fn.receiver # "none"

Init ==
  /\ program \in Programs
  /\ item = 1 /\ at_stmt = 0 /\ gen = FreshGen /\ code = <<>>

(* A parameter is stored in the slot of its declaration. *)
store_parameter(g, i) ==
  LET slot == ensure_slot_for_decl(g, fn.params[i].name, fn.params[i].type)
  IN create_store(slot, Parameter(i + (IF has_receiver THEN 1 ELSE 0)), slot.local_slots[fn.params[i].name])

store_self(g) ==
  LET type == IF fn.receiver = "self" THEN Struct(fn.impl) ELSE Reference(Struct(fn.impl))
      slot == create_temp_alloca(g, type)
  IN [create_store(slot, Parameter(1), slot.result.v) EXCEPT !.self_slot = slot.result.v]

(* An aggregate is returned through the first parameter after the others;  *)
(* the one that visit(FnItem) adds behind it gets no argument.             *)
make_return_slot(g) ==
  LET slot == create_temp_alloca(g, fn.ret)
  IN CASE fn.ret = Unit -> g
       [] is_aggregate_type(fn.ret) ->
            [g EXCEPT !.return_slot = Parameter(Len(fn.params) + (IF has_receiver THEN 2 ELSE 1))]
       [] OTHER -> [slot EXCEPT !.return_slot = slot.result.v]

EnterFunction ==
  /\ item <= Len(program) /\ at_stmt = 0
  /\ LET own == IF has_receiver THEN store_self(FreshGen) ELSE FreshGen
     IN gen' = make_return_slot(FoldLeft(store_parameter, own, [i \in DOMAIN fn.params |-> i]))
  /\ at_stmt' = 1
  /\ UNCHANGED <<program, item, code>>

LowerStatement ==
  /\ item <= Len(program) /\ at_stmt \in 1..Len(body)
  /\ gen' = Visit(gen, body[at_stmt])
  /\ at_stmt' = at_stmt + 1
  /\ UNCHANGED <<program, item, code>>

(* The value of the body is stored unless a return ended it. *)
store_tail(g) ==
  IF fn.ret = Unit \/ Last(body).k = "return" THEN g
  ELSE store_expression_result(g, g.result, g.return_slot, fn.ret)

create_ret(g) ==
  LET value == create_load(g, g.return_slot)
  IN IF fn.ret = Unit \/ is_aggregate_type(fn.ret) THEN insert_instruction(g, "ret", Unit, <<>>)
     ELSE insert_instruction(value, "ret", Unit, <<value.result.v>>)

LeaveFunction ==
  /\ item <= Len(program) /\ at_stmt > Len(body)
  /\ code' = (fn.name :> create_ret(store_tail(gen)).code) @@ code
  /\ item' = item + 1 /\ at_stmt' = 0 /\ gen' = FreshGen
  /\ UNCHANGED program

Next == EnterFunction \/ LowerStatement \/ LeaveFunction

Spec == Init /\ [][Next]_vars
=============================================================================
