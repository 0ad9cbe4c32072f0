------------------------------ MODULE ConstEval ------------------------------
(***************************************************************************)
(* Constant evaluation (ConstItemVisitor and step 3 of Semantic_Checker),  *)
(* and what becomes of constants in the module (emit_const of              *)
(* GlobalLoweringDriver).  A program is the sequence of its items and let  *)
(* statements in the order AST_Walker meets them, the functions declared   *)
(* beside the constants, and its size expressions by their NodeId.  A node *)
(* is [k, a, s]: kind, attribute, children.                                *)
(***************************************************************************)
EXTENDS ConstValues, SequencesExt

CONSTANT Programs

VARIABLES
  program,                (* the items, functions and sizes *)
  pass,                   (* "items", "queue", "emit", then how it ended *)
  at,                     (* position in the items or in the queue *)
  stack,                  (* the visits under way: node and the values of visited children *)
  is_need_to_calculate,
  const_value_map,        (* declaration -> value *)
  const_expr_to_size_map, (* NodeId -> size *)
  globals                 (* declaration of an array constant -> initializer *)

vars == <<program, pass, at, stack, is_need_to_calculate, const_value_map, const_expr_to_size_map, globals>>

NoValue == [kind |-> "none"]
Null == [scope |-> <<>>, name |-> ""]

Types == {"path", "unittype", "arraytype"}
ExprKinds == {"literal", "name", "unary", "binary", "index", "cast", "unit", "array", "repeat"}

Init ==
  /\ program \in Programs
  /\ pass = "items" /\ at = 1 /\ stack = <<>>
  /\ is_need_to_calculate = FALSE
  /\ const_value_map = <<>> /\ const_expr_to_size_map = <<>> /\ globals = <<>>

-----------------------------------------------------------------------------
(* Looking things up. *)

declared == program.functions \cup {program.items[i].a : i \in {j \in DOMAIN program.items : program.items[j].k = "const"}}

find_in_root(use) ==                                                    \* mutant of find_const_decl
  IF [scope |-> <<>>, name |-> use.name] \in declared THEN [scope |-> <<>>, name |-> use.name] ELSE use

find_const_decl(use) ==
  LET depths == {n \in 0 .. Len(use.scope) : [scope |-> SubSeq(use.scope, 1, n), name |-> use.name] \in declared}
      decl == [scope |-> SubSeq(use.scope, 1, Max(depths)), name |-> use.name]
  IN IF depths = {} \/ decl \in program.functions THEN Null ELSE decl

(* operator[] of a map makes a missing entry, with size 0. *)
size_at(id) == IF id \in DOMAIN const_expr_to_size_map THEN const_expr_to_size_map[id] ELSE 0
recorded_sizes == [id \in DOMAIN program.sizes |-> size_at(id)]

RECURSIVE sizes_read(_, _)
sizes_read(value, type) ==
  IF type.k # "arraytype" \/ value.kind # "array" THEN {}
  ELSE {type.a} \cup UNION {sizes_read(value.elements[i], type.s[1]) : i \in DOMAIN value.elements}

with_missing(ids) == [id \in ids \cup DOMAIN const_expr_to_size_map |-> size_at(id)]

(* The order in which find_real_type and OtherTypeAndRepeatArrayVisitor    *)
(* meet the sizes inside a node.                                           *)
RECURSIVE sizes_inside(_)
sizes_inside(n) ==
  LET children == FlattenSeq([i \in DOMAIN n.s |-> sizes_inside(n.s[i])])
  IN CASE n.k = "arraytype" -> sizes_inside(n.s[1]) \o <<n.a>>
       [] n.k = "repeat" -> <<n.a>> \o children
       [] n.k = "cast" -> children \o sizes_inside(n.a)
       [] OTHER -> children

is_const(n) == n.k = "const"

(* Step 2 resolves the types of constants; step 3 walks over values and lets. *)
const_expr_queue ==
  LET constants == SelectSeq(program.items, is_const)
  IN FlattenSeq([i \in DOMAIN constants |-> sizes_inside(constants[i].s[1])])
       \o FlattenSeq([i \in DOMAIN program.items |->
                        IF is_const(program.items[i]) THEN sizes_inside(program.items[i].s[2])
                        ELSE sizes_inside(program.items[i])])

-----------------------------------------------------------------------------
(* One visit.  Every visit of an expression or of a type happens with the  *)
(* flag set; it leaves the flag reset.                                     *)

frame(n) == [node |-> n, got |-> <<>>]
top == Last(stack)
visited_all == stack # <<>> /\ Len(top.got) = Len(top.node.s)

identified(use) ==
  IF find_const_decl(use) \in DOMAIN const_value_map THEN const_value_map[find_const_decl(use)] ELSE Refused

visited(n, got) ==
  CASE n.k = "literal" -> parse_literal_token_to_const_value(n.a)
    [] n.k = "name" -> identified(n.a)
    [] n.k = "unit" -> Unit
    [] n.k = "unary" -> calc_const_unary_expr(n.a, got[1])
    [] n.k = "binary" -> calc_const_binary_expr(n.a, got[1], got[2])
    [] n.k = "index" -> indexed(got[1], got[2])
    [] n.k = "cast" -> const_cast_to_realtype(got[1], n.a, recorded_sizes)
    [] n.k = "array" -> ArrayOf(got)
    [] n.k = "repeat" -> repeated(got[1], got[2])

stop(how) ==
  /\ pass' = how
  /\ UNCHANGED <<program, at, stack, is_need_to_calculate, const_value_map, const_expr_to_size_map, globals>>

(* The value of the visit goes to the visit that called it. *)
hand_over(value) ==
  LET rest == Front(stack) IN stack' = [rest EXCEPT ![Len(rest)].got = Append(@, value)]

Accept ==
  /\ stack # <<>> /\ ~visited_all
  /\ LET child == top.node.s[Len(top.got) + 1]
     IN IF child.k \in ExprKinds \cup Types
        THEN /\ stack' = Append(stack, frame(child))
             /\ is_need_to_calculate' = (top.node.k # "arraytype" \/ Len(top.got) = 1 \/ is_need_to_calculate)
             /\ UNCHANGED <<program, pass, at, const_value_map, const_expr_to_size_map, globals>>
        ELSE stop("refused")

VisitExpr ==
  /\ visited_all /\ top.node.k \in ExprKinds
  /\ LET value == visited(top.node, top.got)
     IN \/ value = Refused /\ stop("refused")
        \/ value = Trapped /\ stop("trapped")
        \/ /\ value \notin {Refused, Trapped}
           /\ hand_over(value)
           /\ is_need_to_calculate' = FALSE
           /\ const_expr_to_size_map' =
                IF top.node.k = "cast" THEN with_missing(sizes_read(top.got[1], top.node.a))
                ELSE const_expr_to_size_map
           /\ UNCHANGED <<program, pass, at, const_value_map, globals>>

(* PathType and UnitType have nothing to calculate. *)
VisitType ==
  /\ visited_all /\ top.node.k \in {"path", "unittype"}
  /\ hand_over(NoValue)
  /\ is_need_to_calculate' = FALSE
  /\ UNCHANGED <<program, pass, at, const_value_map, const_expr_to_size_map, globals>>

VisitArrayType ==
  /\ visited_all /\ top.node.k = "arraytype"
  /\ LET size == top.got[2]
     IN IF is_size(size)
        THEN /\ hand_over(NoValue)
             /\ is_need_to_calculate' = FALSE
             /\ const_expr_to_size_map' = [with_missing({top.node.a}) EXCEPT ![top.node.a] = size.value]
             /\ UNCHANGED <<program, pass, at, const_value_map, globals>>
        ELSE stop("refused")

-----------------------------------------------------------------------------
(* The walk over the items, with the flag reset. *)

item == program.items[at]

BeginConstItem ==
  /\ pass = "items" /\ stack = <<>> /\ at <= Len(program.items) /\ is_const(item)
  /\ IF is_need_to_calculate THEN stop("refused")
     ELSE /\ stack' = <<frame(item)>>
          /\ UNCHANGED <<program, pass, at, is_need_to_calculate, const_value_map, const_expr_to_size_map, globals>>

EndConstItem ==
  /\ visited_all /\ is_const(top.node)
  /\ LET value == const_cast_to_realtype(top.got[2], item.s[1], recorded_sizes)
         decl == find_const_decl(item.a)
     IN IF value = Refused \/ decl = Null THEN stop("refused")
        ELSE /\ const_value_map' = [d \in DOMAIN const_value_map \cup {decl} |->
                                      IF d = decl THEN value ELSE const_value_map[d]]
             /\ const_expr_to_size_map' = with_missing(sizes_read(top.got[2], item.s[1]))
             /\ stack' = <<>> /\ at' = at + 1
             /\ is_need_to_calculate' = FALSE
             /\ UNCHANGED <<program, pass, globals>>

(* Ordinary code is walked over without being calculated. *)
VisitLetStmt ==
  /\ pass = "items" /\ stack = <<>> /\ at <= Len(program.items) /\ ~is_const(item)
  /\ IF is_need_to_calculate THEN stop("refused")
     ELSE /\ at' = at + 1
          /\ UNCHANGED <<program, pass, stack, is_need_to_calculate, const_value_map, const_expr_to_size_map, globals>>

FinishItems ==
  /\ pass = "items" /\ stack = <<>> /\ at > Len(program.items)
  /\ pass' = "queue" /\ at' = 1
  /\ UNCHANGED <<program, stack, is_need_to_calculate, const_value_map, const_expr_to_size_map, globals>>

-----------------------------------------------------------------------------
(* The queue: a fresh visitor for each size that is not known yet. *)

queued == const_expr_queue[at]

SkipSizeForGood ==                                                      \* mutant of SkipSize
  /\ pass = "queue" /\ stack = <<>> /\ at <= Len(const_expr_queue)
  /\ queued \in DOMAIN const_expr_to_size_map
  /\ UNCHANGED vars

SkipSize ==
  /\ pass = "queue" /\ stack = <<>> /\ at <= Len(const_expr_queue)
  /\ queued \in DOMAIN const_expr_to_size_map
  /\ at' = at + 1
  /\ UNCHANGED <<program, pass, stack, is_need_to_calculate, const_value_map, const_expr_to_size_map, globals>>

BeginSize ==
  /\ pass = "queue" /\ stack = <<>> /\ at <= Len(const_expr_queue)
  /\ queued \notin DOMAIN const_expr_to_size_map
  /\ stack' = <<frame([k |-> "size", a |-> queued, s |-> <<program.sizes[queued]>>])>>
  /\ is_need_to_calculate' = TRUE
  /\ UNCHANGED <<program, pass, at, const_value_map, const_expr_to_size_map, globals>>

EndSize ==
  /\ visited_all /\ top.node.k = "size"
  /\ IF is_size(top.got[1])
     THEN /\ const_expr_to_size_map' = [with_missing({queued}) EXCEPT ![queued] = top.got[1].value]
          /\ stack' = <<>> /\ at' = at + 1
          /\ UNCHANGED <<program, pass, is_need_to_calculate, const_value_map, globals>>
     ELSE stop("refused")

FinishQueue ==
  /\ pass = "queue" /\ stack = <<>> /\ at > Len(const_expr_queue)
  /\ pass' = "emit" /\ at' = 1
  /\ UNCHANGED <<program, stack, is_need_to_calculate, const_value_map, const_expr_to_size_map, globals>>

-----------------------------------------------------------------------------
(* Code generation: a constant array becomes a global, one word after the  *)
(* other with its IR type; an integer of any type is an i32.               *)

ir_type(type) == CASE type.a = "bool" -> "i1" [] type.a = "char" -> "i8" [] OTHER -> "i32"

lower_const(value, type) == [type |-> ir_type(type), n |-> value.value]

RECURSIVE lowerable(_), emit_value(_, _)
(* ArrayTypeVisitor has completed the type. *)
array_size(type) == const_expr_to_size_map[type.a]
(* Type lowering needs a size; an element that is a unit has no word. *)
lowerable(type) == type.k = "arraytype" => array_size(type) # 0 /\ lowerable(type.s[1])
emit_value(value, type) ==
  IF type.k = "arraytype" THEN [i \in DOMAIN value.elements |-> emit_value(value.elements[i], type.s[1])]
  ELSE lower_const(value, type)

RECURSIVE element_of(_)
element_of(type) == IF type.k = "arraytype" THEN element_of(type.s[1]) ELSE type

EmitConst ==
  /\ pass = "emit" /\ at <= Len(program.items) /\ is_const(item) /\ item.s[1].k = "arraytype"
  /\ IF lowerable(item.s[1]) /\ element_of(item.s[1]).k # "unittype"
     THEN /\ globals' = [d \in DOMAIN globals \cup {item.a} |->
                           IF d = item.a THEN emit_value(const_value_map[d], item.s[1]) ELSE globals[d]]
          /\ at' = at + 1
          /\ UNCHANGED <<program, pass, stack, is_need_to_calculate, const_value_map, const_expr_to_size_map>>
     ELSE stop("failed")

SkipItem ==
  /\ pass = "emit" /\ at <= Len(program.items) /\ (is_const(item) => item.s[1].k # "arraytype")
  /\ at' = at + 1
  /\ UNCHANGED <<program, pass, stack, is_need_to_calculate, const_value_map, const_expr_to_size_map, globals>>

FinishEmit ==
  /\ pass = "emit" /\ at > Len(program.items)
  /\ stop("done")

Next ==
  \/ Accept \/ VisitExpr \/ VisitType \/ VisitArrayType
  \/ BeginConstItem \/ EndConstItem \/ VisitLetStmt \/ FinishItems
  \/ SkipSize \/ BeginSize \/ EndSize \/ FinishQueue
  \/ EmitConst \/ SkipItem \/ FinishEmit

Spec == Init /\ [][Next]_vars /\ WF_vars(Next)
=============================================================================
