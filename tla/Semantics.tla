----------------------------- MODULE Semantics ------------------------------
(***************************************************************************)
(* What the two analyses say about a syntax tree, as functions of the tree *)
(* (OutcomeOf, TypeOf), and a reference to hold them against: Runs, the    *)
(* ways in which an execution of the node can really end.                  *)
(***************************************************************************)
EXTENDS Outcomes

RECURSIVE OutcomeOf(_), TypeOf(_, _), BreakTypes(_, _), Runs(_), calls_exit(_), exits_well(_),
          jumps_well(_, _), annotated(_, _)

OutcomeOf(n) == node_outcome_state(n, each(OutcomeOf, n.s))

completes(n) == has_state(OutcomeOf(n), "NEXT")

-----------------------------------------------------------------------------
(* The type checker.  "CE" is the type of a tree that it refuses.          *)

type_merge(left, right) ==
  CASE "CE" \in {left, right} -> "CE"
    [] left = "never" -> right
    [] right = "never" -> left
    [] OTHER -> IF left = right THEN left ELSE "CE"

merge_all(types) == FoldLeft(type_merge, "never", types)

require(condition, type) == IF condition THEN type ELSE "CE"

(* NEVER passes for a number (type_is_number). *)
bool_or_number(type) == type \in {"bool", "never"}

return_type(kind) == IF kind = "fnb" THEN "bool" ELSE "unit"

(* The types of the breaks that leave the loop whose body is n. *)
BreakTypes(n, ret) ==
  LET below == UNION {BreakTypes(n.s[i], ret) : i \in DOMAIN n.s}
  IN CASE n.k \in Loops \cup FunctionKinds -> {}
       [] n.k = "brk" -> below \cup {IF n.s = << >> THEN "unit" ELSE TypeOf(n.s[1], ret)}
       [] OTHER -> below

(* The type of a node, given the types of its children in order. *)
literal_type(n) == IF n.k = "unit" THEN "unit" ELSE "bool"

(* A call, a let and an assignment check their operand against bool. *)
checked_type(types) == require(merge_all(<<"bool">> \o types) = "bool", "unit")

binary_type(n, types) ==
  IF n.k = "xor"
    THEN require(\A i \in 1..2 : bool_or_number(types[i]), merge_all(types))
    ELSE require(types = <<"bool", "bool">>, "bool")

unary_type(operand) == require(bool_or_number(operand), operand)

returned_type(ret, types) ==
  require(type_merge(ret, IF types = << >> THEN "unit" ELSE types[1]) # "CE", "never")

if_type(n, types) ==
  IF completes(n)
    THEN require(types[1] = "bool", type_merge(types[2], IF Len(types) = 3 THEN types[3] ELSE "unit"))
    ELSE "never"

while_type(condition, breaks) == require(condition = "bool" /\ breaks \subseteq {"unit", "never"}, "unit")

loop_type(breaks) == merge_all(SetToSeq(breaks))

block_type(n, types) ==
  CASE ~completes(n) -> "never"
    [] completes(n) /\ n.k = "blockt" -> Last(types)
    [] OTHER -> "unit"

function_type(n, types) == require(type_merge(types[1], return_type(n.k)) # "CE", "unit")

(* The type ExprTypeAndLetStmtVisitor gives n in a function returning ret, *)
(* types being those of its children in order.                             *)
node_type(n, ret, types) ==
  LET breaks == UNION {BreakTypes(n.s[i], ret) : i \in DOMAIN n.s}
      given ==
        CASE n.k \in {"true", "false", "x", "ask", "unit"} -> literal_type(n)
          [] n.k = "exit" -> "unit"
          [] n.k \in {"say", "let", "asg"} -> checked_type(types)
          [] n.k \in {"xor"} \cup ShortCircuit -> binary_type(n, types)
          [] n.k = "not" -> unary_type(types[1])
          [] n.k = "ret" -> returned_type(ret, types)
          [] n.k \in {"brk", "cont"} -> "never"
          [] n.k = "while" -> while_type(types[1], breaks)
          [] n.k = "loop" -> loop_type(breaks)
          [] n.k \in FunctionKinds -> function_type(n, types)
          [] n.k = "if" -> if_type(n, types)
          [] n.k \in Blocks -> block_type(n, types)
  IN  IF "CE" \in Range(types) THEN "CE" ELSE given

(* What functions inside n return, when n is in one that returns ret. *)
returned_in(n, ret) == IF n.k \in FunctionKinds THEN return_type(n.k) ELSE ret

TypeOf(n, ret) == node_type(n, ret, each(LAMBDA c : TypeOf(c, returned_in(n, ret)), n.s))

(* exit is for main only, and main has it in its last statement alone. *)
calls_exit(n) ==
  n.k = "exit" \/ (n.k \notin FunctionKinds /\ \E i \in DOMAIN n.s : calls_exit(n.s[i]))

exits_well(n) ==
  /\ \A i \in DOMAIN n.s : exits_well(n.s[i])
  /\ n.k \in {"fn", "fnb"} => ~calls_exit(n.s[1])
  /\ n.k = "main" =>
       LET stmts == n.s[1].s
       IN  {i \in DOMAIN stmts : calls_exit(stmts[i])} = {Len(stmts)}

(* Every break and continue has a loop of its function around it. *)
jumps_well(n, inside) ==
  /\ n.k \in {"brk", "cont"} => inside
  /\ \A i \in DOMAIN n.s :
       jumps_well(n.s[i], n.k \in Loops \/ (inside /\ n.k \notin FunctionKinds))

well_formed(fn) == jumps_well(fn, FALSE) /\ exits_well(fn)
Accepted(fn) == well_formed(fn) /\ TypeOf(fn, "unit") # "CE"

(***************************************************************************)
(* The tree with what later passes look up: the type of every node, and    *)
(* whether its OutcomeState has NEXT (current_block_has_next).             *)
(***************************************************************************)
annotated(n, ret) ==
  LET below == each(LAMBDA c : annotated(c, returned_in(n, ret)), n.s)
  IN  [k |-> n.k, type |-> node_type(n, ret, each(LAMBDA c : c.type, below)), next |-> completes(n), s |-> below]

-----------------------------------------------------------------------------
(* The reference *)

Runs(n) == node_runs(n, each(Runs, n.s))
=============================================================================
