---------------------------- MODULE ConstEvalSound ----------------------------
(***************************************************************************)
(* What constant evaluation promises: it implements Constants, it ends,    *)
(* and the constants of the module are those of the program.               *)
(***************************************************************************)
EXTENDS ConstEval

known_sizes ==
  [id \in DOMAIN const_expr_to_size_map \ program.cast_sizes |-> const_expr_to_size_map[id]]

outcome == CASE pass \in {"items", "queue"} -> "open"
             [] pass = "refused" -> "refused"
             [] pass = "trapped" -> "dead"
             [] OTHER -> "accepted"

Promise == INSTANCE Constants WITH value <- const_value_map, size <- known_sizes, verdict <- outcome

(* The value that the visitor gives a constant, through the flag, the      *)
(* values passed between visits and the two maps, is what its expression   *)
(* denotes in exact arithmetic under the scopes of the program; each size  *)
(* is the one its expression denotes, also when it is evaluated after all  *)
(* constants; values never change, nothing is left without one, and a      *)
(* program is refused only for an expression without value or a constant   *)
(* that names a later one (consteval.cpp, step 3 of semantic_checker.cpp). *)
(* It is no promise about a result that overflows, which the code wraps    *)
(* and consteval.md:20 wants detected, and it takes ! of an integer as     *)
(* Rust, the code and the type checker do, not as test_const_eval.cpp:120. *)
ImplementsConstants == Promise!Init /\ [][Promise!Next]_Promise!vars

(* Evaluation ends, in the module or in an error, for every program: also  *)
(* for constants defined in terms of each other.                           *)
EvaluationEnds == <>(pass \in {"done", "refused", "trapped", "failed"})

RECURSIVE holds(_, _, _)
holds(word, value, type) ==
  IF type.k = "arraytype"
  THEN /\ Len(word) = const_expr_to_size_map[type.a]
       /\ Len(word) = Len(value.elements)
       /\ \A i \in DOMAIN word : holds(word[i], value.elements[i], type.s[1])
  ELSE /\ (word.n - value.value) % 2 ^ Width = 0
       /\ word.type = CASE value.kind = "bool" -> "i1" [] value.kind = "char" -> "i8" [] OTHER -> "i32"

(* The initializer of a constant array has as many elements as its IR type *)
(* says, at every level, and they are the words the expression denotes     *)
(* (emit_const takes the type from one map and the elements from another). *)
GlobalsHoldConstants ==
  \A d \in DOMAIN globals :
    LET type == program.items[Promise!item_of(program, d)].s[1]
        denoted == Promise!Denotation(program, d)
    IN denoted # Promise!Overflow => holds(globals[d], denoted, type)
=============================================================================
