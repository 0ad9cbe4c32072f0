-------------------------- MODULE ControlFlowSound --------------------------
(***************************************************************************)
(* What the outcomes that ControlFlowVisitor records are for: the type     *)
(* checker gives a node without NEXT the type never, and the IR generator  *)
(* emits nothing after it.  Both are right only if a node that has no NEXT *)
(* never completes.                                                        *)
(***************************************************************************)
EXTENDS ControlFlow

CONSTANTS TreeOutcome(_),   \* the outcome of a tree on its own
          TreeRuns(_)       \* how an execution of a tree can end

right_arity(n) ==
  /\ n.k \in ShortCircuit \cup {"while"} => Len(n.s) = 2
  /\ n.k = "if" => Len(n.s) \in {2, 3}
  /\ n.k = "loop" => Len(n.s) = 1

(***************************************************************************)
(* Both are computed from the leaves upwards.  On finite trees this        *)
(* determines them, and says without recursion what they are.              *)
(***************************************************************************)
ASSUME ReferenceAssumption ==
  \A tree \in Programs : \A p \in PathsOf(tree) :
    LET n == At(tree, p)
    IN  /\ right_arity(n)
        /\ TreeOutcome(n) = node_outcome_state(n, [i \in DOMAIN n.s |-> TreeOutcome(n.s[i])])
        /\ TreeRuns(n) = node_runs(n, [i \in DOMAIN n.s |-> TreeRuns(n.s[i])])

(***************************************************************************)
(* Operands whose jumps the analysis does not see: those of a unary        *)
(* operator, of return and break, and the right operand of && and || when  *)
(* it never completes.                                                     *)
(***************************************************************************)
masks_jump(n) ==
  \/ n.k \in {"not", "ret", "brk"} /\ \E i \in DOMAIN n.s : TreeRuns(n.s[i]) # {"NEXT"}
  \/ n.k \in ShortCircuit /\ ~has_state(TreeOutcome(n.s[2]), "NEXT")

Plain(tree) == \A p \in PathsOf(tree) : ~masks_jump(At(tree, p))

completion_recorded ==
  \A p \in DOMAIN node_outcome_state_map :
    normally(TreeRuns(At(program, p))) => has_state(node_outcome_state_map[p], "NEXT")

(***************************************************************************)
(* Where no operand hides a jump, a node that can complete has NEXT, so    *)
(* the code after it is neither typed never nor dropped.                   *)
(***************************************************************************)
NextSound == Plain(program) => completion_recorded

(***************************************************************************)
(* An accepted visit leaves every node with the outcome its subtree has on *)
(* its own: no state of the visitor leaks from one part of the tree into   *)
(* another.                                                                *)
(***************************************************************************)
OutcomesCompositional ==
  status = "done" =>
    /\ DOMAIN node_outcome_state_map = PathsOf(program)
    /\ \A p \in PathsOf(program) : node_outcome_state_map[p] = TreeOutcome(At(program, p))
=============================================================================
