------------------------------ MODULE Outcomes ------------------------------
(***************************************************************************)
(* The outcome algebra of semantic/controlflow: an OutcomeState is the set *)
(* of ways in which control may leave a syntax node, and the five          *)
(* functions below combine the states of the children of a node.           *)
(*                                                                         *)
(* The code keeps an OutcomeState in a std::bitset<4> although OutcomeType *)
(* has five members: DIVERGE is index 4, outside the bitset.  What         *)
(* `result[4] = true' leaves behind is not defined by the language: with   *)
(* the one-word bitset of libstdc++ the bit survives, with a masked word   *)
(* it is lost.  DivergeMark is what that write adds: {"DIVERGE"} or {}.    *)
(***************************************************************************)

EXTENDS Ast, SequencesExt

CONSTANT DivergeMark   \* what setting bit 4 of the bitset<4> leaves in it

ASSUME DivergeMarkAssumption == DivergeMark \subseteq {"DIVERGE"}

OutcomeType == {"NEXT", "RETURN", "BREAK", "CONTINUE", "DIVERGE"}

OutcomeState == SUBSET OutcomeType

has_state(states, state) == state \in states

(***************************************************************************)
(* `first' is followed by `second' exactly where it may complete normally. *)
(***************************************************************************)
sequence_outcome_state(first, second) ==
  IF has_state(first, "NEXT") THEN (first \ {"NEXT"}) \cup second ELSE first

both_branches(Condition, if_branch, else_branch) ==      \* mutant of ifelse_outcome_state
  sequence_outcome_state(Condition, if_branch \cap else_branch)

ifelse_outcome_state(Condition, if_branch, else_branch) ==
  sequence_outcome_state(Condition, if_branch \cup else_branch)

(***************************************************************************)
(* The outcomes of a loop body that leave the loop as well.  A write of    *)
(* DIVERGE goes through the out-of-range bit again.                        *)
(***************************************************************************)
escaping(body) ==
  (body \cap {"RETURN"}) \cup (IF has_state(body, "DIVERGE") THEN DivergeMark ELSE {})

while_outcome_state(Condition, body) ==
  IF has_state(Condition, "NEXT") THEN Condition \cup escaping(body) ELSE Condition

loop_outcome_state(body) ==
  IF has_state(body, "BREAK")
    THEN {"NEXT"} \cup escaping(body)
    ELSE DivergeMark \cup (body \cap {"RETURN"})

(* One node after the other, in the order of outs. *)
all_in_sequence(outs) ==
  LET state[i \in 0..Len(outs)] ==
        IF i = 0 THEN {"NEXT"} ELSE sequence_outcome_state(state[i - 1], outs[i])
  IN  state[Len(outs)]

(***************************************************************************)
(* What ControlFlowVisitor records for node n once its children have been  *)
(* visited, outs being their states in order.  A unary operator and a jump *)
(* forget their operand's state; `continue' is recorded as BREAK; a nested *)
(* function is a declaration and completes.                                *)
(***************************************************************************)
node_outcome_state(n, outs) ==
  CASE n.k \in {"not"} \cup FunctionKinds -> {"NEXT"}
    [] n.k = "ret" -> {"RETURN"}
    [] n.k \in {"brk", "cont"} -> {"BREAK"}
    [] n.k = "while" -> while_outcome_state(outs[1], outs[2])
    [] n.k = "loop" -> loop_outcome_state(outs[1])
    [] n.k = "if" -> ifelse_outcome_state(outs[1], outs[2], IF Len(outs) = 3 THEN outs[3] ELSE {"NEXT"})
    [] OTHER -> all_in_sequence(outs)

-----------------------------------------------------------------------------
(***************************************************************************)
(* The reference for outcomes: how an execution of a node can end, given   *)
(* how its children can.  It decides no condition: each test, `ask' and    *)
(* operand may go either way.                                              *)
(***************************************************************************)
normally(runs) == "NEXT" \in runs

then(first, second) == IF normally(first) THEN (first \ {"NEXT"}) \cup second ELSE first

(* One child after the other, each as long as those before it complete. *)
entered(runs) == {i \in DOMAIN runs : \A j \in DOMAIN runs : j < i => normally(runs[j])}

in_turn(runs) ==
  (UNION {runs[i] \ {"NEXT"} : i \in entered(runs)})
    \cup {r \in {"NEXT"} : \A i \in DOMAIN runs : normally(runs[i])}

node_runs(n, runs) ==
  CASE n.k \in FunctionKinds -> {"NEXT"}
    [] n.k = "ret" -> then(in_turn(runs), {"RETURN"})
    [] n.k = "brk" -> then(in_turn(runs), {"BREAK"})
    [] n.k = "cont" -> then(in_turn(runs), {"CONTINUE"})
    [] n.k \in ShortCircuit -> then(runs[1], {"NEXT"} \cup runs[2])
    [] n.k = "if" -> then(runs[1], runs[2] \cup (IF Len(runs) = 3 THEN runs[3] ELSE {"NEXT"}))
    [] n.k = "while" -> then(runs[1], {"NEXT"} \cup (runs[2] \cap {"RETURN"}))
    [] n.k = "loop" -> {r \in {"RETURN"} : r \in runs[1]} \cup {r \in {"NEXT"} : "BREAK" \in runs[1]}
    [] OTHER -> in_turn(runs)
=============================================================================
