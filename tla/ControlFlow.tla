---------------------------- MODULE ControlFlow -----------------------------
(***************************************************************************)
(* ControlFlowVisitor (semantic/controlflow) at work on one function.  The *)
(* visitor is an AST_Walker: it enters a node, visits its children in      *)
(* order, and then records the node's OutcomeState.  The C++ call stack is *)
(* the variable stack, its frames the visits that have not returned; a     *)
(* node is known by its path, the child indices that lead to it.           *)
(***************************************************************************)
EXTENDS Outcomes, Trees

CONSTANT Programs      \* the functions to analyse: trees of a kind in FunctionKinds

(* Visiting starts at a function item, the root of a finite tree. *)
ASSUME ProgramsAssumption == \A p \in Programs : p.k \in FunctionKinds /\ is_tree(p)

VARIABLES
  program,                 \* the tree being analysed
  stack,                   \* visits in progress, the innermost last
  loop_depth,              \* loops around the current node in its function
  node_outcome_state_map,  \* path -> OutcomeState, for the nodes left so far
  status                   \* "visiting", "done", or "CE": a jump was refused

vars == <<program, stack, loop_depth, node_outcome_state_map, status>>

(* A visit: the node, its path, and loop_depth before the node was entered. *)
frame(n, path, depth) == [node |-> n, path |-> path, prev_loop_depth |-> depth]

top == Last(stack)
visited(path) == path \in DOMAIN node_outcome_state_map

(* The next child to visit: the first one that has no outcome. *)
children(f) == DOMAIN f.node.s
pending(f) == {i \in children(f) : ~visited(Append(f.path, i))}
next_child(f) == CHOOSE i \in pending(f) : \A j \in pending(f) : i <= j

depth_inside(kind) ==
  CASE kind \in Loops -> loop_depth + 1
    [] kind \in FunctionKinds -> 0
    [] OTHER -> loop_depth

Init ==
  /\ program \in Programs
  /\ stack = <<frame(program, << >>, 0)>>
  /\ loop_depth = 0
  /\ node_outcome_state_map = [path \in {} |-> {}]
  /\ status = "visiting"

never_refused(kind) == FALSE                             \* mutant of refused

(* A break or continue is checked before its operand is visited. *)
refused(kind) == kind \in {"brk", "cont"} /\ loop_depth = 0

Enter ==
  /\ status = "visiting"
  /\ stack # << >>
  /\ pending(top) # {}
  /\ LET i == next_child(top)
         n == top.node.s[i]
     IN IF refused(n.k)
          THEN /\ status' = "CE"
               /\ UNCHANGED <<stack, loop_depth>>
          ELSE /\ stack' = Append(stack, frame(n, Append(top.path, i), loop_depth))
               /\ loop_depth' = depth_inside(n.k)
               /\ UNCHANGED status
  /\ UNCHANGED <<program, node_outcome_state_map>>

depth_kept(f) ==                                         \* mutant of depth_after
  IF f.node.k \in Loops THEN loop_depth - 1 ELSE loop_depth

(* A loop counts back, a function restores what it saved. *)
depth_after(f) ==
  CASE f.node.k \in Loops -> loop_depth - 1
    [] f.node.k \in FunctionKinds -> f.prev_loop_depth
    [] OTHER -> loop_depth

first_child_twice(f) ==                                  \* mutant of child_states
  [i \in children(f) |-> node_outcome_state_map[Append(f.path, 1)]]

child_states(f) == [i \in children(f) |-> node_outcome_state_map[Append(f.path, i)]]

record(path, state) ==
  [p \in DOMAIN node_outcome_state_map \cup {path} |->
     IF p = path THEN state ELSE node_outcome_state_map[p]]

Leave ==
  /\ status = "visiting"
  /\ stack # << >>
  /\ pending(top) = {}
  /\ node_outcome_state_map' = record(top.path, node_outcome_state(top.node, child_states(top)))
  /\ stack' = Front(stack)
  /\ loop_depth' = depth_after(top)
  /\ UNCHANGED <<program, status>>

Finish ==
  /\ status = "visiting"
  /\ stack = << >>
  /\ status' = "done"
  /\ UNCHANGED <<program, stack, loop_depth, node_outcome_state_map>>

Next == Enter \/ Leave \/ Finish

Spec == Init /\ [][Next]_vars

-----------------------------------------------------------------------------
(* Properties *)

in_function(i) == \A j \in i + 1..Len(stack) : stack[j].node.k \notin FunctionKinds

(***************************************************************************)
(* loop_depth is the number of loops of the current function around the    *)
(* current node: nested functions neither see the loops around them nor    *)
(* disturb the count for what follows them.                                *)
(***************************************************************************)
DepthCountsLoops ==
  loop_depth = Cardinality({i \in DOMAIN stack : stack[i].node.k \in Loops /\ in_function(i)})

stray(path) ==
  /\ At(program, path).k \in {"brk", "cont"}
  /\ \A i \in 0..Len(path) - 1 :
       At(program, SubSeq(path, 1, i)).k \in Loops
         => \E j \in i + 1..Len(path) - 1 : At(program, SubSeq(path, 1, j)).k \in FunctionKinds

(***************************************************************************)
(* The visit refuses a program exactly when some break or continue has no  *)
(* loop of its own function around it, nested functions included, and the  *)
(* loops of the enclosing function do not count.                           *)
(***************************************************************************)
StrayJumpsRefused ==
  status # "visiting" => (status = "CE" <=> \E p \in PathsOf(program) : stray(p))
=============================================================================
