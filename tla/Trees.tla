-------------------------------- MODULE Trees --------------------------------
(***************************************************************************)
(* The nodes of a syntax tree.  A node is known by its path, the child     *)
(* indices that lead to it from the root.                                  *)
(***************************************************************************)
EXTENDS Ast, SequencesExt

CONSTANT MaxNesting    \* how deep the trees are

ASSUME NestingAssumption == MaxNesting \in Nat

At(n, path) ==
  LET walk[i \in 0..Len(path)] == IF i = 0 THEN n ELSE walk[i - 1].s[path[i]]
  IN  walk[Len(path)]

(* The paths of each length. *)
Level(n) ==
  LET level[k \in 0..MaxNesting] ==
        IF k = 0 THEN {<< >>} ELSE UNION {{Append(p, i) : i \in DOMAIN At(n, p).s} : p \in level[k - 1]}
  IN  level

PathsOf(n) == UNION {Level(n)[k] : k \in 0..MaxNesting}

(* Every node has a sequence of children, and no path is too long. *)
is_tree(n) ==
  /\ Level(n)[MaxNesting] = {}
  /\ \A p \in PathsOf(n) : Len(At(n, p).s) \in Nat /\ DOMAIN At(n, p).s = 1..Len(At(n, p).s)
=============================================================================
