-------------------------------- MODULE Ast ---------------------------------
(***************************************************************************)
(* The control skeleton of the syntax tree (include/ast/ast.h).  A node is *)
(* a record [k |-> kind, s |-> sequence of children]; the data of a node   *)
(* that control does not depend on is left out.  Boolean is the one data   *)
(* type, `x' the one variable that is read, and every call is one of three:       *)
(*   say  - a call whose result is (), an observable effect,               *)
(*   ask  - a call that returns a bool the program cannot predict,         *)
(*   exit - the builtin that ends main.                                    *)
(* A function is one of three too: "fn" returns (), "fnb" a bool, "main"   *)
(* is main; its one child is its body, its one parameter is `x'.           *)
(***************************************************************************)
EXTENDS Naturals, Sequences

Leaf(k) == [k |-> k, s |-> << >>]
Node1(k, a) == [k |-> k, s |-> <<a>>]
Node2(k, a, b) == [k |-> k, s |-> <<a, b>>]
Node3(k, a, b, c) == [k |-> k, s |-> <<a, b, c>>]

(***************************************************************************)
(* A block has statements and perhaps a tail: kind "block" for the first,  *)
(* "blockt" when the last child is the tail statement (no semicolon).      *)
(***************************************************************************)
Stmts(n) == IF n.k = "blockt" THEN SubSeq(n.s, 1, Len(n.s) - 1) ELSE n.s

(* The sequence of Op(c) for the members c of s, built as a tuple. *)
each(Op(_), s) == SubSeq([i \in DOMAIN s |-> Op(s[i])], 1, Len(s))

Loops == {"while", "loop"}
Blocks == {"block", "blockt"}
ShortCircuit == {"and", "or"}
FunctionKinds == {"fn", "fnb", "main"}
=============================================================================
