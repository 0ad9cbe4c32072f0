---------------------------- MODULE MCControlFlow ----------------------------
(***************************************************************************)
(* ControlFlow for TLC: functions of one statement, three levels of        *)
(* constructs deep, with one deep child and shallow siblings.              *)
(***************************************************************************)
EXTENDS ControlFlowSound

Analysis == INSTANCE Semantics
MCTreeOutcome(n) == Analysis!OutcomeOf(n)
MCTreeRuns(n) == Analysis!Runs(n)

Block1(a) == Node1("block", a)
Fn(a) == Node1("fn", Block1(a))

Shallow == {Leaf("ask"), Leaf("ret"), Leaf("brk"), Leaf("cont")}

(* Every construct around a, a sibling b where it has one. *)
Around(a, b) ==
  {Node1("not", a), Node1("ret", a), Node1("brk", a), Node1("say", a), Node1("loop", Block1(a)), Fn(a),
   Node2("and", b, a), Node2("xor", a, b),
   Node2("block", a, b), Node2("blockt", b, a), Node2("blockt", a, Leaf("true")),
   Node2("while", a, Block1(b)), Node2("while", b, Block1(a)),
   Node2("if", a, Block1(b)), Node2("if", b, Block1(a)),
   Node3("if", b, Block1(a), Block1(b)), Node3("if", Leaf("ask"), Block1(b), Block1(a))}

One == Shallow \cup UNION {Around(a, b) : a, b \in Shallow}

Two == UNION {Around(a, Leaf("ask")) : a \in One}

(* A third level: what hides, resets or swallows the outcome inside. *)
Three ==
  UNION {{Node1("loop", Block1(a)), Node1("not", a), Node2("blockt", a, Leaf("true")),
          Node2("while", a, Block1(Leaf("ask"))), Fn(a)} : a \in Two}

MCPrograms == {Fn(a) : a \in One \cup Two \cup Three}

(***************************************************************************)
(* A node of a program that the checker accepts has NEXT if it can         *)
(* complete, whatever its operands (controlflow.md: the analysis decides   *)
(* whether an expression is certain to return).                            *)
(***************************************************************************)
NextSoundWhenAccepted == Analysis!Accepted(program) => completion_recorded
=============================================================================
