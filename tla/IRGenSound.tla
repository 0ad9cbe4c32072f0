----------------------------- MODULE IRGenSound -----------------------------
(***************************************************************************)
(* What the blocks that IRGenVisitor leaves behind must satisfy, and which *)
(* programs it is known to get wrong.                                      *)
(***************************************************************************)
EXTENDS Execution, IRGenPoint

CONSTANT MaxBits    \* answers given to ask

RECURSIVE PathsOf(_), assigns(_), has_loop(_), breaks_out(_), returns(_), revives(_)

PathsOf(n) == {<< >>} \cup UNION {{<<i>> \o p : p \in PathsOf(n.s[i])} : i \in DOMAIN n.s}

(* Does n assign x, contain a loop, or break a loop outside n? *)
assigns(n) == n.k = "asg" \/ \E i \in DOMAIN n.s : assigns(n.s[i])
has_loop(n) == n.k \in Loops \/ \E i \in DOMAIN n.s : has_loop(n.s[i])
breaks_out(n) ==
  \/ n.k \in {"brk", "cont"}
  \/ n.k \notin Loops \cup FunctionKinds /\ \E i \in DOMAIN n.s : breaks_out(n.s[i])

returns(n) == n.k = "ret" \/ (n.k \notin FunctionKinds /\ \E i \in DOMAIN n.s : returns(n.s[i]))

(* n does not complete, but what follows it is lowered into an open block. *)
revives(n) ==
  ~n.next /\ (n.k \in {"if", "loop"} \/ (n.k = "blockt" /\ revives(Last(n.s))))

(***************************************************************************)
(* The programs the generator gets wrong, each by what is wrong in it.     *)
(***************************************************************************)
operand_jumps(n) ==            \* an operand does not complete, or may not
  \E i \in operands(n) : ~n.s[i].next \/ breaks_out(n.s[i])
read_late(n) ==                \* x is loaded after a later operand has assigned it
  n.k \in {"xor", "say"} /\ \E i, j \in DOMAIN n.s : i < j /\ n.s[i].k = "x" /\ assigns(n.s[j])
dead_tail(n) ==                \* a tail that is never reached is lowered all the same
  n.k = "blockt" /\ \E i \in 1..Len(n.s) - 1 : ~n.s[i].next
never_with_next(n) ==          \* a loop that only continues: a slot of type void
  n.next /\ n.type = "never"
dead_branch(n) ==              \* the value of a branch that does not complete is stored
  n.k = "if" /\ needs_result(n) /\ \E i \in 2..Len(n.s) : revives(n.s[i])
stale_loop(n) ==               \* the value of a break contains a loop
  n.k = "brk" /\ \E i \in DOMAIN n.s : has_loop(n.s[i])
no_exit_code(n) ==            \* main may end without having called exit
  n.k = "main" /\ (returns(n.s[1]) \/ Last(n.s[1].s).k # "exit")

Ordinary(tree) ==
  \A p \in PathsOf(tree) :
    LET n == At(tree, p)
    IN  ~(\/ operand_jumps(n) \/ read_late(n) \/ dead_tail(n)
           \/ never_with_next(n)
           \/ dead_branch(n) \/ stale_loop(n) \/ no_exit_code(n))

ordinary == Ordinary(program)
done == stack = << >> /\ ~gen.failed

-----------------------------------------------------------------------------
(* Properties *)

(***************************************************************************)
(* The lowered function does what the program says: the same observations  *)
(* in the same order, whatever the argument and the answers.               *)
(***************************************************************************)
SameBehaviour == ordinary /\ done => \A p \in DOMAIN gen.entries : faithful(p, MaxBits)

successors(b) ==
  IF ends_in_terminator(gen.blocks[b]) THEN ToSet(Last(gen.blocks[b]).to) ELSE {}

RECURSIVE reachable(_)
reachable(bs) ==
  LET more == bs \cup UNION {successors(b) : b \in bs}
  IN  IF more = bs THEN bs ELSE reachable(more)

blocks_of(p) == reachable({gen.entries[p]})

(***************************************************************************)
(* Every block that control can reach ends in a terminator, and nested     *)
(* functions share no block with the function around them.                 *)
(***************************************************************************)
WellFormedGraph ==
  ordinary /\ done =>
    /\ \A p \in DOMAIN gen.entries : \A b \in blocks_of(p) : ends_in_terminator(gen.blocks[b])
    /\ \A p, q \in DOMAIN gen.entries : p # q => blocks_of(p) \cap blocks_of(q) = {}

only_stale(tree) ==
  \A p \in PathsOf(tree) :
    LET n == At(tree, p)
    IN  ~(\/ operand_jumps(n) \/ read_late(n) \/ dead_tail(n) \/ never_with_next(n)
           \/ dead_branch(n) \/ no_exit_code(n))

(***************************************************************************)
(* break writes its value into the slot of its loop, a value that contains *)
(* a loop included (IRGen.md, BreakExpr).                                  *)
(***************************************************************************)
BreakValueStored == only_stale(program) => ~gen.failed
=============================================================================
