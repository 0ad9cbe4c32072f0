----------------------------- MODULE IRGenPoint -----------------------------
(***************************************************************************)
(* Where IRGenVisitor stands: current_block, block_sealed and the          *)
(* insertion point of the builder, in programs whose operands complete;    *)
(* and which programs are lowered without a throw.                         *)
(* Nothing here is recursive: what must hold of every node of a program is *)
(* a condition on the members of a set that is closed under children.      *)
(***************************************************************************)
EXTENDS IRGen

CONSTANT OrderlyNodes

-----------------------------------------------------------------------------
(* Orderly programs *)

(* The children whose values a visit needs. *)
operands(n) ==
  {i \in DOMAIN n.s :
     \/ n.k \in {"not", "xor", "asg", "let", "say", "ret", "brk"} \cup ShortCircuit
     \/ n.k \in {"if", "while"} /\ i = 1}

ends_in_exit(n) == n.k = "block" /\ n.s # << >> /\ Last(n.s).k = "exit"

(* Lowering goes on behind n: exit seals its block although it has NEXT. *)
completes(n) == n.next /\ n.k # "exit" /\ ~ends_in_exit(n)

right_arity(n) ==
  /\ n.k \in {"not", "asg", "let", "loop"} \cup FunctionKinds => Len(n.s) = 1
  /\ n.k \in {"xor", "while"} \cup ShortCircuit => Len(n.s) = 2
  /\ n.k = "if" => Len(n.s) \in {2, 3}
  /\ n.k = "blockt" => Len(n.s) >= 1
  /\ n.k = "say" => Len(n.s) <= 2
  /\ n.k \in {"ret", "brk"} => Len(n.s) <= 1

(* next is what the analysis found: a jump does not complete, and a block  *)
(* completes only if all in it do.  An operand, and what stands in front   *)
(* of a tail, completes; a tail that does not has no value.                *)
orderly_node(n) ==
  /\ right_arity(n)
  /\ n.k \in {"ret", "brk", "cont"} => ~n.next
  /\ n.k \in Blocks /\ completes(n) => \A i \in DOMAIN n.s : completes(n.s[i])
  /\ n.k = "blockt" => \A i \in DOMAIN n.s : i < Len(n.s) => completes(n.s[i])
  /\ n.k = "blockt" => completes(Last(n.s)) \/ Last(n.s).type \in {"unit", "never"}
  /\ n.k = "fnb" /\ n.s[1].next => completes(n.s[1])
  /\ \A i \in operands(n) : completes(n.s[i])

ASSUME OrderlyAssumption ==
  \A n \in OrderlyNodes :
    /\ n.s \in Seq(OrderlyNodes)
    /\ n.next \in BOOLEAN
    /\ orderly_node(n)

orderly == program \in OrderlyNodes /\ program.k \in FunctionKinds

-----------------------------------------------------------------------------
(* Sound programs: what is read has a value, and every jump has its loop *)

CONSTANT SoundPlaces    \* nodes with what stands around them

(* loop: what is known of the slot of the innermost loop.  held: in the    *)
(* value of a break.  result: the function has a return slot.  closes: the *)
(* branch of a valued if that this node ends does not complete.            *)
TopPlace == [loop |-> "none", held |-> FALSE, result |-> FALSE, closes |-> FALSE]

place_of(n, c, i) ==
  IF n.k \in FunctionKinds THEN [TopPlace EXCEPT !.result = n.k # "fn"]
  ELSE [loop |-> CASE n.k = "loop" /\ needs_result(n) -> "valued"
                   [] n.k = "loop" /\ ~needs_result(n) -> "plain"
                   [] n.k = "while" /\ i = 2 -> "plain"
                   [] OTHER -> c.loop,
        held |-> c.held \/ n.k = "brk",
        result |-> c.result,
        closes |-> \/ n.k = "if" /\ i > 1 /\ needs_result(n) /\ ~n.s[i].next
                   \/ n.k = "blockt" /\ i = Len(n.s) /\ c.closes]

(* The children whose values are read. *)
read_children(n, c) ==
  {i \in operands(n) : (n.k = "ret" => c.result) /\ (n.k = "brk" => c.loop # "plain")}
    \cup {i \in DOMAIN n.s :
           \/ n.k = "if" /\ i > 1 /\ needs_result(n) /\ n.s[i].next
           \/ n.k = "blockt" /\ i = Len(n.s) /\ (needs_result(n) \/ needs_result(n.s[i]))
           \/ n.k = "fnb" /\ n.s[1].next}

sound_place(n, c) ==
  /\ n.k \in Loops => ~c.held
  /\ n.k \in {"brk", "cont"} => c.loop # "none"
  /\ ~(n.next /\ n.type = "never")
  /\ \A i \in read_children(n, c) : needs_result(n.s[i])
  /\ needs_result(n) => n.k \notin {"unit", "say", "let", "while", "block"} \cup FunctionKinds
  /\ needs_result(n) /\ n.k = "if" => Len(n.s) = 3
  /\ c.closes =>
       /\ n.k \in {"block", "blockt", "ret", "brk", "cont"}
       /\ n.k = "block" => \E i \in DOMAIN n.s : ~n.s[i].next
       /\ n.k = "blockt" => ~Last(n.s).next

ASSUME SoundAssumption ==
  \A p \in SoundPlaces :
    /\ sound_place(p[1], p[2])
    /\ \A i \in DOMAIN p[1].s : <<p[1].s[i], place_of(p[1], p[2], i)>> \in SoundPlaces

sound == orderly /\ <<program, TopPlace>> \in SoundPlaces

-----------------------------------------------------------------------------
(* Properties *)

(***************************************************************************)
(* Lowering a sound program never throws: get_rvalue finds a value or a    *)
(* slot, no block gets a second terminator, and no jump lacks its loop.    *)
(***************************************************************************)
NeverThrows == sound => ~gen.failed

block_numbers == DOMAIN gen.blocks

(***************************************************************************)
(* Between visits current_block, block_sealed and the builder agree: where *)
(* the visitor believes it is in an open block, the builder stands there   *)
(* and the block has no terminator yet.                                    *)
(***************************************************************************)
PointFollowsContext ==
  orderly /\ live(gen) =>
    /\ gen.insertion_block = gen.ctx.current_block
    /\ ~ends_in_terminator(gen.blocks[gen.ctx.current_block])

(* new is old with one slot in front of its terminator. *)
slot_added(old, new) ==
  /\ Len(new) = Len(old) + 1
  /\ new[Len(new)] = old[Len(old)]
  /\ new[Len(old)].op \in {"alloca", "alloca_void"}
  /\ \A i \in 1..Len(old) - 1 : new[i] = old[i]

no_late_code ==
  \A b \in block_numbers :
    ends_in_terminator(gen.blocks[b]) =>
      gen'.blocks[b] = gen.blocks[b] \/ slot_added(gen.blocks[b], gen'.blocks[b])

(***************************************************************************)
(* Once a block has its terminator it gets no more code: what a step puts  *)
(* in front of the terminator is a slot.                                   *)
(***************************************************************************)
NoLateCode == [][orderly => no_late_code]_vars
=============================================================================
