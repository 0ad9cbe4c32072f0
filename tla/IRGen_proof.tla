----------------------------- MODULE IRGen_proof -----------------------------
(***************************************************************************)
(* Proofs about IRGen, for any set of orderly programs: where the visitor  *)
(* stands (PointFollowsContext), what it may still put into a block        *)
(* (NoLateCode) and, if the program is sound, that it does not throw       *)
(* (NeverThrows).                                                          *)
(***************************************************************************)
EXTENDS IRGenPoint, BasicBlocks_proof

-----------------------------------------------------------------------------
(* Shapes: which fields there are, and that blocks hold code *)

is_gen(g) ==
  g = [ctx |-> g.ctx, insertion_block |-> g.insertion_block, blocks |-> g.blocks,
       registers |-> g.registers, expr_value |-> g.expr_value, expr_address |-> g.expr_address,
       entries |-> g.entries, failed |-> g.failed]

is_ctx(c) ==
  c = [entry_block |-> c.entry_block, return_block |-> c.return_block,
       current_block |-> c.current_block, block_sealed |-> c.block_sealed,
       return_slot |-> c.return_slot, local_slots |-> c.local_slots,
       loop_stack |-> c.loop_stack, loop_capacity |-> c.loop_capacity]

is_frame(f) ==
  f = [node |-> f.node, path |-> f.path, at |-> f.at, function |-> f.function,
       blocks |-> f.blocks, slot |-> f.slot, loop |-> f.loop, prev |-> f.prev]

Good(g) ==
  /\ is_gen(g)
  /\ is_ctx(g.ctx)
  /\ g.ctx.entry_block \in DOMAIN g.blocks \cup {NoBlock}
  /\ is_seq(g.blocks)
  /\ \A b \in DOMAIN g.blocks : is_code(g.blocks[b])

open(g) == {b \in DOMAIN g.blocks : ~ends_in_terminator(g.blocks[b])}

LEMMA BlocksShape ==
  ASSUME NEW g, Good(g)
  PROVE  Len(g.blocks) \in Nat /\ DOMAIN g.blocks = 1..Len(g.blocks)
BY DEF Good, is_seq

-----------------------------------------------------------------------------
(* What the helpers change *)

same_place(g, h) ==
  /\ h.insertion_block = g.insertion_block
  /\ h.ctx.current_block = g.ctx.current_block
  /\ h.ctx.block_sealed = g.ctx.block_sealed
  /\ h.ctx.return_block = g.ctx.return_block
  /\ h.ctx.entry_block = g.ctx.entry_block

(* g and h differ in fields that no block depends on. *)
alike(g, h) ==
  /\ Good(h)
  /\ h.ctx = g.ctx
  /\ h.insertion_block = g.insertion_block
  /\ h.blocks = g.blocks

LEMMA OtherFields ==
  ASSUME NEW g, Good(g), NEW v
  PROVE  /\ alike(g, [g EXCEPT !.registers = v])
         /\ alike(g, [g EXCEPT !.expr_value = v])
         /\ alike(g, [g EXCEPT !.expr_address = v])
         /\ alike(g, [g EXCEPT !.entries = v])
         /\ alike(g, [g EXCEPT !.failed = TRUE])
<1> USE DEF alike, Good, is_gen
<1>1. alike(g, [g EXCEPT !.registers = v])
  OBVIOUS
<1>2. alike(g, [g EXCEPT !.expr_value = v])
  OBVIOUS
<1>3. alike(g, [g EXCEPT !.expr_address = v])
  OBVIOUS
<1>4. alike(g, [g EXCEPT !.entries = v])
  OBVIOUS
<1>5. ASSUME NEW h, h = [g EXCEPT !.failed = TRUE]
      PROVE  alike(g, h)
  BY <1>5
<1> HIDE DEF alike
<1> QED
  BY <1>1, <1>2, <1>3, <1>4, <1>5

(* What becomes of the blocks that have their terminator: nothing, or a slot is added. *)
kept(g, h) ==
  \A b \in DOMAIN g.blocks \ open(g) : b \in DOMAIN h.blocks /\ h.blocks[b] = g.blocks[b]
kept_but_slots(g, h) ==
  \A b \in DOMAIN g.blocks \ open(g) :
    /\ b \in DOMAIN h.blocks \ open(h)
    /\ h.blocks[b] = g.blocks[b] \/ slot_added(g.blocks[b], h.blocks[b])

LEMMA KeptTwice ==
  ASSUME NEW g, NEW h, NEW k
  PROVE  /\ kept(g, h) /\ kept(h, k) => kept(g, k)
         /\ kept(g, h) => kept_but_slots(g, h)
         /\ kept(g, h) /\ kept_but_slots(h, k) => kept_but_slots(g, k)
         /\ kept_but_slots(g, h) /\ kept(h, k) => kept_but_slots(g, k)
BY DEF kept, kept_but_slots, open

(* Code for an open block, which stays open. *)
Emits(g, h) ==
  /\ Good(h)
  /\ same_place(g, h)
  /\ DOMAIN h.blocks = DOMAIN g.blocks
  /\ open(h) = open(g)
  /\ kept(g, h)

(* Code for an open block with a terminator at its end. *)
Closes(g, h, closed) ==
  /\ Good(h)
  /\ same_place(g, h)
  /\ DOMAIN h.blocks = DOMAIN g.blocks
  /\ open(h) = open(g) \ {closed}
  /\ kept(g, h)

LEMMA InsertChanges ==
  ASSUME NEW g, Good(g), NEW b \in DOMAIN g.blocks, NEW inst
  PROVE  LET h == insert(g, b, inst)
         IN  /\ Good(h)
             /\ h.ctx = g.ctx
             /\ same_place(g, h)
             /\ DOMAIN h.blocks = DOMAIN g.blocks
             /\ \A c \in DOMAIN g.blocks \ {b} : h.blocks[c] = g.blocks[c]
             /\ h.blocks[b] = IF append_throws(g.blocks[b], inst) THEN g.blocks[b]
                              ELSE append(g.blocks[b], inst)
<1> DEFINE h == insert(g, b, inst)
<1>1. b # NoBlock
  BY BlocksShape DEF NoBlock
<1>2. CASE append_throws(g.blocks[b], inst)
  <2>1. h = [g EXCEPT !.failed = TRUE]
    BY <1>1, <1>2 DEF insert
  <2>2. alike(g, h)
    BY <2>1, OtherFields
  <2> QED
    BY <1>2, <2>2 DEF alike, same_place
<1>3. CASE ~append_throws(g.blocks[b], inst)
  <2> DEFINE code == append(g.blocks[b], inst)
             new == [g.blocks EXCEPT ![b] = code]
  <2>1. h = [g EXCEPT !.blocks = new]
    BY <1>1, <1>3 DEF insert
  <2>2. is_code(code)
    BY <1>3, CodeAppend DEF Good
  <2>3. is_seq(g.blocks) /\ \A c \in DOMAIN g.blocks : is_code(g.blocks[c])
    BY DEF Good
  <2> HIDE DEF code
  <2>4. /\ DOMAIN new = DOMAIN g.blocks
        /\ new[b] = code
        /\ \A c \in DOMAIN g.blocks \ {b} : new[c] = g.blocks[c]
    OBVIOUS
  <2>5. is_seq(new)
    <3>1. g.blocks \in Seq(Range(g.blocks) \cup {code})
      BY <2>3, SeqMonotonic DEF is_seq
    <3>2. new \in Seq(Range(g.blocks) \cup {code})
      BY <3>1, ExceptSeq
    <3> QED
      BY <3>2, IsSeq
  <2>6. \A c \in DOMAIN new : is_code(new[c])
    BY <2>2, <2>3, <2>4
  <2> HIDE DEF new
  <2>7. h.blocks = new /\ h.ctx = g.ctx /\ h.insertion_block = g.insertion_block /\ is_gen(h)
    BY <2>1 DEF Good, is_gen
  <2>8. Good(h)
    BY <2>4, <2>5, <2>6, <2>7 DEF Good
  <2> QED
    BY <1>3, <2>4, <2>7, <2>8 DEF same_place, code
<1> QED
  BY <1>2, <1>3

(* An instruction for an open block: it stays open unless a terminator is put into it. *)
LEMMA InsertIntoOpen ==
  ASSUME NEW g, Good(g), NEW b \in open(g), NEW inst
  PROVE  /\ ~is_terminator(inst) => Emits(g, insert(g, b, inst))
         /\ is_terminator(inst) => Closes(g, insert(g, b, inst), b)
         /\ insert(g, b, inst).ctx = g.ctx
<1> DEFINE h == insert(g, b, inst)
<1>1. b \in DOMAIN g.blocks /\ ~ends_in_terminator(g.blocks[b])
  BY DEF open
<1>2. ~append_throws(g.blocks[b], inst)
  BY <1>1 DEF append_throws
<1>3. /\ Good(h)
      /\ h.ctx = g.ctx
      /\ same_place(g, h)
      /\ DOMAIN h.blocks = DOMAIN g.blocks
      /\ \A c \in DOMAIN g.blocks \ {b} : h.blocks[c] = g.blocks[c]
      /\ h.blocks[b] = append(g.blocks[b], inst)
  BY <1>1, <1>2, InsertChanges
<1> HIDE DEF h
<1>4. ends_in_terminator(h.blocks[b]) <=> is_terminator(inst)
  <2>1. is_code(g.blocks[b])
    BY <1>1 DEF Good
  <2> QED
    BY <1>1, <1>2, <1>3, <2>1, CodeAppend
<1>5. kept(g, h)
  BY <1>3 DEF kept
<1>6. ~is_terminator(inst) => open(h) = open(g)
  BY <1>1, <1>3, <1>4 DEF open
<1>7. is_terminator(inst) => open(h) = open(g) \ {b}
  BY <1>1, <1>3, <1>4 DEF open
<1> QED
  BY <1>3, <1>5, <1>6, <1>7 DEF Emits, Closes, h

(* The visitor stands in an open block. *)
standing(g) == live(g) /\ g.insertion_block = g.ctx.current_block /\ g.insertion_block \in open(g)

LEMMA EmitsStands ==
  ASSUME NEW g, NEW h, Emits(g, h)
  PROVE  (standing(g) => standing(h)) /\ (live(h) <=> live(g))
BY DEF Emits, same_place, standing, live

LEMMA EmitsTwice ==
  ASSUME NEW g, NEW h, NEW k, Emits(g, h), Emits(h, k)
  PROVE  Emits(g, k)
BY KeptTwice DEF Emits, same_place

LEMMA AlikeEmits ==
  ASSUME NEW g, NEW h, alike(g, h)
  PROVE  Emits(g, h)
BY DEF Emits, alike, same_place, open, kept

LEMMA EmitsNothing ==
  ASSUME NEW g, Good(g)
  PROVE  Emits(g, g) /\ Emits(g, [g EXCEPT !.failed = TRUE])
BY OtherFields, AlikeEmits DEF alike

LEMMA SetsEmit ==
  ASSUME NEW g, Good(g), NEW path, NEW v
  PROVE  Emits(g, set_value(g, path, v)) /\ Emits(g, set_address(g, path, v))
BY OtherFields, AlikeEmits DEF set_value, set_address

LEMMA EmitEmits ==
  ASSUME NEW g, Good(g), g.insertion_block \in open(g), NEW op, op \notin Terminators, NEW use
  PROVE  Emits(g, emit(g, op, use)) /\ Emits(g, define(g, op, use))
<1>1. Emits(g, emit(g, op, use))
  BY InsertIntoOpen DEF emit, instruction, is_terminator
<1>2. Emits(g, define(g, op, use))
  <2> DEFINE inst == instruction(op, g.registers + 1, use, << >>)
             h == insert(g, g.insertion_block, inst)
  <2>1. ~is_terminator(inst)
    BY DEF instruction, is_terminator
  <2> HIDE DEF inst
  <2>2. Emits(g, h)
    BY <2>1, InsertIntoOpen
  <2>3. Emits(h, [h EXCEPT !.registers = h.registers + 1])
    BY <2>2, OtherFields, AlikeEmits DEF Emits
  <2> HIDE DEF h
  <2>4. define(g, op, use) = [h EXCEPT !.registers = h.registers + 1]
    BY DEF define, define_in, h, inst
  <2> QED
    BY <2>2, <2>3, <2>4, EmitsTwice
<1> QED
  BY <1>1, <1>2

LEMMA StoreEmits ==
  ASSUME NEW g, Good(g), g.insertion_block \in open(g), NEW v, NEW slot
  PROVE  Emits(g, store(g, v, slot))
BY EmitEmits DEF store, Terminators

LEMMA BranchCloses ==
  ASSUME NEW g, Good(g), g.insertion_block \in open(g), NEW v, NEW then, NEW else
  PROVE  /\ Closes(g, create_br(g, then), g.insertion_block)
         /\ Closes(g, create_cond_br(g, v, then, else), g.insertion_block)
BY InsertIntoOpen DEF create_br, create_cond_br, instruction, is_terminator, Terminators

LEMMA RvalueEmits ==
  ASSUME NEW g, Good(g), g.insertion_block \in open(g), NEW path
  PROVE  Emits(g, get_rvalue(g, path).g)
<1>1. CASE path \in DOMAIN g.expr_value
  BY <1>1, EmitsNothing DEF get_rvalue
<1>2. CASE path \notin DOMAIN g.expr_value /\ path \in DOMAIN g.expr_address
  BY <1>2, EmitEmits DEF get_rvalue, Terminators
<1>3. CASE path \notin DOMAIN g.expr_value /\ path \notin DOMAIN g.expr_address
  BY <1>3, EmitsNothing DEF get_rvalue
<1> QED
  BY <1>1, <1>2, <1>3

LEMMA EnsureKeeps ==
  ASSUME NEW g, Good(g), standing(g)
  PROVE  ensure_current_insertion(g) = g
BY DEF ensure_current_insertion, standing, live, Good, is_gen, is_ctx

LEMMA ResultEmits ==
  ASSUME NEW g, Good(g), standing(g), NEW path, NEW slot
  PROVE  Emits(g, store_expression_result(g, path, slot))
<1> DEFINE r == get_rvalue(g, path)
<1>1. Emits(g, r.g) /\ standing(r.g) /\ Good(r.g)
  BY RvalueEmits, EmitsStands DEF standing, Emits
<1> HIDE DEF r
<1>2. Emits(r.g, store(r.g, r.value, slot))
  BY <1>1, StoreEmits DEF standing
<1>3. store_expression_result(g, path, slot) = store(r.g, r.value, slot)
  BY <1>1, EnsureKeeps DEF store_expression_result, r
<1> QED
  BY <1>1, <1>2, <1>3, EmitsTwice

LEMMA OperandsEmit ==
  ASSUME NEW g, Good(g), standing(g), NEW paths, Len(paths) \in 0..2
  PROVE  Emits(g, operand_values(g, paths).g)
<1> DEFINE first == get_rvalue(g, paths[1])
           second == get_rvalue(first.g, paths[2])
<1>1. Emits(g, first.g) /\ standing(first.g) /\ Good(first.g)
  BY RvalueEmits, EmitsStands DEF standing, Emits
<1>2. Emits(g, second.g)
  <2> HIDE DEF first
  <2>1. Emits(first.g, second.g)
    BY <1>1, RvalueEmits DEF standing
  <2> QED
    BY <1>1, <2>1, EmitsTwice
<1>3. CASE Len(paths) = 0
  <2>1. operand_values(g, paths) = [g |-> g, values |-> << >>]
    BY <1>3 DEF operand_values
  <2>2. operand_values(g, paths).g = g
    BY <2>1
  <2> QED
    BY <2>2, EmitsNothing
<1>4. CASE Len(paths) = 1
  BY <1>1, <1>4 DEF operand_values
<1>5. CASE Len(paths) = 2
  BY <1>2, <1>5 DEF operand_values
<1> QED
  BY <1>3, <1>4, <1>5

(* A slot in the entry block, whatever the entry block is by then. *)
Slots(g, h) ==
  /\ Good(h)
  /\ same_place(g, h)
  /\ DOMAIN h.blocks = DOMAIN g.blocks
  /\ open(h) = open(g)
  /\ kept_but_slots(g, h)

LEMMA SlotsStand ==
  ASSUME NEW g, NEW h, Slots(g, h)
  PROVE  (standing(g) => standing(h)) /\ (live(h) <=> live(g))
BY DEF Slots, same_place, standing, live

LEMMA EmitsAndSlots ==
  ASSUME NEW g, NEW h, NEW k
  PROVE  /\ Emits(g, h) => Slots(g, h)
         /\ Emits(g, h) /\ Slots(h, k) => Slots(g, k)
         /\ Slots(g, h) /\ Emits(h, k) => Slots(g, k)
BY KeptTwice DEF Emits, Slots, same_place

LEMMA AllocaSlots ==
  ASSUME NEW g, Good(g), NEW type
  PROVE  Slots(g, create_temp_alloca(g, type))
<1> DEFINE op == IF type = "never" THEN "alloca_void" ELSE "alloca"
           inst == instruction(op, g.registers + 1, << >>, << >>)
           h == insert(g, g.ctx.entry_block, inst)
<1>1. inst.op \in {"alloca", "alloca_void"} /\ ~is_terminator(inst)
  BY DEF instruction, is_terminator, Terminators
<1> HIDE DEF inst
<1>2. Slots(g, h)
  <2>1. CASE g.ctx.entry_block = NoBlock
    <3>1. h = [g EXCEPT !.failed = TRUE]
      BY <2>1 DEF insert
    <3> QED
      BY <3>1, EmitsNothing, EmitsAndSlots
  <2>2. CASE g.ctx.entry_block # NoBlock
    <3> DEFINE b == g.ctx.entry_block
               code == g.blocks[b]
    <3>1. b \in DOMAIN g.blocks /\ is_code(code)
      BY <2>2 DEF Good
    <3>2. ~append_throws(code, inst)
      BY <1>1 DEF append_throws
    <3>3. /\ Good(h)
          /\ same_place(g, h)
          /\ DOMAIN h.blocks = DOMAIN g.blocks
          /\ \A c \in DOMAIN g.blocks \ {b} : h.blocks[c] = g.blocks[c]
          /\ h.blocks[b] = append(code, inst)
      BY <3>1, <3>2, InsertChanges
    <3>4. ends_in_terminator(append(code, inst)) <=> ends_in_terminator(code)
      BY <1>1, <3>1, <3>2, CodeAppend
    <3>5. ends_in_terminator(code) => slot_added(code, append(code, inst))
      BY <1>1, <3>1, <3>2, CodeAppend DEF slot_added
    <3> HIDE DEF h
    <3>6. open(h) = open(g)
      BY <3>1, <3>3, <3>4 DEF open
    <3>7. kept_but_slots(g, h)
      BY <3>1, <3>3, <3>5, <3>6 DEF kept_but_slots, open
    <3> QED
      BY <3>3, <3>6, <3>7 DEF Slots
  <2> QED
    BY <2>1, <2>2
<1>3. Emits(h, [h EXCEPT !.registers = h.registers + 1])
  BY <1>2, OtherFields, AlikeEmits DEF Slots
<1>4. create_temp_alloca(g, type) = [h EXCEPT !.registers = h.registers + 1]
  BY DEF create_temp_alloca, define_in, inst
<1> QED
  BY <1>2, <1>3, <1>4, EmitsAndSlots

LEMMA DeclSlots ==
  ASSUME NEW g, Good(g), NEW decl
  PROVE  Slots(g, ensure_slot_for_decl(g, decl))
<1>1. CASE decl \in DOMAIN g.ctx.local_slots
  BY <1>1, EmitsNothing, EmitsAndSlots DEF ensure_slot_for_decl
<1>2. CASE decl \notin DOMAIN g.ctx.local_slots
  <2> DEFINE h == create_temp_alloca(g, "bool")
             slots == assign(h.ctx.local_slots, decl, h.registers)
             k == [h EXCEPT !.ctx.local_slots = slots]
  <2>1. Slots(g, h)
    BY AllocaSlots
  <2>2. ensure_slot_for_decl(g, decl) = k
    BY <1>2 DEF ensure_slot_for_decl
  <2> HIDE DEF h, slots
  <2>3. Emits(h, k)
    BY <2>1 DEF Slots, Good, is_gen, is_ctx, Emits, same_place, open, kept
  <2> QED
    BY <2>1, <2>2, <2>3, EmitsAndSlots
<1> QED
  BY <1>1, <1>2

(* New blocks are empty. *)
Makes(g, h, k) ==
  /\ Good(h)
  /\ h.ctx = g.ctx
  /\ h.insertion_block = g.insertion_block
  /\ DOMAIN h.blocks = 1..(Len(g.blocks) + k)
  /\ open(h) = open(g) \cup (Len(g.blocks) + 1)..(Len(g.blocks) + k)
  /\ kept(g, h)

LEMMA CreateMakes ==
  ASSUME NEW g, Good(g), NEW k \in 1..3
  PROVE  /\ Makes(g, create_blocks(g, k), k)
         /\ new_blocks(g, k) = [i \in 1..k |-> Len(g.blocks) + i]
<1> DEFINE S == Range(g.blocks) \cup {<< >>}
           new == [i \in 1..k |-> << >>]
           blocks == g.blocks \o new
           h == [g EXCEPT !.blocks = blocks]
<1>1. Len(g.blocks) \in Nat /\ DOMAIN g.blocks = 1..Len(g.blocks)
  BY BlocksShape
<1>2. g.blocks \in Seq(S) /\ \A b \in DOMAIN g.blocks : is_code(g.blocks[b])
  BY SeqMonotonic DEF Good, is_seq
<1>3. new \in Seq(S) /\ Len(new) = k /\ \A i \in 1..k : new[i] = << >>
  <2>1. k \in Nat
    OBVIOUS
  <2>2. new \in Seq(S)
    BY <2>1, IsASeq
  <2> QED
    BY <2>1, <2>2
<1> HIDE DEF S, new
<1>4. /\ blocks \in Seq(S)
      /\ DOMAIN blocks = 1..(Len(g.blocks) + k)
      /\ \A b \in 1..Len(g.blocks) : blocks[b] = g.blocks[b]
      /\ \A b \in (Len(g.blocks) + 1)..(Len(g.blocks) + k) : blocks[b] = << >>
  <2>1. /\ blocks \in Seq(S)
        /\ Len(blocks) = Len(g.blocks) + Len(new)
        /\ \A b \in 1..(Len(g.blocks) + Len(new)) :
             blocks[b] = IF b <= Len(g.blocks) THEN g.blocks[b] ELSE new[b - Len(g.blocks)]
    BY <1>2, <1>3, ConcatProperties
  <2>2. DOMAIN blocks = 1..Len(blocks)
    BY <2>1
  <2> HIDE DEF blocks
  <2>3. \A b \in (Len(g.blocks) + 1)..(Len(g.blocks) + k) : blocks[b] = << >>
    <3> TAKE b \in (Len(g.blocks) + 1)..(Len(g.blocks) + k)
    <3>1. blocks[b] = new[b - Len(g.blocks)] /\ b - Len(g.blocks) \in 1..k
      BY <1>1, <1>3, <2>1
    <3> QED
      BY <1>3, <3>1
  <2> QED
    BY <1>1, <1>3, <2>1, <2>2, <2>3
<1> HIDE DEF blocks
<1>5. is_seq(blocks)
  BY <1>4, IsSeq
<1>6. \A b \in DOMAIN blocks : is_code(blocks[b])
  BY <1>1, <1>2, <1>4, EmptyIsCode
<1>7. Good(h) /\ h.blocks = blocks /\ h.ctx = g.ctx /\ h.insertion_block = g.insertion_block
  BY <1>1, <1>4, <1>5, <1>6 DEF Good, is_gen
<1> HIDE DEF h
<1>8. open(h) = open(g) \cup (Len(g.blocks) + 1)..(Len(g.blocks) + k)
  BY <1>1, <1>4, <1>7, EmptyIsCode DEF open
<1>9. kept(g, h)
  BY <1>1, <1>4, <1>7 DEF kept
<1>10. h = create_blocks(g, k)
  BY DEF h, blocks, new, create_blocks
<1> QED
  BY <1>4, <1>7, <1>8, <1>9, <1>10 DEF Makes, new_blocks

(* The visitor goes somewhere else, without code. *)
Goes(g, h) ==
  /\ Good(h)
  /\ h.blocks = g.blocks
  /\ h.ctx.return_block = g.ctx.return_block

LEMMA StandIn ==
  ASSUME NEW g, Good(g), NEW b
  PROVE  /\ Goes(g, stand_in(g, b))
         /\ stand_in(g, b).insertion_block = b
         /\ stand_in(g, b).ctx.current_block = b
         /\ ~stand_in(g, b).ctx.block_sealed
<1> SUFFICES ASSUME NEW h, h = stand_in(g, b)
             PROVE  /\ Goes(g, h)
                    /\ h.insertion_block = b
                    /\ h.ctx.current_block = b
                    /\ h.ctx.block_sealed = FALSE
  OBVIOUS
<1>1. /\ is_gen(h)
      /\ h.insertion_block = b
      /\ h.blocks = g.blocks
      /\ h.ctx = [g.ctx EXCEPT !.current_block = b, !.block_sealed = FALSE]
  BY DEF stand_in, Good, is_gen
<1>2. /\ is_ctx(h.ctx)
      /\ h.ctx.current_block = b
      /\ h.ctx.block_sealed = FALSE
      /\ h.ctx.return_block = g.ctx.return_block
      /\ h.ctx.entry_block = g.ctx.entry_block
  BY <1>1 DEF Good, is_ctx
<1> QED
  BY <1>1, <1>2 DEF Good, Goes

LEMMA DropCurrent ==
  ASSUME NEW g, Good(g)
  PROVE  Goes(g, drop_current(g)) /\ ~live(drop_current(g))
BY DEF Good, is_gen, is_ctx, Goes, drop_current, live

(* branch_if_needed closes the block the visitor stands in, if there is one. *)
LEMMA BranchIfNeeded ==
  ASSUME NEW g, Good(g), live(g) => standing(g), NEW target
  PROVE  LET h == branch_if_needed(g, target)
         IN  /\ Good(h)
             /\ ~live(h)
             /\ h.ctx.return_block = g.ctx.return_block
             /\ h.ctx.entry_block = g.ctx.entry_block
             /\ DOMAIN h.blocks = DOMAIN g.blocks
             /\ open(h) = open(g) \ (IF live(g) THEN {g.ctx.current_block} ELSE {})
             /\ kept(g, h)
<1> DEFINE h == branch_if_needed(g, target)
<1>1. CASE ~live(g)
  BY <1>1 DEF branch_if_needed, kept
<1>2. CASE live(g)
  <2> DEFINE k == create_br(g, target)
  <2>1. [g EXCEPT !.insertion_block = g.ctx.current_block] = g
    BY <1>2 DEF standing, Good, is_gen
  <2>2. h = [k EXCEPT !.ctx.block_sealed = TRUE]
    BY <1>2, <2>1 DEF branch_if_needed
  <2>3. Closes(g, k, g.ctx.current_block)
    BY <1>2, BranchCloses DEF standing
  <2> HIDE DEF h, k
  <2>6. is_gen(h) /\ h.blocks = k.blocks /\ h.ctx = [k.ctx EXCEPT !.block_sealed = TRUE]
    BY <2>2, <2>3 DEF Closes, Good, is_gen
  <2>4. /\ Good(h)
        /\ h.blocks = k.blocks
        /\ h.ctx.block_sealed = TRUE
        /\ h.ctx.return_block = k.ctx.return_block
        /\ h.ctx.entry_block = k.ctx.entry_block
    BY <2>3, <2>6 DEF Closes, Good, is_ctx
  <2>5. open(h) = open(k) /\ kept(g, h)
    BY <2>3, <2>4 DEF open, kept, Closes
  <2> QED
    BY <1>2, <2>3, <2>4, <2>5 DEF Closes, same_place, live, h
<1> QED
  BY <1>1, <1>2

-----------------------------------------------------------------------------
(* The inductive invariant *)

in_block(c) == c.current_block # NoBlock /\ ~c.block_sealed

(* The blocks a context will still write to: where it returns, and where it stands. *)
held_by(c) == ({c.return_block} \cup IF in_block(c) THEN {c.current_block} ELSE {}) \ {NoBlock}
held(g) == held_by(g.ctx)

agrees(c, b) == in_block(c) => b = c.current_block /\ c.current_block # c.return_block

(* The blocks a visit in progress has made, or left, and will stand in later. *)
waiting(f) ==
  CASE f.at > 0 /\ f.node.k = "if" -> {f.blocks[j] : j \in f.at..3}
    [] f.at > 0 /\ f.node.k = "while" -> {f.blocks[j] : j \in (f.at + 1)..3}
    [] f.at > 0 /\ f.node.k = "loop" -> {f.blocks[2]}
    [] f.at = 2 /\ f.node.k \in ShortCircuit -> {f.blocks[2]}
    [] f.at > 0 /\ f.node.k \in FunctionKinds -> held_by(f.prev[1])
    [] OTHER -> {}

all_different(s, k) == Len(s) = k /\ \A i, j \in 1..k : i # j => s[i] # s[j]

(* The locals of a frame that is the nth of the stack, when the generator is in g. *)
FrameOK(f, n, g) ==
  /\ is_frame(f)
  /\ f.node \in OrderlyNodes
  /\ n = 1 => f.node.k \in FunctionKinds
  /\ f.at \in 0..Len(f.node.s)
  /\ f.at > 0 /\ f.node.k \in {"if", "while"} => all_different(f.blocks, 3)
  /\ f.at > 0 /\ f.node.k = "loop" => all_different(f.blocks, 2)
  /\ f.at = 2 /\ f.node.k \in ShortCircuit => all_different(f.blocks, 2)
  /\ f.at > 0 /\ f.node.k \in FunctionKinds =>
       /\ is_ctx(f.prev[1])
       /\ f.prev[1].entry_block \in DOMAIN g.blocks \cup {NoBlock}
       /\ agrees(f.prev[1], f.prev[2])
       /\ n > 1 => in_block(f.prev[1]) /\ f.prev[1].return_block # NoBlock

FramesOK ==
  /\ is_seq(stack)
  /\ \A n \in 1..Len(stack) : FrameOK(stack[n], n, gen)
  /\ \A n \in 1..Len(stack) :
       n < Len(stack) => stack[n].at > 0 /\ stack[n + 1].node = stack[n].node.s[stack[n].at]

(* Each block is waited for once, or stood in, and has no terminator yet. *)
Claims ==
  /\ \A n \in 1..Len(stack) :
       waiting(stack[n]) \subseteq open(gen) /\ waiting(stack[n]) \cap held(gen) = {}
  /\ \A n, m \in 1..Len(stack) : n # m => waiting(stack[n]) \cap waiting(stack[m]) = {}
  /\ held(gen) \subseteq open(gen)
  /\ agrees(gen.ctx, gen.insertion_block)

(* A visit begins in an open block, and one that completes ends in one. *)
Lively ==
  stack # << >> =>
    /\ top.at = 0 /\ Len(stack) > 1 => live(gen)
    /\ top.at > 0 /\ completes(top.node.s[top.at]) => live(gen)
    /\ top.at > 0 \/ Len(stack) > 1 => gen.ctx.return_block # NoBlock

PointInv ==
  /\ Good(gen)
  /\ FramesOK
  /\ Claims
  /\ Lively

LEMMA InitPoint ==
  ASSUME Init, orderly
  PROVE  PointInv
<1> DEFINE f == frame(program, << >>, << >>)
<1>1. gen = InitialGen /\ stack = <<f>>
  BY DEF Init
<1>2. is_seq(<< >>) /\ DOMAIN << >> = {}
  BY EmptyIsCode DEF is_code
<1>3. Good(gen)
  BY <1>1, <1>2 DEF Good, is_gen, is_ctx, InitialGen, NoContext
<1>4. held(gen) = {} /\ agrees(gen.ctx, gen.insertion_block)
  BY <1>1 DEF held, held_by, agrees, in_block, InitialGen, NoContext
<1>5. is_seq(stack) /\ Len(stack) = 1 /\ stack[1] = f /\ DOMAIN stack = {1}
  <2> HIDE DEF f
  <2>1. stack \in Seq({f}) /\ Len(stack) = 1 /\ stack[1] = f
    BY <1>1
  <2>2. is_seq(stack)
    BY <2>1, IsSeq
  <2>3. DOMAIN stack = 1..1
    BY <2>1
  <2> QED
    BY <2>1, <2>2, <2>3
<1>6. is_frame(f) /\ f.node = program /\ f.at = 0
  BY DEF frame, is_frame
<1> HIDE DEF f
<1>7. Len(program.s) \in Nat
  BY OrderlyAssumption DEF orderly
<1>8. FrameOK(f, 1, gen)
  BY <1>6, <1>7 DEF FrameOK, orderly
<1>9. FramesOK
  BY <1>5, <1>8 DEF FramesOK
<1>10. waiting(f) = {}
  BY <1>6 DEF waiting
<1>11. Claims
  BY <1>4, <1>5, <1>10 DEF Claims
<1>12. Lively
  BY <1>5, <1>6 DEF Lively, top, Last
<1> QED
  BY <1>3, <1>9, <1>11, <1>12 DEF PointInv

-----------------------------------------------------------------------------
(* A visit goes on to a child, or returns *)

LEMMA StackShape ==
  ASSUME is_seq(stack), stack # << >>
  PROVE  /\ Len(stack) \in Nat \ {0}
         /\ DOMAIN stack = 1..Len(stack)
         /\ top = stack[Len(stack)]
         /\ Len(Front(stack)) = Len(stack) - 1
         /\ Front(stack) \in Seq(Range(stack))
         /\ \A n \in 1..(Len(stack) - 1) : Front(stack)[n] = stack[n]
<1>1. stack \in Seq(Range(stack)) /\ Len(stack) \in Nat \ {0} /\ DOMAIN stack = 1..Len(stack)
  BY EmptySeq DEF is_seq
<1>2. /\ Front(stack) \in Seq(Range(stack))
      /\ Len(Front(stack)) = Len(stack) - 1
      /\ \A n \in 1..(Len(stack) - 1) : Front(stack)[n] = stack[n]
  <2>1. 1 \in Nat \ {0} /\ Len(stack) - 1 \in Nat
    BY <1>1
  <2>2. /\ SubSeq(stack, 1, Len(stack) - 1) \in Seq(Range(stack))
        /\ Len(SubSeq(stack, 1, Len(stack) - 1)) = Len(stack) - 1 - 1 + 1
        /\ \A n \in 1..(Len(stack) - 1 - 1 + 1) : SubSeq(stack, 1, Len(stack) - 1)[n] = stack[1 + n - 1]
    BY <1>1, <2>1, SubSeqShape
  <2> QED
    BY <1>1, <2>2 DEF Front
<1> QED
  BY <1>1, <1>2 DEF top, Last

LEMMA ReturnShape ==
  ASSUME is_seq(stack), stack # << >>, NEW g, return(g)
  PROVE  /\ gen' = g
         /\ is_seq(stack')
         /\ Len(stack') = Len(stack) - 1
         /\ DOMAIN stack' = 1..(Len(stack) - 1)
         /\ \A n \in 1..(Len(stack) - 1) : stack'[n] = stack[n]
<1>1. stack' = Front(stack) /\ gen' = g
  BY DEF return
<1>2. stack' \in Seq(Range(stack)) /\ Len(stack') = Len(stack) - 1
  BY <1>1, StackShape
<1>3. is_seq(stack') /\ DOMAIN stack' = 1..(Len(stack) - 1)
  BY <1>2, IsSeq
<1> QED
  BY <1>1, <1>2, <1>3, StackShape

LEMMA AcceptShape ==
  ASSUME is_seq(stack), stack # << >>, NEW g, NEW f, NEW i, accept(g, f, i)
  PROVE  LET e == [f EXCEPT !.at = i]
         IN  /\ gen' = g
             /\ is_seq(stack')
             /\ Len(stack') = Len(stack) + 1
             /\ DOMAIN stack' = 1..(Len(stack) + 1)
             /\ \A n \in 1..(Len(stack) - 1) : stack'[n] = stack[n]
             /\ stack'[Len(stack)] = e
             /\ is_frame(stack'[Len(stack) + 1])
             /\ stack'[Len(stack) + 1].node = f.node.s[i]
             /\ stack'[Len(stack) + 1].at = 0
<1> DEFINE e == [f EXCEPT !.at = i]
           c == frame(f.node.s[i], child(i), IF f.node.k \in FunctionKinds THEN f.path ELSE f.function)
           lower == Front(stack)
           S == Range(stack) \cup {e, c}
<1>1. stack' = Append(Append(lower, e), c) /\ gen' = g
  BY DEF accept
<1>2. is_frame(c) /\ c.node = f.node.s[i] /\ c.at = 0
  BY DEF frame, is_frame
<1>3. /\ lower \in Seq(S)
      /\ Len(lower) = Len(stack) - 1
      /\ \A n \in 1..(Len(stack) - 1) : lower[n] = stack[n]
      /\ Len(stack) \in Nat \ {0}
  BY StackShape, SeqMonotonic
<1>4. e \in S /\ c \in S
  OBVIOUS
<1> HIDE DEF e, c, S, lower
<1>5. /\ Append(lower, e) \in Seq(S)
      /\ Len(Append(lower, e)) = Len(stack)
      /\ Append(lower, e)[Len(stack)] = e
      /\ \A n \in 1..(Len(stack) - 1) : Append(lower, e)[n] = stack[n]
  BY <1>3, <1>4, AppendProperties
<1>6. /\ stack' \in Seq(S)
      /\ Len(stack') = Len(stack) + 1
      /\ stack'[Len(stack) + 1] = c
      /\ stack'[Len(stack)] = e
      /\ \A n \in 1..(Len(stack) - 1) : stack'[n] = stack[n]
  BY <1>1, <1>3, <1>4, <1>5, AppendProperties
<1>7. is_seq(stack') /\ DOMAIN stack' = 1..Len(stack')
  BY <1>6, IsSeq
<1> QED
  BY <1>1, <1>2, <1>6, <1>7 DEF e

(***************************************************************************)
(* What a step must do with the blocks so that the invariant is kept: w is *)
(* what the top frame waits for afterwards.  It may use the blocks it had, *)
(* and new ones, and must leave the blocks of the other frames open.       *)
(***************************************************************************)
Moves(g, w) ==
  /\ Good(g)
  /\ w \cup held(g) \subseteq open(g)
  /\ w \cap held(g) = {}
  /\ agrees(g.ctx, g.insertion_block)
  /\ DOMAIN gen.blocks \subseteq DOMAIN g.blocks
  /\ (w \cup held(g)) \cap DOMAIN gen.blocks \subseteq waiting(top) \cup held(gen)
  /\ open(gen) \ (waiting(top) \cup held(gen)) \subseteq open(g)
  /\ kept_but_slots(gen, g)

LEMMA ClaimsOf ==
  ASSUME PointInv, NEW n \in 1..(Len(stack) - 1), NEW g, NEW w, Moves(g, w)
  PROVE  /\ waiting(stack[n]) \subseteq open(g)
         /\ waiting(stack[n]) \cap (w \cup held(g)) = {}
         /\ FrameOK(stack[n], n, g)
         /\ stack[n].at > 0
<1>1. /\ Len(stack) \in Nat \ {0}
      /\ DOMAIN stack = 1..Len(stack)
      /\ top = stack[Len(stack)]
  <2>1. is_seq(stack) /\ stack # << >>
    <3>1. is_seq(stack)
      BY DEF PointInv, FramesOK
    <3>2. Len(stack) # 0
      BY <3>1 DEF is_seq
    <3> QED
      BY <3>1, <3>2
  <2> QED
    BY <2>1, StackShape
<1>2. n \in 1..Len(stack) /\ Len(stack) \in 1..Len(stack) /\ n # Len(stack)
  <2>1. n \in 1..(Len(stack) - 1)
    OBVIOUS
  <2>2. Len(stack) \in Nat \ {0}
    BY <1>1
  <2>3. n \in 1..Len(stack)
    BY <2>1, <2>2
  <2>4. n # Len(stack)
    BY <2>1, <2>2
  <2> QED
    BY <2>2, <2>3, <2>4
<1>3. /\ waiting(stack[n]) \subseteq open(gen)
      /\ waiting(stack[n]) \cap held(gen) = {}
      /\ waiting(stack[n]) \cap waiting(top) = {}
  BY <1>1, <1>2 DEF PointInv, Claims
<1>4. waiting(stack[n]) \subseteq open(g)
  BY <1>3 DEF Moves
<1>5. waiting(stack[n]) \cap (w \cup held(g)) = {}
  BY <1>3 DEF Moves, open
<1>6. FrameOK(stack[n], n, gen) /\ stack[n].at > 0
  <2>1. n < Len(stack)
    BY <1>1
  <2> QED
    BY <1>2, <2>1 DEF PointInv, FramesOK
<1>7. FrameOK(stack[n], n, g)
  BY <1>6 DEF FrameOK, Moves
<1> QED
  BY <1>4, <1>5, <1>6, <1>7

LEMMA ReturnKeeps ==
  ASSUME PointInv, stack # << >>, NEW g, return(g), Moves(g, {}),
         Len(stack) > 1 => /\ completes(top.node) => live(g)
                           /\ g.ctx.return_block # NoBlock
  PROVE  PointInv' /\ kept_but_slots(gen, gen')
<1>1. is_seq(stack)
  BY DEF PointInv, FramesOK
<1>2. /\ gen' = g
      /\ is_seq(stack')
      /\ Len(stack') = Len(stack) - 1
      /\ DOMAIN stack' = 1..(Len(stack) - 1)
      /\ \A n \in 1..(Len(stack) - 1) : stack'[n] = stack[n]
  BY <1>1, ReturnShape
<1>3. Len(stack) \in Nat \ {0} /\ DOMAIN stack = 1..Len(stack) /\ top = stack[Len(stack)]
  BY <1>1, StackShape
<1>4. \A n \in 1..(Len(stack) - 1) :
        /\ waiting(stack[n]) \subseteq open(g)
        /\ waiting(stack[n]) \cap held(g) = {}
        /\ FrameOK(stack[n], n, g)
        /\ stack[n].at > 0
        /\ stack[n + 1].node = stack[n].node.s[stack[n].at]
  BY <1>3, ClaimsOf DEF PointInv, FramesOK
<1>5. Good(gen')
  BY <1>2 DEF Moves
<1>6. FramesOK'
  <2>1. \A n \in 1..Len(stack') : FrameOK(stack'[n], n, gen')
    BY <1>2, <1>4
  <2>2. \A n \in 1..Len(stack') :
          n < Len(stack') => stack'[n].at > 0 /\ stack'[n + 1].node = stack'[n].node.s[stack'[n].at]
    BY <1>2, <1>3, <1>4
  <2> QED
    BY <1>2, <2>1, <2>2 DEF FramesOK
<1>7. Claims'
  <2>1. \A n \in 1..Len(stack') :
          waiting(stack'[n]) \subseteq open(gen') /\ waiting(stack'[n]) \cap held(gen') = {}
    BY <1>2, <1>4
  <2>2. \A n, m \in 1..Len(stack') : n # m => waiting(stack'[n]) \cap waiting(stack'[m]) = {}
    <3>1. \A n, m \in 1..Len(stack) : n # m => waiting(stack[n]) \cap waiting(stack[m]) = {}
      BY DEF PointInv, Claims
    <3>2. \A n \in 1..Len(stack') : n \in 1..Len(stack) /\ stack'[n] = stack[n]
      BY <1>2, <1>3
    <3> QED
      BY <3>1, <3>2
  <2>3. held(gen') \subseteq open(gen') /\ agrees(gen'.ctx, gen'.insertion_block)
    BY <1>2 DEF Moves
  <2> QED
    BY <2>1, <2>2, <2>3 DEF Claims
<1>8. Lively'
  <2> SUFFICES ASSUME stack' # << >>
               PROVE  /\ top'.at > 0
                      /\ completes(top'.node.s[top'.at]) => live(gen')
                      /\ gen'.ctx.return_block # NoBlock
    BY DEF Lively
  <2>1. Len(stack') \in Nat \ {0} /\ top' = stack'[Len(stack')]
    BY <1>2, EmptySeq DEF top, Last, is_seq
  <2>2. Len(stack) > 1 /\ top' = stack[Len(stack) - 1]
    BY <1>2, <1>3, <2>1
  <2>3. top'.at > 0 /\ top.node = top'.node.s[top'.at]
    BY <1>3, <1>4, <2>2
  <2> QED
    BY <1>2, <2>2, <2>3
<1> QED
  BY <1>2, <1>5, <1>6, <1>7, <1>8 DEF PointInv, Moves

LEMMA AcceptKeeps ==
  ASSUME PointInv, stack # << >>, NEW g, NEW f, NEW i, accept(g, f, i),
         is_frame(f), f.node = top.node, i \in 1..Len(top.node.s),
         FrameOK([f EXCEPT !.at = i], Len(stack), g),
         Moves(g, waiting([f EXCEPT !.at = i])),
         live(g), g.ctx.return_block # NoBlock
  PROVE  PointInv' /\ kept_but_slots(gen, gen')
<1> DEFINE e == [f EXCEPT !.at = i]
           l == Len(stack)
<1>1. is_seq(stack)
  BY DEF PointInv, FramesOK
<1>2. e.node = top.node /\ e.at = i /\ FrameOK(e, l, g) /\ Moves(g, waiting(e))
  BY DEF is_frame
<1>3. /\ gen' = g
      /\ is_seq(stack')
      /\ Len(stack') = l + 1
      /\ DOMAIN stack' = 1..(l + 1)
      /\ \A n \in 1..(l - 1) : stack'[n] = stack[n]
      /\ stack'[l] = e
      /\ is_frame(stack'[l + 1])
      /\ stack'[l + 1].node = f.node.s[i]
      /\ stack'[l + 1].at = 0
  BY <1>1, AcceptShape
<1>4. l \in Nat \ {0} /\ top = stack[l]
  BY <1>1, StackShape
<1>5. \A n \in 1..(l - 1) :
        /\ waiting(stack[n]) \subseteq open(g)
        /\ waiting(stack[n]) \cap (waiting(e) \cup held(g)) = {}
        /\ FrameOK(stack[n], n, g)
        /\ stack[n].at > 0
  BY <1>2, ClaimsOf
<1>6. \A n \in 1..(l - 1) : stack[n + 1].node = stack[n].node.s[stack[n].at]
  BY <1>4 DEF PointInv, FramesOK
<1> HIDE DEF e
<1>7. Good(gen')
  BY <1>3 DEF Moves
<1>8. FrameOK(stack'[l + 1], l + 1, gen')
  <2> DEFINE c == stack'[l + 1]
  <2>1. top.node \in OrderlyNodes
    BY <1>4 DEF PointInv, FramesOK, FrameOK
  <2>2. c.node \in OrderlyNodes
    BY <1>2, <1>3, <2>1, OrderlyAssumption, ElementOfSeq
  <2>3. Len(c.node.s) \in Nat
    BY <2>2, OrderlyAssumption
  <2>4. is_frame(c) /\ c.at = 0
    BY <1>3
  <2> HIDE DEF c
  <2>5. l + 1 # 1
    BY <1>4
  <2> QED
    BY <2>2, <2>3, <2>4, <2>5 DEF FrameOK, c
<1>9. waiting(stack'[l + 1]) = {}
  BY <1>3 DEF waiting
<1>10. \A n \in 1..(l + 1) : n \in 1..(l - 1) \/ n = l \/ n = l + 1
  BY <1>4
<1>11. FramesOK'
  <2>1. \A n \in 1..Len(stack') : FrameOK(stack'[n], n, gen')
    BY <1>2, <1>3, <1>5, <1>8, <1>10
  <2>2. ASSUME NEW n \in 1..Len(stack'), n < Len(stack')
        PROVE  stack'[n].at > 0 /\ stack'[n + 1].node = stack'[n].node.s[stack'[n].at]
    <3>1. CASE n = l
      BY <1>2, <1>3, <3>1
    <3>2. CASE n = l - 1
      <4>1. n \in 1..(l - 1) /\ n + 1 = l
        BY <1>4, <2>2, <3>2
      <4>2. stack[n].at > 0 /\ stack[l].node = stack[n].node.s[stack[n].at]
        BY <1>5, <1>6, <4>1
      <4> QED
        BY <1>2, <1>3, <1>4, <4>1, <4>2
    <3>3. CASE n < l - 1
      <4>1. n \in 1..(l - 1) /\ n + 1 \in 1..(l - 1)
        BY <1>4, <2>2, <3>3
      <4> QED
        BY <1>3, <1>5, <1>6, <4>1
    <3> QED
      BY <1>3, <1>4, <2>2, <3>1, <3>2, <3>3
  <2> QED
    BY <1>3, <2>1, <2>2 DEF FramesOK
<1>12. Claims'
  <2>1. waiting(e) \cup held(g) \subseteq open(g) /\ waiting(e) \cap held(g) = {}
    BY <1>2 DEF Moves
  <2>2. \A n \in 1..Len(stack') :
          waiting(stack'[n]) \subseteq open(gen') /\ waiting(stack'[n]) \cap held(gen') = {}
    BY <1>3, <1>5, <1>9, <1>10, <2>1
  <2>3. \A n, m \in 1..Len(stack') : n # m => waiting(stack'[n]) \cap waiting(stack'[m]) = {}
    <3>1. \A n, m \in 1..l : n # m => waiting(stack[n]) \cap waiting(stack[m]) = {}
      BY DEF PointInv, Claims
    <3>2. \A n, m \in 1..(l - 1) : n # m => waiting(stack'[n]) \cap waiting(stack'[m]) = {}
      <4>1. \A n \in 1..(l - 1) : n \in 1..l /\ stack'[n] = stack[n]
        BY <1>3, <1>4
      <4> QED
        BY <3>1, <4>1
    <3>3. \A n \in 1..(l - 1) : waiting(stack'[n]) \cap waiting(stack'[l]) = {}
      BY <1>3, <1>5
    <3> QED
      BY <1>3, <1>9, <1>10, <3>2, <3>3
  <2>4. held(gen') \subseteq open(gen') /\ agrees(gen'.ctx, gen'.insertion_block)
    BY <1>3 DEF Moves
  <2> QED
    BY <2>2, <2>3, <2>4 DEF Claims
<1>13. Lively'
  <2>1. stack' # << >> /\ top' = stack'[l + 1]
    BY <1>3, <1>4, EmptySeq DEF top, Last
  <2> QED
    BY <1>3, <2>1 DEF Lively
<1> QED
  BY <1>3, <1>7, <1>11, <1>12, <1>13 DEF PointInv, Moves

-----------------------------------------------------------------------------
(* The steps *)

LEMMA OperandsComplete ==
  ASSUME NEW n, orderly_node(n), n.s \in Seq(OrderlyNodes)
  PROVE  /\ n.k \in {"not", "xor", "asg", "let", "say", "ret", "brk"} \cup ShortCircuit =>
              \A i \in 1..Len(n.s) : completes(n.s[i])
         /\ n.k \in {"if", "while"} => completes(n.s[1])
<1>1. DOMAIN n.s = 1..Len(n.s)
  OBVIOUS
<1>2. n.k \in {"not", "xor", "asg", "let", "say", "ret", "brk"} \cup ShortCircuit =>
        \A i \in 1..Len(n.s) : completes(n.s[i])
  BY <1>1 DEF orderly_node, operands
<1>3. n.k \in {"if", "while"} => 1 \in DOMAIN n.s
  BY <1>1 DEF orderly_node, right_arity
<1>4. n.k \in {"if", "while"} => completes(n.s[1])
  BY <1>3 DEF orderly_node, operands
<1> QED
  BY <1>2, <1>4

LEMMA TopFacts ==
  ASSUME PointInv, stack # << >>
  PROVE  /\ Good(gen)
         /\ FrameOK(top, Len(stack), gen)
         /\ is_frame(top)
         /\ top.node \in OrderlyNodes
         /\ orderly_node(top.node) /\ top.node.s \in Seq(OrderlyNodes)
         /\ top.at \in 0..Len(top.node.s)
         /\ waiting(top) \subseteq open(gen) /\ waiting(top) \cap held(gen) = {}
         /\ held(gen) \subseteq open(gen) /\ agrees(gen.ctx, gen.insertion_block)
         /\ live(gen) => standing(gen)
         /\ Len(stack) \in Nat \ {0}
         /\ Len(stack) > 1 \/ top.at > 0 => gen.ctx.return_block # NoBlock
         /\ Len(stack) > 1 /\ top.at = 0 => live(gen)
         /\ top.at > 0 /\ completes(top.node.s[top.at]) => live(gen)
         /\ top.node.k \notin FunctionKinds => Len(stack) > 1
<1>1. is_seq(stack)
  BY DEF PointInv, FramesOK
<1>2. Len(stack) \in Nat \ {0} /\ Len(stack) \in 1..Len(stack) /\ top = stack[Len(stack)]
  BY <1>1, StackShape
<1>3. FrameOK(top, Len(stack), gen)
  BY <1>2 DEF PointInv, FramesOK
<1>4. waiting(top) \subseteq open(gen) /\ waiting(top) \cap held(gen) = {}
  BY <1>2 DEF PointInv, Claims
<1>5. held(gen) \subseteq open(gen) /\ agrees(gen.ctx, gen.insertion_block)
  BY DEF PointInv, Claims
<1>6. live(gen) => standing(gen)
  BY <1>5 DEF live, standing, agrees, in_block, held, held_by
<1>7. /\ is_frame(top)
      /\ top.node \in OrderlyNodes
      /\ top.at \in 0..Len(top.node.s)
      /\ Len(stack) = 1 => top.node.k \in FunctionKinds
  BY <1>3 DEF FrameOK
<1>8. orderly_node(top.node) /\ top.node.s \in Seq(OrderlyNodes)
  BY <1>7, OrderlyAssumption
<1>9. Good(gen) /\ Lively
  BY DEF PointInv
<1>10. /\ Len(stack) > 1 \/ top.at > 0 => gen.ctx.return_block # NoBlock
       /\ Len(stack) > 1 /\ top.at = 0 => live(gen)
       /\ top.at > 0 /\ completes(top.node.s[top.at]) => live(gen)
  BY <1>9 DEF Lively
<1>11. top.node.k \notin FunctionKinds => Len(stack) > 1
  <2>1. SUFFICES ASSUME top.node.k \notin FunctionKinds PROVE Len(stack) > 1
    OBVIOUS
  <2>2. Len(stack) # 1
    BY <1>7, <2>1
  <2>3. Len(stack) \in Nat \ {0}
    BY <1>2
  <2> QED
    BY <2>2, <2>3
<1> QED
  BY <1>2, <1>3, <1>4, <1>5, <1>6, <1>7, <1>8, <1>9, <1>10, <1>11

LEMMA MovesLess ==
  ASSUME NEW g, NEW w, NEW v, Moves(g, w), v \subseteq w
  PROVE  Moves(g, v)
BY DEF Moves

LEMMA SlotsMove ==
  ASSUME PointInv, stack # << >>, NEW g, Slots(gen, g)
  PROVE  Moves(g, waiting(top)) /\ (live(g) <=> live(gen)) /\ g.ctx.return_block = gen.ctx.return_block
<1>1. held(g) = held(gen) /\ agrees(g.ctx, g.insertion_block)
  BY TopFacts DEF Slots, same_place, held, held_by, agrees, in_block
<1>2. Moves(g, waiting(top))
  BY <1>1, TopFacts DEF Slots, Moves
<1> QED
  BY <1>2, SlotsStand DEF Slots, same_place

LEMMA DropMoves ==
  ASSUME NEW g, NEW w, Moves(g, w)
  PROVE  Moves(drop_current(g), w)
<1> DEFINE h == drop_current(g)
<1>1. Good(h) /\ h.blocks = g.blocks /\ h.ctx.return_block = g.ctx.return_block /\ ~live(h)
  BY DropCurrent DEF Moves, Goes
<1> HIDE DEF h
<1>2. held(h) \subseteq held(g) /\ agrees(h.ctx, h.insertion_block)
  BY <1>1 DEF held, held_by, live, in_block, agrees
<1>3. open(h) = open(g) /\ kept_but_slots(gen, h)
  BY <1>1 DEF open, Moves, kept_but_slots
<1> QED
  BY <1>1, <1>2, <1>3 DEF Moves, h

(* A visit that has no block of its own, and adds code where it stands. *)
Plain == top.node.k \notin {"if", "while", "loop"} \cup ShortCircuit \cup FunctionKinds

LEMMA PlainAccepts ==
  ASSUME PointInv, stack # << >>, NEW g, NEW f, NEW i, accept(g, f, i), Plain,
         is_frame(f), f.node = top.node, i \in 1..Len(top.node.s),
         Slots(gen, g), live(gen)
  PROVE  PointInv' /\ kept_but_slots(gen, gen')
<1> DEFINE e == [f EXCEPT !.at = i]
<1>1. is_frame(e) /\ e.node = top.node /\ e.at = i
  BY DEF is_frame
<1> HIDE DEF e
<1>2. waiting(e) = {}
  BY <1>1 DEF waiting, Plain
<1>3. FrameOK(e, Len(stack), g)
  BY <1>1, TopFacts DEF FrameOK, Plain
<1>4. Moves(g, waiting(e)) /\ live(g) /\ g.ctx.return_block # NoBlock
  BY <1>2, SlotsMove, MovesLess, TopFacts DEF Plain
<1> QED
  BY <1>3, <1>4, AcceptKeeps DEF e

LEMMA SlotsReturn ==
  ASSUME PointInv, stack # << >>, NEW g, return(g), Slots(gen, g),
         completes(top.node) => live(gen)
  PROVE  PointInv' /\ kept_but_slots(gen, gen')
<1>1. Moves(g, {}) /\ (live(g) <=> live(gen)) /\ g.ctx.return_block = gen.ctx.return_block
  BY SlotsMove, MovesLess
<1> QED
  BY <1>1, ReturnKeeps, TopFacts

LEMMA LiveIn ==
  ASSUME PointInv, stack # << >>, top.node.k \notin FunctionKinds,
         top.at = 0 \/ completes(top.node.s[top.at])
  PROVE  live(gen) /\ standing(gen) /\ Good(gen) /\ top.at \in Nat
<1>1. live(gen)
  <2>1. CASE top.at = 0
    BY <2>1, TopFacts
  <2>2. CASE top.at # 0 /\ completes(top.node.s[top.at])
    <3>1. top.at \in 0..Len(top.node.s)
      BY TopFacts
    <3>2. top.at > 0
      BY <2>2, <3>1
    <3> QED
      BY <2>2, <3>2, TopFacts
  <2> QED
    BY <2>1, <2>2
<1> QED
  BY <1>1, TopFacts

(* The operands of a visit that needs all its children's values. *)
LEMMA LiveOperands ==
  ASSUME PointInv, stack # << >>,
         top.node.k \in {"not", "xor", "asg", "let", "say", "ret", "brk"} \cup ShortCircuit
  PROVE  /\ live(gen) /\ standing(gen) /\ Good(gen)
         /\ Plain \/ top.node.k \in ShortCircuit
         /\ top.node.k \notin FunctionKinds
<1>1. top.node.k \notin FunctionKinds /\ (Plain \/ top.node.k \in ShortCircuit)
  BY DEF FunctionKinds, ShortCircuit, Plain
<1>2. top.at \in 0..Len(top.node.s)
  BY TopFacts
<1>3. \A i \in 1..Len(top.node.s) : completes(top.node.s[i])
  BY TopFacts, OperandsComplete
<1>4. top.at = 0 \/ top.at \in 1..Len(top.node.s)
  BY <1>2
<1> QED
  BY <1>1, <1>3, <1>4, LiveIn

LEMMA EmitsReturn ==
  ASSUME PointInv, stack # << >>, NEW g, return(g), Emits(gen, g), live(gen)
  PROVE  PointInv' /\ kept_but_slots(gen, gen')
BY SlotsReturn, EmitsAndSlots

LEMMA NextOperand ==
  ASSUME PointInv, stack # << >>, NEW g, NEW i, accept(g, top, i), Slots(gen, g), live(gen), Plain,
         i \in 1..Len(top.node.s)
  PROVE  PointInv' /\ kept_but_slots(gen, gen')
BY PlainAccepts, TopFacts

LEMMA LiteralKeeps ==
  ASSUME PointInv, VisitLiteral
  PROVE  PointInv' /\ kept_but_slots(gen, gen')
<1>1. stack # << >> /\ top.at = 0 /\ top.node.k \notin FunctionKinds
  BY DEF VisitLiteral, visiting, running, FunctionKinds
<1>2. live(gen) /\ Good(gen)
  BY <1>1, LiveIn
<1>3. ASSUME NEW g, return(g), Emits(gen, g)
      PROVE  PointInv' /\ kept_but_slots(gen, gen')
  BY <1>1, <1>2, <1>3, EmitsReturn
<1> QED
  BY <1>2, <1>3, SetsEmit, EmitsNothing DEF VisitLiteral

LEMMA IdentifierKeeps ==
  ASSUME PointInv, VisitIdentifier
  PROVE  PointInv' /\ kept_but_slots(gen, gen')
<1> DEFINE g == ensure_slot_for_decl(gen, top.function)
           h == set_address(g, top.path, g.ctx.local_slots[top.function])
<1>1. stack # << >> /\ top.at = 0 /\ top.node.k \notin FunctionKinds /\ return(h)
  BY DEF VisitIdentifier, visiting, running, FunctionKinds
<1>2. live(gen) /\ Good(gen)
  BY <1>1, LiveIn
<1>3. Slots(gen, g)
  BY <1>2, DeclSlots
<1>4. Emits(g, h)
  BY <1>3, SetsEmit DEF Slots
<1> HIDE DEF g, h
<1> QED
  BY <1>1, <1>2, <1>3, <1>4, SlotsReturn, EmitsAndSlots

LEMMA ChildPaths ==
  ASSUME PointInv, stack # << >>
  PROVE  Len(child_paths) = Len(top.node.s) /\ Len(top.node.s) \in Nat
<1>1. top.node.s \in Seq(OrderlyNodes)
  BY TopFacts
<1>2. DOMAIN top.node.s = 1..Len(top.node.s) /\ Len(top.node.s) \in Nat
  BY <1>1
<1>3. DOMAIN child_paths = 1..Len(top.node.s)
  BY <1>2 DEF child_paths
<1> QED
  BY <1>2, <1>3

LEMMA CallKeeps ==
  ASSUME PointInv, VisitCall
  PROVE  PointInv' /\ kept_but_slots(gen, gen')
<1>1. stack # << >> /\ top.node.k \in {"ask", "say", "exit"} /\ top.node.k \notin FunctionKinds
  BY DEF VisitCall, visiting, running, FunctionKinds
<1>2. Good(gen)
  BY DEF PointInv
<1>3. CASE visiting({"ask", "say", "exit"}, 0) /\ gen.ctx.current_block = NoBlock /\ return(gen)
  <2>1. live(gen)
    BY <1>1, <1>3, LiveIn DEF visiting
  <2> QED
    BY <1>1, <1>2, <1>3, <2>1, EmitsReturn, EmitsNothing
<1>4. CASE /\ running
           /\ top.node.k = "say"
           /\ top.at < Len(top.node.s)
           /\ top.at = 0 => gen.ctx.current_block # NoBlock
           /\ accept(gen, top, top.at + 1)
  <2>1. live(gen) /\ Plain
    BY <1>1, <1>4, LiveOperands DEF Plain, ShortCircuit
  <2>2. top.at \in 0..Len(top.node.s) /\ Len(top.node.s) \in Nat
    BY <1>1, TopFacts, ChildPaths
  <2>3. top.at + 1 \in 1..Len(top.node.s)
    BY <1>4, <2>2
  <2>4. Slots(gen, gen)
    BY <1>2, EmitsNothing, EmitsAndSlots
  <2> QED
    BY <1>1, <1>4, <2>1, <2>3, <2>4, NextOperand
<1>5. CASE /\ visiting({"say"}, Len(top.node.s))
           /\ LET args == operand_values(gen, child_paths)
              IN  return(emit(ensure_current_insertion(args.g), "say", args.values))
  <2> DEFINE args == operand_values(gen, child_paths)
             g == emit(args.g, "say", args.values)
  <2>1. live(gen) /\ standing(gen)
    BY <1>1, <1>5, LiveOperands DEF visiting
  <2>2. Len(child_paths) \in 0..2
    <3>1. Len(top.node.s) <= 2
      BY <1>1, <1>5, TopFacts DEF visiting, orderly_node, right_arity
    <3>2. Len(child_paths) = Len(top.node.s) /\ Len(top.node.s) \in Nat
      BY <1>1, ChildPaths
    <3>3. \A n \in Nat : n <= 2 => n \in 0..2
      OBVIOUS
    <3> QED
      BY <3>1, <3>2, <3>3, Zenon
  <2>3. Emits(gen, args.g)
    BY <1>2, <2>1, <2>2, OperandsEmit
  <2> HIDE DEF args
  <2>4. standing(args.g) /\ Good(args.g)
    BY <2>1, <2>3, EmitsStands DEF Emits
  <2>5. return(g)
    BY <1>5, <2>4, EnsureKeeps DEF args
  <2>6. Emits(args.g, g)
    BY <2>4, EmitEmits DEF standing, Terminators
  <2> QED
    BY <1>1, <2>1, <2>3, <2>5, <2>6, EmitsTwice, EmitsReturn
<1>6. CASE /\ visiting({"ask"}, 0)
           /\ LET g == define(ensure_current_insertion(gen), "ask", << >>)
              IN  return(set_value(g, top.path, g.registers))
  <2> DEFINE g == define(gen, "ask", << >>)
  <2>1. live(gen) /\ standing(gen)
    BY <1>1, <1>6, LiveIn DEF visiting
  <2>2. return(set_value(g, top.path, g.registers))
    BY <1>2, <1>6, <2>1, EnsureKeeps
  <2>3. Emits(gen, g)
    BY <1>2, <2>1, EmitEmits DEF standing, Terminators
  <2> HIDE DEF g
  <2>4. Emits(g, set_value(g, top.path, g.registers))
    BY <2>3, SetsEmit DEF Emits
  <2> QED
    BY <1>1, <2>1, <2>2, <2>3, <2>4, EmitsTwice, EmitsReturn
<1> QED
  BY <1>3, <1>4, <1>5, <1>6 DEF VisitCall

(* Between two visits of its children a visit may leave the block it stands in, *)
(* with a terminator, and may use the blocks it waits for.                      *)
Leaves(g) ==
  /\ Good(g)
  /\ g.ctx.return_block = gen.ctx.return_block
  /\ DOMAIN gen.blocks \subseteq DOMAIN g.blocks
  /\ gen.ctx.return_block \in open(g)
  /\ open(gen) \ (waiting(top) \cup held(gen)) \subseteq open(g)
  /\ kept(gen, g)

(* One that leaves its block and returns. *)
LEMMA LeavesMoves ==
  ASSUME PointInv, stack # << >>, NEW g, Leaves(g), ~live(g)
  PROVE  Moves(g, {}) /\ g.ctx.return_block = gen.ctx.return_block
<1>1. held(g) \subseteq {gen.ctx.return_block} \ {NoBlock} /\ agrees(g.ctx, g.insertion_block)
  BY DEF Leaves, held, held_by, agrees, in_block, live
<1>2. {gen.ctx.return_block} \ {NoBlock} \subseteq held(gen)
  BY DEF held, held_by
<1> QED
  BY <1>1, <1>2, KeptTwice DEF Leaves, Moves

(* One that leaves its block and stands in b, a new one or one it waited for. *)
LEMMA LeavesStands ==
  ASSUME PointInv, stack # << >>, gen.ctx.return_block # NoBlock,
         NEW g, Leaves(g), NEW b \in open(g), NEW w, w \subseteq open(g) \ {b},
         (w \cup {b}) \cap DOMAIN gen.blocks \subseteq waiting(top)
  PROVE  LET h == stand_in(g, b)
         IN  /\ Moves(h, w)
             /\ live(h)
             /\ h.ctx.return_block = gen.ctx.return_block
             /\ kept(gen, h)
<1> DEFINE h == stand_in(g, b)
<1>1. /\ Goes(g, h)
      /\ h.insertion_block = b
      /\ h.ctx.current_block = b
      /\ ~h.ctx.block_sealed
  BY StandIn DEF Leaves
<1>2. b # NoBlock
  BY BlocksShape DEF open, NoBlock, Leaves
<1> HIDE DEF h
<1>3. live(h) /\ held(h) = {gen.ctx.return_block, b}
  BY <1>1, <1>2 DEF live, held, held_by, in_block, Leaves, Goes
<1>4. gen.ctx.return_block \in held(gen) /\ held(gen) \subseteq open(gen) /\ open(gen) \subseteq DOMAIN gen.blocks
  BY DEF held, held_by, PointInv, Claims, open
<1>5. waiting(top) \cap held(gen) = {}
  BY TopFacts
<1>6. b # gen.ctx.return_block /\ gen.ctx.return_block \notin w
  BY <1>4, <1>5
<1>7. open(h) = open(g) /\ kept(gen, h)
  BY <1>1 DEF open, kept, Goes, Leaves
<1>8. agrees(h.ctx, h.insertion_block)
  BY <1>1, <1>6 DEF agrees, Goes, Leaves
<1>9. Moves(h, w)
  <2>1. w \cup held(h) \subseteq open(h) /\ w \cap held(h) = {}
    BY <1>3, <1>6, <1>7 DEF Leaves
  <2>2. (w \cup held(h)) \cap DOMAIN gen.blocks \subseteq waiting(top) \cup held(gen)
    BY <1>3, <1>4
  <2>3. kept_but_slots(gen, h)
    BY <1>7, KeptTwice
  <2>4. DOMAIN gen.blocks \subseteq DOMAIN h.blocks /\ Good(h)
    BY <1>1 DEF Goes, Leaves
  <2> QED
    BY <1>7, <1>8, <2>1, <2>2, <2>3, <2>4 DEF Moves, Leaves
<1> QED
  BY <1>1, <1>3, <1>7, <1>9 DEF Goes, Leaves, h

(* Slots behind that. *)
LEMMA MovesSlots ==
  ASSUME NEW g, NEW w, Moves(g, w), kept(gen, g), NEW h, Slots(g, h)
  PROVE  /\ Moves(h, w)
         /\ live(h) <=> live(g)
         /\ h.ctx.return_block = g.ctx.return_block
<1>1. held(h) = held(g) /\ agrees(h.ctx, h.insertion_block)
  BY DEF Moves, Slots, same_place, held, held_by, agrees, in_block
<1>2. kept_but_slots(gen, h)
  BY KeptTwice DEF Slots
<1>3. Moves(h, w)
  BY <1>1, <1>2 DEF Moves, Slots
<1> QED
  BY <1>3, SlotsStand DEF Slots, same_place

LEMMA LeavesReturn ==
  ASSUME PointInv, stack # << >>, NEW g, return(g), Leaves(g), ~live(g), ~completes(top.node)
  PROVE  PointInv' /\ kept_but_slots(gen, gen')
BY LeavesMoves, ReturnKeeps, TopFacts

LEMMA ReturnBlock ==
  ASSUME PointInv, stack # << >>, gen.ctx.return_block # NoBlock
  PROVE  gen.ctx.return_block \in open(gen) /\ ~(live(gen) /\ gen.ctx.current_block = gen.ctx.return_block)
<1>1. gen.ctx.return_block \in held(gen) /\ held(gen) \subseteq open(gen)
  BY TopFacts DEF held, held_by
<1> QED
  BY <1>1, TopFacts DEF agrees, in_block, live

(* A step that only closes the block it stands in, perhaps after code for it. *)
LEMMA ClosesLeaves ==
  ASSUME PointInv, stack # << >>, gen.ctx.return_block # NoBlock,
         NEW g, Emits(gen, g), NEW h, Good(h), h.ctx.return_block = g.ctx.return_block,
         DOMAIN h.blocks = DOMAIN g.blocks, kept(g, h),
         open(h) = open(g) \ (IF live(g) THEN {g.ctx.current_block} ELSE {})
  PROVE  Leaves(h)
<1>1. gen.ctx.return_block \in open(h)
  BY ReturnBlock DEF Emits, same_place, live
<1>2. (IF live(g) THEN {g.ctx.current_block} ELSE {}) \subseteq held(gen)
  <2>1. live(g) => gen.ctx.current_block # NoBlock /\ g.ctx.current_block = gen.ctx.current_block /\ live(gen)
    BY DEF Emits, same_place, live
  <2> QED
    BY <2>1 DEF held, held_by, in_block, live
<1>3. kept(gen, h)
  BY KeptTwice DEF Emits
<1> QED
  BY <1>1, <1>2, <1>3 DEF Leaves, Emits, same_place

LEMMA ExitKeeps ==
  ASSUME PointInv, VisitExit
  PROVE  PointInv' /\ kept_but_slots(gen, gen')
<1> DEFINE g == store(gen, True, gen.ctx.return_slot)
           h == create_br(g, gen.ctx.return_block)
           k == set_value(h, top.path, NoValue)
           l == [k EXCEPT !.ctx.block_sealed = TRUE]
<1>1. stack # << >> /\ top.at = 0 /\ top.node.k = "exit" /\ top.node.k \notin FunctionKinds
  BY DEF VisitExit, visiting, running, FunctionKinds
<1>2. live(gen) /\ standing(gen) /\ Good(gen) /\ gen.ctx.return_block # NoBlock
  BY <1>1, LiveIn, TopFacts
<1>3. return(l)
  BY <1>2, EnsureKeeps DEF VisitExit
<1>4. Emits(gen, g)
  BY <1>2, StoreEmits DEF standing
<1> HIDE DEF g
<1>5. Closes(g, h, g.insertion_block) /\ live(g) /\ g.insertion_block = g.ctx.current_block
  BY <1>2, <1>4, EmitsStands, BranchCloses DEF standing, Emits
<1> HIDE DEF h
<1>6. alike(h, k)
  BY <1>5, OtherFields DEF set_value, Closes
<1> HIDE DEF k
<1>12. l = [k EXCEPT !.ctx.block_sealed = TRUE]
  OBVIOUS
<1> HIDE DEF l
<1>7. is_gen(l) /\ l.blocks = k.blocks /\ l.ctx = [k.ctx EXCEPT !.block_sealed = TRUE]
  BY <1>6, <1>12 DEF alike, Good, is_gen
<1>8. /\ Good(l)
      /\ l.ctx.block_sealed = TRUE
      /\ l.ctx.return_block = k.ctx.return_block
      /\ l.ctx.entry_block = k.ctx.entry_block
  BY <1>6, <1>7 DEF alike, Good, is_ctx
<1>9. /\ l.blocks = h.blocks
      /\ l.ctx.return_block = g.ctx.return_block
      /\ open(l) = open(h)
      /\ kept(g, l)
  BY <1>5, <1>6, <1>7, <1>8 DEF alike, Closes, same_place, open, kept
<1>10. Leaves(l)
  <2>1. DOMAIN l.blocks = DOMAIN g.blocks
    BY <1>5, <1>9 DEF Closes
  <2>2. open(l) = open(g) \ (IF live(g) THEN {g.ctx.current_block} ELSE {})
    BY <1>5, <1>9 DEF Closes
  <2> QED
    BY <1>1, <1>2, <1>4, <1>8, <1>9, <2>1, <2>2, ClosesLeaves
<1>11. ~live(l) /\ ~completes(top.node)
  BY <1>1, <1>8 DEF live, completes
<1> QED
  BY <1>1, <1>3, <1>10, <1>11, LeavesReturn

LEMMA ArithmeticKeeps ==
  ASSUME PointInv, VisitArithmetic
  PROVE  PointInv' /\ kept_but_slots(gen, gen')
<1>1. stack # << >> /\ top.node.k = "xor"
  BY DEF VisitArithmetic, visiting, running
<1>2. live(gen) /\ standing(gen) /\ Good(gen) /\ Plain
  BY <1>1, LiveOperands DEF Plain, ShortCircuit
<1>3. Len(top.node.s) = 2
  BY <1>1, TopFacts DEF orderly_node, right_arity
<1>4. Slots(gen, gen)
  BY <1>2, EmitsNothing, EmitsAndSlots
<1>5. ASSUME NEW i \in 1..2, accept(gen, top, i)
      PROVE  PointInv' /\ kept_but_slots(gen, gen')
  BY <1>1, <1>2, <1>3, <1>4, <1>5, NextOperand
<1>6. CASE visiting({"xor"}, 2) /\ ~accept(gen, top, 1) /\ ~accept(gen, top, 2)
  <2> DEFINE operands_ == operand_values(gen, child_paths)
             g == define(operands_.g, "xor", operands_.values)
             h == set_value(g, top.path, g.registers)
  <2>1. Len(child_paths) = 2
    BY <1>1, <1>3, ChildPaths
  <2>2. Emits(gen, operands_.g)
    BY <1>2, <2>1, OperandsEmit
  <2> HIDE DEF operands_
  <2>3. standing(operands_.g) /\ Good(operands_.g)
    BY <1>2, <2>2, EmitsStands DEF Emits
  <2>4. return(h)
    BY <1>6, <2>3, EnsureKeeps DEF VisitArithmetic, visiting, operands_
  <2>5. Emits(operands_.g, g)
    BY <2>3, EmitEmits DEF standing, Terminators
  <2> HIDE DEF g
  <2>6. Emits(g, h)
    BY <2>5, SetsEmit DEF Emits
  <2> HIDE DEF h
  <2> QED
    BY <1>1, <1>2, <2>2, <2>4, <2>5, <2>6, EmitsTwice, EmitsReturn
<1> QED
  BY <1>5, <1>6 DEF VisitArithmetic

LEMMA UnaryKeeps ==
  ASSUME PointInv, VisitUnary
  PROVE  PointInv' /\ kept_but_slots(gen, gen')
<1>1. stack # << >> /\ top.node.k = "not"
  BY DEF VisitUnary, visiting, running
<1>2. live(gen) /\ standing(gen) /\ Good(gen) /\ Plain
  BY <1>1, LiveOperands DEF Plain, ShortCircuit
<1>3. CASE accept(gen, top, 1)
  <2>1. Len(top.node.s) = 1
    BY <1>1, TopFacts DEF orderly_node, right_arity
  <2>2. Slots(gen, gen)
    BY <1>2, EmitsNothing, EmitsAndSlots
  <2> QED
    BY <1>1, <1>2, <1>3, <2>1, <2>2, NextOperand
<1>4. CASE visiting({"not"}, 1) /\ ~accept(gen, top, 1)
  <2> DEFINE operand == get_rvalue(gen, child(1))
             g == define(operand.g, "not", <<operand.value>>)
             h == set_value(g, top.path, g.registers)
             failing == [gen EXCEPT !.failed = TRUE]
  <2>1. Emits(gen, operand.g)
    BY <1>2, RvalueEmits DEF standing
  <2> HIDE DEF operand
  <2>2. standing(operand.g) /\ Good(operand.g)
    BY <1>2, <2>1, EmitsStands DEF Emits
  <2>3. return(failing) \/ return(h)
    BY <1>4, <2>2, EnsureKeeps DEF VisitUnary, visiting, operand
  <2>4. Emits(operand.g, g)
    BY <2>2, EmitEmits DEF standing, Terminators
  <2> HIDE DEF g
  <2>5. Emits(g, h)
    BY <2>4, SetsEmit DEF Emits
  <2>6. Emits(gen, failing)
    BY <1>2, EmitsNothing
  <2> HIDE DEF h, failing
  <2>7. Emits(gen, h)
    BY <2>1, <2>4, <2>5, EmitsTwice
  <2> QED
    BY <1>1, <1>2, <2>3, <2>6, <2>7, EmitsReturn
<1> QED
  BY <1>3, <1>4 DEF VisitUnary

LEMMA AssignKeeps ==
  ASSUME PointInv, VisitAssign
  PROVE  PointInv' /\ kept_but_slots(gen, gen')
<1>1. stack # << >> /\ top.node.k = "asg"
  BY DEF VisitAssign, visiting, running
<1>2. live(gen) /\ standing(gen) /\ Good(gen) /\ Plain
  BY <1>1, LiveOperands DEF Plain, ShortCircuit
<1>3. CASE accept(ensure_slot_for_decl(gen, top.function), top, 1)
  <2>1. Len(top.node.s) = 1
    BY <1>1, TopFacts DEF orderly_node, right_arity
  <2>2. Slots(gen, ensure_slot_for_decl(gen, top.function))
    BY <1>2, DeclSlots
  <2> QED
    BY <1>1, <1>2, <1>3, <2>1, <2>2, NextOperand
<1>4. CASE ~accept(ensure_slot_for_decl(gen, top.function), top, 1)
  <2> DEFINE rhs == get_rvalue(gen, child(1))
             slot == gen.ctx.local_slots[top.function]
             g == store(rhs.g, rhs.value, slot)
             h == set_value(g, top.path, rhs.value)
  <2>1. Emits(gen, rhs.g)
    BY <1>2, RvalueEmits DEF standing
  <2> HIDE DEF rhs
  <2>2. standing(rhs.g) /\ Good(rhs.g)
    BY <1>2, <2>1, EmitsStands DEF Emits
  <2>3. return(h)
    BY <1>4, <2>2, EnsureKeeps DEF VisitAssign, rhs
  <2> HIDE DEF slot
  <2>4. Emits(rhs.g, g)
    BY <2>2, StoreEmits DEF standing
  <2> HIDE DEF g
  <2>5. Emits(g, h)
    BY <2>4, SetsEmit DEF Emits
  <2> HIDE DEF h
  <2> QED
    BY <1>1, <1>2, <2>1, <2>3, <2>4, <2>5, EmitsTwice, EmitsReturn
<1> QED
  BY <1>3, <1>4

(* A jump: branch_if_needed, and there is no current block any more. *)
LEMMA JumpReturns ==
  ASSUME PointInv, stack # << >>, gen.ctx.return_block # NoBlock, ~completes(top.node),
         NEW g, Emits(gen, g), NEW target, return(drop_current(branch_if_needed(g, target)))
  PROVE  PointInv' /\ kept_but_slots(gen, gen')
<1> DEFINE h == branch_if_needed(g, target)
           k == drop_current(h)
<1>1. Good(g) /\ (live(g) => standing(g))
  BY EmitsStands, TopFacts DEF Emits
<1>2. /\ Good(h)
      /\ h.ctx.return_block = g.ctx.return_block
      /\ DOMAIN h.blocks = DOMAIN g.blocks
      /\ open(h) = open(g) \ (IF live(g) THEN {g.ctx.current_block} ELSE {})
      /\ kept(g, h)
  BY <1>1, BranchIfNeeded
<1> HIDE DEF h
<1>3. Goes(h, k) /\ ~live(k)
  BY <1>2, DropCurrent
<1> HIDE DEF k
<1>4. Leaves(k)
  <2>1. /\ Good(k)
        /\ k.ctx.return_block = g.ctx.return_block
        /\ DOMAIN k.blocks = DOMAIN g.blocks
        /\ open(k) = open(g) \ (IF live(g) THEN {g.ctx.current_block} ELSE {})
        /\ kept(g, k)
    BY <1>2, <1>3 DEF Goes, open, kept
  <2> QED
    BY <2>1, ClosesLeaves
<1> QED
  BY <1>3, <1>4, LeavesReturn DEF h, k

LEMMA LetKeeps ==
  ASSUME PointInv, VisitLet
  PROVE  PointInv' /\ kept_but_slots(gen, gen')
<1>1. stack # << >> /\ top.node.k = "let"
  BY DEF VisitLet, visiting, running
<1>2. live(gen) /\ standing(gen) /\ Good(gen) /\ Plain /\ gen.ctx.current_block # NoBlock
  BY <1>1, LiveOperands DEF Plain, ShortCircuit, live
<1>3. CASE accept(ensure_slot_for_decl(gen, top.path), top, 1)
  <2>1. Len(top.node.s) = 1
    BY <1>1, TopFacts DEF orderly_node, right_arity
  <2>2. Slots(gen, ensure_slot_for_decl(gen, top.path))
    BY <1>2, DeclSlots
  <2> QED
    BY <1>1, <1>2, <1>3, <2>1, <2>2, NextOperand
<1>4. CASE ~accept(ensure_slot_for_decl(gen, top.path), top, 1)
  <2>1. return(store_expression_result(gen, child(1), gen.ctx.local_slots[top.path]))
    BY <1>2, <1>4 DEF VisitLet
  <2>2. Emits(gen, store_expression_result(gen, child(1), gen.ctx.local_slots[top.path]))
    BY <1>2, ResultEmits
  <2> QED
    BY <1>1, <1>2, <2>1, <2>2, EmitsReturn
<1> QED
  BY <1>3, <1>4

LEMMA ReturnStmtKeeps ==
  ASSUME PointInv, VisitReturn
  PROVE  PointInv' /\ kept_but_slots(gen, gen')
<1>1. stack # << >> /\ top.node.k = "ret" /\ ~completes(top.node)
  BY TopFacts DEF VisitReturn, visiting, running, orderly_node, completes
<1>2. live(gen) /\ standing(gen) /\ Good(gen) /\ Plain /\ gen.ctx.current_block # NoBlock
  BY <1>1, LiveOperands DEF Plain, ShortCircuit, live
<1>3. gen.ctx.return_block # NoBlock
  BY <1>1, TopFacts DEF FunctionKinds
<1>4. CASE visiting({"ret"}, 0)
  <2>1. CASE top.node.s = << >>
    <3>1. return(finish_return(gen))
      BY <1>2, <1>4, <2>1 DEF VisitReturn, visiting
    <3>2. Emits(gen, gen)
      BY <1>2, EmitsNothing
    <3> QED
      BY <1>1, <1>3, <3>1, <3>2, JumpReturns DEF finish_return
  <2>2. CASE top.node.s # << >>
    <3>1. accept(gen, top, 1)
      BY <1>2, <1>4, <2>2 DEF VisitReturn, visiting
    <3>2. 1 \in 1..Len(top.node.s)
      <4>1. top.node.s \in Seq(OrderlyNodes)
        BY <1>1, TopFacts
      <4> QED
        BY <2>2, <4>1
    <3>3. Slots(gen, gen)
      BY <1>2, EmitsNothing, EmitsAndSlots
    <3> QED
      BY <1>1, <1>2, <3>1, <3>2, <3>3, NextOperand
  <2> QED
    BY <2>1, <2>2
<1>5. CASE ~visiting({"ret"}, 0)
  <2> DEFINE g == IF gen.ctx.return_slot = NoValue THEN gen
                  ELSE store_expression_result(gen, child(1), gen.ctx.return_slot)
  <2>1. Emits(gen, g)
    BY <1>2, EmitsNothing, ResultEmits
  <2>2. return(finish_return(g))
    BY <1>5 DEF VisitReturn
  <2>3. return(drop_current(branch_if_needed(g, g.ctx.return_block)))
    BY <2>2 DEF finish_return
  <2> HIDE DEF g
  <2> QED
    BY <1>1, <1>3, <2>1, <2>3, JumpReturns
<1> QED
  BY <1>4, <1>5

LEMMA BreakKeeps ==
  ASSUME PointInv, VisitBreak
  PROVE  PointInv' /\ kept_but_slots(gen, gen')
<1>1. stack # << >> /\ top.node.k = "brk" /\ ~completes(top.node)
  BY TopFacts DEF VisitBreak, visiting, running, orderly_node, completes
<1>2. live(gen) /\ standing(gen) /\ Good(gen) /\ Plain
  BY <1>1, LiveOperands DEF Plain, ShortCircuit
<1>3. gen.ctx.return_block # NoBlock
  BY <1>1, TopFacts DEF FunctionKinds
<1>4. ASSUME NEW g, Emits(gen, g), NEW loop, return(drop_current(branch_if_needed(g, loop.break_target)))
      PROVE  PointInv' /\ kept_but_slots(gen, gen')
  BY <1>1, <1>3, <1>4, JumpReturns
<1>5. CASE return([gen EXCEPT !.failed = TRUE])
  <2> DEFINE g == [gen EXCEPT !.failed = TRUE]
  <2>1. Emits(gen, g)
    BY <1>2, EmitsNothing
  <2> HIDE DEF g
  <2>2. return(g)
    BY <1>5 DEF g
  <2> QED
    BY <1>1, <1>2, <2>1, <2>2, EmitsReturn
<1>6. CASE break_value_wanted /\ accept(gen, [top EXCEPT !.loop = <<Last(loops(gen)), gen.ctx.loop_capacity>>], 1)
  <2> DEFINE f == [top EXCEPT !.loop = <<Last(loops(gen)), gen.ctx.loop_capacity>>]
  <2>1. is_frame(f) /\ f.node = top.node
    BY <1>1, TopFacts DEF is_frame
  <2> HIDE DEF f
  <2>2. 1 \in 1..Len(top.node.s)
    <3>1. top.node.s \in Seq(OrderlyNodes) /\ top.node.s # << >>
      BY <1>1, <1>6, TopFacts DEF break_value_wanted
    <3> QED
      BY <3>1
  <2>3. Slots(gen, gen)
    BY <1>2, EmitsNothing, EmitsAndSlots
  <2>4. accept(gen, f, 1)
    BY <1>6 DEF f
  <2> QED
    BY <1>1, <1>2, <2>1, <2>2, <2>3, <2>4, PlainAccepts
<1>7. CASE return(leave_loop(gen, Last(loops(gen)), FALSE))
  <2>1. Emits(gen, gen)
    BY <1>2, EmitsNothing
  <2> QED
    BY <1>4, <1>7, <2>1 DEF leave_loop
<1>8. CASE return(leave_loop(gen, top.loop[1], TRUE))
  <2> DEFINE g == store_expression_result(gen, child(1), top.loop[1].break_slot)
  <2>1. Emits(gen, g)
    BY <1>2, ResultEmits
  <2>2. return(drop_current(branch_if_needed(g, top.loop[1].break_target)))
    BY <1>8 DEF leave_loop
  <2> HIDE DEF g
  <2> QED
    BY <1>4, <2>1, <2>2
<1> QED
  BY <1>5, <1>6, <1>7, <1>8 DEF VisitBreak

LEMMA ContinueKeeps ==
  ASSUME PointInv, VisitContinue
  PROVE  PointInv' /\ kept_but_slots(gen, gen')
<1>1. stack # << >> /\ top.at = 0 /\ top.node.k = "cont" /\ ~completes(top.node)
  BY TopFacts DEF VisitContinue, visiting, running, orderly_node, completes
<1>2. top.node.k \notin FunctionKinds
  BY <1>1 DEF FunctionKinds
<1>3. live(gen) /\ Good(gen) /\ gen.ctx.current_block # NoBlock /\ gen.ctx.return_block # NoBlock
  BY <1>1, <1>2, LiveIn, TopFacts DEF live
<1>4. CASE loops(gen) = << >>
  <2> DEFINE g == [gen EXCEPT !.failed = TRUE]
  <2>1. Emits(gen, g)
    BY <1>3, EmitsNothing
  <2>2. return(g)
    BY <1>4 DEF VisitContinue
  <2> HIDE DEF g
  <2> QED
    BY <1>1, <1>3, <2>1, <2>2, EmitsReturn
<1>5. CASE loops(gen) # << >>
  <2>1. return(drop_current(branch_if_needed(gen, Last(loops(gen)).continue_target)))
    BY <1>3, <1>5 DEF VisitContinue
  <2>2. Emits(gen, gen)
    BY <1>3, EmitsNothing
  <2> QED
    BY <1>1, <1>3, <2>1, <2>2, JumpReturns
<1> QED
  BY <1>4, <1>5

(* What the steps with blocks of their own share *)

LEMMA NewBlocks ==
  ASSUME PointInv, NEW k \in 1..3, NEW g, Makes(gen, g, k)
  PROVE  /\ all_different(new_blocks(gen, k), k)
         /\ \A i \in 1..k : new_blocks(gen, k)[i] \in open(g) \ DOMAIN gen.blocks
<1>1. Good(gen)
  BY DEF PointInv
<1>2. /\ Len(gen.blocks) \in Nat /\ DOMAIN gen.blocks = 1..Len(gen.blocks)
      /\ new_blocks(gen, k) = [i \in 1..k |-> Len(gen.blocks) + i]
  BY <1>1, BlocksShape, CreateMakes
<1> DEFINE n == Len(gen.blocks)
<1> HIDE DEF n
<1>3. n \in Nat /\ new_blocks(gen, k) = [i \in 1..k |-> n + i]
  BY <1>2 DEF n
<1>4. Len(new_blocks(gen, k)) = k
  <2>1. k \in Nat
    OBVIOUS
  <2>2. new_blocks(gen, k) \in Seq(Int)
    BY <1>3, <2>1, IsASeq
  <2> QED
    BY <1>3, <2>1, <2>2
<1>5. \A i \in 1..k : new_blocks(gen, k)[i] = n + i /\ n + i \in (n + 1)..(n + k) /\ n + i \notin 1..n
  BY <1>3
<1>6. \A i, j \in 1..k : i # j => new_blocks(gen, k)[i] # new_blocks(gen, k)[j]
  BY <1>3
<1>7. (n + 1)..(n + k) \subseteq open(g)
  BY DEF Makes, n
<1>8. DOMAIN gen.blocks = 1..n
  BY <1>2 DEF n
<1> QED
  BY <1>4, <1>5, <1>6, <1>7, <1>8 DEF all_different

LEMMA MakesMoves ==
  ASSUME PointInv, stack # << >>, NEW k \in 1..3, NEW g, Makes(gen, g, k),
         NEW w, w \subseteq {new_blocks(gen, k)[i] : i \in 1..k}
  PROVE  /\ Moves(g, w)
         /\ live(g) <=> live(gen)
         /\ g.ctx.return_block = gen.ctx.return_block
         /\ kept(gen, g)
<1>1. w \subseteq open(g) \ DOMAIN gen.blocks
  BY NewBlocks
<1>2. held(g) = held(gen) /\ held(gen) \subseteq open(gen) /\ open(gen) \subseteq DOMAIN gen.blocks
  BY TopFacts DEF Makes, held, open
<1>3. open(gen) \subseteq open(g) /\ kept(gen, g)
  BY DEF Makes
<1>4. DOMAIN gen.blocks \subseteq DOMAIN g.blocks
  <2>1. /\ DOMAIN gen.blocks = 1..Len(gen.blocks) /\ Len(gen.blocks) \in Nat
        /\ DOMAIN g.blocks = 1..(Len(gen.blocks) + k)
    BY BlocksShape, TopFacts DEF Makes
  <2> QED
    BY <2>1
<1>5. agrees(g.ctx, g.insertion_block)
  BY TopFacts DEF Makes
<1>6. kept_but_slots(gen, g)
  BY <1>3, KeptTwice
<1>7. Moves(g, w)
  BY <1>1, <1>2, <1>3, <1>4, <1>5, <1>6 DEF Moves, Makes
<1> QED
  BY <1>3, <1>7 DEF Makes, live

(* New blocks, code for the current one, and its terminator. *)
LEMMA MadeLeaves ==
  ASSUME PointInv, stack # << >>, gen.ctx.return_block # NoBlock,
         NEW k \in 1..3, NEW g, Makes(gen, g, k), NEW h, Emits(g, h),
         NEW l, Good(l), l.ctx.return_block = h.ctx.return_block,
         DOMAIN l.blocks = DOMAIN h.blocks, kept(h, l),
         open(l) = open(h) \ (IF live(h) THEN {h.ctx.current_block} ELSE {})
  PROVE  /\ Leaves(l)
         /\ \A i \in 1..k : new_blocks(gen, k)[i] \in open(l) \ DOMAIN gen.blocks
<1> DEFINE gone == IF live(h) THEN {h.ctx.current_block} ELSE {}
<1>1. gone \subseteq held(gen) \ {gen.ctx.return_block}
  <2>1. live(h) => live(gen) /\ h.ctx.current_block = gen.ctx.current_block /\ gen.ctx.current_block # NoBlock
    BY DEF Emits, Makes, same_place, live
  <2>2. live(gen) => gen.ctx.current_block # gen.ctx.return_block
    BY ReturnBlock
  <2> QED
    BY <2>1, <2>2 DEF held, held_by, in_block, live
<1>2. open(gen) \subseteq open(g) /\ open(h) = open(g)
  BY DEF Makes, Emits
<1>3. open(l) = open(g) \ gone
  BY <1>2
<1>4. held(gen) \subseteq open(gen) /\ open(gen) \subseteq DOMAIN gen.blocks
  BY TopFacts DEF open
<1> HIDE DEF gone
<1>5. Leaves(l)
  <2>1. gen.ctx.return_block \in open(l)
    BY <1>1, <1>2, <1>3, ReturnBlock
  <2>2. open(gen) \ (waiting(top) \cup held(gen)) \subseteq open(l)
    BY <1>1, <1>2, <1>3
  <2>3. kept(gen, l)
    BY KeptTwice DEF Makes, Emits
  <2>4. DOMAIN gen.blocks \subseteq DOMAIN g.blocks
    BY MakesMoves DEF Moves
  <2> QED
    BY <2>1, <2>2, <2>3, <2>4 DEF Leaves, Emits, Makes, same_place
<1>6. \A i \in 1..k : new_blocks(gen, k)[i] \in open(l) \ DOMAIN gen.blocks
  <2>1. gone \subseteq DOMAIN gen.blocks
    BY <1>1, <1>4
  <2> QED
    BY <1>3, <2>1, NewBlocks
<1> QED
  BY <1>5, <1>6

LEMMA LeavesEmits ==
  ASSUME NEW g, Leaves(g), NEW h, Emits(g, h)
  PROVE  Leaves(h)
BY KeptTwice DEF Leaves, Emits, same_place

LEMMA LoopStackEmits ==
  ASSUME NEW g, Good(g), NEW loop
  PROVE  Emits(g, push_loop(g, loop)) /\ Emits(g, pop_loop(g))
<1> DEFINE pushed == Append(g.ctx.loop_stack, loop)
           c == g.ctx.loop_capacity
           capacity == IF c > Len(loops(g)) THEN c ELSE IF c = 0 THEN 1 ELSE 2 * c
           popped == Front(g.ctx.loop_stack)
<1>1. push_loop(g, loop) = [g EXCEPT !.ctx.loop_stack = pushed, !.ctx.loop_capacity = capacity]
  BY DEF push_loop
<1>2. pop_loop(g) = [g EXCEPT !.ctx.loop_stack = popped]
  BY DEF pop_loop
<1> HIDE DEF pushed, capacity, popped
<1>3. ASSUME NEW h, NEW s, NEW n, h = [g EXCEPT !.ctx.loop_stack = s, !.ctx.loop_capacity = n]
      PROVE  Emits(g, h)
  <2>1. is_gen(h) /\ h.ctx = [g.ctx EXCEPT !.loop_stack = s, !.loop_capacity = n]
        /\ h.blocks = g.blocks /\ h.insertion_block = g.insertion_block
    BY <1>3 DEF Good, is_gen
  <2>2. /\ is_ctx(h.ctx)
        /\ h.ctx.entry_block = g.ctx.entry_block
        /\ h.ctx.return_block = g.ctx.return_block
        /\ h.ctx.current_block = g.ctx.current_block
        /\ h.ctx.block_sealed = g.ctx.block_sealed
    BY <2>1 DEF Good, is_ctx
  <2> QED
    BY <2>1, <2>2 DEF Emits, Good, same_place, open, kept
<1>4. ASSUME NEW h, NEW s, h = [g EXCEPT !.ctx.loop_stack = s]
      PROVE  Emits(g, h)
  <2>1. is_gen(h) /\ h.ctx = [g.ctx EXCEPT !.loop_stack = s]
        /\ h.blocks = g.blocks /\ h.insertion_block = g.insertion_block
    BY <1>4 DEF Good, is_gen
  <2>2. /\ is_ctx(h.ctx)
        /\ h.ctx.entry_block = g.ctx.entry_block
        /\ h.ctx.return_block = g.ctx.return_block
        /\ h.ctx.current_block = g.ctx.current_block
        /\ h.ctx.block_sealed = g.ctx.block_sealed
    BY <2>1 DEF Good, is_ctx
  <2> QED
    BY <2>1, <2>2 DEF Emits, Good, same_place, open, kept
<1> QED
  BY <1>1, <1>2, <1>3, <1>4

(* A terminator where the visitor stands, and the block it then stands in. *)
LEMMA ClosedLeaves ==
  ASSUME PointInv, stack # << >>, gen.ctx.return_block # NoBlock, live(gen),
         NEW g, Emits(gen, g), NEW h, Closes(g, h, g.insertion_block)
  PROVE  Leaves(h)
<1>1. standing(g)
  BY TopFacts, EmitsStands
<1> QED
  BY <1>1, ClosesLeaves DEF Closes, same_place, standing

(* The top frame returns from a block it waited for. *)
LEMMA StandsAndReturns ==
  ASSUME PointInv, stack # << >>, gen.ctx.return_block # NoBlock,
         NEW g, Leaves(g), NEW b \in waiting(top) \cap open(g),
         NEW h, Emits(stand_in(g, b), h), return(h)
  PROVE  PointInv' /\ kept_but_slots(gen, gen')
<1> DEFINE k == stand_in(g, b)
<1>1. Moves(k, {}) /\ live(k) /\ k.ctx.return_block = gen.ctx.return_block /\ kept(gen, k)
  BY LeavesStands
<1> HIDE DEF k
<1>2. Slots(k, h)
  BY EmitsAndSlots DEF k
<1>3. Moves(h, {}) /\ live(h) /\ h.ctx.return_block = gen.ctx.return_block
  BY <1>1, <1>2, MovesSlots
<1> QED
  BY <1>3, ReturnKeeps

(* The visit goes on to child i, in a block of its own. *)
LEMMA StandsAndAccepts ==
  ASSUME PointInv, stack # << >>, gen.ctx.return_block # NoBlock,
         NEW g, Leaves(g), NEW b \in open(g), NEW h, Slots(stand_in(g, b), h),
         NEW f, is_frame(f), f.node = top.node, NEW i \in 1..Len(top.node.s), accept(h, f, i),
         FrameOK([f EXCEPT !.at = i], Len(stack), h),
         waiting([f EXCEPT !.at = i]) \subseteq open(g) \ {b},
         (waiting([f EXCEPT !.at = i]) \cup {b}) \cap DOMAIN gen.blocks \subseteq waiting(top)
  PROVE  PointInv' /\ kept_but_slots(gen, gen')
<1> DEFINE k == stand_in(g, b)
           w == waiting([f EXCEPT !.at = i])
<1> HIDE DEF w
<1>1. Moves(k, w) /\ live(k) /\ k.ctx.return_block = gen.ctx.return_block /\ kept(gen, k)
  BY LeavesStands DEF w
<1> HIDE DEF k
<1>2. Moves(h, w) /\ live(h) /\ h.ctx.return_block = gen.ctx.return_block
  BY <1>1, MovesSlots DEF k
<1> QED
  BY <1>2, AcceptKeeps DEF w

(* Frames *)

LEMMA FrameAt ==
  ASSUME NEW f, is_frame(f), NEW i
  PROVE  LET e == [f EXCEPT !.at = i]
         IN  /\ is_frame(e)
             /\ e.node = f.node
             /\ e.at = i
             /\ e.blocks = f.blocks
             /\ e.prev = f.prev
BY DEF is_frame

LEMMA FrameWith ==
  ASSUME NEW f, is_frame(f), NEW v, NEW w
  PROVE  /\ LET e == [f EXCEPT !.slot = v] IN is_frame(e) /\ e.node = f.node /\ e.blocks = f.blocks
         /\ LET e == [f EXCEPT !.loop = v] IN is_frame(e) /\ e.node = f.node /\ e.blocks = f.blocks
         /\ LET e == [f EXCEPT !.blocks = v] IN is_frame(e) /\ e.node = f.node /\ e.blocks = v
         /\ LET e == [f EXCEPT !.prev = v] IN is_frame(e) /\ e.node = f.node /\ e.prev = v
         /\ LET e == [f EXCEPT !.blocks = v, !.slot = w]
            IN  is_frame(e) /\ e.node = f.node /\ e.blocks = v
<1>1. LET e == [f EXCEPT !.slot = v] IN is_frame(e) /\ e.node = f.node /\ e.blocks = f.blocks
  BY DEF is_frame
<1>2. LET e == [f EXCEPT !.loop = v] IN is_frame(e) /\ e.node = f.node /\ e.blocks = f.blocks
  BY DEF is_frame
<1>3. LET e == [f EXCEPT !.blocks = v] IN is_frame(e) /\ e.node = f.node /\ e.blocks = v
  BY DEF is_frame
<1>4. LET e == [f EXCEPT !.prev = v] IN is_frame(e) /\ e.node = f.node /\ e.prev = v
  BY DEF is_frame
<1>5. ASSUME NEW e, e = [f EXCEPT !.blocks = v, !.slot = w]
      PROVE  is_frame(e) /\ e.node = f.node /\ e.blocks = v
  BY <1>5 DEF is_frame
<1> QED
  BY <1>1, <1>2, <1>3, <1>4, <1>5

LEMMA WaitsFor ==
  ASSUME NEW f
  PROVE  /\ f.node.k = "if" /\ f.at = 1 => waiting(f) = {f.blocks[1], f.blocks[2], f.blocks[3]}
         /\ f.node.k = "if" /\ f.at = 2 => waiting(f) = {f.blocks[2], f.blocks[3]}
         /\ f.node.k = "if" /\ f.at = 3 => waiting(f) = {f.blocks[3]}
         /\ f.node.k = "while" /\ f.at = 1 => waiting(f) = {f.blocks[2], f.blocks[3]}
         /\ f.node.k = "while" /\ f.at = 2 => waiting(f) = {f.blocks[3]}
         /\ f.node.k = "loop" /\ f.at = 1 => waiting(f) = {f.blocks[2]}
         /\ f.node.k \in ShortCircuit /\ f.at = 1 => waiting(f) = {}
         /\ f.node.k \in ShortCircuit /\ f.at = 2 => waiting(f) = {f.blocks[2]}
         /\ f.node.k \in FunctionKinds /\ f.at = 1 => waiting(f) = held_by(f.prev[1])
<1>1. 1..3 = {1, 2, 3} /\ 2..3 = {2, 3} /\ 3..3 = {3} /\ 1 + 1 = 2 /\ 2 + 1 = 3 /\ 1 > 0 /\ 2 > 0 /\ 3 > 0
  OBVIOUS
<1>2. CASE f.node.k = "if"
  <2>1. f.at > 0 => waiting(f) = {f.blocks[j] : j \in f.at..3}
    BY <1>2 DEF waiting, ShortCircuit, FunctionKinds
  <2> QED
    BY <1>1, <1>2, <2>1 DEF ShortCircuit, FunctionKinds
<1>3. CASE f.node.k = "while"
  <2>1. f.at > 0 => waiting(f) = {f.blocks[j] : j \in (f.at + 1)..3}
    BY <1>3 DEF waiting, ShortCircuit, FunctionKinds
  <2> QED
    BY <1>1, <1>3, <2>1 DEF ShortCircuit, FunctionKinds
<1>4. CASE f.node.k = "loop"
  BY <1>4 DEF waiting, ShortCircuit, FunctionKinds
<1>5. CASE f.node.k \in ShortCircuit
  BY <1>5 DEF waiting, ShortCircuit, FunctionKinds
<1>6. CASE f.node.k \in FunctionKinds
  BY <1>6 DEF waiting, ShortCircuit, FunctionKinds
<1> QED
  BY <1>2, <1>3, <1>4, <1>5, <1>6

LEMMA FrameGoesOn ==
  ASSUME PointInv, stack # << >>, top.node.k \notin FunctionKinds,
         NEW e, is_frame(e), e.node = top.node, NEW i \in 1..Len(top.node.s), e.at = i,
         top.node.k \in {"if", "while"} => all_different(e.blocks, 3),
         top.node.k = "loop" => all_different(e.blocks, 2),
         i = 2 /\ top.node.k \in ShortCircuit => all_different(e.blocks, 2),
         NEW g
  PROVE  FrameOK(e, Len(stack), g)
<1>1. FrameOK(top, Len(stack), gen) /\ top.node \in OrderlyNodes /\ top.node.s \in Seq(OrderlyNodes)
  BY TopFacts
<1>2. e.at \in 0..Len(e.node.s)
  <2>1. Len(top.node.s) \in Nat
    BY <1>1
  <2> QED
    BY <2>1
<1>3. Len(stack) # 1
  BY <1>1 DEF FrameOK
<1> QED
  BY <1>1, <1>2, <1>3 DEF FrameOK

LEMMA StandInAgain ==
  ASSUME NEW g, Good(g), NEW b
  PROVE  Good(stand_in(g, b)) /\ Emits(stand_in(g, b), stand_in(g, b)) /\ Slots(stand_in(g, b), stand_in(g, b))
<1>1. Good(stand_in(g, b))
  BY StandIn DEF Goes
<1> QED
  BY <1>1, EmitsNothing, EmitsAndSlots

LEMMA ShortCircuitKeeps ==
  ASSUME PointInv, VisitShortCircuit
  PROVE  PointInv' /\ kept_but_slots(gen, gen')
<1>1. stack # << >> /\ top.node.k \in ShortCircuit
  BY DEF VisitShortCircuit, visiting, running
<1>2. live(gen) /\ standing(gen) /\ Good(gen)
  BY <1>1, LiveOperands
<1>3. gen.ctx.return_block # NoBlock
  BY <1>1, TopFacts DEF FunctionKinds, ShortCircuit
<1>4. 1 \in 1..Len(top.node.s) /\ 2 \in 1..Len(top.node.s)
  <2>1. Len(top.node.s) = 2
    BY <1>1, TopFacts DEF orderly_node, right_arity
  <2> QED
    BY <2>1
<1>5. top.node.k \notin FunctionKinds /\ top.node.k \notin {"if", "while", "loop"}
  BY <1>1 DEF FunctionKinds, ShortCircuit
<1>6. is_frame(top) /\ FrameOK(top, Len(stack), gen)
  BY <1>1, TopFacts
<1>7. CASE visiting(ShortCircuit, 0)
  <2> DEFINE g == create_temp_alloca(gen, "bool")
             f == [top EXCEPT !.slot = g.registers]
             e == [f EXCEPT !.at = 1]
  <2>1. accept(g, f, 1)
    BY <1>7 DEF VisitShortCircuit, visiting
  <2>2. Slots(gen, g)
    BY <1>2, AllocaSlots
  <2> HIDE DEF g
  <2>7. is_frame(f) /\ f.node = top.node
    BY <1>6, FrameWith
  <2> HIDE DEF f
  <2>3. is_frame(e) /\ e.node = top.node /\ e.at = 1
    BY <2>7, FrameAt
  <2> HIDE DEF e
  <2>4. waiting(e) = {}
    BY <1>1, <2>3, WaitsFor
  <2>5. FrameOK(e, Len(stack), g)
    BY <1>1, <1>4, <1>5, <2>3, FrameGoesOn
  <2>6. Moves(g, waiting(e)) /\ live(g) /\ g.ctx.return_block # NoBlock
    BY <1>1, <1>2, <1>3, <2>2, <2>4, SlotsMove, MovesLess
  <2> QED
    BY <1>1, <1>4, <2>1, <2>5, <2>6, <2>7, AcceptKeeps DEF e
<1>8. CASE visiting(ShortCircuit, 1)
  <2> DEFINE right_merge == new_blocks(gen, 2)
             made == create_blocks(gen, 2)
             lhs == get_rvalue(made, child(1))
             is_and == top.node.k = "and"
             value == IF is_and THEN False ELSE True
             then == right_merge[IF is_and THEN 1 ELSE 2]
             else == right_merge[IF is_and THEN 2 ELSE 1]
             g == store(lhs.g, value, top.slot)
             h == create_cond_br(g, lhs.value, then, else)
             k == stand_in(h, right_merge[1])
             f == [top EXCEPT !.blocks = right_merge]
             e == [f EXCEPT !.at = 2]
  <2>1. Makes(gen, made, 2)
    BY <1>2, CreateMakes
  <2>2. standing(made) /\ Good(made)
    BY <1>2, <2>1 DEF Makes, standing, live
  <2>3. accept(k, f, 2)
    BY <1>8, <2>2, EnsureKeeps DEF VisitShortCircuit, visiting
  <2> HIDE DEF made, is_and
  <2>4. Emits(made, lhs.g)
    BY <2>2, RvalueEmits DEF standing
  <2> HIDE DEF lhs
  <2>5. standing(lhs.g) /\ Good(lhs.g)
    BY <2>2, <2>4, EmitsStands DEF Emits
  <2> HIDE DEF value
  <2>6. Emits(lhs.g, g)
    BY <2>5, StoreEmits DEF standing
  <2> HIDE DEF g
  <2>7. Emits(made, g) /\ standing(g) /\ Good(g)
    BY <2>4, <2>5, <2>6, EmitsTwice, EmitsStands DEF Emits
  <2> HIDE DEF then, else
  <2>8. Closes(g, h, g.insertion_block)
    BY <2>7, BranchCloses DEF standing
  <2> HIDE DEF h
  <2>9. Leaves(h) /\ \A i \in 1..2 : right_merge[i] \in open(h) \ DOMAIN gen.blocks
    <3>1. /\ Good(h)
          /\ h.ctx.return_block = g.ctx.return_block
          /\ DOMAIN h.blocks = DOMAIN g.blocks
          /\ kept(g, h)
          /\ open(h) = open(g) \ (IF live(g) THEN {g.ctx.current_block} ELSE {})
      BY <2>7, <2>8 DEF Closes, same_place, standing
    <3> QED
      BY <1>1, <1>3, <2>1, <2>7, <3>1, MadeLeaves
  <2>10. all_different(right_merge, 2)
    BY <2>1, NewBlocks
  <2> HIDE DEF right_merge
  <2>16. is_frame(f) /\ f.node = top.node /\ f.blocks = right_merge
    BY <1>6, FrameWith
  <2> HIDE DEF f
  <2>11. is_frame(e) /\ e.node = top.node /\ e.at = 2 /\ e.blocks = right_merge
    BY <2>16, FrameAt
  <2> HIDE DEF e
  <2>12. waiting(e) = {right_merge[2]}
    BY <1>1, <2>11, WaitsFor
  <2>13. right_merge[1] # right_merge[2]
    BY <2>10 DEF all_different
  <2>14. Slots(k, k)
    BY <2>9, StandInAgain DEF Leaves
  <2>15. FrameOK(e, Len(stack), k)
    BY <1>1, <1>4, <1>5, <2>10, <2>11, FrameGoesOn
  <2>17. right_merge[1] \in open(h)
    BY <2>9
  <2>18. waiting(e) \subseteq open(h) \ {right_merge[1]} /\ (waiting(e) \cup {right_merge[1]}) \cap DOMAIN gen.blocks = {}
    BY <2>9, <2>12, <2>13
  <2> QED
    BY <1>1, <1>3, <1>4, <2>3, <2>9, <2>14, <2>15, <2>16, <2>17, <2>18, StandsAndAccepts DEF e
<1>9. CASE visiting(ShortCircuit, 2)
  <2> DEFINE merge == top.blocks[2]
             rhs == get_rvalue(gen, child(2))
             g == store(rhs.g, rhs.value, top.slot)
             h == branch_if_needed(g, merge)
             k == stand_in(h, merge)
             l == set_address(k, top.path, top.slot)
  <2>1. return(l)
    BY <1>2, <1>9, EnsureKeeps DEF VisitShortCircuit, visiting
  <2>2. Emits(gen, rhs.g)
    BY <1>2, RvalueEmits DEF standing
  <2> HIDE DEF rhs
  <2>3. standing(rhs.g) /\ Good(rhs.g)
    BY <1>2, <2>2, EmitsStands DEF Emits
  <2>4. Emits(rhs.g, g)
    BY <2>3, StoreEmits DEF standing
  <2> HIDE DEF g
  <2>5. Emits(gen, g) /\ standing(g) /\ Good(g)
    BY <2>2, <2>3, <2>4, EmitsTwice, EmitsStands DEF Emits
  <2>6. Leaves(h)
    BY <1>1, <1>3, <2>5, BranchIfNeeded, ClosesLeaves
  <2>7. merge \in waiting(top)
    BY <1>5, <1>9 DEF visiting, waiting
  <2>8. merge \in open(h)
    <3>1. merge \in open(gen) \ held(gen)
      BY <1>1, <2>7, TopFacts
    <3>2. open(h) = open(g) \ (IF live(g) THEN {g.ctx.current_block} ELSE {})
      BY <2>5, BranchIfNeeded
    <3>3. g.ctx.current_block \in held(gen) /\ open(g) = open(gen)
      BY <1>2, <2>5 DEF Emits, same_place, held, held_by, in_block, live
    <3> QED
      BY <3>1, <3>2, <3>3
  <2> HIDE DEF h
  <2>9. Emits(k, l)
    BY <2>6, StandIn, SetsEmit DEF Goes, Leaves
  <2> HIDE DEF merge, l
  <2> QED
    BY <1>1, <1>3, <2>1, <2>6, <2>7, <2>8, <2>9, StandsAndReturns
<1> QED
  BY <1>7, <1>8, <1>9 DEF VisitShortCircuit

LEMMA WhileKeeps ==
  ASSUME PointInv, VisitWhile
  PROVE  PointInv' /\ kept_but_slots(gen, gen')
<1>1. stack # << >> /\ top.node.k = "while" /\ top.node.k \notin FunctionKinds
  BY DEF VisitWhile, visiting, running, FunctionKinds
<1>2. Good(gen) /\ gen.ctx.return_block # NoBlock /\ is_frame(top) /\ FrameOK(top, Len(stack), gen)
  BY <1>1, TopFacts
<1>3. 1 \in 1..Len(top.node.s) /\ 2 \in 1..Len(top.node.s)
  <2>1. Len(top.node.s) = 2
    BY <1>1, TopFacts DEF orderly_node, right_arity
  <2> QED
    BY <2>1
<1>4. completes(top.node.s[1])
  BY <1>1, TopFacts, OperandsComplete
<1>5. top.node.k \notin ShortCircuit
  BY <1>1 DEF ShortCircuit
<1>6. CASE visiting({"while"}, 0)
  <2> DEFINE blocks == new_blocks(gen, 3)
             made == create_blocks(gen, 3)
             g == branch_if_needed(made, blocks[1])
             h == stand_in(g, blocks[1])
             f == [top EXCEPT !.blocks = blocks]
             e == [f EXCEPT !.at = 1]
  <2>1. live(gen) /\ standing(gen)
    BY <1>1, <1>6, LiveIn DEF visiting
  <2>2. accept(h, f, 1)
    BY <1>6 DEF VisitWhile, visiting
  <2>3. Makes(gen, made, 3)
    BY <1>2, CreateMakes
  <2> HIDE DEF made
  <2>4. standing(made) /\ Good(made)
    BY <2>1, <2>3 DEF Makes, standing, live
  <2>5. Emits(made, made)
    BY <2>4, EmitsNothing
  <2>6. Leaves(g) /\ \A i \in 1..3 : blocks[i] \in open(g) \ DOMAIN gen.blocks
    <3>1. /\ Good(g)
          /\ g.ctx.return_block = made.ctx.return_block
          /\ DOMAIN g.blocks = DOMAIN made.blocks
          /\ kept(made, g)
          /\ open(g) = open(made) \ (IF live(made) THEN {made.ctx.current_block} ELSE {})
      BY <2>4, BranchIfNeeded
    <3> HIDE DEF g
    <3> QED
      BY <1>1, <1>2, <2>3, <2>5, <3>1, MadeLeaves
  <2>7. all_different(blocks, 3)
    BY <2>3, NewBlocks
  <2> HIDE DEF g, blocks
  <2>8. is_frame(f) /\ f.node = top.node /\ f.blocks = blocks
    BY <1>2, FrameWith
  <2> HIDE DEF f
  <2>15. is_frame(e) /\ e.node = top.node /\ e.at = 1 /\ e.blocks = blocks
    BY <2>8, FrameAt
  <2> HIDE DEF e
  <2>9. waiting(e) = {blocks[2], blocks[3]}
    BY <1>1, <2>15, WaitsFor
  <2>10. blocks[2] # blocks[1] /\ blocks[3] # blocks[1]
    BY <2>7 DEF all_different
  <2>11. Slots(h, h)
    BY <2>6, StandInAgain DEF Leaves
  <2>12. FrameOK(e, Len(stack), h)
    BY <1>1, <1>3, <1>5, <2>7, <2>15, FrameGoesOn
  <2>13. waiting(e) \subseteq open(g) \ {blocks[1]} /\ (waiting(e) \cup {blocks[1]}) \cap DOMAIN gen.blocks = {}
    BY <2>6, <2>9, <2>10
  <2>14. blocks[1] \in open(g)
    BY <2>6
  <2> QED
    BY <1>1, <1>2, <1>3, <2>2, <2>6, <2>8, <2>11, <2>12, <2>13, <2>14, StandsAndAccepts DEF e
<1>7. CASE visiting({"while"}, 1)
  <2> DEFINE condition == get_rvalue(gen, child(1))
             g == create_cond_br(condition.g, condition.value, top.blocks[2], top.blocks[3])
             loop == loop_context(top.blocks[1], top.blocks[3], NoValue)
             h == push_loop(g, loop)
             k == stand_in(h, top.blocks[2])
             e == [top EXCEPT !.at = 2]
  <2>1. live(gen) /\ standing(gen)
    BY <1>1, <1>4, <1>7, LiveIn DEF visiting
  <2>2. accept(k, top, 2)
    BY <1>7 DEF VisitWhile, visiting
  <2>3. Emits(gen, condition.g)
    BY <1>2, <2>1, RvalueEmits DEF standing
  <2> HIDE DEF condition
  <2>4. standing(condition.g) /\ Good(condition.g)
    BY <2>1, <2>3, EmitsStands DEF Emits
  <2>5. Closes(condition.g, g, condition.g.insertion_block)
    BY <2>4, BranchCloses DEF standing
  <2> HIDE DEF g
  <2>6. Emits(g, h)
    BY <2>5, LoopStackEmits DEF Closes
  <2> HIDE DEF h
  <2>7. Leaves(g)
    BY <1>1, <1>2, <2>1, <2>3, <2>5, ClosedLeaves
  <2>8. Leaves(h)
    BY <2>6, <2>7, LeavesEmits
  <2>9. waiting(top) = {top.blocks[2], top.blocks[3]} /\ all_different(top.blocks, 3)
    BY <1>1, <1>2, <1>7, WaitsFor DEF visiting, FrameOK
  <2>10. is_frame(e) /\ e.node = top.node /\ e.at = 2 /\ e.blocks = top.blocks
    BY <1>2, FrameAt
  <2> HIDE DEF e
  <2>11. waiting(e) = {top.blocks[3]}
    BY <1>1, <2>10, WaitsFor
  <2>12. top.blocks[2] # top.blocks[3] /\ {top.blocks[2], top.blocks[3]} \subseteq waiting(top)
    BY <2>9 DEF all_different
  <2>13. waiting(top) \subseteq open(h)
    <3>1. waiting(top) \subseteq open(gen) /\ waiting(top) \cap held(gen) = {}
      BY <1>1, TopFacts
    <3>2. condition.g.insertion_block \in held(gen) /\ open(condition.g) = open(gen)
      BY <2>1, <2>3 DEF Emits, same_place, standing, held, held_by, in_block, live
    <3>3. open(h) = open(condition.g) \ {condition.g.insertion_block}
      BY <2>5, <2>6 DEF Closes, Emits
    <3> QED
      BY <3>1, <3>2, <3>3
  <2>14. Slots(k, k)
    BY <2>8, StandInAgain DEF Leaves
  <2>15. FrameOK(e, Len(stack), k)
    BY <1>1, <1>3, <1>5, <2>9, <2>10, FrameGoesOn
  <2>16. top.blocks[2] \in open(h)
    BY <2>12, <2>13
  <2>17. waiting(e) \subseteq open(h) \ {top.blocks[2]} /\ waiting(e) \cup {top.blocks[2]} \subseteq waiting(top)
    BY <2>11, <2>12, <2>13
  <2> QED
    BY <1>1, <1>2, <1>3, <2>2, <2>8, <2>10, <2>14, <2>15, <2>16, <2>17, StandsAndAccepts DEF e
<1>8. CASE visiting({"while"}, 2)
  <2> DEFINE g == IF live(gen) THEN create_br(gen, top.blocks[1]) ELSE gen
             h == pop_loop(g)
             b == top.blocks[3]
             k == stand_in(h, b)
  <2>1. return(k)
    BY <1>8 DEF VisitWhile, visiting
  <2>2. /\ Good(g)
        /\ g.ctx.return_block = gen.ctx.return_block
        /\ DOMAIN g.blocks = DOMAIN gen.blocks
        /\ kept(gen, g)
        /\ open(g) = open(gen) \ (IF live(gen) THEN {gen.ctx.current_block} ELSE {})
    <3>1. CASE live(gen)
      <4>1. standing(gen)
        BY <1>1, <3>1, TopFacts
      <4> QED
        BY <1>2, <3>1, <4>1, BranchCloses DEF standing, Closes, same_place
    <3>2. CASE ~live(gen)
      BY <1>2, <3>2 DEF kept
    <3> QED
      BY <3>1, <3>2
  <2> HIDE DEF g
  <2>3. Leaves(g)
    BY <1>1, <1>2, <2>2, EmitsNothing, ClosesLeaves
  <2>4. Emits(g, h)
    BY <2>2, LoopStackEmits
  <2> HIDE DEF h
  <2>5. Leaves(h)
    BY <2>3, <2>4, LeavesEmits
  <2>6. b \in waiting(top)
    BY <1>1, <1>8, WaitsFor DEF visiting
  <2>7. b \in open(h)
    <3>1. b \in open(gen) \ held(gen)
      BY <1>1, <2>6, TopFacts
    <3>2. live(gen) => gen.ctx.current_block \in held(gen)
      BY DEF held, held_by, in_block, live
    <3> QED
      BY <2>2, <2>4, <3>1, <3>2 DEF Emits
  <2>8. Emits(k, k)
    BY <2>5, StandInAgain DEF Leaves
  <2> HIDE DEF b
  <2> QED
    BY <1>1, <1>2, <2>1, <2>5, <2>6, <2>7, <2>8, StandsAndReturns
<1> QED
  BY <1>6, <1>7, <1>8 DEF VisitWhile

LEMMA LoopKeeps ==
  ASSUME PointInv, VisitLoop
  PROVE  PointInv' /\ kept_but_slots(gen, gen')
<1>1. stack # << >> /\ top.node.k = "loop" /\ top.node.k \notin FunctionKinds /\ top.node.k \notin ShortCircuit
  BY DEF VisitLoop, visiting, running, FunctionKinds, ShortCircuit
<1>2. Good(gen) /\ gen.ctx.return_block # NoBlock /\ is_frame(top) /\ FrameOK(top, Len(stack), gen)
  BY <1>1, TopFacts
<1>3. 1 \in 1..Len(top.node.s)
  <2>1. Len(top.node.s) = 1
    BY <1>1, TopFacts DEF orderly_node, right_arity
  <2> QED
    BY <2>1
<1>4. CASE visiting({"loop"}, 0)
  <2> DEFINE blocks == new_blocks(gen, 2)
             made == create_blocks(gen, 2)
             left == branch_if_needed(made, blocks[1])
             g == stand_in(left, blocks[1])
             h == IF needs_result(top.node) THEN create_temp_alloca(g, top.node.type) ELSE g
             slot == IF needs_result(top.node) THEN h.registers ELSE NoValue
             loop == loop_context(blocks[1], blocks[2], slot)
             k == push_loop(h, loop)
             f == [top EXCEPT !.blocks = blocks, !.slot = slot]
             e == [f EXCEPT !.at = 1]
  <2>1. live(gen) /\ standing(gen)
    BY <1>1, <1>4, LiveIn DEF visiting
  <2>2. accept(k, f, 1)
    BY <1>4 DEF VisitLoop, visiting
  <2>3. Makes(gen, made, 2)
    BY <1>2, CreateMakes
  <2> HIDE DEF made
  <2>4. standing(made) /\ Good(made)
    BY <2>1, <2>3 DEF Makes, standing, live
  <2>5. Emits(made, made)
    BY <2>4, EmitsNothing
  <2>6. Leaves(left) /\ \A i \in 1..2 : blocks[i] \in open(left) \ DOMAIN gen.blocks
    <3>1. /\ Good(left)
          /\ left.ctx.return_block = made.ctx.return_block
          /\ DOMAIN left.blocks = DOMAIN made.blocks
          /\ kept(made, left)
          /\ open(left) = open(made) \ (IF live(made) THEN {made.ctx.current_block} ELSE {})
      BY <2>4, BranchIfNeeded
    <3> HIDE DEF left
    <3> QED
      BY <1>1, <1>2, <2>3, <2>5, <3>1, MadeLeaves
  <2>7. all_different(blocks, 2)
    BY <2>3, NewBlocks
  <2> HIDE DEF left, blocks
  <2>8. Slots(g, h) /\ Good(h)
    <3>1. Good(g) /\ Slots(g, g)
      BY <2>6, StandInAgain DEF Leaves
    <3> HIDE DEF g
    <3>2. Slots(g, create_temp_alloca(g, top.node.type))
      BY <3>1, AllocaSlots
    <3>3. Slots(g, h)
      BY <3>1, <3>2
    <3> HIDE DEF h
    <3> QED
      BY <3>3 DEF Slots
  <2> HIDE DEF h, loop
  <2>9. Slots(g, k)
    BY <2>8, LoopStackEmits, EmitsAndSlots
  <2> HIDE DEF slot, k
  <2>17. f = [top EXCEPT !.blocks = blocks, !.slot = slot]
    OBVIOUS
  <2> HIDE DEF f
  <2>10. is_frame(f) /\ f.node = top.node /\ f.blocks = blocks
    BY <1>2, <2>17 DEF is_frame
  <2>11. is_frame(e) /\ e.node = top.node /\ e.at = 1 /\ e.blocks = blocks
    BY <2>10, FrameAt
  <2> HIDE DEF e
  <2>12. waiting(e) = {blocks[2]}
    BY <1>1, <2>11, WaitsFor
  <2>13. blocks[1] # blocks[2]
    BY <2>7 DEF all_different
  <2>14. FrameOK(e, Len(stack), k)
    BY <1>1, <1>3, <2>7, <2>11, FrameGoesOn
  <2>15. blocks[1] \in open(left)
    BY <2>6
  <2>16. /\ waiting(e) \subseteq open(left) \ {blocks[1]}
         /\ (waiting(e) \cup {blocks[1]}) \cap DOMAIN gen.blocks = {}
    BY <2>6, <2>12, <2>13
  <2> QED
    BY <1>1, <1>2, <1>3, <2>2, <2>6, <2>9, <2>10, <2>14, <2>15, <2>16, StandsAndAccepts DEF e
<1>5. CASE visiting({"loop"}, 1)
  <2> DEFINE at_current == [gen EXCEPT !.insertion_block = gen.ctx.current_block]
             g == IF live(gen) THEN create_br(at_current, top.blocks[1]) ELSE gen
             h == pop_loop(g)
             b == top.blocks[2]
             k == stand_in(h, b)
             l == IF top.slot = NoValue THEN k ELSE set_address(k, top.path, top.slot)
  <2>1. return(l)
    BY <1>5 DEF VisitLoop, visiting
  <2>2. /\ Good(g)
        /\ g.ctx.return_block = gen.ctx.return_block
        /\ DOMAIN g.blocks = DOMAIN gen.blocks
        /\ kept(gen, g)
        /\ open(g) = open(gen) \ (IF live(gen) THEN {gen.ctx.current_block} ELSE {})
    <3>1. CASE live(gen)
      <4>1. standing(gen)
        BY <1>1, <3>1, TopFacts
      <4>2. at_current = gen
        BY <1>2, <4>1 DEF standing, Good, is_gen
      <4>3. g = create_br(gen, top.blocks[1])
        BY <3>1, <4>2
      <4> HIDE DEF at_current, g
      <4>4. Closes(gen, g, gen.insertion_block)
        BY <1>2, <4>1, <4>3, BranchCloses DEF standing
      <4> QED
        BY <3>1, <4>1, <4>4 DEF standing, Closes, same_place
    <3>2. CASE ~live(gen)
      BY <1>2, <3>2 DEF kept
    <3> QED
      BY <3>1, <3>2
  <2> HIDE DEF g
  <2>3. Leaves(g)
    BY <1>1, <1>2, <2>2, EmitsNothing, ClosesLeaves
  <2>4. Emits(g, h)
    BY <2>2, LoopStackEmits
  <2> HIDE DEF h
  <2>5. Leaves(h)
    BY <2>3, <2>4, LeavesEmits
  <2>6. b \in waiting(top)
    BY <1>1, <1>5, WaitsFor DEF visiting
  <2>7. b \in open(h)
    <3>1. b \in open(gen) \ held(gen)
      BY <1>1, <2>6, TopFacts
    <3>2. live(gen) => gen.ctx.current_block \in held(gen)
      BY DEF held, held_by, in_block, live
    <3> QED
      BY <2>2, <2>4, <3>1, <3>2 DEF Emits
  <2>8. Emits(k, l)
    BY <2>5, StandInAgain, SetsEmit DEF Leaves
  <2> HIDE DEF b, l
  <2> QED
    BY <1>1, <1>2, <2>1, <2>5, <2>6, <2>7, <2>8, StandsAndReturns
<1> QED
  BY <1>4, <1>5 DEF VisitLoop

(* The end of a branch of an if: if it is live, the result and the jump to merge. *)
LEMMA EndBranchLeaves ==
  ASSUME PointInv, stack # << >>, gen.ctx.return_block # NoBlock, NEW i
  PROVE  LET g == end_branch(gen, i)
         IN  /\ Leaves(g)
             /\ open(g) = open(gen) \ (IF live(gen) THEN {gen.ctx.current_block} ELSE {})
             /\ DOMAIN g.blocks = DOMAIN gen.blocks
<1> DEFINE g == end_branch(gen, i)
<1>1. CASE ~live(gen)
  <2>1. g = gen
    BY <1>1 DEF end_branch
  <2>2. Good(gen) /\ Emits(gen, gen) /\ kept(gen, gen)
    BY TopFacts, EmitsNothing DEF kept
  <2>3. Leaves(gen)
    BY <1>1, <2>2, ClosesLeaves
  <2> QED
    BY <1>1, <2>1, <2>3
<1>2. CASE live(gen)
  <2> DEFINE h == IF needs_result(top.node) THEN store_expression_result(gen, child(i), top.slot) ELSE gen
  <2>1. standing(gen) /\ Good(gen)
    BY <1>2, TopFacts
  <2>2. Emits(gen, h)
    BY <2>1, EmitsNothing, ResultEmits
  <2>3. g = create_br(h, top.blocks[3])
    BY <1>2 DEF end_branch
  <2> HIDE DEF g, h
  <2>4. standing(h) /\ Good(h)
    BY <2>1, <2>2, EmitsStands DEF Emits
  <2>5. Closes(h, g, h.insertion_block)
    BY <2>3, <2>4, BranchCloses DEF standing
  <2>6. Leaves(g)
    BY <1>2, <2>2, <2>5, ClosedLeaves
  <2>7. open(g) = open(gen) \ {gen.ctx.current_block} /\ DOMAIN g.blocks = DOMAIN gen.blocks
    BY <2>1, <2>2, <2>4, <2>5 DEF Closes, Emits, same_place, standing
  <2> QED
    BY <1>2, <2>6, <2>7 DEF g
<1> QED
  BY <1>1, <1>2

LEMMA EnterElse ==
  ASSUME NEW g, Good(g)
  PROVE  /\ [enter_else(g) EXCEPT !.ctx.current_block = top.blocks[2]] = stand_in(g, top.blocks[2])
         /\ Good(enter_else(g))
         /\ enter_else(g).blocks = g.blocks
         /\ enter_else(g).insertion_block = top.blocks[2]
         /\ enter_else(g).ctx.return_block = g.ctx.return_block
<1> DEFINE b == top.blocks[2]
           h == enter_else(g)
<1>1. h = [g EXCEPT !.insertion_block = b, !.ctx.block_sealed = FALSE]
  BY DEF enter_else
<1>2. stand_in(g, b) = [g EXCEPT !.insertion_block = b, !.ctx.current_block = b, !.ctx.block_sealed = FALSE]
  BY DEF stand_in
<1> HIDE DEF b, h
<1>3. /\ is_gen(h)
      /\ h.insertion_block = b
      /\ h.blocks = g.blocks
      /\ h.ctx = [g.ctx EXCEPT !.block_sealed = FALSE]
  BY <1>1 DEF Good, is_gen
<1>4. is_ctx(h.ctx) /\ h.ctx.return_block = g.ctx.return_block /\ h.ctx.entry_block = g.ctx.entry_block
  BY <1>3 DEF Good, is_ctx
<1>5. Good(h)
  BY <1>3, <1>4 DEF Good
<1>6. [h EXCEPT !.ctx.current_block = b] = stand_in(g, b)
  BY <1>1, <1>2 DEF Good, is_gen, is_ctx
<1> QED
  BY <1>3, <1>4, <1>5, <1>6 DEF b, h

(* Both branches are done: the if returns, and the visitor stands in merge. *)
LEMMA JoinReturns ==
  ASSUME PointInv, stack # << >>, gen.ctx.return_block # NoBlock, NEW g, Leaves(g),
         top.blocks[3] \in waiting(top) \cap open(g), join(g)
  PROVE  PointInv' /\ kept_but_slots(gen, gen')
<1> DEFINE b == top.blocks[3]
           h == stand_in(g, b)
           k == IF needs_result(top.node) THEN set_address(h, top.path, top.slot) ELSE h
<1>1. return(k)
  BY DEF join
<1>2. Emits(h, k)
  BY StandInAgain, SetsEmit DEF Leaves
<1> HIDE DEF b, k
<1>3. b \in waiting(top) \cap open(g)
  BY DEF b
<1> QED
  BY <1>1, <1>2, <1>3, StandsAndReturns

LEMMA IfKeeps ==
  ASSUME PointInv, VisitIf
  PROVE  PointInv' /\ kept_but_slots(gen, gen')
<1>1. stack # << >> /\ top.node.k = "if" /\ top.node.k \notin FunctionKinds /\ top.node.k \notin ShortCircuit
  BY DEF VisitIf, visiting, running, FunctionKinds, ShortCircuit
<1>2. Good(gen) /\ gen.ctx.return_block # NoBlock /\ is_frame(top) /\ FrameOK(top, Len(stack), gen)
  BY <1>1, TopFacts
<1>3. /\ 1 \in 1..Len(top.node.s) /\ 2 \in 1..Len(top.node.s)
      /\ Len(top.node.s) = 3 => 3 \in 1..Len(top.node.s)
  <2>1. Len(top.node.s) \in {2, 3}
    BY <1>1, TopFacts DEF orderly_node, right_arity
  <2>2. \A n \in {2, 3} : 1 \in 1..n /\ 2 \in 1..n /\ (n = 3 => 3 \in 1..n)
    OBVIOUS
  <2> QED
    BY <2>1, <2>2, Zenon
<1>4. completes(top.node.s[1])
  BY <1>1, TopFacts, OperandsComplete
<1>5. waiting(top) \subseteq open(gen) /\ waiting(top) \cap held(gen) = {}
  BY <1>1, TopFacts
<1>6. \A i : waiting(top) \subseteq open(end_branch(gen, i))
  <2>1. live(gen) => gen.ctx.current_block \in held(gen)
    BY DEF held, held_by, in_block, live
  <2> QED
    BY <1>1, <1>2, <1>5, <2>1, EndBranchLeaves
<1>7. CASE visiting({"if"}, 0)
  <2> DEFINE blocks == new_blocks(gen, 3)
             g == create_blocks(gen, 3)
             h == create_temp_alloca(g, top.node.type)
             f == [top EXCEPT !.blocks = blocks]
  <2>1. live(gen)
    BY <1>1, <1>7, LiveIn DEF visiting
  <2>2. accept(h, [f EXCEPT !.slot = h.registers], 1) \/ accept(g, f, 1)
    BY <1>7 DEF VisitIf, visiting
  <2>3. Makes(gen, g, 3)
    BY <1>2, CreateMakes
  <2>4. all_different(blocks, 3)
    BY <2>3, NewBlocks
  <2> HIDE DEF g
  <2>5. Slots(g, g) /\ Slots(g, h)
    BY <2>3, EmitsNothing, EmitsAndSlots, AllocaSlots DEF Makes
  <2> HIDE DEF h, blocks
  <2>6. is_frame(f) /\ f.node = top.node /\ f.blocks = blocks
    BY <1>2, FrameWith
  <2> HIDE DEF f
  <2>7. ASSUME NEW k, Slots(g, k), NEW e, is_frame(e), e.node = top.node, e.blocks = blocks, accept(k, e, 1)
        PROVE  PointInv' /\ kept_but_slots(gen, gen')
    <3> DEFINE d == [e EXCEPT !.at = 1]
    <3>1. is_frame(d) /\ d.node = top.node /\ d.at = 1 /\ d.blocks = blocks
      BY <2>7, FrameAt
    <3> HIDE DEF d
    <3>2. waiting(d) = {blocks[1], blocks[2], blocks[3]}
      BY <1>1, <3>1, WaitsFor
    <3>3. FrameOK(d, Len(stack), k)
      BY <1>1, <1>3, <2>4, <3>1, FrameGoesOn
    <3>4. waiting(d) \subseteq {new_blocks(gen, 3)[i] : i \in 1..3}
      BY <3>2 DEF blocks
    <3>5. Moves(g, waiting(d)) /\ (live(g) <=> live(gen)) /\ g.ctx.return_block = gen.ctx.return_block /\ kept(gen, g)
      BY <1>1, <2>3, <3>4, MakesMoves
    <3>6. Moves(k, waiting(d)) /\ live(k) /\ k.ctx.return_block # NoBlock
      BY <1>2, <2>1, <2>7, <3>5, MovesSlots
    <3> QED
      BY <1>1, <1>3, <2>7, <3>3, <3>6, AcceptKeeps DEF d
  <2>8. CASE accept(g, f, 1)
    BY <2>5, <2>6, <2>7, <2>8
  <2>9. CASE accept(h, [f EXCEPT !.slot = h.registers], 1)
    <3> DEFINE e == [f EXCEPT !.slot = h.registers]
    <3>1. is_frame(e) /\ e.node = top.node /\ e.blocks = blocks
      BY <2>6, FrameWith
    <3>2. accept(h, e, 1)
      BY <2>9
    <3> HIDE DEF e
    <3> QED
      BY <2>5, <2>7, <3>1, <3>2
  <2> QED
    BY <2>2, <2>8, <2>9
<1>8. CASE visiting({"if"}, 1)
  <2> DEFINE condition == get_rvalue(gen, child(1))
             g == create_cond_br(condition.g, condition.value, top.blocks[1], top.blocks[2])
             k == stand_in(g, top.blocks[1])
             e == [top EXCEPT !.at = 2]
  <2>1. live(gen) /\ standing(gen)
    BY <1>1, <1>4, <1>8, LiveIn DEF visiting
  <2>2. Emits(gen, condition.g)
    BY <1>2, <2>1, RvalueEmits DEF standing
  <2>3. standing(condition.g) /\ Good(condition.g)
    BY <2>1, <2>2, EmitsStands DEF Emits
  <2>4. accept(k, top, 2)
    BY <1>8, <2>3, EnsureKeeps DEF VisitIf, visiting
  <2> HIDE DEF condition
  <2>5. Closes(condition.g, g, condition.g.insertion_block)
    BY <2>3, BranchCloses DEF standing
  <2> HIDE DEF g
  <2>6. Leaves(g)
    BY <1>1, <1>2, <2>1, <2>2, <2>5, ClosedLeaves
  <2>7. waiting(top) = {top.blocks[1], top.blocks[2], top.blocks[3]} /\ all_different(top.blocks, 3)
    BY <1>1, <1>2, <1>8, WaitsFor DEF visiting, FrameOK
  <2>8. is_frame(e) /\ e.node = top.node /\ e.at = 2 /\ e.blocks = top.blocks
    BY <1>2, FrameAt
  <2> HIDE DEF e
  <2>9. waiting(e) = {top.blocks[2], top.blocks[3]}
    BY <1>1, <2>8, WaitsFor
  <2>10. top.blocks[1] # top.blocks[2] /\ top.blocks[1] # top.blocks[3]
    BY <2>7 DEF all_different
  <2>11. waiting(top) \subseteq open(g)
    <3>1. condition.g.insertion_block \in held(gen) /\ open(condition.g) = open(gen)
      BY <2>1, <2>2 DEF Emits, same_place, standing, held, held_by, in_block, live
    <3>2. open(g) = open(condition.g) \ {condition.g.insertion_block}
      BY <2>5 DEF Closes
    <3> QED
      BY <1>5, <3>1, <3>2
  <2>12. Slots(k, k)
    BY <2>6, StandInAgain DEF Leaves
  <2>13. FrameOK(e, Len(stack), k)
    BY <1>1, <1>3, <2>7, <2>8, FrameGoesOn
  <2>14. top.blocks[1] \in open(g)
    BY <2>7, <2>11
  <2>15. waiting(e) \subseteq open(g) \ {top.blocks[1]} /\ waiting(e) \cup {top.blocks[1]} \subseteq waiting(top)
    BY <2>7, <2>9, <2>10, <2>11
  <2> QED
    BY <1>1, <1>2, <1>3, <2>4, <2>6, <2>12, <2>13, <2>14, <2>15, StandsAndAccepts DEF e
<1>9. CASE visiting({"if"}, 2)
  <2> DEFINE left == end_branch(gen, 2)
             g == enter_else(left)
             b == top.blocks[2]
  <2>1. Leaves(left) /\ waiting(top) \subseteq open(left)
    BY <1>1, <1>2, <1>6, EndBranchLeaves
  <2> HIDE DEF left
  <2>2. waiting(top) = {top.blocks[2], top.blocks[3]} /\ all_different(top.blocks, 3)
    BY <1>1, <1>2, <1>9, WaitsFor DEF visiting, FrameOK
  <2>3. top.blocks[2] # top.blocks[3]
    BY <2>2 DEF all_different
  <2>4. CASE Len(top.node.s) = 3
    <3> DEFINE k == stand_in(left, b)
               e == [top EXCEPT !.at = 3]
    <3>1. accept(k, top, 3)
      <4>1. accept([g EXCEPT !.ctx.current_block = top.blocks[2]], top, 3)
        BY <1>9, <2>4 DEF VisitIf, visiting, left
      <4> QED
        BY <2>1, <4>1, EnterElse DEF Leaves
    <3>2. is_frame(e) /\ e.node = top.node /\ e.at = 3 /\ e.blocks = top.blocks
      BY <1>2, FrameAt
    <3> HIDE DEF e
    <3>3. waiting(e) = {top.blocks[3]}
      BY <1>1, <3>2, WaitsFor
    <3>4. Slots(k, k)
      BY <2>1, StandInAgain DEF Leaves
    <3>5. FrameOK(e, Len(stack), k)
      BY <1>1, <1>3, <2>2, <2>4, <3>2, FrameGoesOn
    <3>6. b \in open(left) /\ waiting(e) \subseteq open(left) \ {b} /\ waiting(e) \cup {b} \subseteq waiting(top)
      BY <2>1, <2>2, <2>3, <3>3
    <3> QED
      BY <1>1, <1>2, <1>3, <2>1, <2>4, <3>1, <3>4, <3>5, <3>6, StandsAndAccepts DEF e
  <2>5. CASE Len(top.node.s) # 3
    <3> DEFINE h == create_br(g, top.blocks[3])
    <3>1. join(h)
      BY <1>9, <2>5 DEF VisitIf, visiting, left
    <3>2. Good(g) /\ g.blocks = left.blocks /\ g.insertion_block = b /\ g.ctx.return_block = left.ctx.return_block
      BY <2>1, EnterElse DEF Leaves
    <3> HIDE DEF g
    <3>3. open(g) = open(left)
      BY <3>2 DEF open
    <3>4. Closes(g, h, b)
      BY <2>1, <2>2, <3>2, <3>3, BranchCloses
    <3> HIDE DEF h
    <3>5. open(h) = open(left) \ {b} /\ kept(left, h)
      BY <3>2, <3>3, <3>4 DEF Closes, kept
    <3>6. kept(gen, h)
      BY <2>1, <3>5, KeptTwice DEF Leaves
    <3>7. b \in waiting(top) /\ gen.ctx.return_block # b
      <4>1. gen.ctx.return_block \in held(gen)
        BY <1>2 DEF held, held_by
      <4> QED
        BY <1>5, <2>2, <4>1
    <3>8. Leaves(h)
      BY <2>1, <3>2, <3>4, <3>5, <3>6, <3>7 DEF Leaves, Closes, same_place
    <3>9. top.blocks[3] \in waiting(top) \cap open(h)
      BY <2>1, <2>2, <2>3, <3>5
    <3> QED
      BY <1>1, <1>2, <3>1, <3>8, <3>9, JoinReturns
  <2> QED
    BY <2>4, <2>5
<1>10. CASE visiting({"if"}, 3)
  <2> DEFINE left == end_branch(gen, 3)
  <2>1. join(left)
    BY <1>10 DEF VisitIf, visiting
  <2>2. Leaves(left) /\ waiting(top) \subseteq open(left)
    BY <1>1, <1>2, <1>6, EndBranchLeaves
  <2> HIDE DEF left
  <2>3. top.blocks[3] \in waiting(top) \cap open(left)
    BY <1>1, <1>10, <2>2, WaitsFor DEF visiting
  <2> QED
    BY <1>1, <1>2, <2>1, <2>2, <2>3, JoinReturns
<1> QED
  BY <1>7, <1>8, <1>9, <1>10 DEF VisitIf

LEMMA BlockKeeps ==
  ASSUME PointInv, VisitBlock
  PROVE  PointInv' /\ kept_but_slots(gen, gen')
<1>1. stack # << >> /\ top.node.k \in Blocks /\ top.node.k \notin FunctionKinds /\ Plain
  BY DEF VisitBlock, running, FunctionKinds, Blocks, has_tail, Plain, ShortCircuit
<1>2. /\ Good(gen) /\ top.at \in 0..Len(top.node.s) /\ Len(top.node.s) \in Nat
      /\ orderly_node(top.node) /\ top.node.s \in Seq(OrderlyNodes)
  BY <1>1, TopFacts, ChildPaths
<1>3. Slots(gen, gen) /\ Emits(gen, gen)
  BY <1>2, EmitsNothing, EmitsAndSlots
<1>4. /\ top.node.k = "blockt" => statements = Len(top.node.s) - 1 /\ Len(top.node.s) >= 1
      /\ top.node.k = "block" => statements = Len(top.node.s)
  <2>1. top.node.k = "block" => statements = Len(top.node.s)
    BY DEF statements, Stmts
  <2>2. ASSUME top.node.k = "blockt"
        PROVE  statements = Len(top.node.s) - 1 /\ Len(top.node.s) >= 1
    <3>1. Len(top.node.s) >= 1
      BY <1>2, <2>2 DEF orderly_node, right_arity
    <3>2. Len(SubSeq(top.node.s, 1, Len(top.node.s) - 1)) = Len(top.node.s) - 1
      BY <1>2, <3>1, SubSeqShape
    <3> QED
      BY <2>2, <3>1, <3>2 DEF statements, Stmts
  <2> QED
    BY <2>1, <2>2
<1>5. DOMAIN top.node.s = 1..Len(top.node.s)
  BY <1>2
<1>6. top.at > 0 => top.at \in DOMAIN top.node.s
  BY <1>2, <1>5
<1>7. top.at > 0 /\ completes(top.node.s[top.at]) => after_statement = gen
  BY DEF after_statement, completes
<1>8. top.at = 0 => after_statement = gen
  BY DEF after_statement
<1>9. live(after_statement) => after_statement = gen
  BY <1>2, DropCurrent DEF after_statement
<1>10. CASE top.at < statements /\ live(after_statement) /\ accept(after_statement, top, top.at + 1)
  <2>1. top.at + 1 \in 1..Len(top.node.s)
    BY <1>1, <1>2, <1>4, <1>10 DEF Blocks
  <2> QED
    BY <1>1, <1>3, <1>9, <1>10, <2>1, NextOperand
<1>11. CASE /\ top.at = statements \/ (top.at < statements /\ ~live(after_statement))
            /\ has_tail /\ accept(after_statement, top, Len(top.node.s))
  <2>1. top.node.k = "blockt" /\ top.at < Len(top.node.s)
    BY <1>2, <1>4, <1>11 DEF has_tail
  <2>2. top.at > 0 => completes(top.node.s[top.at])
    BY <1>2, <1>6, <2>1 DEF orderly_node
  <2>3. top.at = 0 \/ top.at > 0
    BY <1>2
  <2>4. live(gen) /\ after_statement = gen
    BY <1>1, <1>7, <1>8, <2>2, <2>3, LiveIn
  <2>5. Len(top.node.s) \in 1..Len(top.node.s)
    BY <1>2, <2>1
  <2> QED
    BY <1>1, <1>3, <1>11, <2>4, <2>5, NextOperand
<1>12. CASE /\ top.at = statements \/ (top.at < statements /\ ~live(after_statement))
            /\ ~has_tail /\ return(after_statement)
  <2>1. after_statement = gen \/ after_statement = drop_current(gen)
    BY DEF after_statement
  <2>2. Moves(gen, {}) /\ Moves(drop_current(gen), {})
    BY <1>1, <1>3, SlotsMove, MovesLess, DropMoves
  <2>3. after_statement.ctx.return_block = gen.ctx.return_block
    BY <1>2, <2>1, DropCurrent DEF Goes
  <2>4. ASSUME completes(top.node) PROVE live(after_statement)
    <3>1. top.at > 0 => completes(top.node.s[top.at])
      BY <1>1, <1>2, <1>6, <2>4 DEF orderly_node
    <3>2. top.at = 0 \/ top.at > 0
      BY <1>2
    <3> QED
      BY <1>1, <1>7, <1>8, <3>1, <3>2, LiveIn
  <2>5. Moves(after_statement, {}) /\ after_statement.ctx.return_block # NoBlock
    BY <1>1, <2>1, <2>2, <2>3, TopFacts
  <2> QED
    BY <1>1, <1>12, <2>4, <2>5, ReturnKeeps
<1>13. CASE has_tail /\ top.at = Len(top.node.s) /\ return(tail_value(gen))
  <2> DEFINE tail == Last(top.node.s)
             r == get_rvalue(gen, child(Len(top.node.s)))
             g == tail_value(gen)
             failing == [gen EXCEPT !.failed = TRUE]
             valued == set_value(r.g, top.path, r.value)
  <2>1. /\ top.node.k = "blockt" /\ top.at > 0
        /\ tail = top.node.s[top.at]
        /\ completes(tail) \/ tail.type \in {"unit", "never"}
    BY <1>2, <1>4, <1>13 DEF has_tail, orderly_node, Last
  <2>2. \/ g = gen
        \/ g = failing
        \/ completes(tail) /\ (g = r.g \/ g = valued)
    BY <2>1 DEF tail_value, needs_result
  <2> HIDE DEF g, tail
  <2>3. completes(tail) => live(gen) /\ standing(gen)
    BY <1>1, <2>1, LiveIn
  <2>4. completes(tail) => Emits(gen, r.g)
    BY <1>2, <2>3, RvalueEmits DEF standing
  <2> HIDE DEF r
  <2>5. completes(tail) => Emits(gen, valued)
    BY <2>4, SetsEmit, EmitsTwice DEF Emits
  <2>6. Emits(gen, failing)
    BY <1>2, EmitsNothing
  <2> HIDE DEF valued, failing
  <2>7. Slots(gen, g)
    BY <1>3, <2>2, <2>4, <2>5, <2>6, EmitsAndSlots
  <2>8. completes(top.node) => completes(tail)
    BY <1>1, <1>2, <1>6, <2>1 DEF orderly_node
  <2>9. return(g)
    BY <1>13 DEF g
  <2> QED
    BY <1>1, <2>3, <2>7, <2>8, <2>9, SlotsReturn
<1> QED
  BY <1>10, <1>11, <1>12, <1>13 DEF VisitBlock

(* The slots of a function whose entry block is still open. *)
LEMMA EntrySlots ==
  ASSUME NEW g, Good(g), g.ctx.entry_block \in open(g), NEW type, NEW decl
  PROVE  Emits(g, create_temp_alloca(g, type)) /\ Emits(g, ensure_slot_for_decl(g, decl))
<1>1. ASSUME NEW t
      PROVE  Emits(g, create_temp_alloca(g, t))
  <2> DEFINE op == IF t = "never" THEN "alloca_void" ELSE "alloca"
             inst == instruction(op, g.registers + 1, << >>, << >>)
             h == insert(g, g.ctx.entry_block, inst)
  <2>1. ~is_terminator(inst)
    BY DEF instruction, is_terminator, Terminators
  <2> HIDE DEF inst
  <2>2. Emits(g, h)
    BY <2>1, InsertIntoOpen
  <2>3. Emits(h, [h EXCEPT !.registers = h.registers + 1])
    BY <2>2, OtherFields, AlikeEmits DEF Emits
  <2>4. create_temp_alloca(g, t) = [h EXCEPT !.registers = h.registers + 1]
    BY DEF create_temp_alloca, define_in, inst
  <2> QED
    BY <2>2, <2>3, <2>4, EmitsTwice
<1>2. CASE decl \in DOMAIN g.ctx.local_slots
  BY <1>1, <1>2, EmitsNothing DEF ensure_slot_for_decl
<1>3. CASE decl \notin DOMAIN g.ctx.local_slots
  <2> DEFINE h == create_temp_alloca(g, "bool")
             slots == assign(h.ctx.local_slots, decl, h.registers)
             k == [h EXCEPT !.ctx.local_slots = slots]
  <2>1. Emits(g, h)
    BY <1>1
  <2>2. ensure_slot_for_decl(g, decl) = k
    BY <1>3 DEF ensure_slot_for_decl
  <2> HIDE DEF h, slots
  <2>3. Emits(h, k)
    BY <2>1 DEF Good, is_gen, is_ctx, Emits, same_place, open, kept
  <2> QED
    BY <1>1, <2>1, <2>2, <2>3, EmitsTwice
<1> QED
  BY <1>1, <1>2, <1>3

(* A function begins in an entry block of its own, and will return to the next one. *)
LEMMA BeginsIn ==
  ASSUME PointInv, stack # << >>
  PROVE  LET g == begin_function(gen)
             entry == Len(gen.blocks) + 1
         IN  /\ Good(g)
             /\ g.ctx.current_block = entry /\ ~g.ctx.block_sealed
             /\ g.ctx.return_block = entry + 1
             /\ g.insertion_block = entry
             /\ DOMAIN g.blocks = 1..(entry + 1)
             /\ open(g) = open(gen) \cup {entry, entry + 1}
             /\ kept(gen, g)
<1> DEFINE entry == Len(gen.blocks) + 1
           made == create_blocks(gen, 2)
           c == [NoContext EXCEPT !.entry_block = entry, !.return_block = entry + 1]
           entries == assign(gen.entries, top.path, entry)
           h == [made EXCEPT !.ctx = c, !.entries = entries]
           in == stand_in(h, entry)
           param == ensure_slot_for_decl(in, top.path)
           stored == store(param, Argument, param.ctx.local_slots[top.path])
           slot == create_temp_alloca(stored, "bool")
           result == [slot EXCEPT !.ctx.return_slot = slot.registers]
           g == begin_function(gen)
<1>1. Good(gen) /\ Len(gen.blocks) \in Nat /\ DOMAIN gen.blocks = 1..Len(gen.blocks)
  BY BlocksShape, TopFacts
<1>2. Makes(gen, made, 2)
  BY <1>1, CreateMakes
<1>3. g = IF top.node.k = "fn" THEN stored ELSE result
  <2>1. made.entries = gen.entries
    BY <1>1 DEF create_blocks, Good, is_gen
  <2> QED
    BY <2>1 DEF begin_function
<1> HIDE DEF made, g, entries
<1>4. Len(gen.blocks) + 2 = entry + 1 /\ (Len(gen.blocks) + 1)..(Len(gen.blocks) + 2) = {entry, entry + 1}
      /\ entry \in Nat \ {0}
  BY <1>1
<1>5. /\ DOMAIN made.blocks = 1..(entry + 1)
      /\ open(made) = open(gen) \cup {entry, entry + 1}
      /\ kept(gen, made)
      /\ Good(made)
  BY <1>2, <1>4 DEF Makes
<1>6. entry \in 1..(entry + 1)
  BY <1>4
<1> HIDE DEF entry
<1>7. /\ is_ctx(c)
      /\ c.entry_block = entry
      /\ c.return_block = entry + 1
  <2>1. is_ctx(NoContext)
    BY DEF NoContext, is_ctx
  <2>2. c = [NoContext EXCEPT !.entry_block = entry, !.return_block = entry + 1]
    OBVIOUS
  <2> HIDE DEF c
  <2> QED
    BY <2>1, <2>2 DEF is_ctx
<1> HIDE DEF c
<1>21. h = [made EXCEPT !.ctx = c, !.entries = entries]
  OBVIOUS
<1> HIDE DEF h
<1>8. /\ is_gen(h)
      /\ h.ctx = c
      /\ h.blocks = made.blocks
  BY <1>5, <1>21 DEF Good, is_gen
<1>9. Good(h)
  BY <1>5, <1>6, <1>7, <1>8 DEF Good
<1>10. /\ Good(in)
       /\ in.blocks = made.blocks
       /\ in.insertion_block = entry
       /\ in.ctx.current_block = entry
       /\ ~in.ctx.block_sealed
       /\ in.ctx.return_block = entry + 1
  BY <1>7, <1>8, <1>9, StandIn DEF Goes
<1>11. in.ctx.entry_block = entry
  BY <1>7, <1>8, <1>9 DEF stand_in, Good, is_gen, is_ctx
<1> HIDE DEF in
<1>12. open(in) = open(made) /\ kept(gen, in) /\ DOMAIN in.blocks = 1..(entry + 1)
  BY <1>5, <1>10 DEF open, kept
<1>13. Emits(in, param)
  BY <1>5, <1>10, <1>11, <1>12, EntrySlots
<1> HIDE DEF param
<1>14. Emits(param, stored)
  BY <1>5, <1>10, <1>12, <1>13, StoreEmits DEF Emits, same_place
<1> HIDE DEF stored
<1>15. Emits(in, stored)
  BY <1>13, <1>14, EmitsTwice
<1>16. Emits(stored, slot)
  BY <1>5, <1>11, <1>12, <1>15, EntrySlots DEF Emits, same_place
<1> HIDE DEF slot
<1>17. Emits(slot, result)
  <2>1. ASSUME NEW v, NEW k, k = [slot EXCEPT !.ctx.return_slot = v]
        PROVE  Emits(slot, k)
    <3>1. /\ is_gen(k) /\ k.ctx = [slot.ctx EXCEPT !.return_slot = v]
          /\ k.blocks = slot.blocks /\ k.insertion_block = slot.insertion_block
      BY <1>16, <2>1 DEF Emits, Good, is_gen
    <3>2. /\ is_ctx(k.ctx)
          /\ k.ctx.entry_block = slot.ctx.entry_block
          /\ k.ctx.return_block = slot.ctx.return_block
          /\ k.ctx.current_block = slot.ctx.current_block
          /\ k.ctx.block_sealed = slot.ctx.block_sealed
      BY <1>16, <3>1 DEF Emits, Good, is_ctx
    <3> QED
      BY <1>16, <3>1, <3>2 DEF Emits, Good, same_place, open, kept
  <2> QED
    BY <2>1
<1> HIDE DEF result
<1>18. Emits(in, g)
  BY <1>3, <1>15, <1>16, <1>17, EmitsTwice
<1>19. kept(gen, g)
  BY <1>12, <1>18, KeptTwice DEF Emits
<1>20. /\ Good(g)
       /\ g.ctx.current_block = entry /\ ~g.ctx.block_sealed
       /\ g.ctx.return_block = entry + 1
       /\ g.insertion_block = entry
       /\ DOMAIN g.blocks = 1..(entry + 1)
       /\ open(g) = open(gen) \cup {entry, entry + 1}
  BY <1>5, <1>10, <1>12, <1>18 DEF Emits, same_place
<1> QED
  BY <1>19, <1>20 DEF g, entry

(* A function ends: what it closes are its own blocks. *)
LEMMA EndsIn ==
  ASSUME PointInv, stack # << >>, top.node.k \in FunctionKinds, top.at = 1
  PROVE  LET g == end_function(gen)
         IN  /\ Good(g)
             /\ DOMAIN g.blocks = DOMAIN gen.blocks
             /\ open(gen) \ held(gen) \subseteq open(g)
             /\ open(g) \subseteq open(gen)
             /\ kept(gen, g)
<1> DEFINE body == top.node.s[1]
           valued == top.node.k = "fnb" /\ body.next
           rb == gen.ctx.return_block
           slot == gen.ctx.return_slot
           result == IF valued THEN store_expression_result(gen, child(1), slot) ELSE gen
           left == branch_if_needed(result, rb)
           out == [left EXCEPT !.insertion_block = rb]
           value == define(out, "load", <<slot>>)
           valued_ret == emit(value, "ret", <<value.registers>>)
           plain_ret == emit(out, "ret", << >>)
           g == end_function(gen)
<1>1. Good(gen) /\ (live(gen) => standing(gen)) /\ gen.ctx.return_block # NoBlock
  BY TopFacts
<1>2. valued => live(gen)
  <2>1. valued => completes(body)
    BY TopFacts DEF orderly_node
  <2> QED
    BY <2>1, TopFacts
<1>3. Emits(gen, result)
  BY <1>1, <1>2, EmitsNothing, ResultEmits
<1>4. g = CASE ends_in_terminator(out.blocks[rb]) -> out
            [] slot # NoValue -> valued_ret
            [] OTHER -> plain_ret
  BY DEF end_function
<1> HIDE DEF result, g
<1>5. Good(result) /\ (live(result) => standing(result))
  BY <1>1, <1>3, EmitsStands DEF Emits
<1>6. /\ Good(left)
      /\ DOMAIN left.blocks = DOMAIN gen.blocks
      /\ open(left) = open(gen) \ (IF live(gen) THEN {gen.ctx.current_block} ELSE {})
      /\ kept(gen, left)
  <2>1. /\ Good(left)
        /\ DOMAIN left.blocks = DOMAIN result.blocks
        /\ open(left) = open(result) \ (IF live(result) THEN {result.ctx.current_block} ELSE {})
        /\ kept(result, left)
    BY <1>5, BranchIfNeeded
  <2>2. live(result) <=> live(gen)
    BY <1>3, EmitsStands
  <2> QED
    BY <1>3, <2>1, <2>2, KeptTwice DEF Emits, same_place
<1> HIDE DEF left
<1>7. Good(out) /\ out.blocks = left.blocks /\ out.insertion_block = rb
  BY <1>6 DEF Good, is_gen
<1> HIDE DEF out
<1>8. open(out) = open(left) /\ kept(gen, out) /\ DOMAIN out.blocks = DOMAIN gen.blocks
  BY <1>6, <1>7 DEF open, kept
<1>9. rb \in open(out)
  BY <1>1, <1>6, <1>8, ReturnBlock
<1> HIDE DEF slot
<1>10. Closes(out, plain_ret, rb)
  BY <1>7, <1>9, InsertIntoOpen DEF emit, instruction, is_terminator, Terminators
<1>11. Emits(out, value)
  BY <1>7, <1>9, EmitEmits DEF Terminators
<1> HIDE DEF value
<1>12. Good(value) /\ value.insertion_block = rb /\ rb \in open(value) /\ kept(gen, value)
       /\ open(value) = open(out) /\ DOMAIN value.blocks = DOMAIN out.blocks
  BY <1>7, <1>8, <1>9, <1>11, KeptTwice DEF Emits, same_place
<1>13. Closes(value, valued_ret, rb)
  BY <1>12, InsertIntoOpen DEF emit, instruction, is_terminator, Terminators
<1> HIDE DEF valued_ret, plain_ret
<1>14. g = valued_ret \/ g = plain_ret
  BY <1>4, <1>9 DEF open
<1>15. /\ Good(g)
       /\ DOMAIN g.blocks = DOMAIN gen.blocks
       /\ open(g) = open(out) \ {rb}
       /\ kept(gen, g)
  <2>1. CASE g = valued_ret
    BY <1>8, <1>12, <1>13, <2>1, KeptTwice DEF Closes
  <2>2. CASE g = plain_ret
    BY <1>8, <1>10, <2>2, KeptTwice DEF Closes
  <2> QED
    BY <1>14, <2>1, <2>2
<1>16. {rb} \cup (IF live(gen) THEN {gen.ctx.current_block} ELSE {}) \subseteq held(gen)
  BY <1>1 DEF held, held_by, in_block, live
<1>17. open(g) \subseteq open(gen) /\ open(gen) \ held(gen) \subseteq open(g)
  BY <1>6, <1>8, <1>15, <1>16
<1> QED
  BY <1>15, <1>17 DEF g

LEMMA FunctionKeeps ==
  ASSUME PointInv, VisitFunction
  PROVE  PointInv' /\ kept_but_slots(gen, gen')
<1>1. stack # << >> /\ top.node.k \in FunctionKinds
  BY DEF VisitFunction, visiting, running
<1>2. Good(gen) /\ is_frame(top) /\ FrameOK(top, Len(stack), gen) /\ agrees(gen.ctx, gen.insertion_block)
  BY <1>1, TopFacts
<1>3. 1 \in 1..Len(top.node.s)
  <2>1. Len(top.node.s) = 1
    BY <1>1, TopFacts DEF orderly_node, right_arity
  <2> QED
    BY <2>1
<1>4. top.node.k \notin {"if", "while", "loop"} /\ top.node.k \notin ShortCircuit
  BY <1>1 DEF FunctionKinds, ShortCircuit
<1>5. held(gen) \subseteq open(gen) /\ open(gen) \subseteq DOMAIN gen.blocks
  BY <1>1, TopFacts DEF open
<1>6. Len(gen.blocks) \in Nat /\ DOMAIN gen.blocks = 1..Len(gen.blocks)
  BY <1>2, BlocksShape
<1>7. CASE visiting(FunctionKinds, 0)
  <2> DEFINE g == begin_function(gen)
             entry == Len(gen.blocks) + 1
             f == [top EXCEPT !.prev = <<gen.ctx, gen.insertion_block>>]
             e == [f EXCEPT !.at = 1]
  <2>1. accept(g, f, 1)
    BY <1>7 DEF VisitFunction, visiting
  <2>2. /\ Good(g)
        /\ g.ctx.current_block = entry /\ ~g.ctx.block_sealed
        /\ g.ctx.return_block = entry + 1
        /\ g.insertion_block = entry
        /\ DOMAIN g.blocks = 1..(entry + 1)
        /\ open(g) = open(gen) \cup {entry, entry + 1}
        /\ kept(gen, g)
    BY <1>1, BeginsIn
  <2> HIDE DEF g
  <2>3. /\ entry \in Nat \ {0} /\ entry # entry + 1 /\ entry + 1 # 0
        /\ entry \notin DOMAIN gen.blocks /\ entry + 1 \notin DOMAIN gen.blocks
        /\ DOMAIN gen.blocks \subseteq 1..(entry + 1)
    BY <1>6
  <2> HIDE DEF entry
  <2>4. held(g) = {entry, entry + 1} /\ live(g) /\ agrees(g.ctx, g.insertion_block)
        /\ g.ctx.return_block # NoBlock
    BY <2>2, <2>3 DEF held, held_by, in_block, live, agrees, NoBlock
  <2>5. is_frame(f) /\ f.node = top.node /\ f.prev = <<gen.ctx, gen.insertion_block>>
    BY <1>2, FrameWith
  <2> HIDE DEF f
  <2>6. is_frame(e) /\ e.node = top.node /\ e.at = 1 /\ e.prev[1] = gen.ctx /\ e.prev[2] = gen.insertion_block
    BY <2>5, FrameAt
  <2> HIDE DEF e
  <2>7. waiting(e) = held(gen)
    BY <1>1, <2>6, WaitsFor DEF held
  <2>8. kept_but_slots(gen, g)
    BY <2>2, KeptTwice
  <2>9. Moves(g, waiting(e))
    <3>1. waiting(e) \cup held(g) \subseteq open(g) /\ waiting(e) \cap held(g) = {}
      BY <1>5, <2>2, <2>3, <2>4, <2>7
    <3>2. (waiting(e) \cup held(g)) \cap DOMAIN gen.blocks \subseteq waiting(top) \cup held(gen)
      BY <2>3, <2>4, <2>7
    <3> QED
      BY <2>2, <2>3, <2>4, <2>8, <3>1, <3>2 DEF Moves
  <2>10. FrameOK(e, Len(stack), g)
    <3>1. is_ctx(gen.ctx) /\ gen.ctx.entry_block \in DOMAIN g.blocks \cup {NoBlock}
      BY <1>2, <2>2, <2>3 DEF Good
    <3>2. Len(stack) > 1 => in_block(gen.ctx) /\ gen.ctx.return_block # NoBlock
      BY <1>1, <1>7, TopFacts DEF visiting, in_block, live
    <3>3. e.at \in 0..Len(e.node.s)
      BY <1>3, <2>6
    <3> QED
      BY <1>1, <1>2, <1>4, <2>6, <3>1, <3>2, <3>3 DEF FrameOK
  <2> QED
    BY <1>1, <1>3, <2>1, <2>4, <2>5, <2>9, <2>10, AcceptKeeps DEF e
<1>8. CASE visiting(FunctionKinds, 1)
  <2> DEFINE g == end_function(gen)
             h == [g EXCEPT !.ctx = top.prev[1], !.insertion_block = top.prev[2]]
  <2>1. return(h) /\ top.at = 1
    BY <1>8 DEF VisitFunction, visiting
  <2>2. /\ Good(g)
        /\ DOMAIN g.blocks = DOMAIN gen.blocks
        /\ open(gen) \ held(gen) \subseteq open(g)
        /\ open(g) \subseteq open(gen)
        /\ kept(gen, g)
    BY <1>1, <2>1, EndsIn
  <2> HIDE DEF g
  <2>3. /\ is_ctx(top.prev[1])
        /\ top.prev[1].entry_block \in DOMAIN gen.blocks \cup {NoBlock}
        /\ agrees(top.prev[1], top.prev[2])
        /\ Len(stack) > 1 => in_block(top.prev[1]) /\ top.prev[1].return_block # NoBlock
    BY <1>1, <1>2, <2>1 DEF FrameOK
  <2>4. waiting(top) = held_by(top.prev[1]) /\ waiting(top) \subseteq open(gen) /\ waiting(top) \cap held(gen) = {}
    BY <1>1, <2>1, TopFacts, WaitsFor
  <2>5. /\ is_gen(h)
        /\ h.blocks = g.blocks
        /\ h.ctx = top.prev[1]
        /\ h.insertion_block = top.prev[2]
    <3>1. h = [g EXCEPT !.ctx = top.prev[1], !.insertion_block = top.prev[2]]
      OBVIOUS
    <3> HIDE DEF h
    <3> QED
      BY <2>2, <3>1 DEF Good, is_gen
  <2> HIDE DEF h
  <2>6. Good(h)
    BY <2>2, <2>3, <2>5 DEF Good
  <2>7. held(h) = waiting(top) /\ open(h) = open(g)
    BY <2>4, <2>5 DEF held, open
  <2>8. held(h) \subseteq open(h)
    BY <2>2, <2>4, <2>7
  <2>9. kept(gen, h)
    BY <2>2, <2>5 DEF kept
  <2>10. kept_but_slots(gen, h)
    BY <2>9, KeptTwice
  <2>11. Moves(h, {})
    <3>1. open(gen) \ (waiting(top) \cup held(gen)) \subseteq open(h)
      BY <2>2, <2>7
    <3>2. DOMAIN gen.blocks \subseteq DOMAIN h.blocks /\ agrees(h.ctx, h.insertion_block)
      BY <2>2, <2>3, <2>5
    <3> QED
      BY <2>6, <2>7, <2>8, <2>10, <3>1, <3>2 DEF Moves
  <2>12. Len(stack) > 1 => live(h) /\ h.ctx.return_block # NoBlock
    BY <2>3, <2>5 DEF in_block, live
  <2> QED
    BY <1>1, <2>1, <2>11, <2>12, ReturnKeeps
<1> QED
  BY <1>7, <1>8 DEF VisitFunction

-----------------------------------------------------------------------------
(* The theorems *)

LEMMA PointStep ==
  ASSUME PointInv, Next
  PROVE  PointInv' /\ kept_but_slots(gen, gen')
BY LiteralKeeps, IdentifierKeeps, CallKeeps, ExitKeeps, ArithmeticKeeps, UnaryKeeps, AssignKeeps,
   ShortCircuitKeeps, LetKeeps, ReturnStmtKeeps, BreakKeeps, ContinueKeeps, IfKeeps, WhileKeeps,
   LoopKeeps, BlockKeeps, FunctionKeeps DEF Next

LEMMA ProgramStays ==
  ASSUME Next
  PROVE  program' = program
<1> USE DEF accept, return
<1>1. CASE VisitLiteral \/ VisitIdentifier \/ VisitCall \/ VisitExit
  BY <1>1 DEF VisitLiteral, VisitIdentifier, VisitCall, VisitExit
<1>2. CASE VisitArithmetic \/ VisitUnary \/ VisitAssign \/ VisitShortCircuit
  BY <1>2 DEF VisitArithmetic, VisitUnary, VisitAssign, VisitShortCircuit
<1>3. CASE VisitLet \/ VisitReturn \/ VisitBreak \/ VisitContinue
  BY <1>3 DEF VisitLet, VisitReturn, VisitBreak, VisitContinue
<1>4. CASE VisitIf \/ VisitWhile \/ VisitLoop \/ VisitBlock \/ VisitFunction
  BY <1>4 DEF VisitIf, VisitWhile, VisitLoop, VisitBlock, VisitFunction, join
<1> QED
  BY <1>1, <1>2, <1>3, <1>4 DEF Next

OrderlyPoint == orderly => PointInv

LEMMA OrderlyPointInvariant == Spec => []OrderlyPoint
<1>1. Init => OrderlyPoint
  BY InitPoint DEF OrderlyPoint
<1>2. OrderlyPoint /\ [Next]_vars => OrderlyPoint'
  <2> SUFFICES ASSUME OrderlyPoint, [Next]_vars, orderly'
               PROVE  PointInv'
    BY DEF OrderlyPoint
  <2>1. CASE Next
    <3>1. orderly
      BY <2>1, ProgramStays DEF orderly
    <3> QED
      BY <2>1, <3>1, PointStep DEF OrderlyPoint
  <2>2. CASE UNCHANGED vars
    <3>1. program' = program /\ stack' = stack /\ gen' = gen
      BY <2>2 DEF vars
    <3>2. orderly
      BY <3>1 DEF orderly
    <3>3. PointInv
      BY <3>2 DEF OrderlyPoint
    <3> QED
      BY <3>1, <3>3 DEF PointInv, FramesOK, Claims, Lively, top
  <2> QED
    BY <2>1, <2>2
<1> QED
  BY <1>1, <1>2, PTL DEF Spec

(***************************************************************************)
(* For every set of orderly programs: between visits current_block,        *)
(* block_sealed and the insertion point of the builder agree, and the      *)
(* block the visitor believes it is in has no terminator yet               *)
(* (IRGenVisitor, every visit of ir/IRGen.cpp).                            *)
(***************************************************************************)
THEOREM PointIsRight == Spec => []PointFollowsContext
<1>1. OrderlyPoint => PointFollowsContext
  <2> SUFFICES ASSUME OrderlyPoint, orderly, live(gen)
               PROVE  /\ gen.insertion_block = gen.ctx.current_block
                      /\ ~ends_in_terminator(gen.blocks[gen.ctx.current_block])
    BY DEF PointFollowsContext
  <2>1. PointInv
    BY DEF OrderlyPoint
  <2> QED
    BY <2>1 DEF PointInv, Claims, held, held_by, open, agrees, in_block, live
<1> QED
  BY <1>1, OrderlyPointInvariant, PTL

(***************************************************************************)
(* For every set of orderly programs: no step of the lowering puts code    *)
(* into a block that has its terminator; the one thing it may add there is *)
(* a slot (create_temp_alloca into the entry block).                       *)
(***************************************************************************)
THEOREM NoCodeIsLate == Spec => NoLateCode
<1>1. OrderlyPoint /\ [Next]_vars => [orderly => no_late_code]_vars
  <2> SUFFICES ASSUME OrderlyPoint, Next, orderly
               PROVE  no_late_code
    BY DEF vars
  <2>1. kept_but_slots(gen, gen')
    BY PointStep DEF OrderlyPoint
  <2> QED
    BY <2>1 DEF no_late_code, kept_but_slots, block_numbers, open
<1> QED
  BY <1>1, OrderlyPointInvariant, PTL DEF Spec, NoLateCode

-----------------------------------------------------------------------------
(* What a helper leaves alone when it does not throw *)

Keeps(g, h) ==
  /\ h.failed = g.failed
  /\ g.registers \in Nat => h.registers \in Nat
  /\ h.ctx.loop_stack = g.ctx.loop_stack
  /\ h.ctx.loop_capacity = g.ctx.loop_capacity
  /\ h.ctx.return_slot = g.ctx.return_slot
  /\ h.ctx.entry_block = g.ctx.entry_block
  /\ DOMAIN g.expr_value \subseteq DOMAIN h.expr_value
  /\ DOMAIN g.expr_address \subseteq DOMAIN h.expr_address

has_value(g, path) == path \in DOMAIN g.expr_value \cup DOMAIN g.expr_address

LEMMA KeepsTwice ==
  ASSUME NEW g, NEW h, NEW k
  PROVE  /\ Keeps(g, g)
         /\ Keeps(g, h) /\ Keeps(h, k) => Keeps(g, k)
         /\ Keeps(g, h) => \A path : has_value(g, path) => has_value(h, path)
BY DEF Keeps, has_value

LEMMA InsertKeeps ==
  ASSUME NEW g, Good(g), NEW b, NEW inst,
         b \in open(g) \/ (b \in DOMAIN g.blocks /\ ~is_terminator(inst))
  PROVE  Keeps(g, insert(g, b, inst))
<1>1. b # NoBlock /\ b \in DOMAIN g.blocks
  BY BlocksShape DEF NoBlock, open
<1>2. ~append_throws(g.blocks[b], inst)
  BY DEF append_throws, open
<1>3. insert(g, b, inst) = [g EXCEPT !.blocks[b] = append(@, inst)]
  BY <1>1, <1>2 DEF insert
<1> QED
  BY <1>3 DEF Keeps, Good, is_gen

LEMMA SetKeeps ==
  ASSUME NEW g, Good(g), NEW path, NEW v
  PROVE  /\ Keeps(g, set_value(g, path, v)) /\ has_value(set_value(g, path, v), path)
         /\ Keeps(g, set_address(g, path, v)) /\ has_value(set_address(g, path, v), path)
<1>1. ASSUME NEW f
      PROVE  DOMAIN assign(f, path, v) = {path} \cup DOMAIN f
  BY DEF assign
<1>2. set_value(g, path, v).expr_value = assign(g.expr_value, path, v)
  BY DEF set_value, Good, is_gen
<1>3. set_address(g, path, v).expr_address = assign(g.expr_address, path, v)
  BY DEF set_address, Good, is_gen
<1>4. /\ set_value(g, path, v).expr_address = g.expr_address
      /\ set_address(g, path, v).expr_value = g.expr_value
      /\ set_value(g, path, v).failed = g.failed /\ set_value(g, path, v).ctx = g.ctx
      /\ set_address(g, path, v).failed = g.failed /\ set_address(g, path, v).ctx = g.ctx
      /\ set_value(g, path, v).registers = g.registers
      /\ set_address(g, path, v).registers = g.registers
  BY DEF set_value, set_address, Good, is_gen
<1> QED
  BY <1>1, <1>2, <1>3, <1>4 DEF Keeps, has_value

LEMMA EmitKeeps ==
  ASSUME NEW g, Good(g), g.insertion_block \in open(g), NEW op, NEW use
  PROVE  Keeps(g, emit(g, op, use)) /\ Keeps(g, define(g, op, use))
<1>1. Keeps(g, emit(g, op, use))
  BY InsertKeeps DEF emit
<1>2. Keeps(g, define(g, op, use))
  <2> DEFINE inst == instruction(op, g.registers + 1, use, << >>)
             h == insert(g, g.insertion_block, inst)
  <2> HIDE DEF inst
  <2>1. Keeps(g, h)
    BY InsertKeeps
  <2>2. Good(h)
    BY InsertChanges DEF open
  <2> HIDE DEF h
  <2>3. define(g, op, use) = [h EXCEPT !.registers = h.registers + 1]
    BY DEF define, define_in, h, inst
  <2> QED
    BY <2>1, <2>2, <2>3 DEF Keeps, Good, is_gen
<1> QED
  BY <1>1, <1>2

LEMMA StoreKeeps ==
  ASSUME NEW g, Good(g), g.insertion_block \in open(g), NEW v, NEW slot
  PROVE  Keeps(g, store(g, v, slot))
BY EmitKeeps DEF store

LEMMA BranchKeeps ==
  ASSUME NEW g, Good(g), g.insertion_block \in open(g), NEW v, NEW then, NEW else
  PROVE  /\ Keeps(g, create_br(g, then))
         /\ Keeps(g, create_cond_br(g, v, then, else))
BY InsertKeeps DEF create_br, create_cond_br

LEMMA RvalueKeeps ==
  ASSUME NEW g, Good(g), g.insertion_block \in open(g), NEW path, has_value(g, path)
  PROVE  Keeps(g, get_rvalue(g, path).g)
<1>1. CASE path \in DOMAIN g.expr_value
  BY <1>1, KeepsTwice DEF get_rvalue
<1>2. CASE path \notin DOMAIN g.expr_value /\ path \in DOMAIN g.expr_address
  BY <1>2, EmitKeeps DEF get_rvalue
<1> QED
  BY <1>1, <1>2 DEF has_value

LEMMA ResultKeeps ==
  ASSUME NEW g, Good(g), standing(g), NEW path, NEW slot, has_value(g, path)
  PROVE  Keeps(g, store_expression_result(g, path, slot))
<1> DEFINE r == get_rvalue(g, path)
<1>1. Emits(g, r.g) /\ standing(r.g) /\ Good(r.g)
  BY RvalueEmits, EmitsStands DEF standing, Emits
<1>2. Keeps(g, r.g)
  BY RvalueKeeps DEF standing
<1> HIDE DEF r
<1>3. Keeps(r.g, store(r.g, r.value, slot))
  BY <1>1, StoreKeeps DEF standing
<1>4. store_expression_result(g, path, slot) = store(r.g, r.value, slot)
  BY <1>1, EnsureKeeps DEF store_expression_result, r
<1> QED
  BY <1>2, <1>3, <1>4, KeepsTwice

LEMMA OperandsKeep ==
  ASSUME NEW g, Good(g), standing(g), NEW paths, Len(paths) \in 0..2,
         \A i \in 1..Len(paths) : has_value(g, paths[i])
  PROVE  Keeps(g, operand_values(g, paths).g)
<1> DEFINE first == get_rvalue(g, paths[1])
           second == get_rvalue(first.g, paths[2])
<1>1. Emits(g, first.g) /\ standing(first.g) /\ Good(first.g)
  BY RvalueEmits, EmitsStands DEF standing, Emits
<1>2. Len(paths) # 0 => Keeps(g, first.g)
  <2>1. Len(paths) # 0 => 1 \in 1..Len(paths)
    OBVIOUS
  <2> QED
    BY <2>1, RvalueKeeps DEF standing
<1>3. Len(paths) = 2 => Keeps(g, second.g)
  <2> HIDE DEF first
  <2>1. Len(paths) = 2 => has_value(first.g, paths[2])
    BY <1>2, KeepsTwice
  <2>2. Len(paths) = 2 => Keeps(first.g, second.g)
    BY <1>1, <2>1, RvalueKeeps DEF standing
  <2> QED
    BY <1>2, <2>2, KeepsTwice
<1>4. CASE Len(paths) = 0
  <2>1. operand_values(g, paths) = [g |-> g, values |-> << >>]
    BY <1>4 DEF operand_values
  <2>2. operand_values(g, paths).g = g
    BY <2>1
  <2> QED
    BY <2>2, KeepsTwice
<1>5. CASE Len(paths) = 1
  BY <1>2, <1>5 DEF operand_values
<1>6. CASE Len(paths) = 2
  BY <1>3, <1>6 DEF operand_values
<1> QED
  BY <1>4, <1>5, <1>6

LEMMA AllocaKeeps ==
  ASSUME NEW g, Good(g), g.ctx.entry_block # NoBlock, NEW type
  PROVE  Keeps(g, create_temp_alloca(g, type))
<1> DEFINE op == IF type = "never" THEN "alloca_void" ELSE "alloca"
           inst == instruction(op, g.registers + 1, << >>, << >>)
           h == insert(g, g.ctx.entry_block, inst)
<1>1. ~is_terminator(inst)
  BY DEF instruction, is_terminator, Terminators
<1>2. g.ctx.entry_block \in DOMAIN g.blocks
  BY DEF Good
<1> HIDE DEF inst
<1>3. Keeps(g, h) /\ Good(h)
  BY <1>1, <1>2, InsertKeeps, InsertChanges
<1>4. create_temp_alloca(g, type) = [h EXCEPT !.registers = h.registers + 1]
  BY DEF create_temp_alloca, define_in, inst
<1> HIDE DEF h
<1> QED
  BY <1>3, <1>4 DEF Keeps, Good, is_gen

LEMMA DeclKeeps ==
  ASSUME NEW g, Good(g), g.ctx.entry_block # NoBlock, NEW decl
  PROVE  Keeps(g, ensure_slot_for_decl(g, decl))
<1>1. CASE decl \in DOMAIN g.ctx.local_slots
  BY <1>1, KeepsTwice DEF ensure_slot_for_decl
<1>2. CASE decl \notin DOMAIN g.ctx.local_slots
  <2> DEFINE h == create_temp_alloca(g, "bool")
             slots == assign(h.ctx.local_slots, decl, h.registers)
  <2>1. Keeps(g, h) /\ Good(h)
    BY AllocaKeeps, AllocaSlots DEF Slots
  <2>2. ensure_slot_for_decl(g, decl) = [h EXCEPT !.ctx.local_slots = slots]
    BY <1>2 DEF ensure_slot_for_decl
  <2> HIDE DEF h, slots
  <2> QED
    BY <2>1, <2>2 DEF Keeps, Good, is_gen, is_ctx
<1> QED
  BY <1>1, <1>2

(* Going elsewhere, and new blocks. *)
LEMMA MovesKeep ==
  ASSUME NEW g, Good(g), NEW b, NEW k
  PROVE  /\ Keeps(g, stand_in(g, b))
         /\ Keeps(g, drop_current(g))
         /\ Keeps(g, create_blocks(g, k))
<1>1. Keeps(g, stand_in(g, b))
  BY DEF stand_in, Keeps, Good, is_gen, is_ctx
<1>2. Keeps(g, drop_current(g))
  BY DEF drop_current, Keeps, Good, is_gen, is_ctx
<1>3. ASSUME NEW h, h = create_blocks(g, k)
      PROVE  Keeps(g, h)
  BY <1>3 DEF create_blocks, Keeps, Good, is_gen
<1> QED
  BY <1>1, <1>2, <1>3

LEMMA BranchIfKeeps ==
  ASSUME NEW g, Good(g), live(g) => standing(g), NEW target
  PROVE  Keeps(g, branch_if_needed(g, target))
<1>1. CASE ~live(g)
  BY <1>1, KeepsTwice DEF branch_if_needed
<1>2. CASE live(g)
  <2> DEFINE k == create_br(g, target)
  <2>1. [g EXCEPT !.insertion_block = g.ctx.current_block] = g
    BY <1>2 DEF standing, Good, is_gen
  <2>2. branch_if_needed(g, target) = [k EXCEPT !.ctx.block_sealed = TRUE]
    BY <1>2, <2>1 DEF branch_if_needed
  <2>3. Keeps(g, k) /\ Good(k)
    BY <1>2, BranchKeeps, BranchCloses DEF standing, Closes
  <2> HIDE DEF k
  <2> QED
    BY <2>2, <2>3 DEF Keeps, Good, is_gen, is_ctx
<1> QED
  BY <1>1, <1>2

-----------------------------------------------------------------------------
(* The inductive invariant: an environment for each visit in progress *)

(* Is the child that is being visited the body of this loop? *)
in_body(f) == (f.node.k = "while" /\ f.at = 2) \/ (f.node.k = "loop" /\ f.at = 1)

in_function(f) == f.node.k \in FunctionKinds /\ f.at = 1

(***************************************************************************)
(* An environment e of a visit has its place, the loop_stack it was begun  *)
(* with, the capacity a break around it counts on, and whether a function  *)
(* is around it.                                                           *)
(***************************************************************************)
settled(c, e) ==
  /\ e.place.held => c.loop_capacity = e.capacity
  /\ ~e.place.result => c.return_slot = NoValue
  /\ e.inside => c.entry_block # NoBlock

(* The context c that f left when it began a function, or has otherwise. *)
fits(c, e) == settled(c, e) /\ c.loop_stack = e.loops

environment(n, e) ==
  /\ <<n, e.place>> \in SoundPlaces
  /\ is_seq(e.loops)
  /\ e.place.loop # "none" => e.loops # << >>
  /\ e.place.loop = "plain" => Last(e.loops).break_slot = NoValue
  /\ n.k \notin FunctionKinds => e.inside

(* What a visit that waits for a child, or goes on behind one, relies on. *)
remembers(f, e) ==
  /\ in_function(f) => fits(f.prev[1], e)
  /\ f.node.k = "brk" /\ f.at = 1 => e.place.loop # "plain"
  /\ f.node.k = "loop" /\ f.at = 1 /\ needs_result(f.node) => f.slot # NoValue
  /\ f.node.k = "block" => \A i \in 1..(f.at - 1) : f.node.s[i].next

(* The environment d of the child that f visits. *)
encloses(f, e, d) ==
  /\ d.place = place_of(f.node, e.place, f.at)
  /\ d.inside
  /\ f.node.k \notin FunctionKinds =>
       /\ in_body(f) => d.loops # << >> /\ Front(d.loops) = e.loops
       /\ ~in_body(f) => d.loops = e.loops
       /\ e.place.held => d.capacity = e.capacity
       /\ f.node.k = "brk" => d.capacity = f.loop[2]

(* The values of the first m children, as far as they are read. *)
valued(f, e, m, g) ==
  \A i \in read_children(f.node, e.place) : i <= m => has_value(g, Append(f.path, i))

(* Where the top frame stands. *)
stands(f, e, g) ==
  /\ valued(f, e, f.at, g)
  /\ f.at > 0 /\ place_of(f.node, e.place, f.at).closes => ~live(g)
  /\ ~in_function(f) =>
       /\ settled(g.ctx, e)
       /\ in_body(f) => loops(g) # << >> /\ Front(loops(g)) = e.loops
       /\ ~in_body(f) => loops(g) = e.loops
       /\ f.node.k = "brk" /\ f.at = 1 => g.ctx.loop_capacity = f.loop[2]

Surrounded(envs) ==
  /\ \A n \in 1..Len(stack) :
       environment(stack[n].node, envs[n]) /\ remembers(stack[n], envs[n])
  /\ \A n \in 1..Len(stack) : n < Len(stack) =>
       /\ encloses(stack[n], envs[n], envs[n + 1])
       /\ valued(stack[n], envs[n], stack[n].at - 1, gen)
       /\ stack[n + 1].path = Append(stack[n].path, stack[n].at)
  /\ stack # << >> => stands(top, envs[Len(stack)], gen)

SoundInv == ~gen.failed /\ gen.registers \in Nat /\ \E envs : Surrounded(envs)

LEMMA InitSound ==
  ASSUME Init, sound
  PROVE  SoundInv
<1> DEFINE e == [place |-> TopPlace, loops |-> << >>, capacity |-> 0, inside |-> FALSE]
           envs == [n \in {1} |-> e]
           f == frame(program, << >>, << >>)
<1>1. gen = InitialGen /\ stack = <<f>>
  BY DEF Init
<1>2. f.node = program /\ f.at = 0
  BY DEF frame
<1> HIDE DEF f
<1>3. Len(stack) = 1 /\ stack[1] = f /\ stack # << >> /\ top = f
  BY <1>1 DEF top, Last
<1>4. e.place = TopPlace /\ e.loops = << >> /\ ~e.inside /\ envs[1] = e
  OBVIOUS
<1> HIDE DEF e, envs
<1>5. environment(f.node, e)
  <2>1. is_seq(<< >>)
    BY EmptyIsCode DEF is_code
  <2> QED
    BY <1>2, <1>4, <2>1 DEF environment, sound, orderly, TopPlace
<1>6. remembers(f, e)
  BY <1>2 DEF remembers, in_function
<1>7. stands(f, e, gen)
  <2>1. \A i \in read_children(f.node, e.place) : i >= 1 /\ i \in Nat
    <3>1. program.s \in Seq(OrderlyNodes)
      BY OrderlyAssumption DEF sound, orderly
    <3> QED
      BY <1>2, <3>1 DEF read_children, operands
  <2>2. valued(f, e, f.at, gen)
    BY <1>2, <2>1 DEF valued
  <2>3. settled(gen.ctx, e) /\ loops(gen) = e.loops /\ ~in_body(f)
    BY <1>1, <1>2, <1>4 DEF settled, TopPlace, InitialGen, NoContext, loops, in_body
  <2> QED
    BY <1>2, <2>2, <2>3 DEF stands
<1>8. Surrounded(envs)
  BY <1>3, <1>4, <1>5, <1>6, <1>7 DEF Surrounded
<1> QED
  BY <1>1, <1>8 DEF SoundInv, InitialGen

LEMMA AcceptPath ==
  ASSUME is_seq(stack), stack # << >>, NEW g, NEW f, NEW i, accept(g, f, i)
  PROVE  stack'[Len(stack) + 1].path = Append(top.path, i)
<1> DEFINE e == [f EXCEPT !.at = i]
           c == frame(f.node.s[i], child(i), IF f.node.k \in FunctionKinds THEN f.path ELSE f.function)
           lower == Front(stack)
           S == Range(stack) \cup {e, c}
<1>1. stack' = Append(Append(lower, e), c)
  BY DEF accept
<1>2. c.path = Append(top.path, i)
  BY DEF frame, child
<1>3. lower \in Seq(S) /\ Len(lower) = Len(stack) - 1 /\ Len(stack) \in Nat \ {0}
  BY StackShape, SeqMonotonic
<1>4. e \in S /\ c \in S
  OBVIOUS
<1> HIDE DEF e, c, S, lower
<1>5. Append(lower, e) \in Seq(S) /\ Len(Append(lower, e)) = Len(stack)
  BY <1>3, <1>4, AppendProperties
<1>6. stack'[Len(stack) + 1] = c
  BY <1>1, <1>4, <1>5, AppendProperties
<1> QED
  BY <1>2, <1>6

-----------------------------------------------------------------------------
(* A visit goes on to a child, or returns *)

keeps_values(g, h) == \A path : has_value(g, path) => has_value(h, path)

LEMMA ReadChildren ==
  ASSUME NEW n \in OrderlyNodes, NEW c
  PROVE  /\ Len(n.s) \in Nat /\ DOMAIN n.s = 1..Len(n.s)
         /\ read_children(n, c) \subseteq 1..Len(n.s)
<1>1. n.s \in Seq(OrderlyNodes)
  BY OrderlyAssumption
<1>2. Len(n.s) \in Nat /\ DOMAIN n.s = 1..Len(n.s)
  BY <1>1
<1> QED
  BY <1>2 DEF read_children, operands

(* What an environment says of a child. *)
LEMMA ChildPlace ==
  ASSUME NEW n, NEW e, environment(n, e), n \in OrderlyNodes, NEW i \in 1..Len(n.s)
  PROVE  /\ <<n.s[i], place_of(n, e.place, i)>> \in SoundPlaces
         /\ i \in read_children(n, e.place) => needs_result(n.s[i])
         /\ sound_place(n, e.place)
<1>1. i \in DOMAIN n.s
  BY ReadChildren
<1>2. <<n, e.place>> \in SoundPlaces
  BY DEF environment
<1>3. <<n, e.place>>[1] = n /\ <<n, e.place>>[2] = e.place
  OBVIOUS
<1>4. sound_place(n, e.place)
  BY <1>2, <1>3, SoundAssumption
<1>5. <<n.s[i], place_of(n, e.place, i)>> \in SoundPlaces
  BY <1>1, <1>2, <1>3, SoundAssumption
<1> QED
  BY <1>4, <1>5 DEF sound_place

LEMMA PlaceFields ==
  ASSUME NEW n, NEW c, NEW i, n.k \notin FunctionKinds
  PROVE  /\ c.held \/ n.k = "brk" => place_of(n, c, i).held
         /\ place_of(n, c, i).held => c.held \/ n.k = "brk"
         /\ place_of(n, c, i).result = c.result
         /\ n.k # "loop" /\ (n.k = "while" => i # 2) => place_of(n, c, i).loop = c.loop
         /\ n.k = "while" /\ i = 2 => place_of(n, c, i).loop = "plain"
         /\ n.k = "loop" => place_of(n, c, i).loop = IF needs_result(n) THEN "valued" ELSE "plain"
         /\ n.k = "if" /\ i > 1 /\ needs_result(n) /\ ~n.s[i].next => place_of(n, c, i).closes
         /\ n.k = "blockt" /\ i = Len(n.s) /\ c.closes => place_of(n, c, i).closes
<1> DEFINE p == place_of(n, c, i)
           loop == CASE n.k = "loop" /\ needs_result(n) -> "valued"
                     [] n.k = "loop" /\ ~needs_result(n) -> "plain"
                     [] n.k = "while" /\ i = 2 -> "plain"
                     [] OTHER -> c.loop
           held_ == c.held \/ n.k = "brk"
           closes == \/ n.k = "if" /\ i > 1 /\ needs_result(n) /\ ~n.s[i].next
                     \/ n.k = "blockt" /\ i = Len(n.s) /\ c.closes
<1>1. p = [loop |-> loop, held |-> held_, result |-> c.result, closes |-> closes]
  BY DEF place_of
<1>2. /\ n.k # "loop" /\ (n.k = "while" => i # 2) => loop = c.loop
      /\ n.k = "while" /\ i = 2 => loop = "plain"
      /\ n.k = "loop" => loop = IF needs_result(n) THEN "valued" ELSE "plain"
  OBVIOUS
<1>3. /\ held_ <=> (c.held \/ n.k = "brk")
      /\ n.k = "if" /\ i > 1 /\ needs_result(n) /\ ~n.s[i].next => closes
      /\ n.k = "blockt" /\ i = Len(n.s) /\ c.closes => closes
  OBVIOUS
<1> HIDE DEF loop, held_, closes, p
<1>4. p.held = held_ /\ p.closes = closes /\ p.loop = loop /\ p.result = c.result
  BY <1>1
<1> QED
  BY <1>2, <1>3, <1>4 DEF p

LEMMA ReturnSound ==
  ASSUME PointInv, stack # << >>, NEW envs, Surrounded(envs),
         NEW g, return(g), ~g.failed, g.registers \in Nat, keeps_values(gen, g),
         Len(stack) > 1 => /\ fits(g.ctx, envs[Len(stack)])
                           /\ needs_result(top.node) => has_value(g, top.path)
                           /\ envs[Len(stack)].place.closes => ~live(g)
  PROVE  SoundInv'
<1> DEFINE l == Len(stack)
<1>1. is_seq(stack) /\ FramesOK
  BY DEF PointInv, FramesOK
<1>2. l \in Nat \ {0} /\ top = stack[l]
  BY <1>1, StackShape
<1>3. /\ gen' = g
      /\ is_seq(stack')
      /\ Len(stack') = l - 1
      /\ \A n \in 1..(l - 1) : stack'[n] = stack[n]
  BY <1>1, ReturnShape
<1>4. \A n \in 1..(l - 1) : n \in 1..l /\ n + 1 \in 1..l /\ n < l
  BY <1>2
<1>5. \A n \in 1..(l - 1) :
        /\ environment(stack[n].node, envs[n]) /\ remembers(stack[n], envs[n])
        /\ encloses(stack[n], envs[n], envs[n + 1])
        /\ valued(stack[n], envs[n], stack[n].at - 1, g)
        /\ stack[n + 1].path = Append(stack[n].path, stack[n].at)
        /\ stack[n + 1].node = stack[n].node.s[stack[n].at]
        /\ stack[n].node \in OrderlyNodes
        /\ stack[n].at \in 1..Len(stack[n].node.s)
  <2> TAKE n \in 1..(l - 1)
  <2>1. /\ environment(stack[n].node, envs[n]) /\ remembers(stack[n], envs[n])
        /\ encloses(stack[n], envs[n], envs[n + 1])
        /\ valued(stack[n], envs[n], stack[n].at - 1, gen)
        /\ stack[n + 1].path = Append(stack[n].path, stack[n].at)
    BY <1>4 DEF Surrounded
  <2>2. valued(stack[n], envs[n], stack[n].at - 1, g)
    BY <2>1 DEF valued, keeps_values
  <2>3. FrameOK(stack[n], n, gen) /\ stack[n].at > 0 /\ stack[n + 1].node = stack[n].node.s[stack[n].at]
    BY <1>1, <1>4 DEF FramesOK
  <2>4. stack[n].node \in OrderlyNodes /\ stack[n].at \in 0..Len(stack[n].node.s)
    BY <2>3 DEF FrameOK
  <2>5. stack[n].at \in 1..Len(stack[n].node.s)
    BY <2>3, <2>4
  <2> QED
    BY <2>1, <2>2, <2>3, <2>4, <2>5
<1>6. ASSUME stack' # << >>
      PROVE  stands(top', envs[Len(stack')], g)
  <2>1. Len(stack') # 0 /\ top' = stack'[Len(stack')]
    BY <1>3, <1>6, EmptySeq DEF top, Last, is_seq
  <2>2. l > 1 /\ l - 1 \in 1..(l - 1) /\ l - 1 + 1 = l
    BY <1>2, <1>3, <2>1
  <2> DEFINE f == stack[l - 1]
             e == envs[l - 1]
             d == envs[l]
             child_ == f.node.s[f.at]
  <2>3. top' = f
    BY <1>3, <2>1, <2>2
  <2>4. /\ environment(f.node, e)
        /\ encloses(f, e, d)
        /\ valued(f, e, f.at - 1, g)
        /\ top.path = Append(f.path, f.at)
        /\ top.node = child_
        /\ f.node \in OrderlyNodes
        /\ f.at \in 1..Len(f.node.s)
    BY <1>2, <1>5, <2>2
  <2>5. fits(g.ctx, d) /\ (needs_result(child_) => has_value(g, Append(f.path, f.at)))
        /\ (d.place.closes => ~live(g))
    BY <2>2, <2>4
  <2> HIDE DEF f, e, d
  <2>6. f.at \in read_children(f.node, e.place) => needs_result(child_)
    BY <2>4, ChildPlace
  <2>7. valued(f, e, f.at, g)
    <3> SUFFICES ASSUME NEW i \in read_children(f.node, e.place), i <= f.at
                 PROVE  has_value(g, Append(f.path, i))
      BY DEF valued
    <3>1. i \in 1..Len(f.node.s) /\ Len(f.node.s) \in Nat
      BY <2>4, ReadChildren
    <3>2. i = f.at \/ i <= f.at - 1
      BY <2>4, <3>1
    <3> QED
      BY <2>4, <2>5, <2>6, <3>2 DEF valued
  <2>8. place_of(f.node, e.place, f.at).closes => ~live(g)
    BY <2>4, <2>5 DEF encloses
  <2>9. ASSUME ~in_function(f)
        PROVE  /\ settled(g.ctx, e)
               /\ in_body(f) => loops(g) # << >> /\ Front(loops(g)) = e.loops
               /\ ~in_body(f) => loops(g) = e.loops
               /\ f.node.k = "brk" /\ f.at = 1 => g.ctx.loop_capacity = f.loop[2]
    <3>1. f.node.k \notin FunctionKinds
      <4>1. f.node.k \in FunctionKinds => Len(f.node.s) = 1
        BY <2>4, OrderlyAssumption DEF orderly_node, right_arity
      <4> QED
        BY <2>4, <2>9, <4>1 DEF in_function
    <3>2. /\ e.place.held \/ f.node.k = "brk" => d.place.held
          /\ d.place.result = e.place.result
          /\ d.inside
      BY <2>4, <3>1, PlaceFields DEF encloses
    <3> QED
      BY <2>4, <2>5, <3>1, <3>2 DEF encloses, fits, settled, loops
  <2> QED
    BY <1>3, <2>1, <2>2, <2>3, <2>7, <2>8, <2>9 DEF stands, e
<1>7. Surrounded(envs)'
  <2>1. \A n \in 1..Len(stack') :
          environment(stack'[n].node, envs[n]) /\ remembers(stack'[n], envs[n])
    BY <1>3, <1>5
  <2>2. \A n \in 1..Len(stack') : n < Len(stack') =>
          /\ encloses(stack'[n], envs[n], envs[n + 1])
          /\ valued(stack'[n], envs[n], stack'[n].at - 1, gen')
          /\ stack'[n + 1].path = Append(stack'[n].path, stack'[n].at)
    <3> TAKE n \in 1..Len(stack')
    <3>1. n \in 1..(l - 1) /\ stack'[n] = stack[n]
      BY <1>3
    <3>2. n < Len(stack') => stack'[n + 1] = stack[n + 1]
      BY <1>2, <1>3, <3>1
    <3> QED
      BY <1>3, <1>5, <3>1, <3>2
  <2> QED
    BY <1>3, <1>6, <2>1, <2>2 DEF Surrounded
<1>8. ~gen'.failed /\ gen'.registers \in Nat
  BY <1>3
<1> QED
  BY <1>7, <1>8 DEF SoundInv

LEMMA AcceptSound ==
  ASSUME PointInv, stack # << >>, NEW envs, Surrounded(envs),
         NEW g, NEW f, NEW i, accept(g, f, i), ~g.failed, g.registers \in Nat,
         keeps_values(gen, g),
         NEW e, e = [f EXCEPT !.at = i], is_frame(f), f.node = top.node, f.path = top.path,
         i = top.at + 1, i \in 1..Len(top.node.s),
         remembers(e, envs[Len(stack)]),
         NEW d, encloses(e, envs[Len(stack)], d), fits(g.ctx, d), is_seq(d.loops),
         d.place.loop # "none" => d.loops # << >>,
         d.place.loop = "plain" => Last(d.loops).break_slot = NoValue
  PROVE  SoundInv'
<1> DEFINE l == Len(stack)
<1>1. is_seq(stack) /\ FramesOK
  BY DEF PointInv, FramesOK
<1>2. l \in Nat \ {0} /\ top = stack[l] /\ top.node \in OrderlyNodes
  BY <1>1, StackShape, TopFacts
<1>3. /\ gen' = g
      /\ is_seq(stack')
      /\ Len(stack') = l + 1
      /\ \A n \in 1..(l - 1) : stack'[n] = stack[n]
      /\ stack'[l] = e
      /\ stack'[l + 1].node = top.node.s[i]
      /\ stack'[l + 1].at = 0
      /\ stack'[l + 1].path = Append(top.path, i)
  BY <1>1, AcceptShape, AcceptPath
<1>4. e.node = top.node /\ e.at = i /\ e.path = top.path
  BY DEF is_frame
<1>5. PICK new : (\A n \in 1..l : new[n] = envs[n]) /\ new[l + 1] = d
  <2> WITNESS [n \in 1..(l + 1) |-> IF n <= l THEN envs[n] ELSE d]
  <2> QED
    BY <1>2
<1>6. \A n \in 1..l : environment(stack[n].node, envs[n]) /\ remembers(stack[n], envs[n])
  BY DEF Surrounded
<1>7. environment(top.node, envs[l]) /\ stands(top, envs[l], gen)
  BY <1>2, <1>6 DEF Surrounded
<1>8. /\ <<top.node.s[i], place_of(top.node, envs[l].place, i)>> \in SoundPlaces
      /\ d.place = place_of(top.node, envs[l].place, i)
      /\ d.inside
  BY <1>2, <1>4, <1>7, ChildPlace DEF encloses
<1>9. environment(top.node.s[i], d)
  BY <1>8 DEF environment
<1> DEFINE c == stack'[l + 1]
<1>10. remembers(c, d)
  BY <1>3 DEF remembers, in_function
<1>11. valued(e, envs[l], i - 1, g)
  <2>1. valued(top, envs[l], top.at, gen) /\ i - 1 = top.at
    BY <1>7, TopFacts DEF stands
  <2> QED
    BY <1>4, <2>1 DEF valued, keeps_values
<1>12. stands(c, d, g)
  <2>1. valued(c, d, c.at, g)
    <3>1. c.node \in OrderlyNodes
      <4>1. top.node.s \in Seq(OrderlyNodes)
        BY <1>2, OrderlyAssumption
      <4> QED
        BY <1>3, <4>1
    <3>2. \A j \in read_children(c.node, d.place) : ~(j <= 0)
      BY <3>1, ReadChildren
    <3> QED
      BY <1>3, <3>2 DEF valued
  <2>2. ~in_body(c) /\ c.at = 0
    BY <1>3 DEF in_body
  <2> QED
    BY <2>1, <2>2 DEF stands, fits, loops
<1>13. \A n \in 1..(l - 1) :
        /\ encloses(stack[n], envs[n], envs[n + 1])
        /\ valued(stack[n], envs[n], stack[n].at - 1, g)
        /\ stack[n + 1].path = Append(stack[n].path, stack[n].at)
  <2> TAKE n \in 1..(l - 1)
  <2>1. n \in 1..l /\ n < l
    BY <1>2
  <2>2. /\ encloses(stack[n], envs[n], envs[n + 1])
        /\ valued(stack[n], envs[n], stack[n].at - 1, gen)
        /\ stack[n + 1].path = Append(stack[n].path, stack[n].at)
    BY <2>1 DEF Surrounded
  <2> QED
    BY <2>2 DEF valued, keeps_values
<1>14. Surrounded(new)'
  <2>1. \A n \in 1..Len(stack') :
          environment(stack'[n].node, new[n]) /\ remembers(stack'[n], new[n])
    <3> TAKE n \in 1..Len(stack')
    <3>1. CASE n \in 1..(l - 1)
      <4>1. n \in 1..l
        BY <1>2, <3>1
      <4> QED
        BY <1>3, <1>5, <1>6, <3>1, <4>1
    <3>2. CASE n = l /\ l \in 1..l
      BY <1>2, <1>3, <1>4, <1>5, <1>7, <3>2
    <3>3. CASE n = l + 1
      BY <1>3, <1>5, <1>9, <1>10, <3>3
    <3> QED
      BY <1>2, <1>3, <3>1, <3>2, <3>3
  <2>2. \A n \in 1..Len(stack') : n < Len(stack') =>
          /\ encloses(stack'[n], new[n], new[n + 1])
          /\ valued(stack'[n], new[n], stack'[n].at - 1, gen')
          /\ stack'[n + 1].path = Append(stack'[n].path, stack'[n].at)
    <3> SUFFICES ASSUME NEW n \in 1..Len(stack'), n < Len(stack')
                 PROVE  /\ encloses(stack'[n], new[n], new[n + 1])
                        /\ valued(stack'[n], new[n], stack'[n].at - 1, gen')
                        /\ stack'[n + 1].path = Append(stack'[n].path, stack'[n].at)
      OBVIOUS
    <3>1. CASE n \in 1..(l - 1) /\ n # l - 1
      <4>1. n \in 1..l /\ n + 1 \in 1..l /\ n + 1 \in 1..(l - 1)
        BY <1>2, <3>1
      <4> QED
        BY <1>3, <1>5, <1>13, <3>1, <4>1
    <3>2. CASE n \in 1..(l - 1) /\ n = l - 1
      <4>1. n \in 1..l /\ n + 1 = l /\ l \in 1..l
        BY <1>2, <3>2
      <4> QED
        BY <1>2, <1>3, <1>4, <1>5, <1>13, <3>2, <4>1
    <3>3. CASE n = l /\ l \in 1..l
      BY <1>2, <1>3, <1>4, <1>5, <1>11, <3>3
    <3> QED
      BY <1>2, <1>3, <3>1, <3>2, <3>3
  <2>3. top' = c /\ Len(stack') = l + 1
    BY <1>3 DEF top, Last
  <2> HIDE DEF c
  <2> QED
    BY <1>3, <1>5, <1>12, <2>1, <2>2, <2>3 DEF Surrounded
<1> QED
  BY <1>3, <1>14 DEF SoundInv

(* A visit goes on, in a state that the invariant describes with envs. *)
Going(envs) ==
  PointInv /\ stack # << >> /\ ~gen.failed /\ gen.registers \in Nat /\ Surrounded(envs)

around(envs) == envs[Len(stack)]

LEMMA TopSound ==
  ASSUME NEW envs, Going(envs)
  PROVE  /\ environment(top.node, around(envs))
         /\ sound_place(top.node, around(envs).place)
         /\ remembers(top, around(envs))
         /\ stands(top, around(envs), gen)
         /\ \A i \in read_children(top.node, around(envs).place) :
              i <= top.at => has_value(gen, child(i))
         /\ top.node.k \notin FunctionKinds => gen.ctx.entry_block # NoBlock
<1>1. is_seq(stack) /\ stack # << >>
  BY DEF Going, PointInv, FramesOK
<1>2. Len(stack) \in 1..Len(stack) /\ top = stack[Len(stack)]
  BY <1>1, StackShape
<1>3. environment(top.node, around(envs)) /\ remembers(top, around(envs)) /\ stands(top, around(envs), gen)
  BY <1>1, <1>2 DEF Going, Surrounded, around
<1>4. sound_place(top.node, around(envs).place)
  <2>1. <<top.node, around(envs).place>> \in SoundPlaces
    BY <1>3 DEF environment
  <2>2. /\ <<top.node, around(envs).place>>[1] = top.node
        /\ <<top.node, around(envs).place>>[2] = around(envs).place
    OBVIOUS
  <2> QED
    BY <2>1, <2>2, SoundAssumption
<1>5. \A i \in read_children(top.node, around(envs).place) :
        i <= top.at => has_value(gen, child(i))
  BY <1>3 DEF stands, valued, child
<1>6. top.node.k \notin FunctionKinds => gen.ctx.entry_block # NoBlock
  BY <1>3 DEF stands, settled, environment, in_function
<1> QED
  BY <1>3, <1>4, <1>5, <1>6

(* What a step does to the context when it neither begins nor ends a loop or function. *)
LEMMA StaysSettled ==
  ASSUME NEW envs, Going(envs), NEW g, Keeps(gen, g),
         top.node.k \notin FunctionKinds, ~in_body(top)
  PROVE  /\ fits(g.ctx, around(envs))
         /\ keeps_values(gen, g) /\ ~g.failed /\ g.registers \in Nat
<1>1. fits(gen.ctx, around(envs))
  BY TopSound DEF stands, in_function, fits, loops
<1>2. keeps_values(gen, g) /\ ~g.failed /\ g.registers \in Nat
  BY KeepsTwice DEF keeps_values, Keeps, Going
<1> QED
  BY <1>1, <1>2 DEF fits, settled, Keeps

LEMMA PlainReturn ==
  ASSUME NEW envs, Going(envs), NEW g, Keeps(gen, g), return(g),
         top.node.k \notin FunctionKinds, ~in_body(top),
         needs_result(top.node) => has_value(g, top.path),
         around(envs).place.closes => ~live(g)
  PROVE  SoundInv'
<1>1. PointInv /\ stack # << >> /\ Surrounded(envs)
  BY DEF Going
<1>2. fits(g.ctx, envs[Len(stack)]) /\ keeps_values(gen, g) /\ ~g.failed /\ g.registers \in Nat
  BY StaysSettled DEF around
<1>3. envs[Len(stack)].place.closes => ~live(g)
  BY DEF around
<1> QED
  BY <1>1, <1>2, <1>3, ReturnSound

LEMMA PlainAccept ==
  ASSUME NEW envs, Going(envs), NEW g, Keeps(gen, g), NEW f, NEW i, accept(g, f, i),
         top.node.k \notin FunctionKinds \cup {"loop"}, top.node.k = "while" => i # 2,
         is_frame(f), f.node = top.node, f.path = top.path,
         i = top.at + 1, i \in 1..Len(top.node.s),
         top.node.k = "brk" =>
           i = 1 /\ around(envs).place.loop # "plain" /\ f.loop[2] = gen.ctx.loop_capacity,
         top.node.k = "block" => \A j \in 1..top.at : top.node.s[j].next
  PROVE  SoundInv'
<1> DEFINE out == around(envs)
           brk == top.node.k = "brk"
           place_ == place_of(top.node, out.place, i)
<1>1. PointInv /\ stack # << >> /\ Surrounded(envs) /\ ~gen.failed
  BY DEF Going
<1>2. top.at \in Nat /\ i - 1 = top.at
  BY <1>1, TopFacts
<1>3. PICK e : e = [f EXCEPT !.at = i]
  OBVIOUS
<1>4. e.node = top.node /\ e.at = i /\ e.path = top.path /\ e.loop = f.loop
  BY <1>3 DEF is_frame
<1>5. PICK d : /\ d.place = place_
               /\ d.loops = out.loops
               /\ d.capacity = IF brk THEN f.loop[2] ELSE out.capacity
               /\ d.inside = TRUE
  <2> WITNESS [place |-> place_, loops |-> out.loops,
               capacity |-> IF brk THEN f.loop[2] ELSE out.capacity, inside |-> TRUE]
  <2> QED
    OBVIOUS
<1>6. top.node.k # "loop" /\ ~in_body(top) /\ ~in_body(e)
  <2>1. top.node.k = "while" => top.at # 2
    <3>1. top.node.k = "while" => i \in 1..2
      BY <1>1, TopFacts DEF orderly_node, right_arity
    <3>2. i \in 1..2 => top.at # 2
      BY <1>2
    <3> QED
      BY <3>1, <3>2
  <2> QED
    BY <1>4, <2>1 DEF in_body
<1>7. /\ out.place.held \/ brk => d.place.held
      /\ d.place.held => out.place.held \/ brk
      /\ d.place.result = out.place.result
      /\ d.place.loop = out.place.loop
  BY <1>5, <1>6, PlaceFields
<1>8. fits(g.ctx, out) /\ keeps_values(gen, g) /\ ~g.failed /\ g.registers \in Nat
  BY <1>6, StaysSettled
<1>9. environment(top.node, out) /\ fits(gen.ctx, out)
  BY <1>6, TopSound, StaysSettled, KeepsTwice
<1>10. gen.ctx.loop_capacity = g.ctx.loop_capacity
  BY DEF Keeps
<1>11. g.ctx.entry_block # NoBlock
  BY TopSound DEF Keeps
<1> HIDE DEF out, brk, place_
<1>12. fits(g.ctx, d)
  BY <1>5, <1>7, <1>8, <1>10, <1>11 DEF fits, settled, brk
<1>13. encloses(e, out, d)
  BY <1>4, <1>5, <1>6, <1>7, <1>9 DEF encloses, brk, place_, fits, settled
<1>14. remembers(e, out)
  BY <1>2, <1>4 DEF remembers, in_function, out
<1>15. /\ is_seq(d.loops)
       /\ d.place.loop # "none" => d.loops # << >>
       /\ d.place.loop = "plain" => Last(d.loops).break_slot = NoValue
  BY <1>5, <1>7, <1>9 DEF environment
<1>16. out = envs[Len(stack)]
  BY DEF out, around
<1> QED
  BY <1>1, <1>3, <1>8, <1>12, <1>13, <1>14, <1>15, <1>16, AcceptSound

(* A child whose value is read has one, of a type that has values. *)
LEMMA ReadChild ==
  ASSUME NEW envs, Going(envs), NEW i \in read_children(top.node, around(envs).place)
  PROVE  /\ i \in 1..Len(top.node.s)
         /\ i <= top.at => has_value(gen, child(i))
         /\ needs_result(top.node.s[i])
         /\ top.node.s[i].type \notin {"unit", "never"}
<1>1. PointInv /\ stack # << >>
  BY DEF Going
<1>2. top.node \in OrderlyNodes /\ environment(top.node, around(envs))
  BY <1>1, TopFacts, TopSound
<1>3. i \in 1..Len(top.node.s)
  BY <1>2, ReadChildren
<1>4. <<top.node.s[i], place_of(top.node, around(envs).place, i)>> \in SoundPlaces /\ needs_result(top.node.s[i])
  BY <1>2, <1>3, ChildPlace
<1>5. ~(top.node.s[i].next /\ top.node.s[i].type = "never")
  <2> DEFINE n == top.node.s[i]
             c == place_of(top.node, around(envs).place, i)
  <2> HIDE DEF n, c
  <2>1. <<n, c>> \in SoundPlaces
    BY <1>4 DEF n, c
  <2>2. <<n, c>>[1] = n /\ <<n, c>>[2] = c
    OBVIOUS
  <2>3. sound_place(n, c)
    BY <2>1, <2>2, SoundAssumption
  <2> QED
    BY <2>3 DEF sound_place, n
<1> QED
  BY <1>3, <1>4, <1>5, TopSound DEF needs_result

(* A visit that needs all its children's values. *)
LEMMA ReadOperands ==
  ASSUME NEW envs, Going(envs), top.node.k \in {"not", "xor", "asg", "let", "say"} \cup ShortCircuit
  PROVE  \A i \in 1..Len(top.node.s) : i \in read_children(top.node, around(envs).place)
<1>1. DOMAIN top.node.s = 1..Len(top.node.s)
  BY TopFacts, ReadChildren DEF Going
<1> QED
  BY <1>1 DEF read_children, operands, ShortCircuit

(* A visit that never ends a branch without completing. *)
LEMMA NeverCloses ==
  ASSUME NEW envs, Going(envs), top.node.k \notin {"block", "blockt", "ret", "brk", "cont"}
  PROVE  ~around(envs).place.closes
BY TopSound DEF sound_place

LEMMA HasNoValue ==
  ASSUME NEW envs, Going(envs),
         top.node.k \in {"unit", "say", "let", "while", "block"} \cup FunctionKinds
  PROVE  ~needs_result(top.node)
BY TopSound DEF sound_place

Simple == top.node.k \notin Loops \cup FunctionKinds

LEMMA SimpleReturn ==
  ASSUME NEW envs, Going(envs), NEW g, Keeps(gen, g), return(g), Simple,
         top.node.k \notin {"block", "blockt", "ret", "brk", "cont"},
         has_value(g, top.path) \/ ~needs_result(top.node)
  PROVE  SoundInv'
BY PlainReturn, NeverCloses DEF Simple, Loops, in_body

LEMMA SimpleAccept ==
  ASSUME NEW envs, Going(envs), NEW g, Keeps(gen, g), NEW f, accept(g, f, top.at + 1), Simple,
         is_frame(f), f.node = top.node, f.path = top.path,
         top.at + 1 \in 1..Len(top.node.s), top.node.k \notin {"brk", "block"}
  PROVE  SoundInv'
BY PlainAccept DEF Simple, Loops

LEMMA NextChild ==
  ASSUME NEW envs, Going(envs), NEW g, Keeps(gen, g), accept(g, top, top.at + 1), Simple,
         top.at + 1 \in 1..Len(top.node.s), top.node.k \notin {"brk", "block"}
  PROVE  SoundInv'
BY SimpleAccept, TopFacts DEF Going

LEMMA LiteralSound ==
  ASSUME NEW envs, Going(envs), VisitLiteral
  PROVE  SoundInv'
<1>1. /\ Simple
      /\ top.node.k \in {"true", "false", "unit"}
      /\ top.node.k \notin {"block", "blockt", "ret", "brk", "cont"}
  BY DEF VisitLiteral, visiting, Simple, Loops, FunctionKinds
<1>2. Good(gen)
  BY DEF Going, PointInv
<1>3. ASSUME NEW v, return(set_value(gen, top.path, v))
      PROVE  SoundInv'
  BY <1>1, <1>2, <1>3, SetKeeps, SimpleReturn
<1>4. CASE top.node.k = "unit" /\ return(gen)
  BY <1>1, <1>4, HasNoValue, KeepsTwice, SimpleReturn
<1> QED
  BY <1>3, <1>4 DEF VisitLiteral, visiting

LEMMA IdentifierSound ==
  ASSUME NEW envs, Going(envs), VisitIdentifier
  PROVE  SoundInv'
<1> DEFINE g == ensure_slot_for_decl(gen, top.function)
           h == set_address(g, top.path, g.ctx.local_slots[top.function])
<1>1. Simple /\ top.node.k = "x" /\ top.node.k \notin {"block", "blockt", "ret", "brk", "cont"} /\ return(h)
  BY DEF VisitIdentifier, visiting, Simple, Loops, FunctionKinds
<1>2. Good(gen) /\ gen.ctx.entry_block # NoBlock
  BY <1>1, TopSound DEF Going, PointInv, Simple
<1>3. Keeps(gen, g) /\ Good(g)
  BY <1>2, DeclKeeps, DeclSlots DEF Slots
<1>4. Keeps(g, h) /\ has_value(h, top.path)
  <2> HIDE DEF g
  <2> QED
    BY <1>3, SetKeeps
<1> HIDE DEF g, h
<1> QED
  BY <1>1, <1>3, <1>4, KeepsTwice, SimpleReturn

LEMMA CallSound ==
  ASSUME NEW envs, Going(envs), VisitCall
  PROVE  SoundInv'
<1>1. /\ stack # << >> /\ Simple
      /\ top.node.k \in {"ask", "say", "exit"} /\ top.node.k \notin FunctionKinds
      /\ top.node.k \notin {"block", "blockt", "ret", "brk", "cont"}
      /\ PointInv
  BY DEF VisitCall, visiting, running, Simple, Loops, FunctionKinds, Going
<1>2. Good(gen)
  BY DEF Going, PointInv
<1>3. CASE visiting({"ask", "say", "exit"}, 0) /\ gen.ctx.current_block = NoBlock /\ return(gen)
  <2>1. live(gen)
    BY <1>1, <1>3, LiveIn DEF visiting
  <2> QED
    BY <1>3, <2>1 DEF live
<1>4. CASE /\ top.node.k = "say"
           /\ top.at < Len(top.node.s)
           /\ accept(gen, top, top.at + 1)
  <2>1. top.at \in 0..Len(top.node.s) /\ Len(top.node.s) \in Nat
    BY <1>1, TopFacts, ChildPaths
  <2>2. top.at + 1 \in 1..Len(top.node.s)
    BY <1>4, <2>1
  <2> QED
    BY <1>1, <1>4, <2>2, KeepsTwice, NextChild
<1>5. CASE /\ visiting({"say"}, Len(top.node.s))
           /\ LET args == operand_values(gen, child_paths)
              IN  return(emit(ensure_current_insertion(args.g), "say", args.values))
  <2> DEFINE args == operand_values(gen, child_paths)
             g == emit(args.g, "say", args.values)
  <2>1. live(gen) /\ standing(gen) /\ top.node.k = "say" /\ top.at = Len(top.node.s)
    BY <1>1, <1>5, LiveOperands DEF visiting
  <2>2. Len(child_paths) = Len(top.node.s) /\ Len(child_paths) \in 0..2 /\ Len(top.node.s) \in Nat
    <3>1. Len(top.node.s) <= 2
      BY <1>1, <1>5, TopFacts DEF visiting, orderly_node, right_arity
    <3>2. Len(child_paths) = Len(top.node.s) /\ Len(top.node.s) \in Nat
      BY <1>1, ChildPaths
    <3>3. \A n \in Nat : n <= 2 => n \in 0..2
      OBVIOUS
    <3> QED
      BY <3>1, <3>2, <3>3, Zenon
  <2>3. \A i \in 1..Len(child_paths) : has_value(gen, child_paths[i])
    <3>1. \A i \in 1..Len(top.node.s) : has_value(gen, child(i))
      BY <2>1, <2>2, ReadOperands, ReadChild
    <3>2. \A i \in 1..Len(top.node.s) : child_paths[i] = child(i)
      BY <1>1, TopFacts, ReadChildren DEF child_paths
    <3> QED
      BY <2>2, <3>1, <3>2
  <2>4. Emits(gen, args.g) /\ Keeps(gen, args.g)
    BY <1>2, <2>1, <2>2, <2>3, OperandsEmit, OperandsKeep
  <2> HIDE DEF args
  <2>5. standing(args.g) /\ Good(args.g)
    BY <2>1, <2>4, EmitsStands DEF Emits
  <2>6. return(g)
    BY <1>5, <2>5, EnsureKeeps DEF args
  <2>7. Keeps(args.g, g)
    BY <2>5, EmitKeeps DEF standing
  <2> HIDE DEF g
  <2> QED
    BY <1>1, <2>1, <2>4, <2>6, <2>7, KeepsTwice, HasNoValue, SimpleReturn
<1>6. CASE /\ visiting({"ask"}, 0)
           /\ LET g == define(ensure_current_insertion(gen), "ask", << >>)
              IN  return(set_value(g, top.path, g.registers))
  <2> DEFINE g == define(gen, "ask", << >>)
             h == set_value(g, top.path, g.registers)
  <2>1. live(gen) /\ standing(gen)
    BY <1>1, <1>6, LiveIn DEF visiting
  <2>2. return(h)
    BY <1>2, <1>6, <2>1, EnsureKeeps
  <2>3. Keeps(gen, g) /\ Good(g)
    BY <1>2, <2>1, EmitKeeps, EmitEmits DEF standing, Terminators, Emits
  <2> HIDE DEF g
  <2>4. Keeps(g, h) /\ has_value(h, top.path)
    BY <2>3, SetKeeps
  <2> HIDE DEF h
  <2> QED
    BY <1>1, <2>2, <2>3, <2>4, KeepsTwice, SimpleReturn
<1> QED
  BY <1>3, <1>4, <1>5, <1>6 DEF VisitCall

LEMMA ExitSound ==
  ASSUME NEW envs, Going(envs), VisitExit
  PROVE  SoundInv'
<1> DEFINE g == store(gen, True, gen.ctx.return_slot)
           h == create_br(g, gen.ctx.return_block)
           k == set_value(h, top.path, NoValue)
           l == [k EXCEPT !.ctx.block_sealed = TRUE]
<1>1. /\ PointInv /\ stack # << >> /\ Simple /\ top.at = 0 /\ top.node.k = "exit"
      /\ top.node.k \notin FunctionKinds
      /\ top.node.k \notin {"block", "blockt", "ret", "brk", "cont"}
  BY DEF VisitExit, visiting, running, FunctionKinds, Simple, Loops, Going
<1>2. live(gen) /\ standing(gen) /\ Good(gen)
  BY <1>1, LiveIn, TopFacts
<1>3. return(l)
  BY <1>2, EnsureKeeps DEF VisitExit
<1>4. Emits(gen, g) /\ Keeps(gen, g)
  BY <1>2, StoreEmits, StoreKeeps DEF standing
<1> HIDE DEF g
<1>5. Good(h) /\ Keeps(g, h)
  BY <1>2, <1>4, EmitsStands, BranchCloses, BranchKeeps DEF standing, Emits, Closes
<1> HIDE DEF h
<1>6. Keeps(h, k) /\ has_value(k, top.path) /\ Good(k)
  BY <1>5, SetKeeps, SetsEmit DEF Emits
<1> HIDE DEF k
<1>7. Keeps(k, l)
  BY <1>6 DEF Keeps, Good, is_gen, is_ctx
<1> HIDE DEF l
<1> QED
  BY <1>1, <1>3, <1>4, <1>5, <1>6, <1>7, KeepsTwice, SimpleReturn

LEMMA ArithmeticSound ==
  ASSUME NEW envs, Going(envs), VisitArithmetic
  PROVE  SoundInv'
<1>1. /\ PointInv /\ stack # << >> /\ Simple /\ top.node.k = "xor"
      /\ top.node.k \notin {"block", "blockt", "ret", "brk", "cont"}
  BY DEF VisitArithmetic, visiting, running, FunctionKinds, Simple, Loops, Going
<1>2. live(gen) /\ standing(gen) /\ Good(gen)
  BY <1>1, LiveOperands
<1>3. Len(top.node.s) = 2
  BY <1>1, TopFacts DEF orderly_node, right_arity
<1>4. CASE (top.at = 0 /\ accept(gen, top, 1)) \/ (top.at = 1 /\ accept(gen, top, 2))
  <2>1. top.at + 1 \in 1..Len(top.node.s) /\ accept(gen, top, top.at + 1)
    BY <1>3, <1>4
  <2> QED
    BY <1>1, <2>1, KeepsTwice, NextChild
<1>5. CASE visiting({"xor"}, 2)
  <2> DEFINE operands_ == operand_values(gen, child_paths)
             g == define(operands_.g, "xor", operands_.values)
             h == set_value(g, top.path, g.registers)
  <2>1. Len(child_paths) = 2 /\ \A i \in 1..2 : has_value(gen, child_paths[i])
    <3>1. Len(child_paths) = 2
      BY <1>1, <1>3, ChildPaths
    <3>2. \A i \in 1..2 : has_value(gen, child(i))
      BY <1>1, <1>3, <1>5, ReadOperands, ReadChild DEF visiting
    <3>3. \A i \in 1..2 : child_paths[i] = child(i)
      BY <1>1, <1>3, TopFacts, ReadChildren DEF child_paths
    <3> QED
      BY <3>1, <3>2, <3>3
  <2>2. Emits(gen, operands_.g) /\ Keeps(gen, operands_.g)
    BY <1>2, <2>1, OperandsEmit, OperandsKeep
  <2> HIDE DEF operands_
  <2>3. standing(operands_.g) /\ Good(operands_.g)
    BY <1>2, <2>2, EmitsStands DEF Emits
  <2>4. return(h)
    BY <1>5, <2>3, EnsureKeeps DEF VisitArithmetic, visiting, operands_
  <2>5. Keeps(operands_.g, g) /\ Good(g)
    BY <2>3, EmitKeeps, EmitEmits DEF standing, Terminators, Emits
  <2> HIDE DEF g
  <2>6. Keeps(g, h) /\ has_value(h, top.path)
    BY <2>5, SetKeeps
  <2> HIDE DEF h
  <2> QED
    BY <1>1, <2>2, <2>4, <2>5, <2>6, KeepsTwice, SimpleReturn
<1> QED
  BY <1>4, <1>5 DEF VisitArithmetic, visiting

(* A visit with one operand has its value when it comes back from it. *)
LEMMA OneOperand ==
  ASSUME NEW envs, Going(envs), top.node.k \in {"not", "asg", "let"}
  PROVE  /\ PointInv /\ stack # << >> /\ Simple
         /\ top.node.k \notin {"block", "blockt", "ret", "brk", "cont"}
         /\ live(gen) /\ standing(gen) /\ Good(gen) /\ gen.ctx.entry_block # NoBlock
         /\ top.at = 0 => top.at + 1 \in 1..Len(top.node.s)
         /\ top.at = 1 => has_value(gen, child(1))
         /\ top.node.s[1].type # "never"
<1>1. /\ PointInv /\ stack # << >> /\ Simple
      /\ top.node.k \notin {"block", "blockt", "ret", "brk", "cont"}
  BY DEF Simple, Loops, FunctionKinds, Going
<1>2. live(gen) /\ standing(gen) /\ Good(gen) /\ gen.ctx.entry_block # NoBlock
  BY <1>1, LiveOperands, TopSound DEF Simple
<1>3. Len(top.node.s) = 1
  BY <1>1, TopFacts DEF orderly_node, right_arity
<1>4. 1 \in read_children(top.node, around(envs).place)
  BY <1>3, ReadOperands
<1> QED
  BY <1>1, <1>2, <1>3, <1>4, ReadChild

LEMMA UnarySound ==
  ASSUME NEW envs, Going(envs), VisitUnary
  PROVE  SoundInv'
<1>1. top.node.k = "not"
  BY DEF VisitUnary, visiting
<1>2. CASE visiting({"not"}, 0) /\ accept(gen, top, 1)
  <2>1. accept(gen, top, top.at + 1) /\ top.at = 0
    BY <1>2 DEF visiting
  <2> QED
    BY <1>1, <2>1, OneOperand, KeepsTwice, NextChild
<1>3. CASE visiting({"not"}, 1)
  <2> DEFINE operand == get_rvalue(gen, child(1))
             g == define(operand.g, "not", <<operand.value>>)
             h == set_value(g, top.path, g.registers)
  <2>1. Emits(gen, operand.g) /\ Keeps(gen, operand.g)
    BY <1>1, <1>3, OneOperand, RvalueEmits, RvalueKeeps DEF standing, visiting
  <2> HIDE DEF operand
  <2>2. standing(operand.g) /\ Good(operand.g)
    BY <1>1, <2>1, OneOperand, EmitsStands DEF Emits
  <2>3. return(h)
    BY <1>1, <1>3, <2>2, OneOperand, EnsureKeeps DEF VisitUnary, visiting, operand
  <2>4. Keeps(operand.g, g) /\ Good(g)
    BY <2>2, EmitKeeps, EmitEmits DEF standing, Terminators, Emits
  <2> HIDE DEF g
  <2>5. Keeps(g, h) /\ has_value(h, top.path)
    BY <2>4, SetKeeps
  <2> HIDE DEF h
  <2> QED
    BY <1>1, <2>1, <2>3, <2>4, <2>5, OneOperand, KeepsTwice, SimpleReturn
<1> QED
  BY <1>2, <1>3 DEF VisitUnary

LEMMA AssignSound ==
  ASSUME NEW envs, Going(envs), VisitAssign
  PROVE  SoundInv'
<1>1. top.node.k = "asg"
  BY DEF VisitAssign, visiting
<1>2. CASE visiting({"asg"}, 0) /\ accept(ensure_slot_for_decl(gen, top.function), top, 1)
  <2>1. accept(ensure_slot_for_decl(gen, top.function), top, top.at + 1) /\ top.at = 0
    BY <1>2 DEF visiting
  <2>2. Keeps(gen, ensure_slot_for_decl(gen, top.function))
    BY <1>1, OneOperand, DeclKeeps
  <2> QED
    BY <1>1, <2>1, <2>2, OneOperand, NextChild
<1>3. CASE visiting({"asg"}, 1)
  <2> DEFINE rhs == get_rvalue(gen, child(1))
             slot == gen.ctx.local_slots[top.function]
             g == store(rhs.g, rhs.value, slot)
             h == set_value(g, top.path, rhs.value)
  <2>1. Emits(gen, rhs.g) /\ Keeps(gen, rhs.g)
    BY <1>1, <1>3, OneOperand, RvalueEmits, RvalueKeeps DEF standing, visiting
  <2> HIDE DEF rhs
  <2>2. standing(rhs.g) /\ Good(rhs.g)
    BY <1>1, <2>1, OneOperand, EmitsStands DEF Emits
  <2>3. return(h)
    BY <1>3, <2>2, EnsureKeeps DEF VisitAssign, visiting, rhs
  <2> HIDE DEF slot
  <2>4. Keeps(rhs.g, g) /\ Good(g)
    BY <2>2, StoreKeeps, StoreEmits DEF standing, Emits
  <2> HIDE DEF g
  <2>5. Keeps(g, h) /\ has_value(h, top.path)
    BY <2>4, SetKeeps
  <2> HIDE DEF h
  <2> QED
    BY <1>1, <2>1, <2>3, <2>4, <2>5, OneOperand, KeepsTwice, SimpleReturn
<1> QED
  BY <1>2, <1>3 DEF VisitAssign

LEMMA LetSound ==
  ASSUME NEW envs, Going(envs), VisitLet
  PROVE  SoundInv'
<1>1. top.node.k = "let"
  BY DEF VisitLet, visiting
<1>2. gen.ctx.current_block # NoBlock
  BY <1>1, OneOperand DEF live
<1>3. CASE visiting({"let"}, 0)
  <2>1. accept(ensure_slot_for_decl(gen, top.path), top, top.at + 1) /\ top.at = 0
    BY <1>2, <1>3 DEF visiting, VisitLet
  <2>2. Keeps(gen, ensure_slot_for_decl(gen, top.path))
    BY <1>1, OneOperand, DeclKeeps
  <2> QED
    BY <1>1, <2>1, <2>2, OneOperand, NextChild
<1>4. CASE visiting({"let"}, 1)
  <2> DEFINE g == store_expression_result(gen, child(1), gen.ctx.local_slots[top.path])
  <2>1. return(g)
    BY <1>2, <1>4 DEF VisitLet, visiting
  <2>2. Keeps(gen, g)
    BY <1>1, <1>4, OneOperand, ResultKeeps DEF visiting
  <2> HIDE DEF g
  <2> QED
    BY <1>1, <2>1, <2>2, OneOperand, HasNoValue, SimpleReturn
<1> QED
  BY <1>3, <1>4 DEF VisitLet

(* A jump leaves its block, and what follows it is not lowered into it. *)
LEMMA JumpSound ==
  ASSUME NEW envs, Going(envs), top.node.k \in {"ret", "brk", "cont"},
         NEW g, Good(g), live(g) => standing(g), Keeps(gen, g),
         NEW target, return(drop_current(branch_if_needed(g, target)))
  PROVE  SoundInv'
<1> DEFINE h == branch_if_needed(g, target)
           k == drop_current(h)
<1>1. Keeps(g, h) /\ Good(h)
  BY BranchIfNeeded, BranchIfKeeps
<1> HIDE DEF h
<1>2. Keeps(h, k) /\ ~live(k)
  BY <1>1, MovesKeep, DropCurrent
<1> HIDE DEF k
<1>3. Keeps(gen, k)
  BY <1>1, <1>2, KeepsTwice
<1>4. ~needs_result(top.node)
  BY TopFacts DEF Going, orderly_node, needs_result
<1>5. top.node.k \notin FunctionKinds /\ ~in_body(top)
  BY DEF FunctionKinds, in_body
<1> QED
  BY <1>2, <1>3, <1>4, <1>5, PlainReturn DEF k, h

(* A jump begins in an open block, and comes back to one from its operand. *)
LEMMA LiveJump ==
  ASSUME NEW envs, Going(envs), top.node.k \in {"ret", "brk", "cont"}, top.node.k = "cont" => top.at = 0
  PROVE  /\ PointInv /\ stack # << >> /\ live(gen) /\ standing(gen) /\ Good(gen)
         /\ gen.ctx.current_block # NoBlock
         /\ top.node.k \notin FunctionKinds /\ ~in_body(top) /\ ~in_function(top)
<1>1. top.node.k \notin FunctionKinds /\ ~in_body(top) /\ ~in_function(top)
  BY DEF FunctionKinds, in_body, in_function
<1>2. live(gen) /\ standing(gen) /\ Good(gen)
  BY <1>1, LiveOperands, LiveIn DEF Going
<1> QED
  BY <1>1, <1>2 DEF Going, live

LEMMA ReturnStmtSound ==
  ASSUME NEW envs, Going(envs), VisitReturn
  PROVE  SoundInv'
<1>1. top.node.k = "ret"
  BY DEF VisitReturn, visiting
<1>2. DOMAIN top.node.s = 1..Len(top.node.s) /\ Len(top.node.s) \in Nat /\ top.node.s \in Seq(OrderlyNodes)
  BY TopFacts, ReadChildren DEF Going
<1>3. CASE visiting({"ret"}, 0) /\ top.node.s = << >>
  <2>1. return(drop_current(branch_if_needed(gen, gen.ctx.return_block)))
    BY <1>1, <1>3, LiveJump DEF VisitReturn, visiting, finish_return
  <2> QED
    BY <1>1, <2>1, LiveJump, JumpSound, KeepsTwice
<1>4. CASE visiting({"ret"}, 0) /\ top.node.s # << >>
  <2>1. accept(gen, top, top.at + 1)
    BY <1>1, <1>4, LiveJump DEF VisitReturn, visiting
  <2>2. top.at + 1 \in 1..Len(top.node.s)
    BY <1>2, <1>4 DEF visiting
  <2> QED
    BY <1>1, <2>1, <2>2, KeepsTwice, NextChild DEF Simple, Loops, FunctionKinds
<1>5. CASE visiting({"ret"}, 1)
  <2> DEFINE g == IF gen.ctx.return_slot = NoValue THEN gen
                  ELSE store_expression_result(gen, child(1), gen.ctx.return_slot)
  <2>1. return(drop_current(branch_if_needed(g, g.ctx.return_block)))
    BY <1>5 DEF VisitReturn, visiting, finish_return
  <2>2. ASSUME gen.ctx.return_slot # NoValue
        PROVE  has_value(gen, child(1))
    <3>1. around(envs).place.result
      BY <1>1, <2>2, TopSound, LiveJump DEF stands, settled
    <3>2. 1 \in DOMAIN top.node.s
      BY <1>2, <1>5, TopFacts DEF Going, visiting
    <3>3. 1 \in read_children(top.node, around(envs).place)
      BY <1>1, <3>1, <3>2 DEF read_children, operands
    <3> QED
      BY <1>5, <3>3, ReadChild DEF visiting
  <2>3. Keeps(gen, g) /\ Emits(gen, g)
    BY <1>1, <2>2, LiveJump, EmitsNothing, ResultEmits, ResultKeeps, KeepsTwice
  <2> HIDE DEF g
  <2>4. Good(g) /\ (live(g) => standing(g))
    BY <1>1, <2>3, LiveJump, EmitsStands DEF Emits
  <2> QED
    BY <1>1, <2>1, <2>3, <2>4, JumpSound
<1> QED
  BY <1>3, <1>4, <1>5 DEF VisitReturn, visiting

LEMMA BreakSound ==
  ASSUME NEW envs, Going(envs), VisitBreak
  PROVE  SoundInv'
<1>1. top.node.k = "brk" /\ (top.at = 0 \/ top.at = 1)
  BY DEF VisitBreak, visiting
<1>2. /\ DOMAIN top.node.s = 1..Len(top.node.s) /\ Len(top.node.s) \in Nat
      /\ top.node.s \in Seq(OrderlyNodes)
      /\ top.at \in 0..Len(top.node.s)
  BY TopFacts, ReadChildren DEF Going
<1>3. /\ loops(gen) = around(envs).loops
      /\ loops(gen) # << >>
      /\ around(envs).place.loop = "plain" => Last(loops(gen)).break_slot = NoValue
      /\ top.at = 1 => gen.ctx.loop_capacity = top.loop[2] /\ around(envs).place.loop # "plain"
  BY <1>1, LiveJump, TopSound DEF stands, environment, sound_place, remembers
<1>4. CASE break_value_wanted /\ top.at = 0
           /\ accept(gen, [top EXCEPT !.loop = <<Last(loops(gen)), gen.ctx.loop_capacity>>], 1)
  <2> DEFINE f == [top EXCEPT !.loop = <<Last(loops(gen)), gen.ctx.loop_capacity>>]
  <2>1. is_frame(f) /\ f.node = top.node /\ f.path = top.path /\ f.loop[2] = gen.ctx.loop_capacity
    <3>1. is_frame(top)
      BY TopFacts DEF Going
    <3> QED
      BY <3>1 DEF is_frame
  <2>2. 1 \in 1..Len(top.node.s)
    BY <1>2, <1>4 DEF break_value_wanted
  <2>3. around(envs).place.loop # "plain"
    BY <1>3, <1>4 DEF break_value_wanted
  <2> HIDE DEF f
  <2>4. accept(gen, f, 1)
    BY <1>4 DEF f
  <2> QED
    BY <1>1, <1>4, <2>1, <2>2, <2>3, <2>4, LiveJump, KeepsTwice, PlainAccept
<1>5. CASE return(leave_loop(gen, Last(loops(gen)), FALSE))
  <2>1. return(drop_current(branch_if_needed(gen, Last(loops(gen)).break_target)))
    BY <1>5 DEF leave_loop
  <2> QED
    BY <1>1, <2>1, LiveJump, KeepsTwice, JumpSound
<1>6. CASE top.at = 1 /\ return(leave_loop(gen, top.loop[1], TRUE))
  <2> DEFINE g == store_expression_result(gen, child(1), top.loop[1].break_slot)
  <2>1. return(drop_current(branch_if_needed(g, top.loop[1].break_target)))
    BY <1>6 DEF leave_loop
  <2>2. has_value(gen, child(1))
    <3>1. 1 \in DOMAIN top.node.s
      BY <1>2, <1>6
    <3>2. 1 \in read_children(top.node, around(envs).place)
      BY <1>1, <1>3, <1>6, <3>1 DEF read_children, operands
    <3> QED
      BY <1>6, <3>2, ReadChild
  <2>3. Keeps(gen, g) /\ Emits(gen, g)
    BY <1>1, <2>2, LiveJump, ResultEmits, ResultKeeps
  <2> HIDE DEF g
  <2>4. Good(g) /\ (live(g) => standing(g))
    BY <1>1, <2>3, LiveJump, EmitsStands DEF Emits
  <2> QED
    BY <1>1, <2>1, <2>3, <2>4, JumpSound
<1> QED
  BY <1>3, <1>4, <1>5, <1>6 DEF VisitBreak, visiting

LEMMA ContinueSound ==
  ASSUME NEW envs, Going(envs), VisitContinue
  PROVE  SoundInv'
<1>1. top.node.k = "cont" /\ top.at = 0
  BY DEF VisitContinue, visiting
<1>2. loops(gen) # << >>
  BY <1>1, LiveJump, TopSound DEF stands, environment, sound_place
<1>3. return(drop_current(branch_if_needed(gen, Last(loops(gen)).continue_target)))
  BY <1>1, <1>2, LiveJump DEF VisitContinue
<1> QED
  BY <1>1, <1>3, LiveJump, KeepsTwice, JumpSound

LEMMA ShortCircuitSound ==
  ASSUME NEW envs, Going(envs), VisitShortCircuit
  PROVE  SoundInv'
<1>1. /\ PointInv /\ stack # << >> /\ Simple /\ top.node.k \in ShortCircuit
      /\ top.node.k \notin {"block", "blockt", "ret", "brk", "cont"}
  BY DEF VisitShortCircuit, visiting, running, FunctionKinds, Simple, Loops, Going, ShortCircuit
<1>2. live(gen) /\ standing(gen) /\ Good(gen) /\ gen.ctx.entry_block # NoBlock
  BY <1>1, LiveOperands, TopSound DEF Simple
<1>3. Len(top.node.s) = 2 /\ is_frame(top)
  BY <1>1, TopFacts DEF orderly_node, right_arity, ShortCircuit
<1>4. \A i \in 1..2 : i <= top.at => has_value(gen, child(i))
  BY <1>1, <1>3, ReadOperands, ReadChild
<1>5. CASE visiting(ShortCircuit, 0)
  <2> DEFINE g == create_temp_alloca(gen, "bool")
             f == [top EXCEPT !.slot = g.registers]
  <2>1. accept(g, f, top.at + 1) /\ top.at = 0
    BY <1>5 DEF VisitShortCircuit, visiting
  <2>2. Keeps(gen, g)
    BY <1>2, AllocaKeeps
  <2> HIDE DEF g
  <2>3. is_frame(f) /\ f.node = top.node /\ f.path = top.path
    BY <1>3 DEF is_frame
  <2> HIDE DEF f
  <2> QED
    BY <1>1, <1>3, <2>1, <2>2, <2>3, SimpleAccept
<1>6. CASE visiting(ShortCircuit, 1)
  <2> DEFINE right_merge == new_blocks(gen, 2)
             made == create_blocks(gen, 2)
             lhs == get_rvalue(made, child(1))
             is_and == top.node.k = "and"
             value == IF is_and THEN False ELSE True
             then == right_merge[IF is_and THEN 1 ELSE 2]
             else == right_merge[IF is_and THEN 2 ELSE 1]
             g == store(lhs.g, value, top.slot)
             h == create_cond_br(g, lhs.value, then, else)
             k == stand_in(h, right_merge[1])
             f == [top EXCEPT !.blocks = right_merge]
  <2>1. Good(made) /\ standing(made) /\ Keeps(gen, made)
    <3>1. Makes(gen, made, 2)
      BY <1>2, CreateMakes
    <3>2. Keeps(gen, made)
      BY <1>2, MovesKeep
    <3> HIDE DEF made
    <3> QED
      BY <1>2, <3>1, <3>2 DEF Makes, standing, live
  <2>2. ensure_current_insertion(made) = made
    BY <2>1, EnsureKeeps
  <2>3. accept(k, f, top.at + 1) /\ top.at = 1
    BY <1>6, <2>2 DEF VisitShortCircuit, visiting
  <2> HIDE DEF made
  <2>4. has_value(made, child(1))
    BY <1>4, <1>6, <2>1, KeepsTwice DEF visiting
  <2>5. Emits(made, lhs.g) /\ Keeps(made, lhs.g)
    BY <2>1, <2>4, RvalueEmits, RvalueKeeps DEF standing
  <2> HIDE DEF lhs, value, then, else, right_merge
  <2>6. standing(lhs.g) /\ Good(lhs.g)
    BY <2>1, <2>5, EmitsStands DEF Emits
  <2>7. Keeps(lhs.g, g) /\ Emits(lhs.g, g)
    BY <2>6, StoreKeeps, StoreEmits DEF standing
  <2> HIDE DEF g
  <2>8. standing(g) /\ Good(g)
    BY <2>6, <2>7, EmitsStands DEF Emits
  <2>9. Keeps(g, h) /\ Good(h)
    BY <2>8, BranchKeeps, BranchCloses DEF standing, Closes
  <2> HIDE DEF h
  <2>10. Keeps(h, k)
    BY <2>9, MovesKeep
  <2> HIDE DEF k
  <2>11. is_frame(f) /\ f.node = top.node /\ f.path = top.path
    BY <1>3 DEF is_frame
  <2> HIDE DEF f
  <2>12. Keeps(gen, k)
    BY <2>1, <2>5, <2>7, <2>9, <2>10, KeepsTwice
  <2> QED
    BY <1>1, <1>3, <2>3, <2>11, <2>12, SimpleAccept
<1>7. CASE visiting(ShortCircuit, 2)
  <2> DEFINE merge == top.blocks[2]
             rhs == get_rvalue(gen, child(2))
             g == store(rhs.g, rhs.value, top.slot)
             h == branch_if_needed(g, merge)
             k == stand_in(h, merge)
             l == set_address(k, top.path, top.slot)
  <2>1. return(l)
    BY <1>2, <1>7, EnsureKeeps DEF VisitShortCircuit, visiting
  <2>2. Emits(gen, rhs.g) /\ Keeps(gen, rhs.g)
    BY <1>2, <1>4, <1>7, RvalueEmits, RvalueKeeps DEF standing, visiting
  <2> HIDE DEF rhs, merge
  <2>3. standing(rhs.g) /\ Good(rhs.g)
    BY <1>2, <2>2, EmitsStands DEF Emits
  <2>4. Keeps(rhs.g, g) /\ Emits(rhs.g, g)
    BY <2>3, StoreKeeps, StoreEmits DEF standing
  <2> HIDE DEF g
  <2>5. standing(g) /\ Good(g)
    BY <2>3, <2>4, EmitsStands DEF Emits
  <2>6. Keeps(g, h) /\ Good(h)
    BY <2>5, BranchIfKeeps, BranchIfNeeded
  <2> HIDE DEF h
  <2>7. Keeps(h, k) /\ Good(k)
    BY <2>6, MovesKeep, StandIn DEF Goes
  <2> HIDE DEF k
  <2>8. Keeps(k, l) /\ has_value(l, top.path)
    BY <2>7, SetKeeps
  <2> HIDE DEF l
  <2>9. Keeps(gen, l)
    BY <2>2, <2>4, <2>6, <2>7, <2>8, KeepsTwice
  <2> QED
    BY <1>1, <2>1, <2>8, <2>9, SimpleReturn
<1> QED
  BY <1>5, <1>6, <1>7 DEF VisitShortCircuit

(* A branch of an if that ends in an open block has the value the if takes from it. *)
LEMMA BranchHasValue ==
  ASSUME NEW envs, Going(envs), top.node.k = "if", top.at \in {2, 3}, live(gen), needs_result(top.node)
  PROVE  has_value(gen, child(top.at))
<1>1. PointInv /\ stack # << >>
  BY DEF Going
<1>2. top.at \in DOMAIN top.node.s /\ top.node.k \notin FunctionKinds
  BY <1>1, TopFacts, ReadChildren DEF FunctionKinds
<1>3. CASE top.node.s[top.at].next
  <2>1. top.at \in read_children(top.node, around(envs).place)
    BY <1>2, <1>3 DEF read_children
  <2> QED
    BY <1>2, <2>1, ReadChild
<1>4. CASE ~top.node.s[top.at].next
  <2>1. place_of(top.node, around(envs).place, top.at).closes
    BY <1>2, <1>4, PlaceFields
  <2> QED
    BY <2>1, TopSound DEF stands
<1> QED
  BY <1>3, <1>4

LEMMA EndBranchKeeps ==
  ASSUME NEW envs, Going(envs), top.node.k = "if", top.at \in {2, 3}
  PROVE  Keeps(gen, end_branch(gen, top.at))
<1>1. Good(gen) /\ (live(gen) => standing(gen))
  BY TopFacts DEF Going
<1>2. CASE ~live(gen)
  BY <1>2, KeepsTwice DEF end_branch
<1>3. CASE live(gen)
  <2> DEFINE h == IF needs_result(top.node) THEN store_expression_result(gen, child(top.at), top.slot) ELSE gen
             g == create_br(h, top.blocks[3])
  <2>1. end_branch(gen, top.at) = g
    BY <1>3 DEF end_branch
  <2>2. Emits(gen, h) /\ Keeps(gen, h)
    BY <1>1, <1>3, BranchHasValue, EmitsNothing, ResultEmits, ResultKeeps, KeepsTwice
  <2> HIDE DEF h
  <2>3. standing(h) /\ Good(h)
    BY <1>1, <1>3, <2>2, EmitsStands DEF Emits
  <2>4. Keeps(h, g)
    BY <2>3, BranchKeeps DEF standing
  <2> HIDE DEF g
  <2> QED
    BY <2>1, <2>2, <2>4, KeepsTwice
<1> QED
  BY <1>2, <1>3

LEMMA JoinSound ==
  ASSUME NEW envs, Going(envs), top.node.k = "if", NEW g, Good(g), Keeps(gen, g), join(g)
  PROVE  SoundInv'
<1> DEFINE h == stand_in(g, top.blocks[3])
           k == IF needs_result(top.node) THEN set_address(h, top.path, top.slot) ELSE h
<1>1. return(k)
  BY DEF join
<1>2. Keeps(g, h) /\ Good(h)
  BY MovesKeep, StandIn DEF Goes
<1> HIDE DEF h
<1>3. Keeps(h, k) /\ (needs_result(top.node) => has_value(k, top.path))
  BY <1>2, SetKeeps, KeepsTwice
<1> HIDE DEF k
<1>4. Simple /\ top.node.k \notin {"block", "blockt", "ret", "brk", "cont"}
  BY DEF Simple, Loops, FunctionKinds
<1> QED
  BY <1>1, <1>2, <1>3, <1>4, KeepsTwice, SimpleReturn

LEMMA ElseKeeps ==
  ASSUME NEW g, Good(g)
  PROVE  Keeps(g, enter_else(g))
BY DEF enter_else, Keeps, Good, is_gen, is_ctx

LEMMA IfSound ==
  ASSUME NEW envs, Going(envs), VisitIf
  PROVE  SoundInv'
<1>1. /\ PointInv /\ stack # << >> /\ Simple /\ top.node.k = "if" /\ top.node.k \notin FunctionKinds
      /\ top.node.k \notin {"block", "blockt", "ret", "brk", "cont"}
  BY DEF VisitIf, visiting, running, FunctionKinds, Simple, Loops, Going
<1>2. Good(gen) /\ is_frame(top) /\ gen.ctx.entry_block # NoBlock /\ Len(top.node.s) \in {2, 3}
  BY <1>1, TopFacts, TopSound DEF orderly_node, right_arity
<1>3. /\ 1 \in 1..Len(top.node.s) /\ 2 \in 1..Len(top.node.s) /\ 1 \in DOMAIN top.node.s
      /\ Len(top.node.s) = 3 => 3 \in 1..Len(top.node.s)
  <2>1. \A n \in {2, 3} : 1 \in 1..n /\ 2 \in 1..n /\ (n = 3 => 3 \in 1..n)
    OBVIOUS
  <2>2. DOMAIN top.node.s = 1..Len(top.node.s)
    BY <1>1, TopFacts, ReadChildren
  <2> QED
    BY <1>2, <2>1, <2>2, Zenon
<1>4. CASE visiting({"if"}, 0)
  <2> DEFINE g == create_blocks(gen, 3)
             h == create_temp_alloca(g, top.node.type)
             f == [top EXCEPT !.blocks = new_blocks(gen, 3)]
             e == [f EXCEPT !.slot = h.registers]
  <2>1. (accept(h, e, 1) \/ accept(g, f, 1)) /\ top.at = 0
    BY <1>4 DEF VisitIf, visiting
  <2>2. Good(g) /\ Keeps(gen, g)
    <3>1. Makes(gen, g, 3)
      BY <1>2, CreateMakes
    <3>2. Keeps(gen, g)
      BY <1>2, MovesKeep
    <3> HIDE DEF g
    <3> QED
      BY <3>1, <3>2 DEF Makes
  <2> HIDE DEF g
  <2>3. Keeps(g, h)
    BY <1>2, <2>2, AllocaKeeps DEF Keeps
  <2> HIDE DEF h
  <2>4. is_frame(f) /\ f.node = top.node /\ f.path = top.path
    BY <1>2 DEF is_frame
  <2> HIDE DEF f
  <2>5. is_frame(e) /\ e.node = top.node /\ e.path = top.path
    BY <2>4 DEF is_frame
  <2> HIDE DEF e
  <2>6. top.at + 1 = 1 /\ Keeps(gen, h)
    BY <2>1, <2>2, <2>3, KeepsTwice
  <2>7. CASE accept(h, e, 1)
    BY <1>1, <1>3, <2>5, <2>6, <2>7, SimpleAccept
  <2>8. CASE accept(g, f, 1)
    BY <1>1, <1>3, <2>2, <2>4, <2>6, <2>8, SimpleAccept
  <2> QED
    BY <2>1, <2>7, <2>8
<1>5. CASE visiting({"if"}, 1)
  <2> DEFINE condition == get_rvalue(gen, child(1))
             g == create_cond_br(condition.g, condition.value, top.blocks[1], top.blocks[2])
             k == stand_in(g, top.blocks[1])
  <2>1. standing(gen) /\ top.at = 1
    BY <1>1, <1>5, TopFacts, OperandsComplete, LiveIn DEF visiting
  <2>2. has_value(gen, child(1))
    <3>1. 1 \in read_children(top.node, around(envs).place)
      BY <1>1, <1>3 DEF read_children, operands
    <3> QED
      BY <2>1, <3>1, ReadChild
  <2>3. Emits(gen, condition.g) /\ Keeps(gen, condition.g)
    BY <1>2, <2>1, <2>2, RvalueEmits, RvalueKeeps DEF standing
  <2>4. standing(condition.g) /\ Good(condition.g)
    BY <2>1, <2>3, EmitsStands DEF Emits
  <2>5. accept(k, top, top.at + 1)
    BY <1>5, <2>1, <2>4, EnsureKeeps DEF VisitIf, visiting
  <2> HIDE DEF condition
  <2>6. Keeps(condition.g, g) /\ Good(g)
    BY <2>4, BranchKeeps, BranchCloses DEF standing, Closes
  <2> HIDE DEF g
  <2>7. Keeps(g, k)
    BY <2>6, MovesKeep
  <2> HIDE DEF k
  <2>8. Keeps(gen, k) /\ top.at + 1 \in 1..Len(top.node.s)
    BY <1>3, <2>1, <2>3, <2>6, <2>7, KeepsTwice
  <2> QED
    BY <1>1, <2>5, <2>8, NextChild
<1>6. CASE visiting({"if"}, 2)
  <2> DEFINE left == end_branch(gen, 2)
             g == enter_else(left)
             b == top.blocks[2]
  <2>1. top.at = 2 /\ gen.ctx.return_block # NoBlock
    BY <1>1, <1>6, TopFacts DEF visiting
  <2>2. Keeps(gen, left)
    BY <1>1, <2>1, EndBranchKeeps
  <2>3. Good(left) /\ b \in open(left)
    <3>1. waiting(top) = {top.blocks[2], top.blocks[3]}
      BY <1>1, <2>1, WaitsFor
    <3>2. waiting(top) \subseteq open(gen) /\ waiting(top) \cap held(gen) = {}
      BY <1>1, TopFacts
    <3>3. live(gen) => gen.ctx.current_block \in held(gen)
      BY DEF held, held_by, in_block, live
    <3>4. Leaves(left) /\ open(left) = open(gen) \ (IF live(gen) THEN {gen.ctx.current_block} ELSE {})
      BY <1>1, <2>1, EndBranchLeaves
    <3> HIDE DEF left
    <3> QED
      BY <3>1, <3>2, <3>3, <3>4 DEF Leaves
  <2> HIDE DEF left
  <2>4. CASE Len(top.node.s) = 3
    <3> DEFINE k == stand_in(left, b)
    <3>1. accept(k, top, top.at + 1)
      <4>1. accept([g EXCEPT !.ctx.current_block = top.blocks[2]], top, 3)
        BY <1>6, <2>4 DEF VisitIf, visiting, left
      <4> QED
        BY <2>1, <2>3, <4>1, EnterElse
    <3>2. Keeps(left, k)
      BY <2>3, MovesKeep
    <3> HIDE DEF k
    <3>3. Keeps(gen, k) /\ top.at + 1 \in 1..Len(top.node.s)
      BY <1>3, <2>1, <2>2, <2>4, <3>2, KeepsTwice
    <3> QED
      BY <1>1, <3>1, <3>3, NextChild
  <2>5. CASE Len(top.node.s) # 3
    <3> DEFINE h == create_br(g, top.blocks[3])
    <3>1. join(h)
      BY <1>6, <2>5 DEF VisitIf, visiting, left
    <3>2. Good(g) /\ g.blocks = left.blocks /\ g.insertion_block = b /\ Keeps(left, g)
      BY <2>3, EnterElse, ElseKeeps
    <3> HIDE DEF g
    <3>3. g.insertion_block \in open(g)
      BY <2>3, <3>2 DEF open
    <3>4. Keeps(g, h) /\ Good(h)
      BY <3>2, <3>3, BranchKeeps, BranchCloses DEF Closes
    <3> HIDE DEF h
    <3>5. Keeps(gen, h)
      BY <2>2, <3>2, <3>4, KeepsTwice
    <3> QED
      BY <1>1, <3>1, <3>4, <3>5, JoinSound
  <2> QED
    BY <2>4, <2>5
<1>7. CASE visiting({"if"}, 3)
  <2> DEFINE left == end_branch(gen, 3)
  <2>1. join(left) /\ top.at = 3
    BY <1>7 DEF VisitIf, visiting
  <2>2. Good(left) /\ Keeps(gen, left)
    <3>1. Keeps(gen, left)
      BY <1>1, <2>1, EndBranchKeeps
    <3>2. Leaves(left)
      BY <1>1, <2>1, TopFacts, EndBranchLeaves
    <3> QED
      BY <3>1, <3>2 DEF Leaves
  <2> HIDE DEF left
  <2> QED
    BY <1>1, <2>1, <2>2, JoinSound
<1> QED
  BY <1>4, <1>5, <1>6, <1>7 DEF VisitIf, visiting

(* What beginning or ending a loop leaves alone. *)
KeepsButLoops(g, h) ==
  /\ h.failed = g.failed
  /\ g.registers \in Nat => h.registers \in Nat
  /\ h.ctx.return_slot = g.ctx.return_slot
  /\ h.ctx.entry_block = g.ctx.entry_block
  /\ DOMAIN g.expr_value \subseteq DOMAIN h.expr_value
  /\ DOMAIN g.expr_address \subseteq DOMAIN h.expr_address

LEMMA KeepsAcrossLoops ==
  ASSUME NEW g, NEW h, NEW k, NEW l, Keeps(g, h), KeepsButLoops(h, k), Keeps(k, l)
  PROVE  KeepsButLoops(g, l)
BY DEF Keeps, KeepsButLoops

LEMMA PushShape ==
  ASSUME NEW s, is_seq(s), NEW x
  PROVE  /\ is_seq(Append(s, x)) /\ Append(s, x) # << >>
         /\ Front(Append(s, x)) = s /\ Last(Append(s, x)) = x
<1> DEFINE S == Range(s) \cup {x}
           t == Append(s, x)
<1>1. s \in Seq(S) /\ x \in S
  BY SeqMonotonic DEF is_seq
<1> HIDE DEF S
<1>2. /\ t \in Seq(S) /\ t # << >> /\ Len(t) = Len(s) + 1 /\ Len(s) \in Nat
      /\ \A i \in 1..Len(s) : t[i] = s[i]
      /\ t[Len(s) + 1] = x
  BY <1>1, AppendProperties
<1> HIDE DEF t
<1>3. Last(t) = x
  BY <1>2 DEF Last
<1>4. Front(t) = s
  <2>1. Front(t) = SubSeq(t, 1, Len(s))
    BY <1>2 DEF Front
  <2>2. /\ SubSeq(t, 1, Len(s)) \in Seq(S)
        /\ Len(SubSeq(t, 1, Len(s))) = Len(s)
        /\ \A i \in 1..Len(s) : SubSeq(t, 1, Len(s))[i] = t[i]
    <3>1. 1 \in Nat \ {0} /\ Len(s) \in Nat /\ 1 <= Len(s) + 1 /\ Len(s) <= Len(t)
      BY <1>2
    <3>2. \A i \in 1..(Len(s) - 1 + 1) : SubSeq(t, 1, Len(s))[i] = t[1 + i - 1]
      BY <1>2, <3>1, SubSeqShape
    <3>3. SubSeq(t, 1, Len(s)) \in Seq(S) /\ Len(SubSeq(t, 1, Len(s))) = Len(s) - 1 + 1
      BY <1>2, <3>1, SubSeqShape
    <3>4. Len(s) - 1 + 1 = Len(s) /\ \A i \in 1..Len(s) : 1 + i - 1 = i
      BY <1>2
    <3> QED
      BY <3>2, <3>3, <3>4
  <2> QED
    BY <1>1, <1>2, <2>1, <2>2, SeqEqual
<1>5. is_seq(t)
  BY <1>2, IsSeq
<1> QED
  BY <1>2, <1>3, <1>4, <1>5 DEF t

LEMMA LoopStackKeeps ==
  ASSUME NEW g, Good(g), NEW loop
  PROVE  /\ KeepsButLoops(g, push_loop(g, loop)) /\ loops(push_loop(g, loop)) = Append(loops(g), loop)
         /\ KeepsButLoops(g, pop_loop(g)) /\ loops(pop_loop(g)) = Front(loops(g))
         /\ pop_loop(g).ctx.loop_capacity = g.ctx.loop_capacity
<1> DEFINE pushed == Append(g.ctx.loop_stack, loop)
           c == g.ctx.loop_capacity
           capacity == IF c > Len(loops(g)) THEN c ELSE IF c = 0 THEN 1 ELSE 2 * c
           popped == Front(g.ctx.loop_stack)
<1>1. push_loop(g, loop) = [g EXCEPT !.ctx.loop_stack = pushed, !.ctx.loop_capacity = capacity]
  BY DEF push_loop
<1>2. pop_loop(g) = [g EXCEPT !.ctx.loop_stack = popped]
  BY DEF pop_loop
<1> HIDE DEF pushed, capacity, popped
<1>3. KeepsButLoops(g, push_loop(g, loop)) /\ loops(push_loop(g, loop)) = pushed
  BY <1>1 DEF KeepsButLoops, loops, Good, is_gen, is_ctx
<1>4. KeepsButLoops(g, pop_loop(g)) /\ loops(pop_loop(g)) = popped /\ pop_loop(g).ctx.loop_capacity = c
  BY <1>2 DEF KeepsButLoops, loops, Good, is_gen, is_ctx
<1> QED
  BY <1>3, <1>4 DEF pushed, popped, loops

(* The step that begins the body of a loop, whose context it pushes. *)
LEMMA EnterLoop ==
  ASSUME NEW envs, Going(envs), top.node.k \in Loops, ~in_body(top),
         NEW g, KeepsButLoops(gen, g), NEW loop, loops(g) = Append(loops(gen), loop),
         NEW f, NEW i, accept(g, f, i), i = top.at + 1, i \in 1..Len(top.node.s),
         top.node.k = "while" => i = 2,
         is_frame(f), f.node = top.node, f.path = top.path,
         top.node.k = "while" \/ ~needs_result(top.node) => loop.break_slot = NoValue,
         top.node.k = "loop" /\ needs_result(top.node) => f.slot # NoValue
  PROVE  SoundInv'
<1> DEFINE out == around(envs)
           place_ == place_of(top.node, out.place, i)
<1>1. PointInv /\ stack # << >> /\ Surrounded(envs) /\ ~gen.failed /\ gen.registers \in Nat
  BY DEF Going
<1>2. top.node.k \notin FunctionKinds /\ top.node.k # "brk" /\ top.node.k # "block" /\ top.node.k # "if"
  BY DEF Loops, FunctionKinds
<1>3. PICK e : e = [f EXCEPT !.at = i]
  OBVIOUS
<1>4. e.node = top.node /\ e.at = i /\ e.path = top.path /\ e.slot = f.slot
  BY <1>3 DEF is_frame
<1>5. PICK d : /\ d.place = place_
               /\ d.loops = Append(loops(gen), loop)
               /\ d.capacity = out.capacity
               /\ d.inside = TRUE
  <2> WITNESS [place |-> place_, loops |-> Append(loops(gen), loop), capacity |-> out.capacity, inside |-> TRUE]
  <2> QED
    OBVIOUS
<1>6. fits(gen.ctx, out) /\ environment(top.node, out) /\ loops(gen) = out.loops
  BY <1>2, TopSound, StaysSettled, KeepsTwice DEF fits, loops
<1>7. ~out.place.held
  BY TopSound DEF sound_place
<1>8. /\ ~d.place.held
      /\ d.place.result = out.place.result
      /\ d.place.loop = "plain" => loop.break_slot = NoValue
  <2>1. ~d.place.held /\ d.place.result = out.place.result
    BY <1>2, <1>5, <1>7, PlaceFields
  <2>2. top.node.k = "loop" /\ needs_result(top.node) => d.place.loop # "plain"
    BY <1>2, <1>5, PlaceFields
  <2>3. top.node.k = "while" \/ ~needs_result(top.node) => loop.break_slot = NoValue
    OBVIOUS
  <2> QED
    BY <2>1, <2>2, <2>3 DEF Loops
<1>9. is_seq(d.loops) /\ d.loops # << >> /\ Front(d.loops) = out.loops /\ Last(d.loops) = loop
  BY <1>5, <1>6, PushShape DEF environment
<1>10. g.ctx.entry_block # NoBlock /\ g.ctx.return_slot = gen.ctx.return_slot
  BY <1>2, TopSound DEF KeepsButLoops
<1> HIDE DEF out, place_
<1>11. fits(g.ctx, d)
  BY <1>5, <1>6, <1>8, <1>10 DEF fits, settled, loops
<1>12. in_body(e) /\ ~in_function(e)
  <2>1. top.at \in Nat
    BY <1>1, TopFacts
  <2>2. top.node.k = "loop" => i = 1
    <3>1. top.node.k = "loop" => Len(top.node.s) = 1
      BY <1>1, TopFacts DEF orderly_node, right_arity
    <3>2. \A n : n = 1 /\ i \in 1..n => i = 1
      OBVIOUS
    <3> QED
      BY <3>1, <3>2, Zenon
  <2> QED
    BY <1>2, <1>4, <2>2 DEF in_body, in_function, Loops
<1>13. encloses(e, out, d)
  BY <1>2, <1>4, <1>5, <1>7, <1>9, <1>12 DEF encloses, place_
<1>14. remembers(e, out)
  BY <1>2, <1>4, <1>12 DEF remembers
<1>15. keeps_values(gen, g) /\ ~g.failed /\ g.registers \in Nat
  BY <1>1 DEF KeepsButLoops, keeps_values, has_value
<1>16. out = envs[Len(stack)]
  BY DEF out, around
<1> QED
  BY <1>1, <1>3, <1>8, <1>9, <1>11, <1>13, <1>14, <1>15, <1>16, AcceptSound

(* The step that comes back from the body of a loop and pops its context. *)
LEMMA LeaveLoop ==
  ASSUME NEW envs, Going(envs), in_body(top),
         NEW g, KeepsButLoops(gen, g), loops(g) = Front(loops(gen)),
         g.ctx.loop_capacity = gen.ctx.loop_capacity,
         return(g), needs_result(top.node) => has_value(g, top.path)
  PROVE  SoundInv'
<1> DEFINE out == around(envs)
<1>1. PointInv /\ stack # << >> /\ Surrounded(envs) /\ ~gen.failed /\ gen.registers \in Nat
  BY DEF Going
<1>2. /\ top.node.k \in Loops
      /\ top.node.k \notin {"block", "blockt", "ret", "brk", "cont"}
      /\ ~in_function(top)
  BY DEF in_body, Loops, in_function, FunctionKinds
<1>3. settled(gen.ctx, out) /\ Front(loops(gen)) = out.loops
  BY <1>2, TopSound DEF stands
<1>4. fits(g.ctx, out)
  BY <1>3 DEF fits, settled, KeepsButLoops, loops
<1>5. ~out.place.closes
  BY <1>2, NeverCloses
<1>6. keeps_values(gen, g) /\ ~g.failed /\ g.registers \in Nat
  BY <1>1 DEF KeepsButLoops, keeps_values, has_value
<1>7. out = envs[Len(stack)]
  BY DEF around
<1> HIDE DEF out
<1> QED
  BY <1>1, <1>4, <1>5, <1>6, <1>7, ReturnSound

(* The blocks of a loop, and the branch to the first of them. *)
LEMMA BranchToNew ==
  ASSUME NEW g, Good(g), live(g) => standing(g), NEW k \in 1..3, NEW target
  PROVE  LET h == stand_in(branch_if_needed(create_blocks(g, k), target), target)
         IN  Keeps(g, h) /\ Good(h)
<1> DEFINE made == create_blocks(g, k)
           left == branch_if_needed(made, target)
           h == stand_in(left, target)
<1>1. Makes(g, made, k)
  BY CreateMakes
<1>2. Keeps(g, made)
  BY MovesKeep
<1> HIDE DEF made
<1>3. Good(made) /\ (live(made) => standing(made))
  BY <1>1 DEF Makes, standing, live
<1>4. Keeps(made, left) /\ Good(left)
  BY <1>3, BranchIfKeeps, BranchIfNeeded
<1> HIDE DEF left
<1>5. Keeps(left, h) /\ Good(h)
  BY <1>4, MovesKeep, StandIn DEF Goes
<1> HIDE DEF h
<1>6. Keeps(g, h)
  BY <1>2, <1>4, <1>5, KeepsTwice
<1> QED
  BY <1>5, <1>6 DEF h, left, made

(* The branch back to the head of a loop. *)
LEMMA BranchBack ==
  ASSUME NEW g, Good(g), live(g) => standing(g), NEW target
  PROVE  LET h == IF live(g) THEN create_br(g, target) ELSE g IN Keeps(g, h) /\ Good(h)
<1>1. CASE live(g)
  <2> DEFINE h == create_br(g, target)
  <2>1. Keeps(g, h)
    BY <1>1, BranchKeeps DEF standing
  <2>2. Closes(g, h, g.insertion_block)
    BY <1>1, BranchCloses DEF standing
  <2> HIDE DEF h
  <2>3. Good(h)
    BY <2>2 DEF Closes
  <2> QED
    BY <1>1, <2>1, <2>3 DEF h
<1>2. CASE ~live(g)
  BY <1>2, KeepsTwice
<1> QED
  BY <1>1, <1>2

(* A new slot has a register of its own, and no register is a null pointer. *)
LEMMA NewRegister ==
  ASSUME NEW g, Good(g), g.ctx.entry_block # NoBlock, g.registers \in Nat, NEW type
  PROVE  create_temp_alloca(g, type).registers # NoValue
<1> DEFINE op == IF type = "never" THEN "alloca_void" ELSE "alloca"
           inst == instruction(op, g.registers + 1, << >>, << >>)
           h == insert(g, g.ctx.entry_block, inst)
<1>1. ~is_terminator(inst) /\ g.ctx.entry_block \in DOMAIN g.blocks
  BY DEF instruction, is_terminator, Terminators, Good
<1> HIDE DEF inst
<1>2. Keeps(g, h) /\ Good(h)
  BY <1>1, InsertKeeps, InsertChanges
<1>3. create_temp_alloca(g, type) = [h EXCEPT !.registers = h.registers + 1]
  BY DEF create_temp_alloca, define_in, inst
<1> HIDE DEF h
<1>4. h.registers \in Nat
  BY <1>2 DEF Keeps
<1>5. create_temp_alloca(g, type).registers = h.registers + 1
  BY <1>2, <1>3 DEF Good, is_gen
<1> QED
  BY <1>4, <1>5 DEF NoValue

LEMMA WhileSound ==
  ASSUME NEW envs, Going(envs), VisitWhile
  PROVE  SoundInv'
<1>1. /\ PointInv /\ stack # << >> /\ top.node.k = "while" /\ top.node.k \notin FunctionKinds
      /\ top.node.k \in Loops
  BY DEF VisitWhile, visiting, running, FunctionKinds, Loops, Going
<1>2. Good(gen) /\ (live(gen) => standing(gen)) /\ is_frame(top) /\ Len(top.node.s) = 2
  BY <1>1, TopFacts DEF orderly_node, right_arity
<1>3. 1 \in 1..Len(top.node.s) /\ 2 \in 1..Len(top.node.s) /\ 1 \in DOMAIN top.node.s
  <2>1. DOMAIN top.node.s = 1..Len(top.node.s)
    BY <1>1, TopFacts, ReadChildren
  <2> QED
    BY <1>2, <2>1
<1>4. CASE visiting({"while"}, 0)
  <2> DEFINE blocks == new_blocks(gen, 3)
             h == stand_in(branch_if_needed(create_blocks(gen, 3), blocks[1]), blocks[1])
             f == [top EXCEPT !.blocks = blocks]
  <2>1. accept(h, f, 1) /\ top.at = 0
    BY <1>4 DEF VisitWhile, visiting
  <2> HIDE DEF blocks
  <2>2. Keeps(gen, h)
    BY <1>2, BranchToNew
  <2> HIDE DEF h
  <2>3. is_frame(f) /\ f.node = top.node /\ f.path = top.path
    BY <1>2 DEF is_frame
  <2> HIDE DEF f
  <2>4. 1 = top.at + 1 /\ 1 # 2
    BY <2>1
  <2> QED
    BY <1>1, <1>3, <2>1, <2>2, <2>3, <2>4, PlainAccept
<1>5. CASE visiting({"while"}, 1)
  <2> DEFINE condition == get_rvalue(gen, child(1))
             g == create_cond_br(condition.g, condition.value, top.blocks[2], top.blocks[3])
             loop == loop_context(top.blocks[1], top.blocks[3], NoValue)
             h == push_loop(g, loop)
             k == stand_in(h, top.blocks[2])
  <2>1. standing(gen) /\ top.at = 1 /\ ~in_body(top)
    BY <1>1, <1>5, TopFacts, OperandsComplete, LiveIn DEF visiting, in_body
  <2>2. has_value(gen, child(1))
    <3>1. 1 \in read_children(top.node, around(envs).place)
      BY <1>1, <1>3 DEF read_children, operands
    <3> QED
      BY <2>1, <3>1, ReadChild
  <2>3. accept(k, top, 2)
    BY <1>5 DEF VisitWhile, visiting
  <2>4. Emits(gen, condition.g) /\ Keeps(gen, condition.g)
    BY <1>2, <2>1, <2>2, RvalueEmits, RvalueKeeps DEF standing
  <2> HIDE DEF condition
  <2>5. standing(condition.g) /\ Good(condition.g)
    BY <2>1, <2>4, EmitsStands DEF Emits
  <2>6. Keeps(condition.g, g) /\ Good(g)
    BY <2>5, BranchKeeps, BranchCloses DEF standing, Closes
  <2> HIDE DEF g
  <2>7. loop.break_slot = NoValue
    BY DEF loop_context
  <2> HIDE DEF loop
  <2>8. Good(h) /\ KeepsButLoops(g, h) /\ loops(h) = Append(loops(g), loop)
    BY <2>6, LoopStackEmits, LoopStackKeeps DEF Emits
  <2> HIDE DEF h
  <2>9. Keeps(h, k)
    BY <2>8, MovesKeep
  <2> HIDE DEF k
  <2>10. KeepsButLoops(gen, k) /\ loops(k) = Append(loops(gen), loop)
    <3>1. Keeps(gen, g)
      BY <2>4, <2>6, KeepsTwice
    <3> QED
      BY <2>8, <2>9, <3>1, KeepsAcrossLoops DEF Keeps, loops
  <2>11. 2 = top.at + 1
    BY <2>1
  <2> QED
    BY <1>1, <1>2, <1>3, <2>1, <2>3, <2>7, <2>10, <2>11, EnterLoop
<1>6. CASE visiting({"while"}, 2)
  <2> DEFINE g == IF live(gen) THEN create_br(gen, top.blocks[1]) ELSE gen
             h == pop_loop(g)
             k == stand_in(h, top.blocks[3])
  <2>1. return(k) /\ in_body(top)
    BY <1>1, <1>6 DEF VisitWhile, visiting, in_body
  <2>2. Keeps(gen, g) /\ Good(g)
    BY <1>2, BranchBack
  <2> HIDE DEF g
  <2>3. Good(h) /\ KeepsButLoops(g, h) /\ loops(h) = Front(loops(g)) /\ h.ctx.loop_capacity = g.ctx.loop_capacity
    BY <2>2, LoopStackEmits, LoopStackKeeps DEF Emits
  <2> HIDE DEF h
  <2>4. Keeps(h, k)
    BY <2>3, MovesKeep
  <2> HIDE DEF k
  <2>5. /\ KeepsButLoops(gen, k) /\ loops(k) = Front(loops(gen))
        /\ k.ctx.loop_capacity = gen.ctx.loop_capacity
    BY <2>2, <2>3, <2>4, KeepsAcrossLoops DEF Keeps, loops
  <2> QED
    BY <1>1, <2>1, <2>5, HasNoValue, LeaveLoop
<1> QED
  BY <1>4, <1>5, <1>6 DEF VisitWhile, visiting

LEMMA LoopSound ==
  ASSUME NEW envs, Going(envs), VisitLoop
  PROVE  SoundInv'
<1>1. /\ PointInv /\ stack # << >> /\ top.node.k = "loop" /\ top.node.k \notin FunctionKinds
      /\ top.node.k \in Loops
  BY DEF VisitLoop, visiting, running, FunctionKinds, Loops, Going
<1>2. /\ Good(gen) /\ (live(gen) => standing(gen)) /\ is_frame(top) /\ Len(top.node.s) = 1
      /\ gen.ctx.entry_block # NoBlock /\ gen.registers \in Nat
  BY <1>1, TopFacts, TopSound DEF orderly_node, right_arity, Going
<1>3. 1 \in 1..Len(top.node.s)
  BY <1>2
<1>4. CASE visiting({"loop"}, 0)
  <2> DEFINE blocks == new_blocks(gen, 2)
             g == stand_in(branch_if_needed(create_blocks(gen, 2), blocks[1]), blocks[1])
             h == IF needs_result(top.node) THEN create_temp_alloca(g, top.node.type) ELSE g
             slot == IF needs_result(top.node) THEN h.registers ELSE NoValue
             loop == loop_context(blocks[1], blocks[2], slot)
             k == push_loop(h, loop)
             f == [top EXCEPT !.blocks = blocks, !.slot = slot]
  <2>1. accept(k, f, 1) /\ top.at = 0 /\ ~in_body(top)
    BY <1>1, <1>4 DEF VisitLoop, visiting, in_body
  <2> HIDE DEF blocks
  <2>2. Keeps(gen, g) /\ Good(g)
    BY <1>2, BranchToNew
  <2> HIDE DEF g
  <2>3. g.ctx.entry_block # NoBlock /\ g.registers \in Nat
    BY <1>2, <2>2 DEF Keeps
  <2>4. Keeps(g, create_temp_alloca(g, top.node.type)) /\ Good(create_temp_alloca(g, top.node.type))
    BY <2>2, <2>3, AllocaKeeps, AllocaSlots DEF Slots
  <2>5. create_temp_alloca(g, top.node.type).registers # NoValue
    BY <2>2, <2>3, NewRegister
  <2>6. Keeps(g, h) /\ Good(h) /\ (needs_result(top.node) => slot # NoValue)
    BY <2>2, <2>4, <2>5, KeepsTwice
  <2>7. ~needs_result(top.node) => slot = NoValue
    OBVIOUS
  <2> HIDE DEF h, slot
  <2>8. loop.break_slot = slot
    BY DEF loop_context
  <2> HIDE DEF loop
  <2>9. KeepsButLoops(h, k) /\ loops(k) = Append(loops(h), loop)
    BY <2>6, LoopStackKeeps
  <2> HIDE DEF k
  <2>10. KeepsButLoops(gen, k) /\ loops(k) = Append(loops(gen), loop)
    <3>1. Keeps(gen, h) /\ Keeps(k, k)
      BY <2>2, <2>6, KeepsTwice
    <3> QED
      BY <2>9, <3>1, KeepsAcrossLoops DEF Keeps, loops
  <2>11. f = [top EXCEPT !.blocks = blocks, !.slot = slot]
    OBVIOUS
  <2> HIDE DEF f
  <2>12. is_frame(f) /\ f.node = top.node /\ f.path = top.path /\ f.slot = slot
    BY <1>2, <2>11 DEF is_frame
  <2>13. 1 = top.at + 1 /\ top.node.k # "while"
    BY <1>1, <2>1
  <2> QED
    BY <1>1, <1>3, <2>1, <2>6, <2>7, <2>8, <2>10, <2>12, <2>13, EnterLoop
<1>5. CASE visiting({"loop"}, 1)
  <2> DEFINE at_current == [gen EXCEPT !.insertion_block = gen.ctx.current_block]
             back == IF live(gen) THEN create_br(at_current, top.blocks[1]) ELSE gen
             g == IF live(gen) THEN create_br(gen, top.blocks[1]) ELSE gen
             h == pop_loop(g)
             k == stand_in(h, top.blocks[2])
             l == IF top.slot = NoValue THEN k ELSE set_address(k, top.path, top.slot)
  <2>1. live(gen) => at_current = gen
    BY <1>2 DEF standing, Good, is_gen
  <2>2. back = g
    <3> HIDE DEF at_current
    <3> QED
      BY <2>1
  <2>3. return(l) /\ in_body(top) /\ top.at = 1
    <3>1. LET h_ == stand_in(pop_loop(back), top.blocks[2])
          IN  return(IF top.slot = NoValue THEN h_ ELSE set_address(h_, top.path, top.slot))
      BY <1>5 DEF VisitLoop, visiting
    <3> HIDE DEF back, g
    <3>2. return(l)
      BY <2>2, <3>1
    <3> QED
      BY <1>1, <1>5, <3>2 DEF visiting, in_body
  <2> HIDE DEF back, at_current
  <2>4. Keeps(gen, g) /\ Good(g)
    BY <1>2, BranchBack
  <2> HIDE DEF g
  <2>5. Good(h) /\ KeepsButLoops(g, h) /\ loops(h) = Front(loops(g)) /\ h.ctx.loop_capacity = g.ctx.loop_capacity
    BY <2>4, LoopStackEmits, LoopStackKeeps DEF Emits
  <2> HIDE DEF h
  <2>6. Keeps(h, k) /\ Good(k)
    BY <2>5, MovesKeep, StandIn DEF Goes
  <2> HIDE DEF k
  <2>7. Keeps(k, l) /\ (top.slot # NoValue => has_value(l, top.path))
    BY <2>6, SetKeeps, KeepsTwice
  <2> HIDE DEF l
  <2>8. /\ KeepsButLoops(gen, l) /\ loops(l) = Front(loops(gen))
        /\ l.ctx.loop_capacity = gen.ctx.loop_capacity
    <3>1. Keeps(h, l)
      BY <2>6, <2>7, KeepsTwice
    <3> QED
      BY <2>4, <2>5, <3>1, KeepsAcrossLoops DEF Keeps, loops
  <2>9. needs_result(top.node) => has_value(l, top.path)
    BY <1>1, <2>3, <2>7, TopSound DEF remembers
  <2> QED
    BY <2>3, <2>8, <2>9, LeaveLoop
<1> QED
  BY <1>4, <1>5 DEF VisitLoop, visiting

(* Where a block stands between its statements. *)
LEMMA BlockShape ==
  ASSUME NEW envs, Going(envs), top.node.k \in Blocks
  PROVE  /\ PointInv /\ stack # << >> /\ Good(gen)
         /\ top.node.k \notin FunctionKinds \cup {"loop", "brk", "while"}
         /\ ~in_body(top)
         /\ top.at \in 0..Len(top.node.s) /\ Len(top.node.s) \in Nat
         /\ DOMAIN top.node.s = 1..Len(top.node.s)
         /\ top.node.k = "blockt" => statements = Len(top.node.s) - 1 /\ Len(top.node.s) >= 1
         /\ top.node.k = "block" => statements = Len(top.node.s)
         /\ after_statement = gen \/ after_statement = drop_current(gen)
         /\ live(after_statement) =>
              /\ after_statement = gen
              /\ top.at > 0 => top.node.s[top.at].next
<1>1. PointInv /\ stack # << >> /\ top.node.k \notin FunctionKinds \cup {"loop", "brk", "while"} /\ ~in_body(top)
  BY DEF Going, Blocks, FunctionKinds, in_body
<1>2. Good(gen) /\ orderly_node(top.node) /\ top.node.s \in Seq(OrderlyNodes)
      /\ top.at \in 0..Len(top.node.s) /\ Len(top.node.s) \in Nat /\ DOMAIN top.node.s = 1..Len(top.node.s)
  BY <1>1, TopFacts, ReadChildren
<1>3. /\ top.node.k = "blockt" => statements = Len(top.node.s) - 1 /\ Len(top.node.s) >= 1
      /\ top.node.k = "block" => statements = Len(top.node.s)
  <2>1. top.node.k = "block" => statements = Len(top.node.s)
    BY DEF statements, Stmts
  <2>2. ASSUME top.node.k = "blockt"
        PROVE  statements = Len(top.node.s) - 1 /\ Len(top.node.s) >= 1
    <3>1. Len(top.node.s) >= 1
      BY <1>2, <2>2 DEF orderly_node, right_arity
    <3>2. Len(SubSeq(top.node.s, 1, Len(top.node.s) - 1)) = Len(top.node.s) - 1
      BY <1>2, <3>1, SubSeqShape
    <3> QED
      BY <2>2, <3>1, <3>2 DEF statements, Stmts
  <2> QED
    BY <2>1, <2>2
<1>4. ~live(drop_current(gen))
  BY <1>2, DropCurrent
<1>5. /\ after_statement = gen \/ after_statement = drop_current(gen)
      /\ live(after_statement) =>
           /\ after_statement = gen
           /\ top.at > 0 => top.node.s[top.at].next
  BY <1>4 DEF after_statement
<1> QED
  BY <1>1, <1>2, <1>3, <1>5

(* The tail of a block that has a value is read where the visitor stands. *)
LEMMA TailValue ==
  ASSUME NEW envs, Going(envs), top.node.k = "blockt", top.at = Len(top.node.s)
  PROVE  LET tail == top.node.s[top.at]
             g == tail_value(gen)
         IN  /\ Keeps(gen, g)
             /\ needs_result(tail) => has_value(g, top.path)
             /\ ~needs_result(tail) => g = gen
<1> DEFINE tail == top.node.s[top.at]
           r == get_rvalue(gen, child(top.at))
           g == tail_value(gen)
           valued_ == set_value(r.g, top.path, r.value)
<1>1. /\ PointInv /\ stack # << >> /\ Good(gen) /\ top.node.k \notin FunctionKinds
      /\ top.at \in 1..Len(top.node.s) /\ top.at \in DOMAIN top.node.s
  <2>1. top.node.k \in Blocks
    BY DEF Blocks
  <2> QED
    BY <2>1, BlockShape
<1>2. Last(top.node.s) = tail
  BY DEF Last
<1>3. completes(tail) \/ tail.type \in {"unit", "never"}
  BY <1>1, <1>2, TopFacts DEF orderly_node
<1>4. CASE ~needs_result(tail)
  <2>1. tail.type \in {"unit", "never"}
    BY <1>3, <1>4 DEF completes, needs_result
  <2>2. g = gen
    BY <1>2, <1>4, <2>1 DEF tail_value
  <2> QED
    BY <1>4, <2>2, KeepsTwice
<1>5. CASE needs_result(tail)
  <2>1. top.at \in read_children(top.node, around(envs).place)
    BY <1>1, <1>5 DEF read_children
  <2>2. has_value(gen, child(top.at)) /\ tail.type \notin {"unit", "never"}
    BY <1>1, <2>1, ReadChild
  <2>3. standing(gen)
    BY <1>1, <1>3, <2>2, LiveIn
  <2>4. g = valued_
    BY <1>2, <1>5, <2>2 DEF tail_value
  <2> HIDE DEF g, tail
  <2>5. Emits(gen, r.g) /\ Keeps(gen, r.g)
    BY <1>1, <2>2, <2>3, RvalueEmits, RvalueKeeps DEF standing
  <2> HIDE DEF r
  <2>6. Keeps(r.g, valued_) /\ has_value(valued_, top.path)
    BY <2>5, SetKeeps DEF Emits
  <2> HIDE DEF valued_
  <2>7. Keeps(gen, g) /\ has_value(g, top.path)
    BY <2>4, <2>5, <2>6, KeepsTwice
  <2> QED
    BY <1>5, <2>7 DEF g, tail
<1> QED
  BY <1>4, <1>5

LEMMA BlockSound ==
  ASSUME NEW envs, Going(envs), VisitBlock
  PROVE  SoundInv'
<1>1. top.node.k \in Blocks
  BY DEF VisitBlock, has_tail, Blocks
<1>2. /\ PointInv /\ stack # << >> /\ Good(gen)
      /\ top.node.k \notin FunctionKinds \cup {"loop", "brk", "while"}
      /\ ~in_body(top)
      /\ top.at \in 0..Len(top.node.s) /\ Len(top.node.s) \in Nat
      /\ top.node.k = "blockt" => statements = Len(top.node.s) - 1 /\ Len(top.node.s) >= 1
      /\ top.node.k = "block" => statements = Len(top.node.s)
  BY <1>1, BlockShape
<1>3. is_frame(top)
  BY <1>2, TopFacts
<1>4. ASSUME live(after_statement), top.node.k = "block"
      PROVE  \A j \in 1..top.at : top.node.s[j].next
  <2>1. \A j \in 1..(top.at - 1) : top.node.s[j].next
    BY <1>4, TopSound DEF remembers
  <2>2. top.at > 0 => top.node.s[top.at].next
    BY <1>1, <1>4, BlockShape
  <2>3. \A j \in 1..top.at : j \in 1..(top.at - 1) \/ (j = top.at /\ top.at > 0)
    BY <1>2
  <2> QED
    BY <2>1, <2>2, <2>3
<1>5. CASE top.at < statements /\ live(after_statement) /\ accept(after_statement, top, top.at + 1)
  <2>1. top.at + 1 \in 1..Len(top.node.s)
    BY <1>1, <1>2, <1>5 DEF Blocks
  <2>2. accept(gen, top, top.at + 1)
    BY <1>1, <1>5, BlockShape
  <2> QED
    BY <1>2, <1>3, <1>4, <1>5, <2>1, <2>2, KeepsTwice, PlainAccept
<1>6. CASE /\ top.at = statements \/ (top.at < statements /\ ~live(after_statement))
           /\ has_tail /\ accept(after_statement, top, Len(top.node.s))
  <2>1. top.node.k = "blockt" /\ top.at < Len(top.node.s) /\ top.node.k \notin FunctionKinds
    BY <1>2, <1>6 DEF has_tail
  <2>2. top.at > 0 => completes(top.node.s[top.at])
    <3>1. top.at > 0 => top.at \in DOMAIN top.node.s
      BY <1>1, <1>2, BlockShape
    <3> QED
      BY <1>2, <2>1, <3>1, TopFacts DEF orderly_node
  <2>3. top.at = 0 \/ top.at > 0
    BY <1>2
  <2>4. live(gen) /\ after_statement = gen
    BY <1>2, <2>1, <2>2, <2>3, LiveIn DEF after_statement, completes
  <2>5. Len(top.node.s) \in 1..Len(top.node.s) /\ Len(top.node.s) = top.at + 1
    BY <1>2, <1>6, <2>1, <2>4
  <2>6. accept(gen, top, Len(top.node.s)) /\ top.node.k # "block"
    BY <1>6, <2>1, <2>4
  <2> QED
    BY <1>2, <1>3, <2>5, <2>6, KeepsTwice, PlainAccept
<1>7. CASE /\ top.at = statements \/ (top.at < statements /\ ~live(after_statement))
           /\ ~has_tail /\ return(after_statement)
  <2>1. top.node.k = "block"
    BY <1>1, <1>7 DEF has_tail, Blocks
  <2>2. Keeps(gen, after_statement)
    BY <1>1, <1>2, BlockShape, MovesKeep, KeepsTwice
  <2>3. ASSUME around(envs).place.closes
        PROVE  ~live(after_statement)
    <3>1. \E i \in DOMAIN top.node.s : ~top.node.s[i].next
      BY <2>1, <2>3, TopSound DEF sound_place
    <3>2. live(after_statement) => top.at = Len(top.node.s)
      BY <1>2, <1>7, <2>1
    <3> QED
      BY <1>1, <1>4, <2>1, <3>1, <3>2, BlockShape
  <2> QED
    BY <1>2, <1>7, <2>1, <2>2, <2>3, HasNoValue, PlainReturn
<1>8. CASE has_tail /\ top.at = Len(top.node.s) /\ return(tail_value(gen))
  <2> DEFINE tail == top.node.s[top.at]
             g == tail_value(gen)
  <2>1. top.node.k = "blockt" /\ return(g) /\ top.at \in DOMAIN top.node.s /\ top.at = Len(top.node.s)
    <3>1. DOMAIN top.node.s = 1..Len(top.node.s)
      BY <1>1, BlockShape
    <3> QED
      BY <1>2, <1>8, <3>1 DEF has_tail
  <2>2. /\ Keeps(gen, g)
        /\ needs_result(tail) => has_value(g, top.path)
        /\ ~needs_result(tail) => g = gen
    BY <2>1, TailValue
  <2> HIDE DEF g
  <2>3. needs_result(top.node) => needs_result(tail)
    <3>1. needs_result(top.node) => top.at \in read_children(top.node, around(envs).place)
      BY <2>1 DEF read_children
    <3> QED
      BY <3>1, ReadChild
  <2>4. ASSUME around(envs).place.closes
        PROVE  ~live(g)
    <3>1. ~tail.next
      BY <2>1, <2>4, TopSound DEF sound_place, Last
    <3>2. ~live(gen)
      <4>1. place_of(top.node, around(envs).place, top.at).closes
        BY <1>2, <2>1, <2>4, PlaceFields
      <4>2. top.at > 0
        BY <1>2, <2>1
      <4> QED
        BY <4>1, <4>2, TopSound DEF stands
    <3> QED
      BY <2>2, <3>1, <3>2 DEF needs_result
  <2> QED
    BY <1>2, <2>1, <2>2, <2>3, <2>4, PlainReturn
<1> QED
  BY <1>5, <1>6, <1>7, <1>8 DEF VisitBlock

(* A function begins with no loops, and with a return slot unless it is one of type (). *)
LEMMA BeginSound ==
  ASSUME NEW envs, Going(envs)
  PROVE  LET g == begin_function(gen)
         IN  /\ ~g.failed /\ g.registers \in Nat
             /\ keeps_values(gen, g)
             /\ g.ctx.loop_stack = << >>
             /\ g.ctx.entry_block # NoBlock
             /\ top.node.k = "fn" => g.ctx.return_slot = NoValue
<1> DEFINE entry == Len(gen.blocks) + 1
           made == create_blocks(gen, 2)
           c == [NoContext EXCEPT !.entry_block = entry, !.return_block = entry + 1]
           entries == assign(gen.entries, top.path, entry)
           h == [made EXCEPT !.ctx = c, !.entries = entries]
           in == stand_in(h, entry)
           param == ensure_slot_for_decl(in, top.path)
           stored == store(param, Argument, param.ctx.local_slots[top.path])
           slot == create_temp_alloca(stored, "bool")
           result == [slot EXCEPT !.ctx.return_slot = slot.registers]
           g == begin_function(gen)
<1>1. Good(gen) /\ Len(gen.blocks) \in Nat /\ DOMAIN gen.blocks = 1..Len(gen.blocks)
      /\ ~gen.failed /\ gen.registers \in Nat
  BY BlocksShape, TopFacts DEF Going
<1>2. Makes(gen, made, 2) /\ Keeps(gen, made)
  BY <1>1, CreateMakes, MovesKeep
<1>3. g = IF top.node.k = "fn" THEN stored ELSE result
  <2>1. made.entries = gen.entries
    BY <1>1 DEF create_blocks, Good, is_gen
  <2> QED
    BY <2>1 DEF begin_function
<1> HIDE DEF made, g, entries
<1>4. Len(gen.blocks) + 2 = entry + 1 /\ (Len(gen.blocks) + 1)..(Len(gen.blocks) + 2) = {entry, entry + 1}
      /\ entry \in Nat \ {0} /\ entry \in 1..(entry + 1)
  BY <1>1
<1>5. /\ DOMAIN made.blocks = 1..(entry + 1)
      /\ open(made) = open(gen) \cup {entry, entry + 1}
      /\ Good(made)
  BY <1>2, <1>4 DEF Makes
<1> HIDE DEF entry
<1>6. /\ is_ctx(c)
      /\ c.entry_block = entry
      /\ c.loop_stack = << >>
      /\ c.return_slot = NoValue
  <2>1. is_ctx(NoContext) /\ NoContext.loop_stack = << >> /\ NoContext.return_slot = NoValue
    BY DEF NoContext, is_ctx
  <2>2. c = [NoContext EXCEPT !.entry_block = entry, !.return_block = entry + 1]
    OBVIOUS
  <2> HIDE DEF c
  <2> QED
    BY <2>1, <2>2 DEF is_ctx
<1> HIDE DEF c
<1>7. h = [made EXCEPT !.ctx = c, !.entries = entries]
  OBVIOUS
<1> HIDE DEF h
<1>8. /\ is_gen(h)
      /\ h.ctx = c
      /\ h.blocks = made.blocks
      /\ h.failed = made.failed /\ h.registers = made.registers
      /\ h.expr_value = made.expr_value /\ h.expr_address = made.expr_address
  BY <1>5, <1>7 DEF Good, is_gen
<1>9. Good(h)
  BY <1>4, <1>5, <1>6, <1>8 DEF Good
<1>10. Good(in) /\ in.blocks = made.blocks /\ in.insertion_block = entry /\ Keeps(h, in)
  BY <1>9, <1>8, StandIn, MovesKeep DEF Goes
<1> HIDE DEF in
<1>11. /\ in.ctx.entry_block = entry /\ in.ctx.loop_stack = << >> /\ in.ctx.return_slot = NoValue
       /\ ~in.failed /\ in.registers \in Nat /\ keeps_values(gen, in)
       /\ in.ctx.entry_block # NoBlock
  BY <1>1, <1>2, <1>4, <1>6, <1>8, <1>10 DEF Keeps, keeps_values, has_value, NoBlock
<1>12. open(in) = open(made)
  BY <1>10 DEF open
<1>13. Emits(in, param) /\ Keeps(in, param)
  BY <1>5, <1>10, <1>11, <1>12, EntrySlots, DeclKeeps
<1> HIDE DEF param
<1>14. Good(param) /\ param.insertion_block \in open(param)
  BY <1>5, <1>10, <1>12, <1>13 DEF Emits, same_place
<1>15. Keeps(param, stored) /\ Good(stored)
  BY <1>14, StoreKeeps, StoreEmits DEF Emits
<1> HIDE DEF stored
<1>16. Keeps(in, stored) /\ stored.ctx.entry_block # NoBlock
  BY <1>11, <1>13, <1>15, KeepsTwice DEF Keeps
<1>17. Keeps(stored, slot) /\ Good(slot)
  BY <1>15, <1>16, AllocaKeeps, AllocaSlots DEF Slots
<1> HIDE DEF slot
<1>18. Keeps(in, slot)
  BY <1>16, <1>17, KeepsTwice
<1>19. ASSUME NEW k, Keeps(in, k)
       PROVE  /\ ~k.failed /\ k.registers \in Nat /\ keeps_values(gen, k)
              /\ k.ctx.loop_stack = << >> /\ k.ctx.entry_block # NoBlock /\ k.ctx.return_slot = NoValue
  BY <1>11, <1>19 DEF Keeps, keeps_values, has_value
<1>20. CASE top.node.k = "fn"
  BY <1>3, <1>16, <1>19, <1>20 DEF g
<1>21. CASE top.node.k # "fn"
  <2>1. /\ result.failed = slot.failed /\ result.registers = slot.registers
        /\ result.expr_value = slot.expr_value /\ result.expr_address = slot.expr_address
        /\ result.ctx.loop_stack = slot.ctx.loop_stack
        /\ result.ctx.entry_block = slot.ctx.entry_block
    BY <1>17 DEF Good, is_gen, is_ctx
  <2>2. g = result
    BY <1>3, <1>21
  <2> HIDE DEF result
  <2>3. /\ ~slot.failed /\ slot.registers \in Nat /\ keeps_values(gen, slot)
        /\ slot.ctx.loop_stack = << >> /\ slot.ctx.entry_block # NoBlock
    BY <1>18, <1>19
  <2> QED
    BY <1>21, <2>1, <2>2, <2>3 DEF keeps_values, has_value, g
<1> QED
  BY <1>20, <1>21

(* A function ends: the value of its body is there if it is read. *)
LEMMA EndSound ==
  ASSUME NEW envs, Going(envs), top.node.k \in FunctionKinds, top.at = 1
  PROVE  Keeps(gen, end_function(gen)) /\ Good(end_function(gen))
<1> DEFINE body == top.node.s[1]
           valued_ == top.node.k = "fnb" /\ body.next
           rb == gen.ctx.return_block
           slot == gen.ctx.return_slot
           result == IF valued_ THEN store_expression_result(gen, child(1), slot) ELSE gen
           left == branch_if_needed(result, rb)
           out == [left EXCEPT !.insertion_block = rb]
           value == define(out, "load", <<slot>>)
           valued_ret == emit(value, "ret", <<value.registers>>)
           plain_ret == emit(out, "ret", << >>)
           g == end_function(gen)
<1>1. /\ PointInv /\ stack # << >>
      /\ Good(gen) /\ (live(gen) => standing(gen)) /\ gen.ctx.return_block # NoBlock
      /\ Good(g)
  BY TopFacts, EndsIn DEF Going
<1>2. valued_ => standing(gen) /\ has_value(gen, child(1))
  <2>1. valued_ => completes(body)
    BY <1>1, TopFacts DEF orderly_node
  <2>2. 1 \in DOMAIN top.node.s
    <3>1. Len(top.node.s) = 1 /\ DOMAIN top.node.s = 1..Len(top.node.s)
      BY <1>1, TopFacts, ReadChildren DEF orderly_node, right_arity
    <3> QED
      BY <3>1
  <2>3. valued_ => 1 \in read_children(top.node, around(envs).place)
    BY <2>2 DEF read_children
  <2>4. valued_ => has_value(gen, child(1))
    BY <2>3, ReadChild
  <2> QED
    BY <1>1, <2>1, <2>4, TopFacts
<1>3. Emits(gen, result) /\ Keeps(gen, result)
  BY <1>1, <1>2, EmitsNothing, ResultEmits, ResultKeeps, KeepsTwice
<1>4. g = CASE ends_in_terminator(out.blocks[rb]) -> out
            [] slot # NoValue -> valued_ret
            [] OTHER -> plain_ret
  BY DEF end_function
<1> HIDE DEF result, g
<1>5. Good(result) /\ (live(result) => standing(result)) /\ (live(result) <=> live(gen))
  BY <1>1, <1>3, EmitsStands DEF Emits
<1>6. /\ Good(left) /\ Keeps(result, left)
      /\ open(left) = open(result) \ (IF live(result) THEN {result.ctx.current_block} ELSE {})
  BY <1>5, BranchIfNeeded, BranchIfKeeps
<1> HIDE DEF left
<1>7. Good(out) /\ out.blocks = left.blocks /\ out.insertion_block = rb /\ Keeps(left, out)
  BY <1>6 DEF Good, is_gen, Keeps
<1> HIDE DEF out
<1>8. rb \in open(out)
  <2>1. rb \in open(gen) /\ ~(live(gen) /\ gen.ctx.current_block = rb)
    BY <1>1, ReturnBlock
  <2>2. open(out) = open(left) /\ open(result) = open(gen) /\ result.ctx.current_block = gen.ctx.current_block
    BY <1>3, <1>7 DEF open, Emits, same_place
  <2> QED
    BY <1>5, <1>6, <2>1, <2>2
<1>9. Keeps(gen, out)
  BY <1>3, <1>6, <1>7, KeepsTwice
<1> HIDE DEF slot
<1>10. Keeps(out, plain_ret)
  BY <1>7, <1>8, EmitKeeps
<1>11. Emits(out, value) /\ Keeps(out, value)
  BY <1>7, <1>8, EmitEmits, EmitKeeps DEF Terminators
<1> HIDE DEF value
<1>12. Good(value) /\ value.insertion_block \in open(value)
  BY <1>7, <1>8, <1>11 DEF Emits, same_place
<1>13. Keeps(value, valued_ret)
  BY <1>12, EmitKeeps
<1> HIDE DEF valued_ret, plain_ret
<1>14. g = valued_ret \/ g = plain_ret
  BY <1>4, <1>8 DEF open
<1>15. Keeps(gen, valued_ret) /\ Keeps(gen, plain_ret)
  BY <1>9, <1>10, <1>11, <1>13, KeepsTwice
<1> QED
  BY <1>1, <1>14, <1>15 DEF g

LEMMA FunctionSound ==
  ASSUME NEW envs, Going(envs), VisitFunction
  PROVE  SoundInv'
<1> DEFINE outer == around(envs)
<1>1. PointInv /\ stack # << >> /\ Surrounded(envs) /\ ~gen.failed /\ gen.registers \in Nat
      /\ top.node.k \in FunctionKinds /\ ~in_body(top)
  BY DEF VisitFunction, visiting, running, Going, FunctionKinds, in_body
<1>2. is_frame(top) /\ Len(top.node.s) = 1
  BY <1>1, TopFacts DEF orderly_node, right_arity
<1>3. outer = envs[Len(stack)]
  BY DEF around
<1>4. CASE visiting(FunctionKinds, 0)
  <2> DEFINE g == begin_function(gen)
             f == [top EXCEPT !.prev = <<gen.ctx, gen.insertion_block>>]
             place_ == place_of(top.node, outer.place, 1)
  <2>1. accept(g, f, 1) /\ top.at = 0 /\ ~in_function(top)
    BY <1>4 DEF VisitFunction, visiting, in_function
  <2>2. /\ ~g.failed /\ g.registers \in Nat
        /\ keeps_values(gen, g)
        /\ g.ctx.loop_stack = << >>
        /\ g.ctx.entry_block # NoBlock
        /\ top.node.k = "fn" => g.ctx.return_slot = NoValue
    BY BeginSound
  <2> HIDE DEF g
  <2>3. is_frame(f) /\ f.node = top.node /\ f.path = top.path /\ f.prev[1] = gen.ctx
    BY <1>2 DEF is_frame
  <2> HIDE DEF f
  <2>4. PICK e : e = [f EXCEPT !.at = 1]
    OBVIOUS
  <2>5. e.node = top.node /\ e.at = 1 /\ e.path = top.path /\ e.prev[1] = gen.ctx
    BY <2>3, <2>4 DEF is_frame
  <2>6. fits(gen.ctx, outer)
    BY <1>1, <2>1, TopSound DEF stands, fits, loops
  <2>7. remembers(e, outer)
    <3>1. top.node.k \notin {"brk", "loop", "block"}
      BY <1>1 DEF FunctionKinds
    <3> QED
      BY <2>5, <2>6, <3>1 DEF remembers
  <2>8. /\ place_.loop = "none" /\ ~place_.held
        /\ ~place_.result => top.node.k = "fn"
    BY <1>1 DEF place_of, TopPlace
  <2>9. PICK d : d.place = place_ /\ d.loops = << >> /\ d.capacity = 0 /\ d.inside = TRUE
    <3> WITNESS [place |-> place_, loops |-> << >>, capacity |-> 0, inside |-> TRUE]
    <3> QED
      OBVIOUS
  <2>10. encloses(e, outer, d)
    BY <1>1, <2>5, <2>9 DEF encloses
  <2> HIDE DEF place_, outer
  <2>11. fits(g.ctx, d)
    BY <2>2, <2>8, <2>9 DEF fits, settled
  <2>12. is_seq(d.loops)
    BY <2>9, EmptyIsCode DEF is_code
  <2>13. 1 = top.at + 1 /\ 1 \in 1..Len(top.node.s) /\ d.place.loop = "none"
    BY <1>2, <2>1, <2>8, <2>9
  <2> QED
    BY <1>1, <1>3, <2>1, <2>2, <2>3, <2>4, <2>7, <2>10, <2>11, <2>12, <2>13, AcceptSound
<1>5. CASE visiting(FunctionKinds, 1)
  <2> DEFINE g == end_function(gen)
             h == [g EXCEPT !.ctx = top.prev[1], !.insertion_block = top.prev[2]]
  <2>1. return(h) /\ top.at = 1 /\ in_function(top)
    BY <1>1, <1>5 DEF VisitFunction, visiting, in_function
  <2>2. Keeps(gen, g) /\ Good(g)
    BY <1>1, <2>1, EndSound
  <2> HIDE DEF g
  <2>3. /\ h.ctx = top.prev[1]
        /\ h.failed = g.failed /\ h.registers = g.registers
        /\ h.expr_value = g.expr_value /\ h.expr_address = g.expr_address
    BY <2>2 DEF Good, is_gen
  <2> HIDE DEF h
  <2>4. ~h.failed /\ h.registers \in Nat /\ keeps_values(gen, h)
    BY <1>1, <2>2, <2>3 DEF Keeps, keeps_values, has_value
  <2>5. fits(h.ctx, outer)
    BY <2>1, <2>3, TopSound DEF remembers
  <2>6. ~needs_result(top.node)
    BY <1>1, HasNoValue
  <2>7. ~outer.place.closes
    <3>1. top.node.k \notin {"block", "blockt", "ret", "brk", "cont"}
      BY <1>1 DEF FunctionKinds
    <3> QED
      BY <3>1, NeverCloses
  <2> HIDE DEF outer
  <2> QED
    BY <1>1, <1>3, <2>1, <2>4, <2>5, <2>6, <2>7, ReturnSound
<1> QED
  BY <1>4, <1>5 DEF VisitFunction, visiting

-----------------------------------------------------------------------------
(* The invariant, and the theorem *)

LEMMA SoundStep ==
  ASSUME PointInv, SoundInv, Next
  PROVE  SoundInv'
<1>1. stack # << >> /\ ~gen.failed
  BY DEF SoundInv, Next, VisitLiteral, VisitIdentifier, VisitCall, VisitExit, VisitArithmetic, VisitUnary,
     VisitAssign, VisitShortCircuit, VisitLet, VisitReturn, VisitBreak, VisitContinue, VisitIf,
     VisitWhile, VisitLoop, VisitBlock, VisitFunction, visiting, running
<1>2. PICK envs : Surrounded(envs)
  BY DEF SoundInv
<1>3. Going(envs)
  BY <1>1, <1>2 DEF Going, SoundInv
<1> QED
  BY <1>3, LiteralSound, IdentifierSound, CallSound, ExitSound, ArithmeticSound, UnarySound, AssignSound,
     ShortCircuitSound, LetSound, ReturnStmtSound, BreakSound, ContinueSound, IfSound, WhileSound,
     LoopSound, BlockSound, FunctionSound DEF Next

SoundPoint == sound => PointInv /\ SoundInv

LEMMA SoundInvariant == Spec => []SoundPoint
<1>1. Init => SoundPoint
  BY InitPoint, InitSound DEF SoundPoint, sound
<1>2. SoundPoint /\ [Next]_vars => SoundPoint'
  <2> SUFFICES ASSUME SoundPoint, [Next]_vars, sound'
               PROVE  PointInv' /\ SoundInv'
    BY DEF SoundPoint
  <2>1. CASE Next
    <3>1. sound
      BY <2>1, ProgramStays DEF sound, orderly
    <3> QED
      BY <2>1, <3>1, PointStep, SoundStep DEF SoundPoint
  <2>2. CASE UNCHANGED vars
    <3>1. gen' = gen /\ stack' = stack /\ program' = program
      BY <2>2 DEF vars
    <3>2. sound /\ PointInv /\ SoundInv
      BY <3>1 DEF sound, orderly, SoundPoint
    <3>3. PointInv'
      BY <3>1, <3>2 DEF PointInv, FramesOK, Claims, Lively, top
    <3>4. PICK envs : Surrounded(envs)
      BY <3>2 DEF SoundInv
    <3>5. Surrounded(envs)'
      BY <3>1, <3>4 DEF Surrounded, top
    <3>6. SoundInv'
      BY <3>1, <3>2, <3>5 DEF SoundInv
    <3> QED
      BY <3>3, <3>6
  <2> QED
    BY <2>1, <2>2
<1> QED
  BY <1>1, <1>2, PTL DEF Spec

(***************************************************************************)
(* NeverThrows holds of every program whose nodes and places are sound:    *)
(* no visit of IRGenVisitor throws.                                        *)
(***************************************************************************)
THEOREM NothingThrows == Spec => []NeverThrows
<1>1. SoundPoint => NeverThrows
  BY DEF SoundPoint, SoundInv, NeverThrows
<1> QED
  BY <1>1, SoundInvariant, PTL
=============================================================================
