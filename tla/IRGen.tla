------------------------------- MODULE IRGen --------------------------------
(***************************************************************************)
(* IRGenVisitor (ir/IRGen) lowering one function: it walks the tree and    *)
(* appends instructions to basic blocks.  The C++ call stack is `stack',   *)
(* and everything the visitor reads and writes is the record `gen', so     *)
(* that the helpers of the code are operators from gen to gen.  A step is  *)
(* the part of a visit between two of its calls of accept.                 *)
(*                                                                         *)
(* The trees carry what the passes before found for each node: type, and   *)
(* next, whether its OutcomeState has NEXT.  Types are left out of the IR, *)
(* except that a slot of type void is told from the others.                *)
(***************************************************************************)
EXTENDS BasicBlocks, Integers, Ast

CONSTANT Programs    \* annotated trees of functions

VARIABLES program, stack, gen

vars == <<program, stack, gen>>

(* Values: a register is its positive number. *)
NoValue == 0
False == -1
True == -2
Argument == -3       \* the register of the function's parameter

NoBlock == 0         \* nullptr; blocks are numbered from 1

NoContext ==         \* the fields of FunctionContext
  [entry_block |-> NoBlock, return_block |-> NoBlock, current_block |-> NoBlock,
   block_sealed |-> FALSE, return_slot |-> NoValue, local_slots |-> << >>,
   loop_stack |-> << >>, loop_capacity |-> 0]

InitialGen ==
  [ctx |-> NoContext, insertion_block |-> NoBlock, blocks |-> << >>, registers |-> 0,
   expr_value |-> << >>, expr_address |-> << >>, entries |-> << >>, failed |-> FALSE]

-----------------------------------------------------------------------------
(* The calls of IRBuilder *)

instruction(op, def, use, to) == [op |-> op, def |-> def, use |-> use, to |-> to]

insert(g, b, inst) ==
  IF b = NoBlock \/ (b # NoBlock /\ append_throws(g.blocks[b], inst))
    THEN [g EXCEPT !.failed = TRUE]
    ELSE [g EXCEPT !.blocks[b] = append(@, inst)]

emit(g, op, use) == insert(g, g.insertion_block, instruction(op, NoValue, use, << >>))

define_in(g, b, op, use) ==
  [insert(g, b, instruction(op, g.registers + 1, use, << >>)) EXCEPT !.registers = @ + 1]

define(g, op, use) == define_in(g, g.insertion_block, op, use)

store(g, value, slot) == emit(g, "store", <<value, slot>>)
create_br(g, to) == insert(g, g.insertion_block, instruction("br", NoValue, << >>, <<to>>))
swapped_cond_br(g, value, then, else) ==                 \* mutant of create_cond_br
  insert(g, g.insertion_block, instruction("cond_br", NoValue, <<value>>, <<else, then>>))

create_cond_br(g, value, then, else) ==
  insert(g, g.insertion_block, instruction("cond_br", NoValue, <<value>>, <<then, else>>))

(* Into the entry block of the current function; type void if type is never. *)
create_temp_alloca(g, type) ==
  define_in(g, g.ctx.entry_block, IF type = "never" THEN "alloca_void" ELSE "alloca", << >>)

create_blocks(g, k) == [g EXCEPT !.blocks = @ \o [i \in 1..k |-> << >>]]
new_blocks(g, k) == [i \in 1..k |-> Len(g.blocks) + i]

-----------------------------------------------------------------------------
(* The helpers of IRGenVisitor *)

sealed_too(g) == g.ctx.current_block # NoBlock           \* mutant of live

live(g) == g.ctx.current_block # NoBlock /\ ~g.ctx.block_sealed

believe_in(g, b) ==                                      \* mutant of stand_in
  [g EXCEPT !.ctx.current_block = b, !.ctx.block_sealed = FALSE]

(* Set the insertion point, current_block and block_sealed together. *)
stand_in(g, b) ==
  [g EXCEPT !.insertion_block = b, !.ctx.current_block = b, !.ctx.block_sealed = FALSE]

drop_current(g) == [g EXCEPT !.ctx.current_block = NoBlock]

branch_if_needed(g, target) ==
  IF live(g)
    THEN [create_br([g EXCEPT !.insertion_block = g.ctx.current_block], target)
            EXCEPT !.ctx.block_sealed = TRUE]
    ELSE g

ensure_current_insertion(g) ==
  LET b == IF g.ctx.current_block = NoBlock THEN g.ctx.entry_block ELSE g.ctx.current_block
  IN  [g EXCEPT !.ctx.current_block = b, !.insertion_block = b]

(* map[key] = value *)
assign(map, key, value) ==
  [k \in DOMAIN map \cup {key} |-> IF k = key THEN value ELSE map[k]]

ensure_slot_for_decl(g, decl) ==
  IF decl \in DOMAIN g.ctx.local_slots THEN g
  ELSE LET h == create_temp_alloca(g, "bool")
       IN  [h EXCEPT !.ctx.local_slots = assign(@, decl, h.registers)]

set_value(g, path, value) == [g EXCEPT !.expr_value = assign(@, path, value)]
set_address(g, path, slot) == [g EXCEPT !.expr_address = assign(@, path, slot)]

(* get_rvalue: the cached register, or a load from the address where the   *)
(* builder stands; it throws when the node has neither.                    *)
get_rvalue(g, path) ==
  CASE path \in DOMAIN g.expr_value -> [g |-> g, value |-> g.expr_value[path]]
    [] path \notin DOMAIN g.expr_value /\ path \in DOMAIN g.expr_address ->
         LET h == define(g, "load", <<g.expr_address[path]>>) IN [g |-> h, value |-> h.registers]
    [] OTHER -> [g |-> [g EXCEPT !.failed = TRUE], value |-> NoValue]

store_expression_result(g, path, slot) ==
  LET r == get_rvalue(g, path)
  IN  store(ensure_current_insertion(r.g), r.value, slot)

(* The values of at most two operands, loaded left to right after all were *)
(* evaluated: the least that tells one order of loads from the other.      *)
operand_values(g, paths) ==
  LET first == get_rvalue(g, paths[1])
      second == get_rvalue(first.g, paths[2])
  IN  CASE Len(paths) = 0 -> [g |-> g, values |-> << >>]
        [] Len(paths) = 1 -> [g |-> first.g, values |-> <<first.value>>]
        [] Len(paths) = 2 -> [g |-> second.g, values |-> <<first.value, second.value>>]

-----------------------------------------------------------------------------
(* The visit in progress *)

(* at: children visited so far; blocks, slot, loop, prev: the locals. *)
frame(n, path, outer) ==
  [node |-> n, path |-> path, at |-> 0, function |-> outer, blocks |-> << >>, slot |-> NoValue,
   loop |-> << >>, prev |-> << >>]

top == Last(stack)
child(i) == Append(top.path, i)
child_paths == [i \in DOMAIN top.node.s |-> child(i)]
running == stack # << >> /\ ~gen.failed    \* an exception ends the compilation
visiting(kinds, at) == running /\ top.node.k \in kinds /\ top.at = at

(* f is the top frame with its locals as they are when child i is visited. *)
accept(g, f, i) ==
  /\ gen' = g
  /\ stack' = Append(Append(Front(stack), [f EXCEPT !.at = i]),
                     frame(f.node.s[i], child(i),
                           IF f.node.k \in FunctionKinds THEN f.path ELSE f.function))
  /\ UNCHANGED program

return(g) ==
  /\ gen' = g
  /\ stack' = Front(stack)
  /\ UNCHANGED program

Init ==
  /\ program \in Programs
  /\ stack = <<frame(program, << >>, << >>)>>
  /\ gen = InitialGen

-----------------------------------------------------------------------------
(* Literals, names and calls *)

VisitLiteral ==
  \/ visiting({"true"}, 0) /\ return(set_value(gen, top.path, True))
  \/ visiting({"false"}, 0) /\ return(set_value(gen, top.path, False))
  \/ visiting({"unit"}, 0) /\ return(gen)

VisitIdentifier ==
  /\ visiting({"x"}, 0)
  /\ LET g == ensure_slot_for_decl(gen, top.function)
     IN  return(set_address(g, top.path, g.ctx.local_slots[top.function]))

(* A call in dead code is skipped with its arguments. *)
VisitCall ==
  \/ visiting({"ask", "say", "exit"}, 0) /\ gen.ctx.current_block = NoBlock /\ return(gen)
  \/ /\ running
     /\ top.node.k = "say"
     /\ top.at < Len(top.node.s)
     /\ top.at = 0 => gen.ctx.current_block # NoBlock
     /\ accept(gen, top, top.at + 1)
  \/ /\ visiting({"say"}, Len(top.node.s))
     /\ top.at = 0 => gen.ctx.current_block # NoBlock
     /\ LET args == operand_values(gen, child_paths)
        IN  return(emit(ensure_current_insertion(args.g), "say", args.values))
  \/ /\ visiting({"ask"}, 0)
     /\ gen.ctx.current_block # NoBlock
     /\ LET g == define(ensure_current_insertion(gen), "ask", << >>)
        IN  return(set_value(g, top.path, g.registers))

(* exit stores its code, branches to the return block and seals the block, *)
(* which stays the current one; its own value is a null pointer.           *)
VisitExit ==
  /\ visiting({"exit"}, 0)
  /\ gen.ctx.current_block # NoBlock
  /\ LET g == store(ensure_current_insertion(gen), True, gen.ctx.return_slot)
         h == create_br(g, gen.ctx.return_block)
     IN  return([set_value(h, top.path, NoValue) EXCEPT !.ctx.block_sealed = TRUE])

-----------------------------------------------------------------------------
(* Operators *)

VisitArithmetic ==
  \/ visiting({"xor"}, 0) /\ accept(gen, top, 1)
  \/ visiting({"xor"}, 1) /\ accept(gen, top, 2)
  \/ /\ visiting({"xor"}, 2)
     /\ LET operands == operand_values(gen, child_paths)
            g == define(ensure_current_insertion(operands.g), "xor", operands.values)
        IN  return(set_value(g, top.path, g.registers))

VisitUnary ==
  \/ visiting({"not"}, 0) /\ accept(gen, top, 1)
  \/ /\ visiting({"not"}, 1)
     /\ LET operand == get_rvalue(gen, child(1))
            g == define(ensure_current_insertion(operand.g), "not", <<operand.value>>)
        IN  IF top.node.s[1].type = "never"
              THEN return([gen EXCEPT !.failed = TRUE])
              ELSE return(set_value(g, top.path, g.registers))

(* x = e; the left side is a name, whose slot is looked up first. *)
VisitAssign ==
  \/ visiting({"asg"}, 0) /\ accept(ensure_slot_for_decl(gen, top.function), top, 1)
  \/ /\ visiting({"asg"}, 1)
     /\ LET rhs == get_rvalue(gen, child(1))
            g == store(ensure_current_insertion(rhs.g), rhs.value, gen.ctx.local_slots[top.function])
        IN  return(set_value(g, top.path, rhs.value))

(* && and ||: the value goes through a slot that holds the short-circuit   *)
(* result before the right operand's block may overwrite it.               *)
VisitShortCircuit ==
  \/ /\ visiting(ShortCircuit, 0)
     /\ LET g == create_temp_alloca(gen, "bool") IN accept(g, [top EXCEPT !.slot = g.registers], 1)
  \/ /\ visiting(ShortCircuit, 1)
     /\ LET right_merge == new_blocks(gen, 2)
            lhs == get_rvalue(ensure_current_insertion(create_blocks(gen, 2)), child(1))
            is_and == top.node.k = "and"
            g == store(lhs.g, IF is_and THEN False ELSE True, top.slot)
            h == create_cond_br(g, lhs.value, right_merge[IF is_and THEN 1 ELSE 2],
                                              right_merge[IF is_and THEN 2 ELSE 1])
        IN  accept(stand_in(h, right_merge[1]), [top EXCEPT !.blocks = right_merge], 2)
  \/ /\ visiting(ShortCircuit, 2)
     /\ LET merge == top.blocks[2]
            rhs == get_rvalue(ensure_current_insertion(gen), child(2))
            g == branch_if_needed(store(rhs.g, rhs.value, top.slot), merge)
        IN  return(set_address(stand_in(g, merge), top.path, top.slot))

-----------------------------------------------------------------------------
(* Statements that jump, and let *)

VisitLet ==
  \/ /\ visiting({"let"}, 0)
     /\ IF gen.ctx.current_block = NoBlock
          THEN return(gen) ELSE accept(ensure_slot_for_decl(gen, top.path), top, 1)
  \/ /\ visiting({"let"}, 1)
     /\ return(IF gen.ctx.current_block = NoBlock THEN gen
               ELSE store_expression_result(gen, child(1), gen.ctx.local_slots[top.path]))

finish_return(g) == drop_current(branch_if_needed(g, g.ctx.return_block))

VisitReturn ==
  \/ /\ visiting({"ret"}, 0)
     /\ CASE gen.ctx.current_block = NoBlock -> return(gen)
          [] gen.ctx.current_block # NoBlock /\ top.node.s = << >> -> return(finish_return(gen))
          [] OTHER -> accept(gen, top, 1)
  \/ /\ visiting({"ret"}, 1)
     /\ return(finish_return(
          IF gen.ctx.return_slot = NoValue THEN gen
          ELSE store_expression_result(gen, child(1), gen.ctx.return_slot)))

loops(g) == g.ctx.loop_stack
break_value_wanted ==
  top.node.s # << >> /\ Last(loops(gen)).break_slot # NoValue /\ gen.ctx.current_block # NoBlock

leave_loop(g, loop, storing) ==
  drop_current(branch_if_needed(
    IF storing THEN store_expression_result(g, child(1), loop.break_slot) ELSE g, loop.break_target))

(* visit(BreakExpr) holds a pointer into the vector loop_stack while it    *)
(* visits the break value.  When a loop in the value makes the vector      *)
(* grow, the pointer dangles: what it reads is the old element or, as with *)
(* a vector that moves its elements, null pointers, on which               *)
(* store_expression_result throws.                                         *)
VisitBreak ==
  \/ visiting({"brk"}, 0) /\ loops(gen) = << >> /\ return([gen EXCEPT !.failed = TRUE])
  \/ /\ visiting({"brk"}, 0)
     /\ loops(gen) # << >>
     /\ break_value_wanted
     /\ accept(gen, [top EXCEPT !.loop = <<Last(loops(gen)), gen.ctx.loop_capacity>>], 1)
  \/ /\ visiting({"brk"}, 0)
     /\ loops(gen) # << >>
     /\ ~break_value_wanted
     /\ return(leave_loop(gen, Last(loops(gen)), FALSE))
  \/ visiting({"brk"}, 1) /\ return(leave_loop(gen, top.loop[1], TRUE))
  \/ /\ visiting({"brk"}, 1)
     /\ top.loop[2] # gen.ctx.loop_capacity
     /\ return([gen EXCEPT !.failed = TRUE])

VisitContinue ==
  /\ visiting({"cont"}, 0)
  /\ return(CASE loops(gen) = << >> -> [gen EXCEPT !.failed = TRUE]
              [] loops(gen) # << >> /\ gen.ctx.current_block = NoBlock -> gen
              [] OTHER -> drop_current(branch_if_needed(gen, Last(loops(gen)).continue_target)))

-----------------------------------------------------------------------------
(* Blocks, branches and loops *)

(* current_block_has_next of the node, and a type that needs a slot. *)
needs_result(n) == n.next /\ n.type # "unit"

fall_off(g, i) ==                                        \* mutant of end_branch
  IF live(g) /\ needs_result(top.node) THEN store_expression_result(g, child(i), top.slot) ELSE g

(* The end of a branch of an if: the jump to merge is emitted where the    *)
(* builder stands.                                                         *)
end_branch(g, i) ==
  IF live(g)
    THEN create_br(IF needs_result(top.node) THEN store_expression_result(g, child(i), top.slot) ELSE g,
                   top.blocks[3])
    ELSE g

enter_else(g) == [g EXCEPT !.insertion_block = top.blocks[2], !.ctx.block_sealed = FALSE]

stay_in_branch(g) ==                                     \* mutant of join
  return(IF needs_result(top.node) THEN set_address(g, top.path, top.slot) ELSE g)

join(g) ==
  LET h == stand_in(g, top.blocks[3])
  IN  return(IF needs_result(top.node) THEN set_address(h, top.path, top.slot) ELSE h)

VisitIf ==
  \/ /\ visiting({"if"}, 0)
     /\ LET g == create_blocks(gen, 3)
            h == create_temp_alloca(g, top.node.type)
            f == [top EXCEPT !.blocks = new_blocks(gen, 3)]
        IN  IF needs_result(top.node)
              THEN accept(h, [f EXCEPT !.slot = h.registers], 1)
              ELSE accept(g, f, 1)
  \/ /\ visiting({"if"}, 1)
     /\ LET condition == get_rvalue(gen, child(1))
            g == create_cond_br(ensure_current_insertion(condition.g), condition.value,
                                top.blocks[1], top.blocks[2])
        IN  accept(stand_in(g, top.blocks[1]), top, 2)
  \/ /\ visiting({"if"}, 2)
     /\ LET g == enter_else(end_branch(gen, 2))
        IN  IF Len(top.node.s) = 3
              THEN accept([g EXCEPT !.ctx.current_block = top.blocks[2]], top, 3)
              ELSE join(create_br(g, top.blocks[3]))
  \/ visiting({"if"}, 3) /\ join(end_branch(gen, 3))

(* A push onto the vector; a full one doubles its capacity. *)
push_loop(g, loop) ==
  [g EXCEPT !.ctx.loop_stack = Append(@, loop),
            !.ctx.loop_capacity = IF @ > Len(loops(g)) THEN @ ELSE IF @ = 0 THEN 1 ELSE 2 * @]
pop_loop(g) == [g EXCEPT !.ctx.loop_stack = Front(@)]

loop_context(continue_target, break_target, slot) ==
  [continue_target |-> continue_target, break_target |-> break_target, break_slot |-> slot]

(* blocks: condition, body, exit.  The loop is pushed after the condition, *)
(* a break in which leaves the loop outside.                               *)
VisitWhile ==
  \/ /\ visiting({"while"}, 0)
     /\ LET blocks == new_blocks(gen, 3)
            g == branch_if_needed(create_blocks(gen, 3), blocks[1])
        IN  accept(stand_in(g, blocks[1]), [top EXCEPT !.blocks = blocks], 1)
  \/ /\ visiting({"while"}, 1)
     /\ LET condition == get_rvalue(gen, child(1))
            g == create_cond_br(condition.g, condition.value, top.blocks[2], top.blocks[3])
            h == push_loop(g, loop_context(top.blocks[1], top.blocks[3], NoValue))
        IN  accept(stand_in(h, top.blocks[2]), top, 2)
  \/ /\ visiting({"while"}, 2)
     /\ LET g == IF live(gen) THEN create_br(gen, top.blocks[1]) ELSE gen
        IN  return(stand_in(pop_loop(g), top.blocks[3]))

(* blocks: body, break *)
VisitLoop ==
  \/ /\ visiting({"loop"}, 0)
     /\ LET blocks == new_blocks(gen, 2)
            g == stand_in(branch_if_needed(create_blocks(gen, 2), blocks[1]), blocks[1])
            h == IF needs_result(top.node) THEN create_temp_alloca(g, top.node.type) ELSE g
            slot == IF needs_result(top.node) THEN h.registers ELSE NoValue
        IN  accept(push_loop(h, loop_context(blocks[1], blocks[2], slot)),
                   [top EXCEPT !.blocks = blocks, !.slot = slot], 1)
  \/ /\ visiting({"loop"}, 1)
     /\ LET g == IF live(gen)
                   THEN create_br([gen EXCEPT !.insertion_block = gen.ctx.current_block], top.blocks[1])
                   ELSE gen
            h == stand_in(pop_loop(g), top.blocks[2])
        IN  return(IF top.slot = NoValue THEN h ELSE set_address(h, top.path, top.slot))

(***************************************************************************)
(* A block visits its statements while the current block is open, and      *)
(* gives up the current block after one that has no NEXT.  The tail is     *)
(* visited whatever happened before it.                                    *)
(***************************************************************************)
statements == Len(Stmts(top.node))
after_statement ==
  IF top.at > 0 /\ ~top.node.s[top.at].next THEN drop_current(gen) ELSE gen

has_tail == top.node.k = "blockt"

(* ExprStmt caches the value of a tail that has one, the block takes it on. *)
tail_value(g) ==
  LET tail == Last(top.node.s)
      r == get_rvalue(g, child(Len(top.node.s)))
      kept == IF tail.type \in {"unit", "never"} THEN g ELSE r.g
  IN  CASE ~needs_result(tail) -> kept
        [] needs_result(tail) /\ tail.type = "never" -> [g EXCEPT !.failed = TRUE]
        [] OTHER -> set_value(r.g, top.path, r.value)

VisitBlock ==
  \/ /\ running
     /\ top.node.k \in Blocks
     /\ top.at < statements
     /\ live(after_statement)
     /\ accept(after_statement, top, top.at + 1)
  \/ /\ running
     /\ top.node.k \in Blocks
     /\ top.at = statements \/ (top.at < statements /\ ~live(after_statement))
     /\ IF has_tail THEN accept(after_statement, top, Len(top.node.s)) ELSE return(after_statement)
  \/ /\ running
     /\ has_tail
     /\ top.at = Len(top.node.s)
     /\ return(tail_value(gen))

-----------------------------------------------------------------------------
(* Functions: a nested one saves and restores the context and the builder. *)

begin_function(g) ==
  LET entry == Len(g.blocks) + 1
      h == [create_blocks(g, 2) EXCEPT
              !.ctx = [NoContext EXCEPT !.entry_block = entry, !.return_block = entry + 1],
              !.entries = assign(@, top.path, entry)]
      param == ensure_slot_for_decl(stand_in(h, entry), top.path)
      stored == store(param, Argument, param.ctx.local_slots[top.path])
      slot == create_temp_alloca(stored, "bool")
  IN  IF top.node.k = "fn" THEN stored ELSE [slot EXCEPT !.ctx.return_slot = slot.registers]

end_function(g) ==
  LET body == top.node.s[1]
      result == IF top.node.k = "fnb" /\ body.next
                  THEN store_expression_result(g, child(1), g.ctx.return_slot) ELSE g
      out == [branch_if_needed(result, g.ctx.return_block) EXCEPT !.insertion_block = g.ctx.return_block]
      value == define(out, "load", <<g.ctx.return_slot>>)
  IN  CASE ends_in_terminator(out.blocks[g.ctx.return_block]) -> out
        [] g.ctx.return_slot # NoValue -> emit(value, "ret", <<value.registers>>)
        [] OTHER -> emit(out, "ret", << >>)

VisitFunction ==
  \/ /\ visiting(FunctionKinds, 0)
     /\ accept(begin_function(gen), [top EXCEPT !.prev = <<gen.ctx, gen.insertion_block>>], 1)
  \/ /\ visiting(FunctionKinds, 1)
     /\ return([end_function(gen) EXCEPT !.ctx = top.prev[1], !.insertion_block = top.prev[2]])

Next ==
  \/ VisitLiteral \/ VisitIdentifier \/ VisitCall \/ VisitExit
  \/ VisitArithmetic \/ VisitUnary \/ VisitAssign \/ VisitShortCircuit
  \/ VisitLet \/ VisitReturn \/ VisitBreak \/ VisitContinue
  \/ VisitIf \/ VisitWhile \/ VisitLoop \/ VisitBlock \/ VisitFunction

Spec == Init /\ [][Next]_vars
=============================================================================
