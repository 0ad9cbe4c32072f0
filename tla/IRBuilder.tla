------------------------------ MODULE IRBuilder ------------------------------
(***************************************************************************)
(* One IRBuilder at work on one IRModule (ir/IRBuilder.h, IRBuilder.cpp):  *)
(* the functions and blocks of the module, the insertion point, and the    *)
(* counters that make register and label names.  Any client (the IR        *)
(* generator, the global lowering, a test) is a sequence of these calls in *)
(* any order, so the model lets every call happen whenever its arguments   *)
(* exist.  Globals, types and operands are left out: what is kept is which *)
(* instruction is where, what it defines and when it was emitted.          *)
(***************************************************************************)
EXTENDS BasicBlocks

CONSTANTS
  Functions,        \* names a client declares or defines
  Intrinsics,       \* llvm.memcpy..., llvm.memset...: declared on first use
  Labels,           \* block labels a client asks for
  Effects,          \* opcodes without a result: store, void call, terminators
  Hints,            \* register name hints
  NoHint,           \* the empty hint, which asks for the anonymous series
  NoFunction,       \* no current function
  MaxInstructions,  \* bound: instructions emitted
  MaxBlocks         \* bound: blocks of the module

ASSUME BoundsAssumption == MaxInstructions \in Nat /\ MaxBlocks \in Nat

ASSUME NamesAssumption ==
  /\ NoFunction \notin Functions \cup Intrinsics
  /\ Functions \cap Intrinsics = {}
  /\ NoHint \notin Hints \cup {"tmp"}
  /\ Effects \subseteq {"effect"} \cup Terminators
  /\ Intrinsics \cap ({"alloca", "value", "effect"} \cup Terminators) = {}

(* create_temp does not keep a hint out of the anonymous series. *)
ASSUME HintsAssumption == "tmp" \notin Hints

VARIABLES
  is_declaration,       \* functions_: name -> FALSE once it has been defined
  labels,               \* blocks_: the labels of every function's blocks, in order
  body,                 \* instructions_ of every block
  block_name_counter,   \* per function and label: the next suffix
  insertion_block,      \* insertion_block_: function and index, or NoBlock
  current_function,     \* current_function_, set with the insertion block
  next_reg_index,       \* suffix of the next anonymous register
  name_hint_counters,   \* suffix of the next register per hint
  intrinsic_declared,   \* memcpy_declared_ and memset_declared_
  emitted,              \* history: instructions emitted so far
  failed                \* a call threw; the exception ends the compilation

moduleVars == <<is_declaration, labels, body, block_name_counter>>
pointVars == <<insertion_block, current_function>>
nameVars == <<next_reg_index, name_hint_counters>>
vars == <<moduleVars, pointVars, nameVars, intrinsic_declared, emitted, failed>>

AllFunctions == Functions \cup Intrinsics
NoBlock == [fn |-> NoFunction, ix |-> 0]
NoResult == [hint |-> NoHint, n |-> 0]
Opcodes == {"alloca", "value", "effect"} \cup Intrinsics \cup Terminators
RegisterNames == [hint : Hints \cup {"tmp"}, n : Nat]
Instructions == [op : Opcodes, result : RegisterNames \cup {NoResult}, at : Nat]
LabelNames == [label : Labels \cup {"entry"}, n : Nat]

(* A block is the ix-th of function fn. *)
BlockIds == [fn : AllFunctions, ix : 1..MaxBlocks]

in_module(f) == f \in DOMAIN is_declaration
existing_blocks == {b \in BlockIds : b.ix \in 1..Len(labels[b.fn])}

Init ==
  /\ is_declaration = [f \in {} |-> TRUE]
  /\ labels = [f \in AllFunctions |-> << >>]
  /\ body = [b \in BlockIds |-> << >>]
  /\ block_name_counter = [f \in AllFunctions |-> [l \in Labels \cup {"entry"} |-> 0]]
  /\ insertion_block = NoBlock
  /\ current_function = NoFunction
  /\ next_reg_index = 0
  /\ name_hint_counters = [h \in Hints |-> 0]
  /\ intrinsic_declared = {}
  /\ emitted = 0
  /\ failed = FALSE

-----------------------------------------------------------------------------
(* IRModule and IRFunction *)

with_function(f, declaration) ==
  [g \in DOMAIN is_declaration \cup {f} |->
     IF g = f THEN declaration ELSE is_declaration[g]]

redeclared(f) == with_function(f, TRUE)                  \* mutant of declared

(* declare_function returns an existing function as it is. *)
declared(f) == IF in_module(f) THEN is_declaration ELSE with_function(f, TRUE)

declare_function(f) ==
  /\ is_declaration' = declared(f)
  /\ UNCHANGED <<labels, body, block_name_counter, pointVars, nameVars, intrinsic_declared,
                 emitted, failed>>

define_function(f) ==
  /\ is_declaration' = with_function(f, FALSE)
  /\ UNCHANGED <<labels, body, block_name_counter, pointVars, nameVars, intrinsic_declared,
                 emitted, failed>>

label_without_suffix(f, label) == [label |-> label, n |-> 0]   \* mutant of final_label

final_label(f, label) == [label |-> label, n |-> block_name_counter[f][label]]

add_block(f, label) ==
  /\ labels' = [labels EXCEPT ![f] = Append(@, final_label(f, label))]
  /\ block_name_counter' = [block_name_counter EXCEPT ![f][label] = @ + 1]

(* IRFunction::create_block, called on a function of the module. *)
function_create_block(f, label) ==
  /\ in_module(f)
  /\ Cardinality(existing_blocks) < MaxBlocks
  /\ add_block(f, label)
  /\ UNCHANGED <<is_declaration, body, pointVars, nameVars, intrinsic_declared, emitted, failed>>

-----------------------------------------------------------------------------
(* IRBuilder: insertion point, names, instructions *)

move_only(b) ==                                          \* mutant of set_insertion_point
  /\ insertion_block' = b
  /\ UNCHANGED <<current_function, moduleVars, nameVars, intrinsic_declared, emitted, failed>>

set_insertion_point(b) ==
  /\ insertion_block' = b
  /\ current_function' = b.fn
  /\ UNCHANGED <<moduleVars, nameVars, intrinsic_declared, emitted, failed>>

create_block(label) ==
  IF current_function = NoFunction
    THEN /\ failed' = TRUE
         /\ UNCHANGED <<moduleVars, pointVars, nameVars, intrinsic_declared, emitted>>
    ELSE function_create_block(current_function, label)

one_counter(hint) ==                                     \* mutant of temp_name
  [hint |-> IF hint = NoHint THEN "tmp" ELSE hint, n |-> next_reg_index]

unnamed(hint) ==                                         \* mutant of temp_name
  [hint |-> hint, n |-> IF hint = NoHint THEN next_reg_index ELSE name_hint_counters[hint]]

(* The name create_temp returns: tmp.N or hint.N, from different counters. *)
temp_name(hint) ==
  IF hint = NoHint THEN [hint |-> "tmp", n |-> next_reg_index]
               ELSE [hint |-> hint, n |-> name_hint_counters[hint]]

create_temp(hint) ==
  IF hint = NoHint
    THEN /\ next_reg_index' = next_reg_index + 1
         /\ UNCHANGED name_hint_counters
    ELSE /\ name_hint_counters' = [name_hint_counters EXCEPT ![hint] = @ + 1]
         /\ UNCHANGED next_reg_index

instruction(op, result) == [op |-> op, result |-> result, at |-> emitted]

(* insert_instruction: throws without an insertion block and on a second   *)
(* terminator; otherwise BasicBlock::append places the instruction.        *)
insert_throws(b, inst) == b = NoBlock \/ append_throws(body[b], inst)

insert_instruction(b, inst) ==
  /\ failed' = insert_throws(b, inst)
  /\ IF insert_throws(b, inst)
       THEN UNCHANGED <<body, emitted>>
       ELSE /\ body' = [body EXCEPT ![b] = append(@, inst)]
            /\ emitted' = emitted + 1

(* load, gep, arithmetic, compare, cast, non-void call: the name is taken  *)
(* before the instruction is inserted, and stays taken when that throws.   *)
create_value(hint) ==
  /\ create_temp(hint)
  /\ insert_instruction(insertion_block, instruction("value", temp_name(hint)))
  /\ UNCHANGED <<is_declaration, labels, block_name_counter, pointVars, intrinsic_declared>>

create_alloca(hint) ==
  /\ create_temp(hint)
  /\ insert_instruction(insertion_block, instruction("alloca", temp_name(hint)))
  /\ UNCHANGED <<is_declaration, labels, block_name_counter, pointVars, intrinsic_declared>>

(* store, call of a void function, br, cond_br and ret define no register. *)
create_effect(op) ==
  /\ insert_instruction(insertion_block, instruction(op, NoResult))
  /\ UNCHANGED <<is_declaration, labels, block_name_counter, pointVars, nameVars, intrinsic_declared>>

entry_block == [fn |-> current_function, ix |-> 1]

(* create_temp_alloca: into the entry block, whatever the insertion point, *)
(* which it restores.  There is an entry block: current_function is only   *)
(* ever the function of an insertion block.                                *)
create_temp_alloca(hint) ==
  IF current_function = NoFunction
    THEN /\ failed' = TRUE
         /\ UNCHANGED <<moduleVars, pointVars, nameVars, intrinsic_declared, emitted>>
    ELSE /\ create_temp(hint)
         /\ insert_instruction(entry_block, instruction("alloca", temp_name(hint)))
         /\ UNCHANGED <<is_declaration, labels, block_name_counter, pointVars, intrinsic_declared>>

no_declaration(f) == is_declaration                      \* mutant of ensure_declared

(* ensure_memcpy_declared and ensure_memset_declared trust the cached flag. *)
ensure_declared(f) == IF f \in intrinsic_declared THEN is_declaration ELSE declared(f)

create_intrinsic_call(f) ==
  /\ is_declaration' = ensure_declared(f)
  /\ intrinsic_declared' = intrinsic_declared \cup {f}
  /\ insert_instruction(insertion_block, instruction(f, NoResult))
  /\ UNCHANGED <<labels, block_name_counter, pointVars, nameVars>>

-----------------------------------------------------------------------------
(* A client may make any call, as long as no earlier one threw. *)

ModuleCall ==
  \/ \E f \in Functions : declare_function(f) \/ define_function(f)
  \/ \E f \in Functions, l \in Labels \cup {"entry"} : function_create_block(f, l)

BlockCall ==
  \/ \E b \in existing_blocks \cup {NoBlock} : set_insertion_point(b)
  \/ \E l \in Labels : create_block(l)

InstructionCall ==
  /\ emitted < MaxInstructions
  /\ \/ \E h \in Hints \cup {NoHint} : create_value(h) \/ create_alloca(h) \/ create_temp_alloca(h)
     \/ \E op \in Effects : create_effect(op)
     \/ \E f \in Intrinsics : create_intrinsic_call(f)

Next == ~failed /\ (ModuleCall \/ BlockCall \/ InstructionCall)

Spec == Init /\ [][Next]_vars

-----------------------------------------------------------------------------
(* Properties *)

(* The state is well typed: names, instructions and blocks are what they say. *)
TypeOK ==
  /\ DOMAIN is_declaration \subseteq AllFunctions
  /\ is_declaration \in [DOMAIN is_declaration -> BOOLEAN]
  /\ labels \in [AllFunctions -> Seq(LabelNames)]
  /\ body \in [BlockIds -> Seq(Instructions)]
  /\ block_name_counter \in [AllFunctions -> [Labels \cup {"entry"} -> Nat]]
  /\ insertion_block \in [fn : AllFunctions \cup {NoFunction}, ix : Nat]
  /\ current_function \in AllFunctions \cup {NoFunction}
  /\ next_reg_index \in Nat
  /\ name_hint_counters \in [Hints -> Nat]
  /\ intrinsic_declared \subseteq Intrinsics
  /\ emitted \in Nat
  /\ failed \in BOOLEAN

(***************************************************************************)
(* Whatever a client emits and wherever it stands, a block has at most one *)
(* terminator and nothing after it (BasicBlock::append).                   *)
(***************************************************************************)
TerminatorLast == \A b \in BlockIds : terminator_last(body[b])

(***************************************************************************)
(* The instructions of a block stand in the order in which they were       *)
(* emitted, the terminator apart: a late instruction that is put before    *)
(* the terminator still comes after every value computed earlier.          *)
(***************************************************************************)
EmissionOrder ==
  \A b \in BlockIds : \A i, j \in DOMAIN body[b] :
    i < j /\ ~is_terminator(body[b][j]) => body[b][i].at < body[b][j].at

(***************************************************************************)
(* No register is defined twice in the module, over all functions, hints   *)
(* and insertion points (create_temp), as long as no client takes the hint *)
(* that is the anonymous series' own name.                                 *)
(***************************************************************************)
UniqueRegisters ==
  \A b, c \in BlockIds : \A i \in DOMAIN body[b], j \in DOMAIN body[c] :
    /\ body[b][i].result = body[c][j].result
    /\ body[b][i].result # NoResult
    => b = c /\ i = j

(***************************************************************************)
(* No two blocks of a function have the same label (create_block).         *)
(***************************************************************************)
UniqueLabels ==
  \A f \in AllFunctions : \A i, j \in DOMAIN labels[f] : labels[f][i] = labels[f][j] => i = j

(***************************************************************************)
(* The builder never stands in a block of one function while it takes      *)
(* another for the current one, both are gone together, and only a block   *)
(* that exists has instructions.                                           *)
(***************************************************************************)
PointInFunction ==
  /\ insertion_block.fn = current_function
  /\ insertion_block \in existing_blocks \cup {NoBlock}
  /\ \A b \in BlockIds : body[b] # << >> => b \in existing_blocks

(***************************************************************************)
(* An intrinsic that some block calls is declared in the module, though    *)
(* the builder only looks at its own flag (ensure_memcpy_declared).        *)
(***************************************************************************)
CallsDeclared ==
  \A b \in BlockIds : \A i \in DOMAIN body[b] :
    body[b][i].op \in Intrinsics => in_module(body[b][i].op)

(***************************************************************************)
(* Once a function is defined no call turns it back into a declaration.    *)
(***************************************************************************)
StaysDefined ==
  [][\A f \in DOMAIN is_declaration :
       /\ f \in DOMAIN is_declaration'
       /\ ~is_declaration[f] => ~is_declaration'[f]]_vars

(***************************************************************************)
(* Nothing that was emitted is lost, moved to another block or overtaken   *)
(* by a terminator that comes later: a step leaves the old instructions of *)
(* a block as they were and adds at most one.                              *)
(***************************************************************************)
NothingLost ==
  [][\A b \in existing_blocks :
       \/ body'[b] = body[b]
       \/ \E k \in DOMAIN body'[b] : RemoveAt(body'[b], k) = body[b]]_vars
=============================================================================
