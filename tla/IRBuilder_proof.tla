--------------------------- MODULE IRBuilder_proof ---------------------------
(***************************************************************************)
(* Proofs about IRBuilder, for any functions, labels, hints and bounds.    *)
(***************************************************************************)
EXTENDS IRBuilder, BasicBlocks_proof

-----------------------------------------------------------------------------
(* Type correctness *)

(***************************************************************************)
(* What the types rest on: the builder stands in an existing block of the  *)
(* function it takes for the current one.                                  *)
(***************************************************************************)
BaseInv == TypeOK /\ PointInFunction

LEMMA InitBase == Init => BaseInv
<1> SUFFICES ASSUME Init PROVE BaseInv
  OBVIOUS
<1>1. /\ labels \in [AllFunctions -> Seq(LabelNames)]
      /\ body \in [BlockIds -> Seq(Instructions)]
  <2>1. << >> \in Seq(LabelNames) /\ << >> \in Seq(Instructions)
    BY EmptySeq
  <2> QED
    BY <2>1 DEF Init
<1>2. is_declaration \in [DOMAIN is_declaration -> BOOLEAN] /\ DOMAIN is_declaration = {}
  BY DEF Init
<1>3. block_name_counter \in [AllFunctions -> [Labels \cup {"entry"} -> Nat]]
  BY DEF Init
<1>4. name_hint_counters \in [Hints -> Nat]
  BY DEF Init
<1>5. insertion_block \in [fn : AllFunctions \cup {NoFunction}, ix : Nat]
  BY DEF Init, NoBlock
<1>6. TypeOK
  BY <1>1, <1>2, <1>3, <1>4, <1>5 DEF Init, TypeOK
<1>7. PointInFunction
  BY DEF Init, PointInFunction, NoBlock
<1> QED
  BY <1>6, <1>7 DEF BaseInv

(***************************************************************************)
(* What a call may do to the blocks: nothing, add an empty block, or one   *)
(* insertion, at a block that exists, that does not throw.                 *)
(***************************************************************************)
Inserts(b, inst) ==
  /\ b \in existing_blocks
  /\ inst \in Instructions
  /\ inst.at = emitted
  /\ ~append_throws(body[b], inst)
  /\ body' = [body EXCEPT ![b] = append(@, inst)]
  /\ emitted' = emitted + 1

(* A call that inserts an instruction either does so or leaves the blocks. *)
LEMMA InsertOrThrow ==
  ASSUME NEW b \in existing_blocks \cup {NoBlock},
         NEW inst \in Instructions, inst.at = emitted,
         insert_instruction(b, inst)
  PROVE  /\ failed' \in BOOLEAN
         /\ UNCHANGED <<body, emitted>> \/ Inserts(b, inst)
BY DEF insert_instruction, insert_throws, Inserts

(* The register create_temp returns, and the counters it leaves. *)
LEMMA TempTyped ==
  ASSUME TypeOK, NEW hint \in Hints \cup {NoHint}, create_temp(hint)
  PROVE  /\ temp_name(hint) \in RegisterNames
         /\ next_reg_index' \in Nat
         /\ name_hint_counters' \in [Hints -> Nat]
<1>1. next_reg_index \in Nat /\ name_hint_counters \in [Hints -> Nat]
  BY DEF TypeOK
<1>2. CASE hint = NoHint
  <2>1. next_reg_index' = next_reg_index + 1 /\ name_hint_counters' = name_hint_counters
    BY <1>2 DEF create_temp
  <2>2. temp_name(hint) = [hint |-> "tmp", n |-> next_reg_index]
    BY <1>2 DEF temp_name
  <2> QED
    BY <1>1, <2>1, <2>2 DEF RegisterNames
<1>3. CASE hint # NoHint
  <2>1. hint \in Hints /\ name_hint_counters[hint] \in Nat
    BY <1>1, <1>3
  <2>2. /\ name_hint_counters' = [name_hint_counters EXCEPT ![hint] = name_hint_counters[hint] + 1]
        /\ next_reg_index' = next_reg_index
    BY <1>3 DEF create_temp
  <2>3. temp_name(hint) = [hint |-> hint, n |-> name_hint_counters[hint]]
    BY <1>3 DEF temp_name
  <2>4. name_hint_counters' \in [Hints -> Nat]
    BY <1>1, <2>1, <2>2
  <2>5. temp_name(hint) \in RegisterNames
    BY <2>1, <2>3 DEF RegisterNames
  <2> QED
    BY <1>1, <2>2, <2>4, <2>5
<1> QED
  BY <1>2, <1>3

(* The entry block is a block of the module when there is a current function. *)
LEMMA EntryExists ==
  ASSUME BaseInv, current_function # NoFunction
  PROVE  entry_block \in existing_blocks
<1>1. insertion_block # NoBlock
  BY DEF BaseInv, PointInFunction, NoBlock
<1>2. insertion_block \in BlockIds /\ insertion_block.ix \in 1..Len(labels[current_function])
  BY <1>1 DEF BaseInv, PointInFunction, existing_blocks
<1>3. current_function \in AllFunctions
  BY <1>2 DEF BaseInv, PointInFunction, BlockIds
<1>4. Len(labels[current_function]) \in Nat
  <2>1. labels[current_function] \in Seq(LabelNames)
    BY <1>3 DEF BaseInv, TypeOK
  <2> QED
    BY <2>1
<1>5. insertion_block.ix \in 1..MaxBlocks
  BY <1>2 DEF BlockIds
<1>6. 1 \in 1..MaxBlocks /\ 1 \in 1..Len(labels[current_function])
  BY <1>2, <1>4, <1>5, BoundsAssumption
<1> QED
  BY <1>3, <1>6 DEF entry_block, existing_blocks, BlockIds

LEMMA InstructionTyped ==
  ASSUME TypeOK, NEW op \in Opcodes, NEW result \in RegisterNames \cup {NoResult}
  PROVE  instruction(op, result) \in Instructions /\ instruction(op, result).at = emitted
BY DEF TypeOK, instruction, Instructions

(***************************************************************************)
(* Where the register and the callee of a new instruction come from.       *)
(***************************************************************************)
Origin(inst) ==
  /\ \/ inst.result = NoResult
     \/ \E h \in Hints \cup {NoHint} : create_temp(h) /\ inst.result = temp_name(h)
  /\ inst.op \in Intrinsics => inst.op \in intrinsic_declared'

(***************************************************************************)
(* Every step changes the blocks in one of three ways.                     *)
(***************************************************************************)
BlocksKept == UNCHANGED <<labels, body, block_name_counter, emitted>>
BlockAdded == /\ \E f \in AllFunctions, l \in Labels \cup {"entry"} : add_block(f, l)
              /\ UNCHANGED <<body, emitted>>
InstructionInserted == /\ \E b, inst : Inserts(b, inst) /\ Origin(inst)
                       /\ UNCHANGED <<labels, block_name_counter>>

LEMMA BlocksChange ==
  ASSUME BaseInv, [Next]_vars
  PROVE  BlocksKept \/ BlockAdded \/ InstructionInserted
<1> USE DEF BlocksKept, BlockAdded, InstructionInserted
<1>1. CASE UNCHANGED vars
  BY <1>1 DEF vars, moduleVars
<1>2. ASSUME NEW f \in Functions, declare_function(f) \/ define_function(f)
      PROVE  BlocksKept
  BY <1>2 DEF declare_function, define_function
<1>3. ASSUME NEW f \in AllFunctions, NEW l \in Labels \cup {"entry"}, function_create_block(f, l)
      PROVE  BlockAdded
  BY <1>3 DEF function_create_block
<1>4. ASSUME NEW b, set_insertion_point(b)
      PROVE  BlocksKept
  BY <1>4 DEF set_insertion_point, moduleVars
<1>5. ASSUME NEW l \in Labels, create_block(l)
      PROVE  BlocksKept \/ BlockAdded
  <2>1. current_function \in AllFunctions \cup {NoFunction}
    BY DEF BaseInv, TypeOK
  <2> QED
    BY <1>3, <1>5, <2>1 DEF create_block, moduleVars
<1>6. ASSUME NEW h \in Hints \cup {NoHint}, create_value(h) \/ create_alloca(h)
      PROVE  BlocksKept \/ InstructionInserted
  <2>1. PICK op \in {"value", "alloca"} :
          insert_instruction(insertion_block, instruction(op, temp_name(h)))
    BY <1>6 DEF create_value, create_alloca
  <2>2. /\ create_temp(h)
        /\ UNCHANGED <<labels, block_name_counter>>
    BY <1>6 DEF create_value, create_alloca
  <2>3. temp_name(h) \in RegisterNames
    BY <2>2, TempTyped DEF BaseInv
  <2>4. /\ instruction(op, temp_name(h)) \in Instructions
        /\ instruction(op, temp_name(h)).at = emitted
    BY <2>3, InstructionTyped DEF BaseInv, Opcodes
  <2>5. insertion_block \in existing_blocks \cup {NoBlock}
    BY DEF BaseInv, PointInFunction
  <2>6. Origin(instruction(op, temp_name(h)))
    BY <2>2, NamesAssumption DEF Origin, instruction
  <2> QED
    BY <2>1, <2>2, <2>4, <2>5, <2>6, InsertOrThrow
<1>7. ASSUME NEW h \in Hints \cup {NoHint}, create_temp_alloca(h)
      PROVE  BlocksKept \/ InstructionInserted
  <2>1. CASE current_function = NoFunction
    BY <1>7, <2>1 DEF create_temp_alloca, moduleVars
  <2>2. CASE current_function # NoFunction
    <3>1. /\ create_temp(h)
          /\ insert_instruction(entry_block, instruction("alloca", temp_name(h)))
          /\ UNCHANGED <<labels, block_name_counter>>
      BY <1>7, <2>2 DEF create_temp_alloca
    <3>2. temp_name(h) \in RegisterNames
      BY <3>1, TempTyped DEF BaseInv
    <3>3. /\ instruction("alloca", temp_name(h)) \in Instructions
          /\ instruction("alloca", temp_name(h)).at = emitted
      BY <3>2, InstructionTyped DEF BaseInv, Opcodes
    <3>4. entry_block \in existing_blocks \cup {NoBlock}
      BY <2>2, EntryExists
    <3>5. Origin(instruction("alloca", temp_name(h)))
      BY <3>1, NamesAssumption DEF Origin, instruction
    <3> QED
      BY <3>1, <3>3, <3>4, <3>5, InsertOrThrow
  <2> QED
    BY <2>1, <2>2
<1>8. ASSUME NEW op \in Effects \cup Intrinsics,
             op \in Intrinsics => op \in intrinsic_declared',
             insert_instruction(insertion_block, instruction(op, NoResult)),
             UNCHANGED <<labels, block_name_counter>>
      PROVE  BlocksKept \/ InstructionInserted
  <2>1. op \in Opcodes
    BY NamesAssumption DEF Opcodes
  <2>2. /\ instruction(op, NoResult) \in Instructions
        /\ instruction(op, NoResult).at = emitted
    BY <2>1, InstructionTyped DEF BaseInv
  <2>3. insertion_block \in existing_blocks \cup {NoBlock}
    BY DEF BaseInv, PointInFunction
  <2>4. Origin(instruction(op, NoResult))
    BY <1>8 DEF Origin, instruction
  <2> QED
    BY <1>8, <2>2, <2>3, <2>4, InsertOrThrow
<1>9. ASSUME NEW op \in Effects, create_effect(op)
      PROVE  BlocksKept \/ InstructionInserted
  BY <1>8, <1>9, NamesAssumption DEF create_effect
<1>10. ASSUME NEW f \in Intrinsics, create_intrinsic_call(f)
       PROVE  BlocksKept \/ InstructionInserted
  BY <1>8, <1>10 DEF create_intrinsic_call
<1>11. CASE ModuleCall
  BY <1>2, <1>3, <1>11 DEF ModuleCall, AllFunctions
<1>12. CASE BlockCall
  BY <1>4, <1>5, <1>12 DEF BlockCall
<1>13. CASE InstructionCall
  BY <1>6, <1>7, <1>9, <1>10, <1>13 DEF InstructionCall
<1> HIDE DEF BlocksKept, BlockAdded, InstructionInserted
<1> QED
  BY <1>1, <1>11, <1>12, <1>13 DEF Next

(* Adding a block keeps the types and every block there was. *)
LEMMA AddedTyped ==
  ASSUME BaseInv, NEW f \in AllFunctions, NEW l \in Labels \cup {"entry"}, add_block(f, l)
  PROVE  /\ labels' \in [AllFunctions -> Seq(LabelNames)]
         /\ block_name_counter' \in [AllFunctions -> [Labels \cup {"entry"} -> Nat]]
         /\ existing_blocks \subseteq existing_blocks'
<1>1. /\ labels \in [AllFunctions -> Seq(LabelNames)]
      /\ block_name_counter \in [AllFunctions -> [Labels \cup {"entry"} -> Nat]]
  BY DEF BaseInv, TypeOK
<1>2. final_label(f, l) \in LabelNames
  BY <1>1 DEF final_label, LabelNames
<1>3. labels' = [labels EXCEPT ![f] = Append(labels[f], final_label(f, l))]
  BY DEF add_block
<1>4. Append(labels[f], final_label(f, l)) \in Seq(LabelNames)
  BY <1>1, <1>2
<1>5. labels' \in [AllFunctions -> Seq(LabelNames)]
  BY <1>1, <1>3, <1>4
<1>6. block_name_counter' \in [AllFunctions -> [Labels \cup {"entry"} -> Nat]]
  <2>1. block_name_counter[f] \in [Labels \cup {"entry"} -> Nat]
    BY <1>1
  <2> DEFINE row == [block_name_counter[f] EXCEPT ![l] = block_name_counter[f][l] + 1]
  <2>2. row \in [Labels \cup {"entry"} -> Nat]
    BY <2>1
  <2>3. block_name_counter' = [block_name_counter EXCEPT ![f] = row]
    BY DEF add_block
  <2> HIDE DEF row
  <2> QED
    BY <1>1, <2>2, <2>3
<1>7. ASSUME NEW b \in existing_blocks
      PROVE  b \in existing_blocks'
  <2>1. /\ b \in BlockIds
        /\ b.fn \in AllFunctions
        /\ b.ix \in 1..Len(labels[b.fn])
    BY <1>7 DEF existing_blocks, BlockIds
  <2>2. b.ix \in 1..Len(labels'[b.fn])
    <3>1. CASE b.fn = f
      <4>1. labels'[b.fn] = Append(labels[f], final_label(f, l)) /\ labels[f] \in Seq(LabelNames)
        BY <1>1, <1>3, <3>1
      <4>2. Len(labels'[b.fn]) = Len(labels[b.fn]) + 1 /\ Len(labels[b.fn]) \in Nat
        BY <1>2, <3>1, <4>1
      <4> QED
        BY <2>1, <4>2
    <3>2. CASE b.fn # f
      BY <1>1, <1>3, <2>1, <3>2
    <3> QED
      BY <3>1, <3>2
  <2> QED
    BY <2>1, <2>2 DEF existing_blocks, BlockIds, AllFunctions
<1> QED
  BY <1>5, <1>6, <1>7

(***************************************************************************)
(* What an insertion does to the body of every block.                      *)
(***************************************************************************)
LEMMA InsertEffect ==
  ASSUME TypeOK, NEW b, NEW inst, Inserts(b, inst)
  PROVE  /\ b \in BlockIds
         /\ body[b] \in Seq(Instructions)
         /\ inst \in Instructions
         /\ ~append_throws(body[b], inst)
         /\ body'[b] = append(body[b], inst)
         /\ \A c \in BlockIds : c # b => body'[c] = body[c]
         /\ DOMAIN body' = BlockIds
         /\ body' = [body EXCEPT ![b] = append(body[b], inst)]
BY DEF TypeOK, Inserts, existing_blocks

(***************************************************************************)
(* The bodies keep their type, and terminators stay last: append needs the *)
(* second to keep the first.                                               *)
(***************************************************************************)
LEMMA BodiesTyped ==
  ASSUME BaseInv, TerminatorLast, [Next]_vars
  PROVE  /\ body' \in [BlockIds -> Seq(Instructions)]
         /\ TerminatorLast'
<1>1. body \in [BlockIds -> Seq(Instructions)]
  BY DEF BaseInv, TypeOK
<1>2. CASE body' = body
  BY <1>1, <1>2 DEF TerminatorLast, BlockIds, AllFunctions
<1>3. CASE InstructionInserted
  <2>1. PICK b, inst : Inserts(b, inst)
    BY <1>3 DEF InstructionInserted
  <2>2. /\ b \in BlockIds
        /\ body[b] \in Seq(Instructions)
        /\ inst \in Instructions
        /\ ~append_throws(body[b], inst)
        /\ body'[b] = append(body[b], inst)
        /\ \A c \in BlockIds : c # b => body'[c] = body[c]
        /\ body' = [body EXCEPT ![b] = append(body[b], inst)]
    BY <2>1, InsertEffect DEF BaseInv
  <2>3. terminator_last(body[b])
    BY <2>2 DEF TerminatorLast
  <2>4. append(body[b], inst) \in Seq(Instructions)
    BY <2>2, <2>3, AppendShape
  <2>5. terminator_last(append(body[b], inst))
    BY <2>2, <2>3, AppendKeepsTerminatorLast
  <2>6. body' \in [BlockIds -> Seq(Instructions)]
    BY <1>1, <2>2, <2>4
  <2>7. ASSUME NEW c \in BlockIds
        PROVE  terminator_last(body'[c])
    BY <2>2, <2>5, <2>7 DEF TerminatorLast
  <2>8. TerminatorLast'
    BY <2>7 DEF TerminatorLast, BlockIds, AllFunctions
  <2> QED
    BY <2>6, <2>8
<1> QED
  BY <1>2, <1>3, BlocksChange DEF BlocksKept, BlockAdded

-----------------------------------------------------------------------------
(* The inductive invariant *)

(***************************************************************************)
(* The types of the bodies rest on TerminatorLast: an insertion in front   *)
(* of a terminator that is not last has no defined place.                  *)
(***************************************************************************)
IndInv == BaseInv /\ TerminatorLast

(* The functions of the module and their declaration flags. *)
LEMMA WithFunctionTyped ==
  ASSUME TypeOK, NEW f \in AllFunctions, NEW flag \in BOOLEAN,
         is_declaration' = with_function(f, flag)
  PROVE  /\ DOMAIN is_declaration' = DOMAIN is_declaration \cup {f}
         /\ DOMAIN is_declaration' \subseteq AllFunctions
         /\ is_declaration' \in [DOMAIN is_declaration' -> BOOLEAN]
         /\ is_declaration'[f] = flag
         /\ \A g \in DOMAIN is_declaration : g # f => is_declaration'[g] = is_declaration[g]
BY DEF TypeOK, with_function

FunctionsTyped ==
  /\ DOMAIN is_declaration \subseteq AllFunctions
  /\ is_declaration \in [DOMAIN is_declaration -> BOOLEAN]

(* Every step leaves the function table alone, or declares or defines one. *)
FunctionsKept == UNCHANGED is_declaration
FunctionDeclared ==
  \E f \in AllFunctions : f \notin DOMAIN is_declaration /\ is_declaration' = with_function(f, TRUE)
FunctionDefined ==
  \E f \in AllFunctions : is_declaration' = with_function(f, FALSE)

LEMMA FunctionsChange ==
  ASSUME [Next]_vars
  PROVE  FunctionsKept \/ FunctionDeclared \/ FunctionDefined
<1> USE DEF FunctionsKept, FunctionDeclared, FunctionDefined
<1>1. CASE UNCHANGED vars
  BY <1>1 DEF vars, moduleVars
<1>2. ASSUME NEW f \in AllFunctions, is_declaration' = declared(f)
      PROVE  FunctionsKept \/ FunctionDeclared
  BY <1>2 DEF declared, in_module
<1>3. ASSUME NEW f \in Functions, declare_function(f) \/ define_function(f)
      PROVE  FunctionsKept \/ FunctionDeclared \/ FunctionDefined
  BY <1>2, <1>3 DEF declare_function, define_function, AllFunctions
<1>4. ASSUME NEW f \in Intrinsics, create_intrinsic_call(f)
      PROVE  FunctionsKept \/ FunctionDeclared
  BY <1>2, <1>4 DEF create_intrinsic_call, ensure_declared, AllFunctions
<1>5. ASSUME NEW f, NEW l, function_create_block(f, l) \/ create_block(l)
      PROVE  FunctionsKept
  BY <1>5 DEF function_create_block, create_block, moduleVars
<1>6. CASE BlockCall
  BY <1>5, <1>6 DEF BlockCall, set_insertion_point, moduleVars
<1>7. CASE InstructionCall
  BY <1>4, <1>7 DEF InstructionCall, create_value, create_alloca, create_temp_alloca,
                    create_effect, moduleVars
<1>8. CASE ModuleCall
  BY <1>3, <1>5, <1>8 DEF ModuleCall
<1> HIDE DEF FunctionsKept, FunctionDeclared, FunctionDefined
<1> QED
  BY <1>1, <1>6, <1>7, <1>8 DEF Next

(* Where the builder stands changes only in set_insertion_point. *)
LEMMA PointChange ==
  ASSUME [Next]_vars
  PROVE  \/ UNCHANGED pointVars
         \/ \E b \in existing_blocks \cup {NoBlock} : insertion_block' = b /\ current_function' = b.fn
<1>1. CASE UNCHANGED vars
  BY <1>1 DEF vars
<1>2. CASE ModuleCall
  BY <1>2 DEF ModuleCall, declare_function, define_function, function_create_block
<1>3. CASE BlockCall
  BY <1>3 DEF BlockCall, set_insertion_point, create_block, function_create_block
<1>4. CASE InstructionCall
  BY <1>4 DEF InstructionCall, create_value, create_alloca, create_temp_alloca,
              create_effect, create_intrinsic_call
<1> QED
  BY <1>1, <1>2, <1>3, <1>4 DEF Next

(* The name counters change only in create_temp. *)
LEMMA NamesChange ==
  ASSUME [Next]_vars
  PROVE  UNCHANGED nameVars \/ \E h \in Hints \cup {NoHint} : create_temp(h)
<1>1. CASE UNCHANGED vars
  BY <1>1 DEF vars
<1>2. CASE ModuleCall
  BY <1>2 DEF ModuleCall, declare_function, define_function, function_create_block
<1>3. CASE BlockCall
  BY <1>3 DEF BlockCall, set_insertion_point, create_block, function_create_block
<1>4. CASE InstructionCall
  BY <1>4 DEF InstructionCall, create_value, create_alloca, create_temp_alloca,
              create_effect, create_intrinsic_call
<1> QED
  BY <1>1, <1>2, <1>3, <1>4 DEF Next

(* The flags of the intrinsics and of a call that threw. *)
LEMMA FlagsChange ==
  ASSUME TypeOK, [Next]_vars
  PROVE  failed' \in BOOLEAN /\ intrinsic_declared' \subseteq Intrinsics
<1>1. failed \in BOOLEAN /\ intrinsic_declared \subseteq Intrinsics
  BY DEF TypeOK
<1>2. CASE UNCHANGED vars
  BY <1>1, <1>2 DEF vars
<1>3. CASE ModuleCall
  BY <1>1, <1>3 DEF ModuleCall, declare_function, define_function, function_create_block
<1>4. CASE BlockCall
  BY <1>1, <1>4 DEF BlockCall, set_insertion_point, create_block, function_create_block
<1>5. CASE InstructionCall
  BY <1>1, <1>5 DEF InstructionCall, create_value, create_alloca, create_temp_alloca,
              create_effect, create_intrinsic_call, insert_instruction, insert_throws, append_throws
<1> QED
  BY <1>2, <1>3, <1>4, <1>5 DEF Next

(* Labels, label counters and existing blocks over any step. *)
LEMMA LabelsTyped ==
  ASSUME BaseInv, [Next]_vars
  PROVE  /\ labels' \in [AllFunctions -> Seq(LabelNames)]
         /\ block_name_counter' \in [AllFunctions -> [Labels \cup {"entry"} -> Nat]]
         /\ emitted' \in Nat
         /\ existing_blocks \subseteq existing_blocks'
<1>1. /\ labels \in [AllFunctions -> Seq(LabelNames)]
      /\ block_name_counter \in [AllFunctions -> [Labels \cup {"entry"} -> Nat]]
      /\ emitted \in Nat
  BY DEF BaseInv, TypeOK
<1>2. CASE UNCHANGED <<labels, block_name_counter>> /\ emitted' \in {emitted, emitted + 1}
  <2>1. existing_blocks' = existing_blocks
    BY <1>2 DEF existing_blocks, BlockIds, AllFunctions
  <2>2. emitted' \in Nat
    BY <1>1, <1>2
  <2>3. /\ labels' \in [AllFunctions -> Seq(LabelNames)]
        /\ block_name_counter' \in [AllFunctions -> [Labels \cup {"entry"} -> Nat]]
    BY <1>1, <1>2
  <2> QED
    BY <2>1, <2>2, <2>3
<1>3. CASE BlockAdded
  BY <1>1, <1>3, AddedTyped DEF BlockAdded
<1>4. CASE InstructionInserted
  BY <1>2, <1>4 DEF InstructionInserted, Inserts
<1> QED
  BY <1>2, <1>3, <1>4, BlocksChange DEF BlocksKept

(* A block with instructions is a block of the module, after any step too. *)
LEMMA BodiesExist ==
  ASSUME BaseInv, [Next]_vars, NEW b \in BlockIds, body'[b] # << >>
  PROVE  b \in existing_blocks'
<1>1. existing_blocks \subseteq existing_blocks'
  BY LabelsTyped
<1>2. CASE body' = body
  BY <1>1, <1>2 DEF BaseInv, PointInFunction
<1>3. CASE InstructionInserted
  <2>1. PICK c, inst : Inserts(c, inst)
    BY <1>3 DEF InstructionInserted
  <2>2. c \in existing_blocks
    BY <2>1 DEF Inserts
  <2>3. b # c => body'[b] = body[b]
    BY <2>1, InsertEffect DEF BaseInv
  <2> QED
    BY <1>1, <2>2, <2>3 DEF BaseInv, PointInFunction
<1> QED
  BY <1>2, <1>3, BlocksChange DEF BlocksKept, BlockAdded

LEMMA TypeStep ==
  ASSUME IndInv, [Next]_vars
  PROVE  TypeOK'
<1>1. BaseInv /\ TypeOK /\ TerminatorLast
  BY DEF IndInv, BaseInv
<1>2. FunctionsTyped'
  <2>1. FunctionsTyped
    BY <1>1 DEF FunctionsTyped, TypeOK
  <2>2. CASE FunctionsKept
    BY <2>1, <2>2 DEF FunctionsTyped, FunctionsKept, AllFunctions
  <2>3. CASE FunctionDeclared \/ FunctionDefined
    BY <1>1, <2>3, WithFunctionTyped
      DEF FunctionsTyped, FunctionDeclared, FunctionDefined, AllFunctions
  <2> QED
    BY <2>2, <2>3, FunctionsChange
<1>3. body' \in [BlockIds -> Seq(Instructions)]
  BY <1>1, BodiesTyped
<1>4. insertion_block' \in [fn : AllFunctions \cup {NoFunction}, ix : Nat]
      /\ current_function' \in AllFunctions \cup {NoFunction}
  <2>1. CASE UNCHANGED pointVars
    BY <1>1, <2>1 DEF TypeOK, pointVars
  <2>2. CASE \E b \in existing_blocks \cup {NoBlock} :
               insertion_block' = b /\ current_function' = b.fn
    <3>1. PICK b \in existing_blocks \cup {NoBlock} :
            insertion_block' = b /\ current_function' = b.fn
      BY <2>2
    <3>2. b \in [fn : AllFunctions \cup {NoFunction}, ix : Nat]
      BY BoundsAssumption DEF existing_blocks, BlockIds, NoBlock
    <3> QED
      BY <3>1, <3>2
  <2> QED
    BY <2>1, <2>2, PointChange
<1>5. next_reg_index' \in Nat /\ name_hint_counters' \in [Hints -> Nat]
  <2>1. CASE UNCHANGED nameVars
    BY <1>1, <2>1 DEF TypeOK, nameVars
  <2> QED
    BY <1>1, <2>1, NamesChange, TempTyped
<1> QED
  BY <1>1, <1>2, <1>3, <1>4, <1>5, LabelsTyped, FlagsChange
    DEF TypeOK, FunctionsTyped, AllFunctions, BlockIds, LabelNames, Instructions, Opcodes,
        RegisterNames, NoResult

LEMMA PointStep ==
  ASSUME IndInv, [Next]_vars
  PROVE  PointInFunction'
<1>1. BaseInv /\ PointInFunction
  BY DEF IndInv, BaseInv
<1>2. existing_blocks \subseteq existing_blocks'
  BY <1>1, LabelsTyped
<1>3. /\ insertion_block'.fn = current_function'
      /\ insertion_block' \in existing_blocks \cup {NoBlock}
  <2>1. CASE UNCHANGED pointVars
    BY <1>1, <2>1 DEF PointInFunction, pointVars
  <2> QED
    BY <2>1, PointChange
<1>4. \A b \in BlockIds : body'[b] # << >> => b \in existing_blocks'
  BY <1>1, BodiesExist
<1> QED
  BY <1>2, <1>3, <1>4 DEF PointInFunction, BlockIds, AllFunctions, NoBlock

(***************************************************************************)
(* The invariant holds throughout.                                         *)
(***************************************************************************)
THEOREM Inductive == Spec => []IndInv
<1>1. Init => IndInv
  <2> SUFFICES ASSUME Init PROVE TerminatorLast
    BY InitBase DEF IndInv
  <2> QED
    BY DEF Init, TerminatorLast, terminator_last
<1>2. IndInv /\ [Next]_vars => IndInv'
  BY TypeStep, PointStep, BodiesTyped DEF IndInv, BaseInv
<1> QED
  BY <1>1, <1>2, PTL DEF Spec

(***************************************************************************)
(* The builder's state keeps its types (TypeOK).                           *)
(***************************************************************************)
THEOREM TypeCorrect == Spec => []TypeOK
<1>1. IndInv => TypeOK
  BY DEF IndInv, BaseInv
<1> QED
  BY <1>1, Inductive, PTL

(***************************************************************************)
(* However a client mixes the calls, no block ever has a terminator that   *)
(* something follows (BasicBlock::append, insert_before_terminator).       *)
(***************************************************************************)
THEOREM TerminatorsLast == Spec => []TerminatorLast
<1>1. IndInv => TerminatorLast
  BY DEF IndInv
<1> QED
  BY <1>1, Inductive, PTL

(***************************************************************************)
(* The builder stands in a block of its current function, and only blocks  *)
(* of the module have instructions (set_insertion_point, create_block).    *)
(***************************************************************************)
THEOREM PointStaysInFunction == Spec => []PointInFunction
<1>1. IndInv => PointInFunction
  BY DEF IndInv, BaseInv
<1> QED
  BY <1>1, Inductive, PTL
=============================================================================
