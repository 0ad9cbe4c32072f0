----------------------- MODULE IRBuilderHistory_proof -----------------------
(***************************************************************************)
(* Proofs about what IRBuilder leaves behind: where an instruction goes,   *)
(* and that the names it hands out stay unique.  For any functions,        *)
(* labels, hints and bounds.                                               *)
(***************************************************************************)
EXTENDS IRBuilder_proof

-----------------------------------------------------------------------------
(* The place an instruction takes *)

(* An element taken out again from where it was put in. *)
LEMMA RemoveShape ==
  ASSUME NEW S, NEW s \in Seq(S), NEW t \in Seq(S), NEW p \in 1..Len(t), Len(t) = Len(s) + 1,
         \A j \in 1..Len(s) : s[j] = t[IF j < p THEN j ELSE j + 1]
  PROVE  RemoveAt(t, p) = s
<1> DEFINE front == SubSeq(t, 1, p - 1)
           back == SubSeq(t, p + 1, Len(t))
<1>1. Len(s) \in Nat /\ Len(t) \in Nat /\ p \in Nat \ {0}
  OBVIOUS
<1>2. /\ front \in Seq(S)
      /\ Len(front) = p - 1
      /\ \A i \in 1..(p - 1) : front[i] = t[i]
  <2>1. 1 \in Nat \ {0} /\ p - 1 \in Nat /\ 1 <= p - 1 + 1 /\ p - 1 <= Len(t)
    BY <1>1
  <2>2. /\ front \in Seq(S)
        /\ Len(front) = p - 1 - 1 + 1
        /\ \A i \in 1..(p - 1 - 1 + 1) : front[i] = t[1 + i - 1]
    BY <2>1, SubSeqShape
  <2> QED
    BY <2>2
<1>3. /\ back \in Seq(S)
      /\ Len(back) = Len(t) - p
      /\ \A i \in 1..(Len(t) - p) : back[i] = t[p + i]
  <2>1. p + 1 \in Nat \ {0} /\ Len(t) \in Nat /\ p + 1 <= Len(t) + 1 /\ Len(t) <= Len(t)
    BY <1>1
  <2>2. /\ back \in Seq(S)
        /\ Len(back) = Len(t) - (p + 1) + 1
        /\ \A i \in 1..(Len(t) - (p + 1) + 1) : back[i] = t[p + 1 + i - 1]
    BY <2>1, SubSeqShape
  <2> QED
    BY <2>2
<1>4. RemoveAt(t, p) = front \o back
  BY DEF RemoveAt
<1> HIDE DEF front, back
<1>5. /\ front \o back \in Seq(S)
      /\ Len(front \o back) = Len(front) + Len(back)
      /\ \A i \in 1..(Len(front) + Len(back)) :
           (front \o back)[i] = IF i <= Len(front) THEN front[i] ELSE back[i - Len(front)]
  BY <1>2, <1>3, ConcatProperties
<1>6. Len(front \o back) = Len(s)
  BY <1>1, <1>2, <1>3, <1>5
<1>7. ASSUME NEW i \in 1..Len(front \o back)
      PROVE  (front \o back)[i] = s[i]
  <2>1. i \in 1..Len(s) /\ s[i] = t[IF i < p THEN i ELSE i + 1]
    BY <1>6
  <2>2. CASE i < p
    BY <1>1, <1>2, <1>3, <1>5, <2>1, <2>2
  <2>3. CASE i >= p
    <3>1. i - (p - 1) \in 1..(Len(t) - p) /\ p + (i - (p - 1)) = i + 1
      BY <1>1, <2>1, <2>3
    <3>2. (front \o back)[i] = back[i - (p - 1)]
      BY <1>1, <1>2, <1>3, <1>5, <2>1, <2>3
    <3>3. back[i - (p - 1)] = t[i + 1]
      BY <1>3, <3>1
    <3> QED
      BY <1>1, <2>1, <2>3, <3>2, <3>3
  <2> QED
    BY <1>1, <2>1, <2>2, <2>3
<1>8. front \o back = s
  BY <1>5, <1>6, <1>7, SeqEqual
<1> QED
  BY <1>4, <1>8

(***************************************************************************)
(* An append puts the instruction at one place p and leaves the rest in    *)
(* its order; only a terminator comes after it.                            *)
(***************************************************************************)
PlacedAt(p, new, code, inst) ==
  /\ p \in 1..Len(new)
  /\ Len(new) = Len(code) + 1
  /\ new[p] = inst
  /\ \A j \in 1..Len(new) : j < p => new[j] = code[j]
  /\ \A j \in 1..Len(new) : j > p => new[j] = code[j - 1] /\ is_terminator(new[j])

LEMMA AppendPlace ==
  ASSUME NEW S, NEW code \in Seq(S), NEW inst \in S, terminator_last(code)
  PROVE  \E p \in 1..(Len(code) + 1) : PlacedAt(p, append(code, inst), code, inst)
<1> DEFINE new == append(code, inst)
<1>1. Len(new) = Len(code) + 1
  BY AppendShape
<1>2. Len(code) \in Nat
  OBVIOUS
<1>3. CASE ends_in_terminator(code)
  <2>1. /\ \A i \in 1..(Len(code) - 1) : new[i] = code[i]
        /\ new[Len(code)] = inst
        /\ new[Len(code) + 1] = code[Len(code)]
    BY <1>3, AppendShape
  <2>2. Len(code) >= 1 /\ is_terminator(code[Len(code)])
    BY <1>2, <1>3 DEF ends_in_terminator
  <2> HIDE DEF new
  <2>3. PlacedAt(Len(code), new, code, inst)
    BY <1>1, <1>2, <2>1, <2>2 DEF PlacedAt
  <2> QED
    BY <1>2, <2>2, <2>3 DEF new
<1>4. CASE ~ends_in_terminator(code)
  <2>1. new = Append(code, inst)
    BY <1>4, AppendShape
  <2>2. new[Len(code) + 1] = inst /\ \A i \in 1..Len(code) : new[i] = code[i]
    BY <2>1, AppendProperties
  <2> HIDE DEF new
  <2>3. PlacedAt(Len(code) + 1, new, code, inst)
    BY <1>1, <1>2, <2>2 DEF PlacedAt
  <2> QED
    BY <1>2, <2>3 DEF new
<1> QED
  BY <1>3, <1>4

(***************************************************************************)
(* Every step leaves a body as it is or puts one instruction into it.      *)
(***************************************************************************)
LEMMA BodyStep ==
  ASSUME IndInv, [Next]_vars, InstructionInserted
  PROVE  \E b \in BlockIds, inst \in Instructions :
           /\ inst.at = emitted /\ emitted' = emitted + 1 /\ Origin(inst)
           /\ \A c \in BlockIds : c # b => body'[c] = body[c]
           /\ body[b] \in Seq(Instructions) /\ body'[b] \in Seq(Instructions)
           /\ \E p \in 1..(Len(body[b]) + 1) : PlacedAt(p, body'[b], body[b], inst)
<1>1. PICK b, inst : Inserts(b, inst) /\ Origin(inst)
  BY DEF InstructionInserted
<1>2. BaseInv /\ TypeOK /\ TerminatorLast
  BY DEF IndInv, BaseInv
<1>3. /\ b \in BlockIds
      /\ body[b] \in Seq(Instructions)
      /\ inst \in Instructions
      /\ body'[b] = append(body[b], inst)
      /\ \A c \in BlockIds : c # b => body'[c] = body[c]
  BY <1>1, <1>2, InsertEffect
<1>4. terminator_last(body[b])
  BY <1>2, <1>3 DEF TerminatorLast
<1>5. \E p \in 1..(Len(body[b]) + 1) : PlacedAt(p, body'[b], body[b], inst)
  BY <1>3, <1>4, AppendPlace
<1>6. body'[b] \in Seq(Instructions)
  BY <1>3, <1>4, AppendShape
<1> QED
  BY <1>1, <1>3, <1>5, <1>6 DEF Inserts

-----------------------------------------------------------------------------
(* What no step undoes *)

(***************************************************************************)
(* Nothing emitted is lost, moved or overtaken (append and its insertion   *)
(* in front of the terminator): the old body is the new one without the    *)
(* new instruction.                                                        *)
(***************************************************************************)
THEOREM NothingEmittedIsLost == Spec => NothingLost
<1> DEFINE Keeps == \A b \in existing_blocks :
                      \/ body'[b] = body[b]
                      \/ \E k \in DOMAIN body'[b] : RemoveAt(body'[b], k) = body[b]
<1>1. IndInv /\ [Next]_vars => [Keeps]_vars
  <2> SUFFICES ASSUME IndInv, [Next]_vars PROVE Keeps
    OBVIOUS
  <2>1. CASE body' = body
    BY <2>1
  <2>2. CASE InstructionInserted
    <3>1. PICK b \in BlockIds, inst \in Instructions :
            /\ \A c \in BlockIds : c # b => body'[c] = body[c]
            /\ body[b] \in Seq(Instructions) /\ body'[b] \in Seq(Instructions)
            /\ \E p \in 1..(Len(body[b]) + 1) : PlacedAt(p, body'[b], body[b], inst)
      BY <2>2, BodyStep
    <3>2. PICK p \in 1..(Len(body[b]) + 1) : PlacedAt(p, body'[b], body[b], inst)
      BY <3>1
    <3>3. PICK old, new : old = body[b] /\ new = body'[b]
      OBVIOUS
    <3>4. old \in Seq(Instructions) /\ new \in Seq(Instructions) /\ PlacedAt(p, new, old, inst)
      BY <3>1, <3>2, <3>3
    <3>5. /\ Len(old) \in Nat
          /\ p \in 1..Len(new)
          /\ Len(new) = Len(old) + 1
          /\ \A j \in 1..Len(old) : old[j] = new[IF j < p THEN j ELSE j + 1]
      BY <3>4 DEF PlacedAt
    <3>6. RemoveAt(new, p) = old
      BY <3>4, <3>5, RemoveShape
    <3>7. p \in DOMAIN new
      BY <3>4, <3>5
    <3>8. existing_blocks \subseteq BlockIds
      BY DEF existing_blocks
    <3> QED
      BY <3>1, <3>3, <3>6, <3>7, <3>8
  <2> QED
    BY <2>1, <2>2, BlocksChange DEF IndInv, BlocksKept, BlockAdded
<1> QED
  BY <1>1, Inductive, PTL DEF Spec, NothingLost

(***************************************************************************)
(* No call turns a defined function back into a declaration or removes one *)
(* (declare_function, define_function, ensure_memcpy_declared).            *)
(***************************************************************************)
THEOREM DefinitionsStay == Spec => StaysDefined
<1> DEFINE Keeps == \A f \in DOMAIN is_declaration :
                      /\ f \in DOMAIN is_declaration'
                      /\ ~is_declaration[f] => ~is_declaration'[f]
<1>1. IndInv /\ [Next]_vars => [Keeps]_vars
  <2> SUFFICES ASSUME IndInv, [Next]_vars PROVE Keeps
    OBVIOUS
  <2>1. TypeOK
    BY DEF IndInv, BaseInv
  <2>2. CASE FunctionsKept
    BY <2>2 DEF FunctionsKept
  <2>3. ASSUME NEW f \in AllFunctions, NEW flag \in BOOLEAN,
               is_declaration' = with_function(f, flag), f \in DOMAIN is_declaration => ~flag
        PROVE  Keeps
    BY <2>1, <2>3, WithFunctionTyped
  <2>4. CASE FunctionDeclared
    BY <2>3, <2>4 DEF FunctionDeclared
  <2>5. CASE FunctionDefined
    BY <2>3, <2>5 DEF FunctionDefined
  <2> QED
    BY <2>2, <2>4, <2>5, FunctionsChange
<1> QED
  BY <1>1, Inductive, PTL DEF Spec, StaysDefined

-----------------------------------------------------------------------------
(* The order of the instructions *)

(***************************************************************************)
(* EmissionOrder is inductive once every instruction is known to be older  *)
(* than the next one.                                                      *)
(***************************************************************************)
EmittedBefore == \A b \in BlockIds : \A i \in 1..Len(body[b]) : body[b][i].at < emitted

Ordered(code) ==
  \A i, j \in 1..Len(code) : i < j /\ ~is_terminator(code[j]) => code[i].at < code[j].at

(* A younger instruction keeps a block in order, wherever append puts it. *)
LEMMA OrderKept ==
  ASSUME NEW code \in Seq(Instructions), NEW new \in Seq(Instructions), NEW inst \in Instructions,
         NEW p \in 1..(Len(code) + 1), PlacedAt(p, new, code, inst), Ordered(code),
         \A i \in 1..Len(code) : code[i].at < inst.at
  PROVE  /\ Ordered(new)
         /\ \A i \in 1..Len(new) : new[i].at < inst.at + 1
<1>1. /\ Len(code) \in Nat /\ Len(new) = Len(code) + 1 /\ p \in Nat
      /\ new[p] = inst
      /\ \A j \in 1..Len(new) : j < p => new[j] = code[j]
      /\ \A j \in 1..Len(new) : j > p => new[j] = code[j - 1] /\ is_terminator(new[j])
  BY DEF PlacedAt
<1>2. inst.at \in Nat /\ \A i \in 1..Len(code) : code[i].at \in Nat
  <2>1. \A i \in 1..Len(code) : code[i] \in Instructions
    BY ElementOfSeq
  <2> QED
    BY <2>1 DEF Instructions
<1>3. ASSUME NEW i \in 1..Len(new), NEW j \in 1..Len(new), i < j, ~is_terminator(new[j])
      PROVE  new[i].at < new[j].at
  <2>1. j <= p
    BY <1>1, <1>3
  <2>2. i \in 1..Len(code) /\ new[i] = code[i]
    BY <1>1, <1>3, <2>1
  <2>3. CASE j = p
    BY <1>1, <2>2, <2>3
  <2>4. CASE j # p
    <3>1. j \in 1..Len(code) /\ new[j] = code[j]
      BY <1>1, <2>1, <2>4
    <3> QED
      BY <1>3, <2>2, <3>1 DEF Ordered
  <2> QED
    BY <2>3, <2>4
<1>4. ASSUME NEW i \in 1..Len(new)
      PROVE  new[i].at < inst.at + 1
  <2>1. CASE i = p
    BY <1>1, <1>2, <2>1
  <2>2. CASE i # p
    <3>1. PICK j \in 1..Len(code) : new[i] = code[j]
      <4>1. CASE i < p
        BY <1>1, <4>1
      <4>2. CASE i > p
        <5>1. i - 1 \in 1..Len(code) /\ new[i] = code[i - 1]
          BY <1>1, <4>2
        <5> QED
          BY <5>1
      <4> QED
        BY <1>1, <2>2, <4>1, <4>2
    <3> QED
      BY <1>2, <3>1
  <2> QED
    BY <2>1, <2>2
<1> QED
  BY <1>3, <1>4 DEF Ordered

OrderInv == EmittedBefore /\ \A b \in BlockIds : Ordered(body[b])

LEMMA OrderStep ==
  ASSUME IndInv, OrderInv, [Next]_vars
  PROVE  OrderInv'
<1>1. TypeOK
  BY DEF IndInv, BaseInv
<1>2. CASE UNCHANGED <<body, emitted>>
  BY <1>2 DEF OrderInv, EmittedBefore, Ordered, BlockIds, AllFunctions
<1>3. CASE InstructionInserted
  <2>1. PICK b \in BlockIds, inst \in Instructions :
          /\ inst.at = emitted /\ emitted' = emitted + 1
          /\ \A c \in BlockIds : c # b => body'[c] = body[c]
          /\ body[b] \in Seq(Instructions) /\ body'[b] \in Seq(Instructions)
          /\ \E p \in 1..(Len(body[b]) + 1) : PlacedAt(p, body'[b], body[b], inst)
    BY <1>3, BodyStep
  <2>2. PICK p \in 1..(Len(body[b]) + 1) : PlacedAt(p, body'[b], body[b], inst)
    BY <2>1
  <2>3. PICK old, new : old = body[b] /\ new = body'[b]
    OBVIOUS
  <2>4. /\ old \in Seq(Instructions) /\ new \in Seq(Instructions) /\ PlacedAt(p, new, old, inst)
        /\ Ordered(old) /\ p \in 1..(Len(old) + 1)
        /\ \A i \in 1..Len(old) : old[i].at < inst.at
    BY <2>1, <2>2, <2>3 DEF OrderInv, EmittedBefore
  <2>5. Ordered(new) /\ \A i \in 1..Len(new) : new[i].at < inst.at + 1
    BY <2>4, OrderKept
  <2>6. ASSUME NEW c \in BlockIds
        PROVE  Ordered(body'[c]) /\ \A i \in 1..Len(body'[c]) : body'[c][i].at < emitted'
    <3>1. CASE c = b
      BY <2>1, <2>3, <2>5, <3>1
    <3>2. CASE c # b
      <4>1. body'[c] = body[c] /\ Ordered(body[c]) /\ \A i \in 1..Len(body[c]) : body[c][i].at < emitted
        BY <2>1, <3>2 DEF OrderInv, EmittedBefore
      <4>2. emitted \in Nat /\ \A i \in 1..Len(body[c]) : body[c][i].at \in Nat
        <5>1. body[c] \in Seq(Instructions) /\ emitted \in Nat
          BY <1>1 DEF TypeOK
        <5>2. \A i \in 1..Len(body[c]) : body[c][i] \in Instructions
          BY <5>1, ElementOfSeq
        <5> QED
          BY <5>1, <5>2 DEF Instructions
      <4> QED
        BY <2>1, <4>1, <4>2
    <3> QED
      BY <3>1, <3>2
  <2> QED
    BY <2>6 DEF OrderInv, EmittedBefore, Ordered, BlockIds, AllFunctions
<1> QED
  BY <1>2, <1>3, BlocksChange DEF IndInv, BlocksKept, BlockAdded

(***************************************************************************)
(* An instruction that append slips in front of a terminator still comes   *)
(* after everything emitted before it.                                     *)
(***************************************************************************)
THEOREM EmittedInOrder == Spec => []EmissionOrder
<1>1. Init => OrderInv
  BY DEF Init, OrderInv, EmittedBefore, Ordered
<1>2. IndInv /\ OrderInv /\ [Next]_vars => OrderInv'
  BY OrderStep
<1>3. IndInv /\ OrderInv => EmissionOrder
  <2> SUFFICES ASSUME IndInv, OrderInv, NEW b \in BlockIds, NEW i \in DOMAIN body[b], NEW j \in DOMAIN body[b],
                      i < j, ~is_terminator(body[b][j])
               PROVE  body[b][i].at < body[b][j].at
    BY DEF EmissionOrder
  <2>1. body[b] \in Seq(Instructions) /\ Ordered(body[b])
    BY DEF IndInv, BaseInv, TypeOK, OrderInv
  <2> QED
    BY <2>1 DEF Ordered
<1> QED
  BY <1>1, <1>2, <1>3, Inductive, PTL DEF Spec

-----------------------------------------------------------------------------
(* Labels *)

(***************************************************************************)
(* Every label in use is below its counter, so the next one is free.       *)
(***************************************************************************)
LabelsTaken ==
  \A f \in AllFunctions : \A i \in 1..Len(labels[f]) :
    labels[f][i].n < block_name_counter[f][labels[f][i].label]

LabelsDiffer ==
  \A f \in AllFunctions : \A i, j \in 1..Len(labels[f]) : labels[f][i] = labels[f][j] => i = j

LabelInv == LabelsTaken /\ LabelsDiffer

LEMMA LabelStep ==
  ASSUME IndInv, LabelInv, [Next]_vars
  PROVE  LabelInv'
<1>1. /\ labels \in [AllFunctions -> Seq(LabelNames)]
      /\ block_name_counter \in [AllFunctions -> [Labels \cup {"entry"} -> Nat]]
  BY DEF IndInv, BaseInv, TypeOK
<1>2. CASE UNCHANGED <<labels, block_name_counter>>
  BY <1>2 DEF LabelInv, LabelsTaken, LabelsDiffer, AllFunctions
<1>3. CASE BlockAdded
  <2>1. PICK f \in AllFunctions, l \in Labels \cup {"entry"} : add_block(f, l)
    BY <1>3 DEF BlockAdded
  <2>2. PICK n \in Nat : n = block_name_counter[f][l]
    BY <1>1
  <2>3. PICK name \in LabelNames : name = [label |-> l, n |-> n]
    BY DEF LabelNames
  <2>4. labels' = [labels EXCEPT ![f] = Append(labels[f], name)]
    BY <2>1, <2>2, <2>3 DEF add_block, final_label
  <2>5. \A m \in Labels \cup {"entry"} :
          block_name_counter'[f][m] = IF m = l THEN n + 1 ELSE block_name_counter[f][m]
    BY <1>1, <2>1, <2>2 DEF add_block
  <2>6. \A g \in AllFunctions : g # f => /\ labels'[g] = labels[g]
                                         /\ block_name_counter'[g] = block_name_counter[g]
    BY <1>1, <2>1, <2>4 DEF add_block
  <2>7. PICK old, new : old = labels[f] /\ new = labels'[f]
    OBVIOUS
  <2>8. /\ old \in Seq(LabelNames)
        /\ new = Append(old, name)
        /\ Len(old) \in Nat /\ Len(new) = Len(old) + 1
        /\ new[Len(old) + 1] = name
        /\ \A i \in 1..Len(old) : new[i] = old[i] /\ old[i] \in LabelNames
    <3>1. old \in Seq(LabelNames) /\ new = Append(old, name)
      BY <1>1, <2>4, <2>7
    <3> QED
      BY <3>1, AppendProperties, ElementOfSeq, LenProperties
  <2>9. \A i \in 1..Len(old) : old[i].n < block_name_counter[f][old[i].label]
    BY <2>7 DEF LabelInv, LabelsTaken
  <2>10. \A i \in 1..Len(old) : old[i] # name
    BY <2>2, <2>3, <2>8, <2>9
  <2>11. ASSUME NEW i \in 1..Len(new), NEW j \in 1..Len(new), new[i] = new[j]
         PROVE  i = j
    <3>1. \A a, b \in 1..Len(old) : old[a] = old[b] => a = b
      BY <2>7 DEF LabelInv, LabelsDiffer
    <3> QED
      BY <2>8, <2>10, <2>11, <3>1
  <2>12. ASSUME NEW i \in 1..Len(new)
         PROVE  new[i].n < block_name_counter'[f][new[i].label]
    <3>1. CASE i = Len(old) + 1
      BY <2>2, <2>3, <2>5, <2>8, <3>1
    <3>2. CASE i # Len(old) + 1
      <4>1. i \in 1..Len(old)
        BY <2>8, <3>2
      <4>2. PICK r \in LabelNames : r = old[i]
        BY <2>8, <4>1
      <4>3. r.label \in Labels \cup {"entry"} /\ r.n \in Nat /\ new[i] = r
        BY <2>8, <4>1, <4>2 DEF LabelNames
      <4>4. block_name_counter[f][r.label] \in Nat /\ r.n < block_name_counter[f][r.label]
        BY <1>1, <2>9, <4>1, <4>2, <4>3
      <4> QED
        BY <2>2, <2>5, <4>3, <4>4
    <3> QED
      BY <3>1, <3>2
  <2>13. LabelsTaken'
    <3>1. ASSUME NEW g \in AllFunctions, NEW i \in 1..Len(labels'[g])
          PROVE  labels'[g][i].n < block_name_counter'[g][labels'[g][i].label]
      <4>1. CASE g = f
        BY <2>7, <2>12, <3>1, <4>1
      <4>2. CASE g # f
        BY <2>6, <3>1, <4>2 DEF LabelInv, LabelsTaken
      <4> QED
        BY <4>1, <4>2
    <3> QED
      BY <3>1 DEF LabelsTaken, AllFunctions
  <2>14. LabelsDiffer'
    <3>1. ASSUME NEW g \in AllFunctions, NEW i \in 1..Len(labels'[g]), NEW j \in 1..Len(labels'[g]),
                 labels'[g][i] = labels'[g][j]
          PROVE  i = j
      <4>1. CASE g = f
        BY <2>7, <2>11, <3>1, <4>1
      <4>2. CASE g # f
        BY <2>6, <3>1, <4>2 DEF LabelInv, LabelsDiffer
      <4> QED
        BY <4>1, <4>2
    <3> QED
      BY <3>1 DEF LabelsDiffer, AllFunctions
  <2> QED
    BY <2>13, <2>14 DEF LabelInv
<1> QED
  BY <1>2, <1>3, BlocksChange DEF IndInv, BlocksKept, InstructionInserted

(***************************************************************************)
(* No two blocks of a function get the same label, whatever labels clients *)
(* ask for and in whatever order (create_block, block_name_counter).       *)
(***************************************************************************)
THEOREM LabelsAreUnique == Spec => []UniqueLabels
<1>1. Init => LabelInv
  BY DEF Init, LabelInv, LabelsTaken, LabelsDiffer
<1>2. IndInv /\ LabelInv /\ [Next]_vars => LabelInv'
  BY LabelStep
<1>3. IndInv /\ LabelInv => UniqueLabels
  <2> SUFFICES ASSUME IndInv, LabelInv, NEW f \in AllFunctions
               PROVE  \A i, j \in DOMAIN labels[f] : labels[f][i] = labels[f][j] => i = j
    BY DEF UniqueLabels
  <2>1. labels[f] \in Seq(LabelNames)
    BY DEF IndInv, BaseInv, TypeOK
  <2> QED
    BY <2>1 DEF LabelInv, LabelsDiffer
<1> QED
  BY <1>1, <1>2, <1>3, Inductive, PTL DEF Spec

-----------------------------------------------------------------------------
(* Callees *)

(***************************************************************************)
(* The builder's flags are right: it takes only what is declared for       *)
(* declared, and it has seen every intrinsic that a block calls.           *)
(***************************************************************************)
FlagsRight == intrinsic_declared \subseteq DOMAIN is_declaration
CalleesSeen ==
  \A b \in BlockIds : \A i \in 1..Len(body[b]) :
    body[b][i].op \in Intrinsics => body[b][i].op \in intrinsic_declared
CalleeInv == FlagsRight /\ CalleesSeen

LEMMA FlagsStep ==
  ASSUME IndInv, FlagsRight, [Next]_vars
  PROVE  FlagsRight' /\ intrinsic_declared \subseteq intrinsic_declared'
<1>1. TypeOK
  BY DEF IndInv, BaseInv
<1>2. DOMAIN is_declaration \subseteq DOMAIN is_declaration'
  BY <1>1, FunctionsChange, WithFunctionTyped DEF FunctionsKept, FunctionDeclared, FunctionDefined
<1>3. CASE UNCHANGED intrinsic_declared
  BY <1>2, <1>3 DEF FlagsRight
<1>4. ASSUME NEW f \in Intrinsics, create_intrinsic_call(f)
      PROVE  FlagsRight' /\ intrinsic_declared \subseteq intrinsic_declared'
  <2>1. intrinsic_declared' = intrinsic_declared \cup {f} /\ is_declaration' = ensure_declared(f)
    BY <1>4 DEF create_intrinsic_call
  <2>2. f \in DOMAIN is_declaration'
    BY <2>1 DEF ensure_declared, declared, with_function, in_module, FlagsRight
  <2> QED
    BY <1>2, <2>1, <2>2 DEF FlagsRight
<1>5. CASE UNCHANGED vars
  BY <1>3, <1>5 DEF vars
<1>6. CASE ModuleCall
  BY <1>3, <1>6 DEF ModuleCall, declare_function, define_function, function_create_block
<1>7. CASE BlockCall
  BY <1>3, <1>7 DEF BlockCall, set_insertion_point, create_block, function_create_block
<1>8. CASE InstructionCall
  BY <1>3, <1>4, <1>8 DEF InstructionCall, create_value, create_alloca, create_temp_alloca, create_effect
<1> QED
  BY <1>5, <1>6, <1>7, <1>8 DEF Next

(***************************************************************************)
(* After an insertion every instruction is the new one or one that was     *)
(* there, one place further on if it stands behind the new one.            *)
(***************************************************************************)
LEMMA OldOrNew ==
  ASSUME NEW code \in Seq(Instructions), NEW new \in Seq(Instructions), NEW inst,
         NEW p \in 1..(Len(code) + 1), PlacedAt(p, new, code, inst), NEW j \in 1..Len(new), j # p
  PROVE  LET i == IF j < p THEN j ELSE j - 1 IN i \in 1..Len(code) /\ new[j] = code[i]
<1>1. Len(code) \in Nat /\ Len(new) = Len(code) + 1
  BY DEF PlacedAt
<1>2. CASE j < p
  BY <1>1, <1>2 DEF PlacedAt
<1>3. CASE j > p
  BY <1>1, <1>3 DEF PlacedAt
<1> QED
  BY <1>1, <1>2, <1>3

LEMMA CalleeStep ==
  ASSUME IndInv, CalleeInv, [Next]_vars
  PROVE  CalleeInv'
<1>1. FlagsRight' /\ intrinsic_declared \subseteq intrinsic_declared'
  BY FlagsStep DEF CalleeInv
<1>2. CASE body' = body
  BY <1>1, <1>2 DEF CalleeInv, CalleesSeen, BlockIds, AllFunctions
<1>3. CASE InstructionInserted
  <2>1. PICK b \in BlockIds, inst \in Instructions :
          /\ Origin(inst)
          /\ \A c \in BlockIds : c # b => body'[c] = body[c]
          /\ body[b] \in Seq(Instructions) /\ body'[b] \in Seq(Instructions)
          /\ \E p \in 1..(Len(body[b]) + 1) : PlacedAt(p, body'[b], body[b], inst)
    BY <1>3, BodyStep
  <2>2. PICK p \in 1..(Len(body[b]) + 1) : PlacedAt(p, body'[b], body[b], inst)
    BY <2>1
  <2>3. ASSUME NEW c \in BlockIds, NEW j \in 1..Len(body'[c]), body'[c][j].op \in Intrinsics
        PROVE  body'[c][j].op \in intrinsic_declared'
    <3>1. CASE c = b /\ j = p
      BY <2>1, <2>2, <2>3, <3>1 DEF PlacedAt, Origin
    <3>2. CASE c = b /\ j # p
      <4>1. PICK old, new : old = body[b] /\ new = body'[b]
        OBVIOUS
      <4>2. /\ old \in Seq(Instructions) /\ new \in Seq(Instructions) /\ p \in 1..(Len(old) + 1)
            /\ PlacedAt(p, new, old, inst) /\ j \in 1..Len(new)
        BY <2>1, <2>2, <2>3, <3>2, <4>1
      <4>3. \E i \in 1..Len(old) : new[j] = old[i]
        BY <3>2, <4>2, OldOrNew
      <4> QED
        BY <1>1, <2>3, <3>2, <4>1, <4>3 DEF CalleeInv, CalleesSeen
    <3>3. CASE c # b
      BY <1>1, <2>1, <2>3, <3>3 DEF CalleeInv, CalleesSeen
    <3> QED
      BY <3>1, <3>2, <3>3
  <2> QED
    BY <1>1, <2>3 DEF CalleeInv, CalleesSeen, BlockIds, AllFunctions
<1> QED
  BY <1>2, <1>3, BlocksChange DEF IndInv, BlocksKept, BlockAdded

(***************************************************************************)
(* What a block calls of the intrinsics is declared, though the builder    *)
(* looks at a flag of its own and never at the module.                     *)
(***************************************************************************)
THEOREM CalleesAreDeclared == Spec => []CallsDeclared
<1>1. Init => CalleeInv
  BY DEF Init, CalleeInv, FlagsRight, CalleesSeen
<1>2. IndInv /\ CalleeInv /\ [Next]_vars => CalleeInv'
  BY CalleeStep
<1>3. IndInv /\ CalleeInv => CallsDeclared
  <2> SUFFICES ASSUME IndInv, CalleeInv, NEW b \in BlockIds, NEW i \in DOMAIN body[b],
                      body[b][i].op \in Intrinsics
               PROVE  in_module(body[b][i].op)
    BY DEF CallsDeclared
  <2>1. body[b] \in Seq(Instructions)
    BY DEF IndInv, BaseInv, TypeOK
  <2>2. i \in 1..Len(body[b])
    BY <2>1
  <2> QED
    BY <2>2 DEF CalleeInv, CalleesSeen, FlagsRight, in_module
<1> QED
  BY <1>1, <1>2, <1>3, Inductive, PTL DEF Spec

-----------------------------------------------------------------------------
(* Registers *)

(***************************************************************************)
(* A name is taken when the counter of its series is past it.  Every       *)
(* register in use has a taken name, and create_temp returns a free one.   *)
(***************************************************************************)
Taken(r) == r.n < IF r.hint = "tmp" THEN next_reg_index ELSE name_hint_counters[r.hint]
NamesTaken ==
  \A b \in BlockIds : \A i \in 1..Len(body[b]) :
    body[b][i].result # NoResult => Taken(body[b][i].result)
RegistersDiffer ==
  \A b, c \in BlockIds : \A i \in 1..Len(body[b]), j \in 1..Len(body[c]) :
    /\ body[b][i].result = body[c][j].result
    /\ body[b][i].result # NoResult
    => b = c /\ i = j
RegisterInv == NamesTaken /\ RegistersDiffer

LEMMA FreshName ==
  ASSUME TypeOK, NEW h \in Hints \cup {NoHint}, create_temp(h), NEW r, r = temp_name(h)
  PROVE  ~Taken(r) /\ Taken(r)'
<1>1. next_reg_index \in Nat /\ name_hint_counters \in [Hints -> Nat]
  BY DEF TypeOK
<1>2. CASE h = NoHint
  <2>1. r = [hint |-> "tmp", n |-> next_reg_index]
    BY <1>2 DEF temp_name
  <2>2. next_reg_index' = next_reg_index + 1
    BY <1>2 DEF create_temp
  <2> QED
    BY <1>1, <2>1, <2>2 DEF Taken
<1>3. CASE h # NoHint
  <2>1. r = [hint |-> h, n |-> name_hint_counters[h]] /\ h \in Hints /\ h # "tmp"
    BY <1>3, HintsAssumption DEF temp_name
  <2>2. name_hint_counters' = [name_hint_counters EXCEPT ![h] = @ + 1]
    BY <1>3 DEF create_temp
  <2>3. name_hint_counters'[h] = name_hint_counters[h] + 1 /\ name_hint_counters[h] \in Nat
    BY <1>1, <2>1, <2>2
  <2> QED
    BY <2>1, <2>3 DEF Taken
<1> QED
  BY <1>2, <1>3

LEMMA NamesStayTaken ==
  ASSUME TypeOK, [Next]_vars, NEW r \in RegisterNames, Taken(r)
  PROVE  Taken(r)'
<1>1. next_reg_index \in Nat /\ name_hint_counters \in [Hints -> Nat] /\ r.n \in Nat
      /\ r.hint \in Hints \cup {"tmp"}
  BY DEF TypeOK, RegisterNames
<1>2. CASE UNCHANGED nameVars
  BY <1>2 DEF nameVars, Taken
<1>3. ASSUME NEW h \in Hints \cup {NoHint}, create_temp(h)
      PROVE  Taken(r)'
  <2>1. CASE h = NoHint
    <3>1. next_reg_index' = next_reg_index + 1 /\ name_hint_counters' = name_hint_counters
      BY <1>3, <2>1 DEF create_temp
    <3> QED
      BY <1>1, <3>1 DEF Taken
  <2>2. CASE h # NoHint
    <3>1. next_reg_index' = next_reg_index /\ name_hint_counters' = [name_hint_counters EXCEPT ![h] = @ + 1]
      BY <1>3, <2>2 DEF create_temp
    <3>2. \A g \in Hints : name_hint_counters'[g] \in {name_hint_counters[g], name_hint_counters[g] + 1}
      BY <1>1, <3>1
    <3>3. \A g \in Hints : name_hint_counters[g] \in Nat
      BY <1>1
    <3>4. CASE r.hint = "tmp"
      BY <3>1, <3>4 DEF Taken
    <3>5. CASE r.hint # "tmp"
      BY <1>1, <3>2, <3>3, <3>5 DEF Taken
    <3> QED
      BY <3>4, <3>5
  <2> QED
    BY <2>1, <2>2
<1> QED
  BY <1>2, <1>3, NamesChange

LEMMA RegisterStep ==
  ASSUME IndInv, RegisterInv, [Next]_vars
  PROVE  RegisterInv'
<1>1. TypeOK
  BY DEF IndInv, BaseInv
<1>2. ASSUME NEW c \in BlockIds, NEW i \in 1..Len(body[c]), NEW r, r = body[c][i].result, r # NoResult
      PROVE  Taken(r) /\ Taken(r)'
  <2>1. body[c] \in Seq(Instructions)
    BY <1>1 DEF TypeOK
  <2>2. body[c][i] \in Instructions
    BY <2>1, ElementOfSeq
  <2>3. r \in RegisterNames
    BY <1>2, <2>2 DEF Instructions
  <2>4. Taken(r)
    BY <1>2 DEF RegisterInv, NamesTaken
  <2> QED
    BY <1>1, <2>3, <2>4, NamesStayTaken
<1>3. CASE body' = body
  <2>1. ASSUME NEW c \in BlockIds, NEW i \in 1..Len(body'[c]), NEW r, r = body'[c][i].result, r # NoResult
        PROVE  Taken(r)'
    BY <1>2, <1>3, <2>1
  <2>2. NamesTaken'
    BY <2>1 DEF NamesTaken, Taken, BlockIds, AllFunctions, NoResult
  <2>3. RegistersDiffer'
    BY <1>3 DEF RegisterInv, RegistersDiffer, BlockIds, AllFunctions, NoResult
  <2> QED
    BY <2>2, <2>3 DEF RegisterInv
<1>4. CASE InstructionInserted
  <2>1. PICK b \in BlockIds, inst \in Instructions :
          /\ Origin(inst)
          /\ \A c \in BlockIds : c # b => body'[c] = body[c]
          /\ body[b] \in Seq(Instructions) /\ body'[b] \in Seq(Instructions)
          /\ \E p \in 1..(Len(body[b]) + 1) : PlacedAt(p, body'[b], body[b], inst)
    BY <1>4, BodyStep
  <2>2. PICK p \in 1..(Len(body[b]) + 1) : PlacedAt(p, body'[b], body[b], inst)
    BY <2>1
  <2>3. p \in Nat /\ body'[b][p] = inst
    BY <2>2 DEF PlacedAt
  <2>4. inst.result # NoResult => ~Taken(inst.result) /\ Taken(inst.result)'
    BY <1>1, <2>1, FreshName DEF Origin
  <2> DEFINE before(c, j) == IF c = b /\ j > p THEN j - 1 ELSE j
  <2>5. ASSUME NEW c \in BlockIds, NEW j \in 1..Len(body'[c]), ~(c = b /\ j = p)
        PROVE  before(c, j) \in 1..Len(body[c]) /\ body'[c][j] = body[c][before(c, j)]
    <3>1. CASE c = b
      <4>1. PICK old, new : old = body[b] /\ new = body'[b]
        OBVIOUS
      <4>2. /\ old \in Seq(Instructions) /\ new \in Seq(Instructions) /\ p \in 1..(Len(old) + 1)
            /\ PlacedAt(p, new, old, inst) /\ j \in 1..Len(new) /\ j # p
        BY <2>1, <2>2, <2>5, <3>1, <4>1
      <4>3. LET i == IF j < p THEN j ELSE j - 1 IN i \in 1..Len(old) /\ new[j] = old[i]
        BY <4>2, OldOrNew
      <4>4. before(c, j) = IF j < p THEN j ELSE j - 1
        BY <2>3, <3>1, <4>2
      <4> QED
        BY <3>1, <4>1, <4>3, <4>4
    <3>2. CASE c # b
      BY <2>1, <2>5, <3>2
    <3> QED
      BY <3>1, <3>2
  <2>6. ASSUME NEW c \in BlockIds, NEW j \in 1..Len(body'[c]), NEW r, r = body'[c][j].result, r # NoResult
        PROVE  Taken(r)'
    <3>1. CASE c = b /\ j = p
      BY <2>3, <2>4, <2>6, <3>1
    <3>2. CASE ~(c = b /\ j = p)
      <4>1. PICK i \in 1..Len(body[c]) : body'[c][j] = body[c][i]
        BY <2>5, <3>2
      <4> QED
        BY <1>2, <2>6, <4>1
    <3> QED
      BY <3>1, <3>2
  <2>7. ASSUME NEW c \in BlockIds, NEW d \in BlockIds, NEW i \in 1..Len(body'[c]), NEW j \in 1..Len(body'[d]),
               body'[c][i].result = body'[d][j].result, body'[c][i].result # NoResult
        PROVE  c = d /\ i = j
    <3>1. CASE c = b /\ i = p
      <4>1. CASE d = b /\ j = p
        BY <3>1, <4>1
      <4>2. CASE ~(d = b /\ j = p)
        <5>1. PICK k \in 1..Len(body[d]) : body'[d][j] = body[d][k]
          BY <2>5, <4>2
        <5>2. Taken(inst.result) /\ inst.result # NoResult
          BY <1>2, <2>3, <2>7, <3>1, <5>1
        <5> QED
          BY <2>4, <5>2
      <4> QED
        BY <4>1, <4>2
    <3>2. CASE ~(c = b /\ i = p) /\ d = b /\ j = p
      <4>1. PICK k \in 1..Len(body[c]) : body'[c][i] = body[c][k]
        BY <2>5, <3>2
      <4>2. Taken(inst.result) /\ inst.result # NoResult
        BY <1>2, <2>3, <2>7, <3>2, <4>1
      <4> QED
        BY <2>4, <4>2
    <3>3. CASE ~(c = b /\ i = p) /\ ~(d = b /\ j = p)
      <4>1. /\ before(c, i) \in 1..Len(body[c]) /\ body'[c][i] = body[c][before(c, i)]
            /\ before(d, j) \in 1..Len(body[d]) /\ body'[d][j] = body[d][before(d, j)]
        BY <2>5, <3>3
      <4> HIDE DEF before
      <4>2. c = d /\ before(c, i) = before(d, j)
        BY <2>7, <4>1 DEF RegisterInv, RegistersDiffer
      <4>3. i = j
        <5>1. i \in Int /\ j \in Int
          OBVIOUS
        <5> QED
          BY <2>3, <3>3, <4>2, <5>1 DEF before
      <4> QED
        BY <4>2, <4>3
    <3> QED
      BY <3>1, <3>2, <3>3
  <2>8. NamesTaken'
    BY <2>6 DEF NamesTaken, Taken, BlockIds, AllFunctions, NoResult
  <2>9. RegistersDiffer'
    BY <2>7 DEF RegistersDiffer, BlockIds, AllFunctions, NoResult
  <2> QED
    BY <2>8, <2>9 DEF RegisterInv
<1> QED
  BY <1>3, <1>4, BlocksChange DEF IndInv, BlocksKept, BlockAdded

(***************************************************************************)
(* No register is defined twice, over all functions, hints and series,     *)
(* also when an insertion throws after its name was taken (create_temp).   *)
(***************************************************************************)
THEOREM RegistersAreUnique == Spec => []UniqueRegisters
<1>1. Init => RegisterInv
  BY DEF Init, RegisterInv, NamesTaken, RegistersDiffer
<1>2. IndInv /\ RegisterInv /\ [Next]_vars => RegisterInv'
  BY RegisterStep
<1>3. IndInv /\ RegisterInv => UniqueRegisters
  <2> SUFFICES ASSUME IndInv, RegisterInv,
                      NEW b \in BlockIds, NEW c \in BlockIds, NEW i \in DOMAIN body[b], NEW j \in DOMAIN body[c],
                      body[b][i].result = body[c][j].result, body[b][i].result # NoResult
               PROVE  b = c /\ i = j
    BY DEF UniqueRegisters
  <2>1. body[b] \in Seq(Instructions) /\ body[c] \in Seq(Instructions)
    BY DEF IndInv, BaseInv, TypeOK
  <2>2. i \in 1..Len(body[b]) /\ j \in 1..Len(body[c])
    BY <2>1
  <2> QED
    BY <2>2 DEF RegisterInv, RegistersDiffer
<1> QED
  BY <1>1, <1>2, <1>3, Inductive, PTL DEF Spec
=============================================================================
