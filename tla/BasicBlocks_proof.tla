-------------------------- MODULE BasicBlocks_proof --------------------------
(***************************************************************************)
(* Lemmas about BasicBlock::append, for bodies of any length.              *)
(***************************************************************************)
EXTENDS BasicBlocks, SequenceTheorems, TLAPS

-----------------------------------------------------------------------------
(* Sequences *)

(* The elements of a part of a sequence that starts and ends inside it. *)
LEMMA SubSeqShape ==
  ASSUME NEW S, NEW s \in Seq(S), NEW a \in Nat \ {0}, NEW b \in Nat, a <= b + 1, b <= Len(s)
  PROVE  /\ SubSeq(s, a, b) \in Seq(S)
         /\ Len(SubSeq(s, a, b)) = b - a + 1
         /\ \A i \in 1..(b - a + 1) : SubSeq(s, a, b)[i] = s[a + i - 1]
<1>1. \A i \in a..b : s[i] \in S
  OBVIOUS
<1>2. a \in Int /\ b \in Int
  OBVIOUS
<1>3. /\ SubSeq(s, a, b) \in Seq(S)
      /\ Len(SubSeq(s, a, b)) = IF a <= b THEN b - a + 1 ELSE 0
      /\ \A i \in 1..(b - a + 1) : SubSeq(s, a, b)[i] = s[a + i - 1]
  BY <1>1, <1>2, SubSeqProperties
<1>4. CASE a <= b
  BY <1>3, <1>4
<1>5. CASE a = b + 1
  BY <1>3, <1>5
<1> QED
  BY <1>4, <1>5

(* Where the elements of a sequence are after an insertion. *)
LEMMA InsertShape ==
  ASSUME NEW S, NEW s \in Seq(S), NEW e \in S, NEW k \in 1..Len(s)
  PROVE  /\ InsertAt(s, k, e) \in Seq(S)
         /\ Len(InsertAt(s, k, e)) = Len(s) + 1
         /\ \A i \in 1..(Len(s) + 1) :
              InsertAt(s, k, e)[i] = IF i < k THEN s[i] ELSE IF i = k THEN e ELSE s[i - 1]
<1> DEFINE front == SubSeq(s, 1, k - 1)
           back == SubSeq(s, k, Len(s))
           middle == front \o <<e>>
<1>1. Len(s) \in Nat
  OBVIOUS
<1>2. /\ front \in Seq(S)
      /\ Len(front) = k - 1
      /\ \A i \in 1..(k - 1) : front[i] = s[i]
  <2>1. 1 \in Nat \ {0} /\ k - 1 \in Nat /\ 1 <= k - 1 + 1 /\ k - 1 <= Len(s)
    BY <1>1
  <2>2. /\ front \in Seq(S)
        /\ Len(front) = k - 1 - 1 + 1
        /\ \A i \in 1..(k - 1 - 1 + 1) : front[i] = s[1 + i - 1]
    BY <2>1, SubSeqShape
  <2> QED
    BY <2>2
<1>3. /\ back \in Seq(S)
      /\ Len(back) = Len(s) - k + 1
      /\ \A i \in 1..(Len(s) - k + 1) : back[i] = s[k + i - 1]
  BY <1>1, SubSeqShape
<1> HIDE DEF front, back
<1>4. /\ middle \in Seq(S)
      /\ Len(middle) = k
      /\ \A i \in 1..k : middle[i] = IF i < k THEN s[i] ELSE e
  <2>1. <<e>> \in Seq(S) /\ Len(<<e>>) = 1 /\ <<e>>[1] = e
    OBVIOUS
  <2>2. /\ middle \in Seq(S)
        /\ Len(middle) = Len(front) + Len(<<e>>)
        /\ \A i \in 1..(Len(front) + Len(<<e>>)) :
             middle[i] = IF i <= Len(front) THEN front[i] ELSE <<e>>[i - Len(front)]
    BY <1>2, <2>1, ConcatProperties
  <2> QED
    BY <1>2, <2>1, <2>2
<1>5. InsertAt(s, k, e) = middle \o back
  BY DEF InsertAt, front, back
<1> HIDE DEF middle
<1>6. /\ middle \o back \in Seq(S)
      /\ Len(middle \o back) = Len(middle) + Len(back)
      /\ \A i \in 1..(Len(middle) + Len(back)) :
           (middle \o back)[i] = IF i <= Len(middle) THEN middle[i] ELSE back[i - Len(middle)]
  BY <1>3, <1>4, ConcatProperties
<1> QED
  BY <1>1, <1>3, <1>4, <1>5, <1>6
-----------------------------------------------------------------------------
(* BasicBlock::append *)

(***************************************************************************)
(* In a block whose only terminator is last, the instruction before which  *)
(* insert_before_terminator inserts is the last one.                       *)
(***************************************************************************)
LEMMA OnlyTerminator ==
  ASSUME NEW S, NEW code \in Seq(S), terminator_last(code), ends_in_terminator(code)
  PROVE  terminators(code) = {Len(code)}
BY DEF terminator_last, ends_in_terminator, terminators

(***************************************************************************)
(* The shape of an append: the block grows by one instruction, which is    *)
(* the last one, or the last but one when a terminator is last already.    *)
(***************************************************************************)
LEMMA AppendShape ==
  ASSUME NEW S, NEW code \in Seq(S), NEW inst \in S, terminator_last(code)
  PROVE  /\ append(code, inst) \in Seq(S)
         /\ Len(append(code, inst)) = Len(code) + 1
         /\ ends_in_terminator(code) =>
              /\ \A i \in 1..(Len(code) - 1) : append(code, inst)[i] = code[i]
              /\ append(code, inst)[Len(code)] = inst
              /\ append(code, inst)[Len(code) + 1] = code[Len(code)]
         /\ ~ends_in_terminator(code) => append(code, inst) = Append(code, inst)
<1>1. CASE ends_in_terminator(code)
  <2>1. terminators(code) = {Len(code)}
    BY <1>1, OnlyTerminator
  <2>2. (CHOOSE i \in terminators(code) : \A j \in terminators(code) : i <= j) = Len(code)
    BY <2>1
  <2>3. append(code, inst) = InsertAt(code, Len(code), inst)
    BY <1>1, <2>1, <2>2 DEF append, insert_before_terminator
  <2>4. Len(code) \in Nat /\ Len(code) >= 1
    BY <1>1 DEF ends_in_terminator
  <2>5. /\ append(code, inst) \in Seq(S)
        /\ Len(append(code, inst)) = Len(code) + 1
        /\ \A i \in 1..(Len(code) + 1) :
             append(code, inst)[i] = IF i < Len(code) THEN code[i]
                                     ELSE IF i = Len(code) THEN inst ELSE code[i - 1]
    <3>1. PICK k \in 1..Len(code) : k = Len(code)
      BY <2>4
    <3>2. InsertAt(code, k, inst) \in Seq(S)
      BY InsertShape
    <3>3. Len(InsertAt(code, k, inst)) = Len(code) + 1
      BY InsertShape
    <3>4. \A i \in 1..(Len(code) + 1) :
            InsertAt(code, k, inst)[i] = IF i < k THEN code[i]
                                         ELSE IF i = k THEN inst ELSE code[i - 1]
      BY InsertShape, SMTT(30)
    <3> QED
      BY <2>3, <3>1, <3>2, <3>3, <3>4
  <2>6. \A i \in 1..(Len(code) - 1) : append(code, inst)[i] = code[i]
    BY <2>4, <2>5
  <2>7. append(code, inst)[Len(code)] = inst
    BY <2>4, <2>5
  <2>8. append(code, inst)[Len(code) + 1] = code[Len(code)]
    BY <2>4, <2>5
  <2> QED
    BY <1>1, <2>5, <2>6, <2>7, <2>8
<1>2. CASE ~ends_in_terminator(code)
  BY <1>2 DEF append
<1> QED
  BY <1>1, <1>2

(***************************************************************************)
(* append keeps terminators last, unless it throws.                        *)
(***************************************************************************)
LEMMA AppendKeepsTerminatorLast ==
  ASSUME NEW S, NEW code \in Seq(S), NEW inst \in S,
         terminator_last(code), ~append_throws(code, inst)
  PROVE  terminator_last(append(code, inst))
<1> DEFINE new == append(code, inst)
<1>1. CASE ends_in_terminator(code)
  <2>1. ~is_terminator(inst)
    BY <1>1 DEF append_throws
  <2>2. /\ Len(code) \in Nat
        /\ Len(new) = Len(code) + 1
        /\ \A i \in 1..(Len(code) - 1) : new[i] = code[i]
        /\ new[Len(code)] = inst
    <3>1. Len(new) = Len(code) + 1
      BY AppendShape
    <3>2. \A i \in 1..(Len(code) - 1) : new[i] = code[i]
      BY <1>1, AppendShape
    <3>3. new[Len(code)] = inst
      BY <1>1, AppendShape
    <3>4. Len(code) \in Nat
      BY LenProperties
    <3> QED
      BY <3>1, <3>2, <3>3, <3>4
  <2>3. \A i \in 1..(Len(code) - 1) : ~is_terminator(code[i])
    BY DEF terminator_last
  <2> HIDE DEF new
  <2>4. \A i \in 1..Len(new) : is_terminator(new[i]) => i = Len(new)
    BY <2>1, <2>2, <2>3
  <2> QED
    BY <2>4 DEF terminator_last, new
<1>2. CASE ~ends_in_terminator(code)
  <2>1. new = Append(code, inst)
    BY <1>2, AppendShape
  <2>2. \A i \in 1..Len(code) : ~is_terminator(code[i])
    BY <1>2 DEF terminator_last, ends_in_terminator
  <2>3. /\ Len(new) = Len(code) + 1
        /\ \A i \in 1..Len(code) : new[i] = code[i]
    BY <2>1
  <2> HIDE DEF new
  <2>4. \A i \in 1..Len(new) : is_terminator(new[i]) => i = Len(new)
    BY <2>2, <2>3
  <2> QED
    BY <2>4 DEF terminator_last, new
<1> QED
  BY <1>1, <1>2

(* A body of which nothing is known but that terminators are last. *)
is_seq(s) == s \in Seq(Range(s))
is_code(code) == is_seq(code) /\ terminator_last(code)

LEMMA IsSeq ==
  ASSUME NEW S, NEW s \in Seq(S)
  PROVE  is_seq(s)
BY SeqOfRange DEF is_seq

LEMMA EmptyIsCode == is_code(<< >>) /\ ~ends_in_terminator(<< >>)
<1>1. << >> \in Seq({}) /\ Len(<< >>) = 0
  BY EmptySeq
<1>2. is_seq(<< >>)
  BY <1>1, IsSeq
<1> QED
  BY <1>1, <1>2 DEF is_code, terminator_last, ends_in_terminator

(***************************************************************************)
(* What one append makes of a body: it stays a body unless it throws, and  *)
(* only an instruction that is a terminator ends it; in a body that has    *)
(* its terminator the instruction becomes the last but one.                *)
(***************************************************************************)
LEMMA CodeAppend ==
  ASSUME NEW code, is_code(code), NEW inst, ~append_throws(code, inst)
  PROVE  /\ is_code(append(code, inst))
         /\ ends_in_terminator(append(code, inst)) <=> ends_in_terminator(code) \/ is_terminator(inst)
         /\ Len(append(code, inst)) = Len(code) + 1
         /\ ends_in_terminator(code) =>
              /\ \A i \in 1..(Len(code) - 1) : append(code, inst)[i] = code[i]
              /\ append(code, inst)[Len(code)] = inst
              /\ append(code, inst)[Len(code) + 1] = code[Len(code)]
<1> DEFINE S == Range(code) \cup {inst}
           new == append(code, inst)
<1>1. code \in Seq(S) /\ inst \in S /\ Len(code) \in Nat
  <2>1. code \in Seq(Range(code))
    BY DEF is_code, is_seq
  <2> QED
    BY <2>1, SeqMonotonic
<1>2. terminator_last(code)
  BY DEF is_code
<1> HIDE DEF S
<1>3. /\ new \in Seq(S)
      /\ Len(new) = Len(code) + 1
      /\ ends_in_terminator(code) =>
              /\ \A i \in 1..(Len(code) - 1) : new[i] = code[i]
              /\ new[Len(code)] = inst
              /\ new[Len(code) + 1] = code[Len(code)]
      /\ ~ends_in_terminator(code) => new = Append(code, inst)
  BY <1>1, <1>2, AppendShape
<1>4. terminator_last(new)
  BY <1>1, <1>2, AppendKeepsTerminatorLast
<1> HIDE DEF new
<1>5. is_code(new)
  BY <1>3, <1>4, IsSeq DEF is_code
<1>6. ends_in_terminator(new) <=> ends_in_terminator(code) \/ is_terminator(inst)
  <2>1. CASE ends_in_terminator(code)
    BY <1>1, <1>3, <2>1 DEF ends_in_terminator
  <2>2. CASE ~ends_in_terminator(code)
    BY <1>1, <1>3, <2>2 DEF ends_in_terminator
  <2> QED
    BY <2>1, <2>2
<1> QED
  BY <1>3, <1>5, <1>6 DEF new
=============================================================================
