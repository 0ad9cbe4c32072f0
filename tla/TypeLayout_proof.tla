-------------------------- MODULE TypeLayout_proof --------------------------
(***************************************************************************)
(* For every program: the chain of calls that measure structs, the         *)
(* agreement of the two caches, the sizes themselves and the refusals.     *)
(*                                                                         *)
(* NamesInv ties the names declared and defined to the steps of the walk   *)
(* that are done: no two defined structs share a name, so what the caches  *)
(* have under a name is the measure of one struct.  CallsInv says how the  *)
(* calls under way hang together.  CachesInv says what has been measured:  *)
(* the structs measured hold each other and not in a circle, so k of them  *)
(* nest at most k deep, and at every level from k on their layouts are     *)
(* those in the caches.  FramesInv says the same of the fields a call has  *)
(* placed.                                                                 *)
(***************************************************************************)
EXTENDS TypeLayoutSound, SequenceTheorems, FiniteSetTheorems, WellFoundedInduction, TLAPS

AnySequence(s) == \E S : s \in Seq(S)

(* A call under way is a decl, a position in its fields and a layout. *)
FramesShaped ==
  /\ AnySequence(frames)
  /\ \A i \in DOMAIN frames : DOMAIN frames[i] = {"decl", "field", "layout"}

ChainInv == FramesShaped /\ InProgressIsStack

(* A sequence of anything has its length and positions. *)
LEMMA SequencePositions ==
  ASSUME NEW s, AnySequence(s)
  PROVE  Len(s) \in Nat /\ DOMAIN s = 1..Len(s)
BY DEF AnySequence

(* One more element. *)
LEMMA Appended ==
  ASSUME NEW s, NEW x, AnySequence(s)
  PROVE  /\ AnySequence(Append(s, x))
         /\ DOMAIN Append(s, x) = DOMAIN s \cup {Len(s) + 1}
         /\ Append(s, x)[Len(s) + 1] = x
         /\ \A i \in DOMAIN s : Append(s, x)[i] = s[i] /\ i # Len(s) + 1
<1>1. PICK S : s \in Seq(S)
  BY DEF AnySequence
<1>2. s \in Seq(S \cup {x}) /\ x \in S \cup {x}
  BY <1>1
<1>3. Append(s, x) \in Seq(S \cup {x})
  BY <1>2
<1>4. Len(s) \in Nat /\ DOMAIN s = 1..Len(s)
  BY <1>1
<1>5. Len(Append(s, x)) = Len(s) + 1
  BY <1>2
<1>6. DOMAIN Append(s, x) = 1..(Len(s) + 1)
  BY <1>3, <1>5
<1>7. DOMAIN Append(s, x) = DOMAIN s \cup {Len(s) + 1}
  BY <1>4, <1>6
<1>8. Append(s, x)[Len(s) + 1] = x
  BY <1>2
<1>9. \A i \in DOMAIN s : Append(s, x)[i] = s[i] /\ i # Len(s) + 1
  BY <1>2, <1>4
<1> QED
  BY <1>3, <1>7, <1>8, <1>9 DEF AnySequence

(* All but the last element. *)
LEMMA WithoutLast ==
  ASSUME NEW s, AnySequence(s), s # <<>>
  PROVE  /\ AnySequence(Front(s))
         /\ Len(s) \in DOMAIN s
         /\ DOMAIN Front(s) = DOMAIN s \ {Len(s)}
         /\ \A i \in DOMAIN Front(s) : Front(s)[i] = s[i]
<1>1. PICK S : s \in Seq(S)
  BY DEF AnySequence
<1>2. Len(s) \in Nat /\ DOMAIN s = 1..Len(s) /\ Len(s) # 0
  BY <1>1
<1>3. Front(s) = [i \in 1..(Len(s) - 1) |-> s[i]]
  BY <1>1, <1>2 DEF Front
<1>4. Front(s) \in Seq(S)
  BY <1>1, <1>2, <1>3
<1>5. DOMAIN Front(s) = 1..(Len(s) - 1)
  BY <1>3
<1>6. DOMAIN Front(s) = DOMAIN s \ {Len(s)} /\ Len(s) \in DOMAIN s
  BY <1>2, <1>5
<1>7. \A i \in DOMAIN Front(s) : Front(s)[i] = s[i]
  BY <1>3
<1> QED
  BY <1>4, <1>6, <1>7 DEF AnySequence

(* A step that touches neither the calls nor what is in progress. *)
LEMMA ChainUntouched ==
  ASSUME ChainInv, UNCHANGED <<program, struct_size_in_progress, frames>>
  PROVE  ChainInv'
BY DEF ChainInv, FramesShaped, AnySequence, InProgressIsStack, name_at

(* Entering a struct: it is not in progress, or the call would be refused. *)
LEMMA ChainEntered ==
  ASSUME ChainInv, EnterStruct
  PROVE  ChainInv'
<1> DEFINE name == name_of(Wanted.base)
           new == [decl |-> Wanted.base.decl, field |-> 1, layout |-> Empty]
<1> PICK last : last = Len(frames) + 1
  OBVIOUS
<1>1. name \notin struct_size_in_progress
  BY DEF EnterStruct, size_error
<1>2. frames' = Append(frames, new) /\ struct_size_in_progress' = struct_size_in_progress \cup {name}
  BY DEF EnterStruct
<1>3. program' = program
  BY DEF EnterStruct
<1>4. program[new.decl].name = name
  BY DEF EnterStruct, name_of
<1>5. DOMAIN new = {"decl", "field", "layout"}
  OBVIOUS
<1>6. AnySequence(frames)
  BY DEF ChainInv, FramesShaped
<1> HIDE DEF name, new
<1>7. /\ AnySequence(Append(frames, new))
      /\ DOMAIN Append(frames, new) = DOMAIN frames \cup {last}
      /\ Append(frames, new)[last] = new
      /\ \A i \in DOMAIN frames : Append(frames, new)[i] = frames[i] /\ i # last
  BY <1>6, Appended
<1>8. FramesShaped'
  BY <1>2, <1>5, <1>7 DEF ChainInv, FramesShaped, AnySequence
<1>9. /\ DOMAIN frames' = DOMAIN frames \cup {last}
      /\ \A i \in DOMAIN frames : frames'[i] = frames[i]
      /\ frames'[last] = new
  BY <1>2, <1>7
<1>10. /\ \A i \in DOMAIN frames : name_at(i)' = name_at(i)
       /\ name_at(last)' = name
  BY <1>3, <1>4, <1>9 DEF name_at
<1>11. InProgressIsStack'
  <2>1. struct_size_in_progress' = {name_at(i)' : i \in DOMAIN frames'}
    BY <1>2, <1>9, <1>10 DEF ChainInv, InProgressIsStack
  <2>2. \A i, j \in DOMAIN frames' : name_at(i)' = name_at(j)' => i = j
    <3>1. \A i \in DOMAIN frames : name_at(i) # name
      BY <1>1 DEF ChainInv, InProgressIsStack
    <3> QED
      BY <1>9, <1>10, <3>1 DEF ChainInv, InProgressIsStack
  <2> QED
    BY <2>1, <2>2 DEF InProgressIsStack
<1> QED
  BY <1>8, <1>11 DEF ChainInv

(* Placing a field leaves the struct of every call. *)
LEMMA ChainPlaced ==
  ASSUME ChainInv, PlaceField
  PROVE  ChainInv'
<1>1. CASE UNCHANGED frames
  BY <1>1, ChainUntouched DEF PlaceField, Throw, measuring
<1>2. CASE ~UNCHANGED frames
  <2> DEFINE last == Len(frames)
  <2>1. PICK f, l : frames' = [frames EXCEPT ![last] = [decl |-> frame.decl, field |-> f, layout |-> l]]
    BY <1>2 DEF PlaceField, Throw, measuring
  <2>2. UNCHANGED <<program, struct_size_in_progress>>
    BY <1>2 DEF PlaceField, Throw, measuring
  <2>3. AnySequence(frames) /\ frames # <<>>
    BY DEF ChainInv, FramesShaped, PlaceField
  <2>4. last \in DOMAIN frames
    BY <2>3, WithoutLast
  <2> DEFINE r == [decl |-> frame.decl, field |-> f, layout |-> l]
  <2>5. frames' = [frames EXCEPT ![last] = r] /\ r.decl = frames[last].decl
          /\ DOMAIN r = {"decl", "field", "layout"}
    BY <2>1 DEF frame
  <2> HIDE DEF r
  <2> HIDE DEF last
  <2>7. DOMAIN frames' = DOMAIN frames
    BY <2>5
  <2>8. \A i \in DOMAIN frames : frames'[i].decl = frames[i].decl
                               /\ DOMAIN frames'[i] = {"decl", "field", "layout"}
    BY <2>4, <2>5 DEF ChainInv, FramesShaped
  <2>9. AnySequence(frames')
    <3>1. PICK S : frames \in Seq(S)
      BY <2>3 DEF AnySequence
    <3>2. frames \in Seq(S \cup {r})
      BY <3>1
    <3>3. frames' \in Seq(S \cup {r})
      BY <2>4, <2>5, <3>2
    <3> QED
      BY <3>3 DEF AnySequence
  <2>10. \A i \in DOMAIN frames : name_at(i)' = name_at(i)
    BY <2>2, <2>8 DEF name_at
  <2> QED
    BY <2>2, <2>7, <2>8, <2>9, <2>10 DEF ChainInv, FramesShaped, AnySequence, InProgressIsStack
<1> QED
  BY <1>1, <1>2

(* The struct that is finished is the last call, and no other has its name. *)
LEMMA ChainFinished ==
  ASSUME ChainInv, FinishStruct
  PROVE  ChainInv'
<1> DEFINE last == Len(frames)
           name == name_at(last)
<1>1. /\ frames' = Front(frames)
      /\ struct_size_in_progress' = struct_size_in_progress \ {name}
      /\ program' = program
  BY DEF FinishStruct, frame, name_at, erased
<1>2. AnySequence(frames) /\ frames # <<>>
  BY DEF ChainInv, FramesShaped, FinishStruct, HasField
<1>3. /\ AnySequence(Front(frames))
      /\ last \in DOMAIN frames
      /\ DOMAIN Front(frames) = DOMAIN frames \ {last}
      /\ \A i \in DOMAIN Front(frames) : Front(frames)[i] = frames[i]
  BY <1>2, WithoutLast
<1>4. FramesShaped'
  BY <1>1, <1>3 DEF ChainInv, FramesShaped, AnySequence
<1> HIDE DEF last
<1>5. DOMAIN frames' = DOMAIN frames \ {last} /\ \A i \in DOMAIN frames' : frames'[i] = frames[i]
  BY <1>1, <1>3
<1>6. \A i \in DOMAIN frames' : name_at(i)' = name_at(i)
  BY <1>1, <1>5 DEF name_at
<1>7. struct_size_in_progress' = {name_at(i)' : i \in DOMAIN frames'}
  BY <1>1, <1>3, <1>5, <1>6 DEF ChainInv, InProgressIsStack
<1>8. \A i, j \in DOMAIN frames' : name_at(i)' = name_at(j)' => i = j
  BY <1>5, <1>6 DEF ChainInv, InProgressIsStack
<1> QED
  BY <1>4, <1>7, <1>8 DEF ChainInv, InProgressIsStack

(* The structs in progress are the calls under way, each name once. *)
THEOREM ChainOfStructs == Spec => []InProgressIsStack
<1>1. Init => ChainInv
  <2> SUFFICES ASSUME Init PROVE ChainInv
    OBVIOUS
  <2>1. frames = <<>> /\ struct_size_in_progress = {}
    BY DEF Init
  <2>2. AnySequence(frames) /\ DOMAIN frames = {}
    BY <2>1 DEF AnySequence
  <2> QED
    BY <2>1, <2>2 DEF ChainInv, FramesShaped, InProgressIsStack
<1>2. ChainInv /\ [Next]_vars => ChainInv'
  <2> SUFFICES ASSUME ChainInv, [Next]_vars PROVE ChainInv'
    OBVIOUS
  <2>1. ASSUME NEW d, DeclareStub(d) PROVE ChainInv'
    BY <2>1, ChainUntouched DEF DeclareStub, measuring
  <2>2. ASSUME NEW d, DefineFields(d) PROVE ChainInv'
    BY <2>2, ChainUntouched DEF DefineFields, Throw, measuring
  <2>3. ASSUME NEW d, AskStruct(d) PROVE ChainInv'
    BY <2>3, ChainUntouched DEF AskStruct, Ask, measuring
  <2>4. CASE Query
    BY <2>4, ChainUntouched DEF Query, Ask, measuring
  <2>5. CASE Refuse
    BY <2>5, ChainUntouched DEF Refuse, Throw, measuring
  <2>6. CASE MeasureBuiltin
    BY <2>6, ChainUntouched DEF MeasureBuiltin
  <2>7. CASE EnterStruct
    BY <2>7, ChainEntered
  <2>8. CASE PlaceField
    BY <2>8, ChainPlaced
  <2>9. CASE FinishStruct
    BY <2>9, ChainFinished
  <2>10. CASE Answer
    BY <2>10, ChainUntouched DEF Answer, measuring
  <2>11. CASE UNCHANGED vars
    BY <2>11, ChainUntouched DEF vars, measuring
  <2> QED
    BY <2>1, <2>2, <2>3, <2>4, <2>5, <2>6, <2>7, <2>8, <2>9, <2>10, <2>11 DEF Next, visit_scope, Layout
<1>3. ChainInv => InProgressIsStack
  BY DEF ChainInv
<1> QED
  BY <1>1, <1>2, <1>3, PTL DEF Spec

-----------------------------------------------------------------------------
(* Both caches grow by the same name. *)
LEMMA CachesRemember ==
  ASSUME AlignmentsCached, NEW name, NEW layout, Remember(name, layout), UNCHANGED error
  PROVE  AlignmentsCached'
<1>1. DOMAIN struct_size_cache' = DOMAIN struct_size_cache \cup {name}
  BY DEF Remember, Entered
<1>2. DOMAIN struct_align_cache' = DOMAIN struct_align_cache \cup {name}
  BY DEF Remember, Entered
<1> QED
  BY <1>1, <1>2 DEF AlignmentsCached

(* alignment_of always finds the struct whose size was just found. *)
THEOREM AlignmentsAreCached == Spec => []AlignmentsCached
<1>1. Init => AlignmentsCached
  BY DEF Init, AlignmentsCached
<1>2. AlignmentsCached /\ [Next]_vars => AlignmentsCached'
  <2> SUFFICES ASSUME AlignmentsCached, [Next]_vars PROVE AlignmentsCached'
    OBVIOUS
  <2> USE DEF AlignmentsCached
  <2>1. ASSUME NEW d, DeclareStub(d) PROVE AlignmentsCached'
    BY <2>1 DEF DeclareStub, measuring, caches
  <2>2. ASSUME NEW d, DefineFields(d) PROVE AlignmentsCached'
    <3>1. define_error(program[d]) # "struct alignment cache missing"
      BY DEF define_error, lower_error
    <3> QED
      BY <2>2, <3>1 DEF DefineFields, Throw, measuring, caches
  <2>3. ASSUME NEW d, AskStruct(d) PROVE AlignmentsCached'
    BY <2>3 DEF AskStruct, Ask, measuring, caches
  <2>4. CASE Query
    BY <2>4 DEF Query, Ask, measuring, caches
  <2>5. CASE Refuse
    <3>1. size_error(Wanted) # "struct alignment cache missing"
      BY DEF size_error
    <3> QED
      BY <2>5, <3>1 DEF Refuse, Throw, measuring, caches
  <2>6. CASE MeasureBuiltin
    BY <2>6, CachesRemember DEF MeasureBuiltin
  <2>7. CASE EnterStruct
    BY <2>7 DEF EnterStruct, caches
  <2>8. CASE PlaceField
    <3>1. Aligned(Wanted.base)
      BY <2>8 DEF PlaceField, Measured, Aligned
    <3> QED
      BY <2>8, <3>1 DEF PlaceField, caches
  <2>9. CASE FinishStruct
    BY <2>9, CachesRemember DEF FinishStruct
  <2>10. CASE Answer
    BY <2>10 DEF Answer, measuring, caches
  <2>11. CASE UNCHANGED vars
    BY <2>11 DEF vars, measuring, caches
  <2> QED
    BY <2>1, <2>2, <2>3, <2>4, <2>5, <2>6, <2>7, <2>8, <2>9, <2>10, <2>11 DEF Next, visit_scope, Layout
<1> QED
  BY <1>1, <1>2, PTL DEF Spec

-----------------------------------------------------------------------------
(* A set of naturals that is not empty has a least element. *)
LEMMA Least ==
  ASSUME NEW T \in SUBSET Nat, T # {}
  PROVE  \E n \in T : \A m \in T : n <= m
<1>1. \E n \in T : \A m \in T : ~(<<m, n>> \in OpToRel(<, Nat))
  BY WFMin, NatLessThanWellFounded
<1>2. \A m, n \in Nat : m < n => <<m, n>> \in OpToRel(<, Nat)
  BY Zenon DEF OpToRel
<1>3. \A m, n \in T : ~(<<m, n>> \in OpToRel(<, Nat)) => n <= m
  <2> SUFFICES ASSUME NEW m \in T, NEW n \in T, ~(n <= m) PROVE <<m, n>> \in OpToRel(<, Nat)
    OBVIOUS
  <2>1. m \in Nat /\ n \in Nat /\ m < n
    OBVIOUS
  <2> QED
    BY <1>2, <2>1
<1> DEFINE R == OpToRel(<, Nat)
<1>4. PICK n \in T : \A m \in T : ~(<<m, n>> \in R)
  BY <1>1, Zenon
<1>5. \A m, x \in T : ~(<<m, x>> \in R) => x <= m
  BY <1>3, Zenon
<1> HIDE DEF R
<1> QED
  BY <1>4, <1>5

(* Induction for one set: it has 0, and with a number the next one. *)
LEMMA UpToN ==
  ASSUME NEW n \in Nat, NEW T, 0 \in T, \A k \in 1..n : k - 1 \in T => k \in T
  PROVE  \A k \in 0..n : k \in T
<1> DEFINE out == {k \in 0..n : k \notin T}
<1> SUFFICES ASSUME out # {} PROVE FALSE
  OBVIOUS
<1>1. PICK k \in out : \A m \in out : k <= m
  <2>1. out \in SUBSET Nat
    OBVIOUS
  <2> QED
    BY <2>1, Least
<1>2. k \in 1..n /\ k - 1 \in 0..n /\ ~(k <= k - 1)
  BY <1>1
<1>3. k - 1 \in T
  BY <1>1, <1>2
<1> QED
  BY <1>1, <1>2, <1>3

-----------------------------------------------------------------------------
(* The recursive functions satisfy their equations: a solution up to k - 1 *)
(* extends to one up to k.                                                 *)

(* The elements of an array are a number. *)
LEMMA ElementsNat ==
  ASSUME NEW dims \in Seq(Nat)
  PROVE  elements(dims) \in Nat
<1> DEFINE len == Len(dims)
           step(f, i) == IF i = 0 THEN 1 ELSE f[i - 1] * dims[i]
           solves(f, k) == f = [i \in 0..k |-> step(f, i)]
           T == {k \in 0..len : \E f : solves(f, k)}
<1>1. len \in Nat /\ \A i \in 1..len : dims[i] \in Nat
  OBVIOUS
<1> HIDE DEF len
<1>2. 0 \in T
  <2> DEFINE f == [i \in 0..0 |-> 1]
  <2>1. solves(f, 0)
    OBVIOUS
  <2> HIDE DEF f, solves
  <2> QED
    BY <1>1, <2>1
<1>3. ASSUME NEW k \in 1..len, k - 1 \in T PROVE k \in T
  <2>1. PICK f : solves(f, k - 1)
    BY <1>3
  <2> DEFINE g == [i \in 0..k |-> IF i = k THEN f[k - 1] * dims[k] ELSE f[i]]
  <2>2. k \in 0..len /\ k \in Nat /\ k # 0 /\ k - 1 \in 0..(k - 1)
    BY <1>1, <1>3
  <2>3. \A i \in 0..k : g[i] = step(g, i)
    <3> SUFFICES ASSUME NEW i \in 0..k PROVE g[i] = step(g, i)
      OBVIOUS
    <3>1. CASE i = k
      <4>1. g[i] = f[k - 1] * dims[k] /\ g[k - 1] = f[k - 1]
        BY <2>2, <3>1
      <4> QED
        BY <2>2, <3>1, <4>1
    <3>2. CASE i # k
      <4>1. i \in 0..(k - 1) /\ (i # 0 => i - 1 \in 0..(k - 1) /\ i - 1 \in 0..k /\ i - 1 # k)
        BY <2>2, <3>2
      <4>2. g[i] = f[i] /\ f[i] = step(f, i)
        BY <2>1, <3>2, <4>1
      <4>3. i # 0 => g[i - 1] = f[i - 1]
        BY <4>1
      <4> QED
        BY <4>2, <4>3
    <3> QED
      BY <3>1, <3>2
  <2>4. solves(g, k)
    <3>1. g = [i \in 0..k |-> g[i]]
      OBVIOUS
    <3> HIDE DEF g, step
    <3> QED
      BY <2>3, <3>1
  <2> HIDE DEF g, solves
  <2> QED
    BY <2>2, <2>4
<1>4. len \in T
  <2> HIDE DEF T
  <2>1. \A k \in 0..len : k \in T
    BY <1>1, <1>2, <1>3, UpToN
  <2> QED
    BY <1>1, <2>1
<1> DEFINE product == CHOOSE f : solves(f, len)
<1>5. \E f : solves(f, len)
  BY <1>4
<1>6. solves(product, len)
  <2> HIDE DEF solves
  <2> QED
    BY <1>5
<1>7. elements(dims) = product[len]
  BY DEF elements, len
<1>8. \A k \in 0..len : k \in {i \in 0..len : product[i] \in Nat}
  <2> DEFINE P == {i \in 0..len : product[i] \in Nat}
  <2>1. \A i \in 0..len : product[i] = step(product, i)
    BY <1>6
  <2> HIDE DEF product
  <2>2. 0 \in P
    BY <1>1, <2>1
  <2>3. ASSUME NEW k \in 1..len, k - 1 \in P PROVE k \in P
    <3>1. k \in 0..len /\ k # 0 /\ product[k - 1] \in Nat
      BY <1>1, <2>3
    <3>2. product[k] = product[k - 1] * dims[k]
      BY <2>1, <3>1
    <3> QED
      BY <1>1, <3>1, <3>2
  <2> HIDE DEF P
  <2>4. \A k \in 0..len : k \in P
    BY <1>1, <2>2, <2>3, UpToN
  <2> QED
    BY <2>4 DEF P
<1> HIDE DEF product
<1> QED
  BY <1>1, <1>7, <1>8

(* Where a part of a layout ends. *)
LEMMA EndsEquation ==
  ASSUME NEW parts, Len(parts) \in Nat
  PROVE  /\ Ends(parts)[0] = 0
         /\ \A i \in 1..Len(parts) :
              Ends(parts)[i] = FirstMultiple(Ends(parts)[i - 1], parts[i].alignment) + parts[i].bytes
<1> DEFINE len == Len(parts)
           next(before_i, i) == FirstMultiple(before_i, parts[i].alignment) + parts[i].bytes
           step(f, i) == IF i = 0 THEN 0 ELSE next(f[i - 1], i)
           solves(f, k) == f = [i \in 0..k |-> step(f, i)]
           T == {k \in 0..len : \E f : solves(f, k)}
<1>1. len \in Nat
  OBVIOUS
<1>2. Ends(parts) = CHOOSE f : solves(f, len)
  BY DEF Ends
<1> HIDE DEF len, next
<1>3. 0 \in T
  <2> DEFINE f == [i \in 0..0 |-> 0]
  <2>1. solves(f, 0)
    OBVIOUS
  <2> HIDE DEF f, solves
  <2> QED
    BY <1>1, <2>1
<1>4. ASSUME NEW k \in 1..len, k - 1 \in T PROVE k \in T
  <2>1. PICK f : solves(f, k - 1)
    BY <1>4
  <2> DEFINE g == [i \in 0..k |-> IF i = k THEN next(f[k - 1], k) ELSE f[i]]
  <2>2. k \in 0..len /\ k \in Nat /\ k # 0 /\ k - 1 \in 0..(k - 1)
    BY <1>1, <1>4
  <2>3. \A i \in 0..k : g[i] = step(g, i)
    <3> SUFFICES ASSUME NEW i \in 0..k PROVE g[i] = step(g, i)
      OBVIOUS
    <3>1. CASE i = k
      <4>1. g[i] = next(f[k - 1], k) /\ g[k - 1] = f[k - 1]
        BY <2>2, <3>1
      <4> QED
        BY <2>2, <3>1, <4>1
    <3>2. CASE i # k
      <4>1. i \in 0..(k - 1) /\ (i # 0 => i - 1 \in 0..(k - 1) /\ i - 1 \in 0..k /\ i - 1 # k)
        BY <2>2, <3>2
      <4>2. g[i] = f[i] /\ f[i] = step(f, i)
        BY <2>1, <3>2, <4>1
      <4>3. i # 0 => g[i - 1] = f[i - 1]
        BY <4>1
      <4> QED
        BY <4>2, <4>3
    <3> QED
      BY <3>1, <3>2
  <2>4. solves(g, k)
    <3>1. g = [i \in 0..k |-> g[i]]
      OBVIOUS
    <3> HIDE DEF g, step
    <3> QED
      BY <2>3, <3>1
  <2> HIDE DEF g, solves
  <2> QED
    BY <2>2, <2>4
<1>5. \E f : solves(f, len)
  <2> HIDE DEF T
  <2>1. \A k \in 0..len : k \in T
    BY <1>1, <1>3, <1>4, UpToN
  <2> QED
    BY <1>1, <2>1 DEF T
<1>6. solves(Ends(parts), len)
  <2> HIDE DEF solves
  <2> QED
    BY <1>2, <1>5
<1>7. \A i \in 0..len : Ends(parts)[i] = step(Ends(parts), i)
  BY <1>6
<1> QED
  BY <1>1, <1>7 DEF len, next

(* A layout of one level more is laid out from those of the level below. *)
LEMMA NestedEquation ==
  ASSUME NEW p, Len(p) \in Nat
  PROVE  \A n \in 1..Len(p), d \in DOMAIN p :
           Nested(p)[n][d] = LaidOut(PartsOf(p, d, Nested(p)[n - 1]))
<1> DEFINE len == Len(p)
           over(inner, d) == LaidOut(PartsOf(p, d, inner))
           step(f, n) == [d \in DOMAIN p |-> IF n = 0 THEN Part(0, 1) ELSE over(f[n - 1], d)]
           solves(f, k) == f = [n \in 0..k |-> step(f, n)]
           T == {k \in 0..len : \E f : solves(f, k)}
<1>1. len \in Nat
  OBVIOUS
<1>2. Nested(p) = CHOOSE f : solves(f, len)
  BY DEF Nested
<1> HIDE DEF len, over
<1>3. 0 \in T
  <2> DEFINE f == [n \in 0..0 |-> [d \in DOMAIN p |-> Part(0, 1)]]
  <2>1. solves(f, 0)
    OBVIOUS
  <2> HIDE DEF f, solves
  <2> QED
    BY <1>1, <2>1
<1>4. ASSUME NEW k \in 1..len, k - 1 \in T PROVE k \in T
  <2>1. PICK f : solves(f, k - 1)
    BY <1>4
  <2> DEFINE g == [n \in 0..k |-> IF n = k THEN [d \in DOMAIN p |-> over(f[k - 1], d)] ELSE f[n]]
  <2>2. k \in 0..len /\ k \in Nat /\ k # 0 /\ k - 1 \in 0..(k - 1)
    BY <1>1, <1>4
  <2>3. \A n \in 0..k : g[n] = step(g, n)
    <3> SUFFICES ASSUME NEW n \in 0..k PROVE g[n] = step(g, n)
      OBVIOUS
    <3>1. CASE n = k
      <4>1. g[n] = [d \in DOMAIN p |-> over(f[k - 1], d)] /\ g[k - 1] = f[k - 1]
        BY <2>2, <3>1
      <4> QED
        BY <2>2, <3>1, <4>1
    <3>2. CASE n # k
      <4>1. n \in 0..(k - 1) /\ (n # 0 => n - 1 \in 0..(k - 1) /\ n - 1 \in 0..k /\ n - 1 # k)
        BY <2>2, <3>2
      <4>2. g[n] = f[n] /\ f[n] = step(f, n)
        BY <2>1, <3>2, <4>1
      <4>3. n # 0 => g[n - 1] = f[n - 1]
        BY <4>1
      <4> QED
        BY <4>2, <4>3
    <3> QED
      BY <3>1, <3>2
  <2>4. solves(g, k)
    <3>1. g = [n \in 0..k |-> g[n]]
      OBVIOUS
    <3> HIDE DEF g, step
    <3> QED
      BY <2>3, <3>1
  <2> HIDE DEF g, solves
  <2> QED
    BY <2>2, <2>4
<1>5. \E f : solves(f, len)
  <2> HIDE DEF T
  <2>1. \A k \in 0..len : k \in T
    BY <1>1, <1>3, <1>4, UpToN
  <2>2. len \in T
    BY <1>1, <2>1
  <2> QED
    BY <2>2, Zenon DEF T
<1>6. solves(Nested(p), len)
  <2> HIDE DEF solves
  <2> QED
    BY <1>2, <1>5
<1>7. \A n \in 0..len : Nested(p)[n] = step(Nested(p), n)
  BY <1>6
<1> SUFFICES ASSUME NEW n \in 1..len, NEW d \in DOMAIN p
             PROVE  Nested(p)[n][d] = over(Nested(p)[n - 1], d)
  BY DEF len, over
<1>8. n \in 0..len /\ n # 0
  BY <1>1
<1> QED
  BY <1>7, <1>8

-----------------------------------------------------------------------------
(* A struct laid out field after field. *)

(* align_to is the first multiple. *)
LEMMA AlignTo ==
  ASSUME NEW offset \in Nat, NEW a \in {1, 4}
  PROVE  align_to(offset, a) \in Nat /\ FirstMultiple(offset, a) = align_to(offset, a)
<1>1. /\ align_to(offset, a) \in offset..(offset + a - 1)
      /\ align_to(offset, a) % a = 0
  BY DEF align_to
<1>2. \A o \in offset..(offset + a - 1) : o % a = 0 => o = align_to(offset, a)
  BY DEF align_to
<1> QED
  BY <1>1, <1>2 DEF FirstMultiple

LayoutType == [total : Nat, max_align : {1, 4}]

LaidSoFar(layout, parts, m) ==
  /\ layout.total = Ends(parts)[m]
  /\ layout.max_align \in {1} \cup {parts[i].alignment : i \in 1..m}
  /\ \A i \in 1..m : parts[i].alignment \in {1, layout.max_align}

(* An empty layout has no part laid. *)
LEMMA NothingLaid ==
  ASSUME NEW parts, Len(parts) \in Nat
  PROVE  Empty \in LayoutType /\ LaidSoFar(Empty, parts, 0)
BY EndsEquation DEF LaidSoFar, Empty, LayoutType

(* placed lays the next part. *)
LEMMA OneMoreLaid ==
  ASSUME NEW parts, Len(parts) \in Nat, NEW layout \in LayoutType, NEW m \in 1..Len(parts),
         LaidSoFar(layout, parts, m - 1), parts[m].bytes \in Nat, parts[m].alignment \in {1, 4}
  PROVE  LET more == placed(layout, parts[m].bytes, parts[m].alignment)
         IN  more \in LayoutType /\ LaidSoFar(more, parts, m)
<1> DEFINE a == parts[m].alignment
           more == placed(layout, parts[m].bytes, a)
<1>1. layout.total \in Nat /\ layout.max_align \in {1, 4}
  BY DEF LayoutType
<1>2. /\ more.total = align_to(layout.total, a) + parts[m].bytes
      /\ more.max_align = IF a > layout.max_align THEN a ELSE layout.max_align
      /\ more = [total |-> more.total, max_align |-> more.max_align]
  BY DEF placed
<1>3. Ends(parts)[m] = FirstMultiple(Ends(parts)[m - 1], a) + parts[m].bytes
  BY EndsEquation
<1>4. more.total = Ends(parts)[m] /\ more.total \in Nat
  BY <1>1, <1>2, <1>3, AlignTo DEF LaidSoFar
<1> HIDE DEF more
<1>5. more \in LayoutType
  BY <1>1, <1>2, <1>4 DEF LayoutType
<1>6. \A i \in 1..m : i = m \/ i \in 1..(m - 1)
  OBVIOUS
<1>7. \A i \in 1..(m - 1) : i \in 1..m
  OBVIOUS
<1>8. m \in 1..m
  OBVIOUS
<1>9. more.max_align \in {1} \cup {parts[i].alignment : i \in 1..m}
  BY <1>2, <1>7, <1>8 DEF LaidSoFar
<1>10. \A i \in 1..m : parts[i].alignment \in {1, more.max_align}
  BY <1>1, <1>2, <1>6 DEF LaidSoFar
<1> QED
  BY <1>4, <1>5, <1>9, <1>10 DEF LaidSoFar, more

(* When all parts are laid the layout is that of the whole. *)
LEMMA AllLaid ==
  ASSUME NEW parts, Len(parts) \in Nat, DOMAIN parts = 1..Len(parts), NEW layout \in LayoutType,
         LaidSoFar(layout, parts, Len(parts))
  PROVE  LaidOut(parts) = Part(align_to(layout.total, layout.max_align), layout.max_align)
<1> DEFINE S == {1} \cup {parts[i].alignment : i \in DOMAIN parts}
<1>1. layout.total \in Nat /\ layout.max_align \in {1, 4}
  BY DEF LayoutType
<1>2. layout.max_align \in S /\ \A y \in S : y \in {1, layout.max_align}
  BY DEF LaidSoFar
<1> HIDE DEF S
<1>3. layout.max_align \in S /\ \A y \in S : layout.max_align >= y
  BY <1>1, <1>2
<1>4. \A x \in S : (\A y \in S : x >= y) => x = layout.max_align
  BY <1>1, <1>2
<1>5. Max(S) = layout.max_align
  BY <1>3, <1>4 DEF Max
<1>6. FirstMultiple(layout.total, layout.max_align) = align_to(layout.total, layout.max_align)
  BY <1>1, AlignTo
<1> QED
  BY <1>5, <1>6 DEF LaidOut, LaidSoFar, S, Part

(* Two or three words are laid out without gaps. *)
LEMMA WordsLaid ==
  ASSUME NEW n \in {2, 3}, NEW parts, Len(parts) = n, DOMAIN parts = 1..n,
         \A i \in 1..n : parts[i] = Word
  PROVE  LaidOut(parts) = Part(4 * n, 4)
<1> DEFINE layout == [total |-> 4 * n, max_align |-> 4]
<1>1. \A i \in 1..n : parts[i].bytes = 4 /\ parts[i].alignment = 4
  BY DEF Word, Part
<1>2. \A m \in {0, 4, 8} : FirstMultiple(m, 4) = m
  BY AlignTo DEF align_to
<1>3. Ends(parts)[0] = 0 /\ \A i \in 1..n : Ends(parts)[i] = FirstMultiple(Ends(parts)[i - 1], 4) + 4
  BY <1>1, EndsEquation
<1>4. Ends(parts)[1] = 4 /\ Ends(parts)[2] = 8 /\ (n = 3 => Ends(parts)[3] = 12)
  BY <1>2, <1>3
<1>5. Ends(parts)[n] = 4 * n
  BY <1>4
<1>6. layout \in LayoutType /\ layout.total = 4 * n /\ layout.max_align = 4
  BY DEF LayoutType
<1>7. 4 \in {parts[i].alignment : i \in 1..n}
  <2>1. 1 \in 1..n
    OBVIOUS
  <2> QED
    BY <1>1, <2>1
<1> HIDE DEF layout
<1>8. LaidSoFar(layout, parts, Len(parts))
  BY <1>1, <1>5, <1>6, <1>7 DEF LaidSoFar
<1>9. LaidOut(parts) = Part(align_to(4 * n, 4), 4)
  BY <1>6, <1>8, AllLaid
<1>10. align_to(4 * n, 4) = 4 * n
  BY DEF align_to
<1> QED
  BY <1>9, <1>10

(* A builtin measures what its layout is. *)
LEMMA BuiltinLaid ==
  ASSUME NEW x \in DOMAIN builtin_fields
  PROVE  /\ builtin_layout(x) \in LayoutType
         /\ Known[x] = Part(align_to(builtin_layout(x).total, builtin_layout(x).max_align),
                            builtin_layout(x).max_align)
<1> DEFINE n == IF x = "Str" THEN 2 ELSE 3
           result == [total |-> 4 * n, max_align |-> 4]
<1>1. x \in {"Str", "String"}
  BY DEF builtin_fields
<1>2. /\ Len(builtin_fields[x]) = n
      /\ \A i \in 1..n : builtin_fields[x][i] \in {"ref", "i32"}
  <2>1. CASE x = "Str"
    <3>1. builtin_fields[x] = <<"ref", "i32">> /\ n = 2
      BY <2>1 DEF builtin_fields
    <3>2. \A i \in 1..2 : i = 1 \/ i = 2
      OBVIOUS
    <3> HIDE DEF n
    <3> QED
      BY <3>1, <3>2
  <2>2. CASE x = "String"
    <3>1. builtin_fields[x] = <<"ref", "i32", "i32">> /\ n = 3
      BY <2>2 DEF builtin_fields
    <3>2. \A i \in 1..3 : i = 1 \/ i = 2 \/ i = 3
      OBVIOUS
    <3> HIDE DEF n
    <3> QED
      BY <3>1, <3>2
  <2> QED
    BY <1>1, <2>1, <2>2
<1>3. \A f \in {"ref", "i32"} : scalar_size[f] = 4 /\ scalar_alignment[f] = 4
  BY DEF scalar_size, scalar_alignment, kPointerSizeBytes
<1>4. n \in {2, 3}
  OBVIOUS
<1> HIDE DEF n
<1> DEFINE step(f, i) == IF i = 0 THEN Empty
                         ELSE placed(f[i - 1], scalar_size[builtin_fields[x][i]], scalar_alignment[builtin_fields[x][i]])
           solves(f) == f = [i \in 0..n |-> step(f, i)]
           upto == CHOOSE f : solves(f)
           after(i) == IF i = 0 THEN Empty ELSE [total |-> 4 * i, max_align |-> 4]
<1>5. builtin_layout(x) = upto[n]
  BY <1>2 DEF builtin_layout
<1>6. \A i \in 1..n : placed(after(i - 1), 4, 4) = after(i)
  BY <1>4 DEF placed, align_to, Empty
<1>7. solves([i \in 0..n |-> after(i)])
  <2> DEFINE g == [i \in 0..n |-> after(i)]
  <2>1. \A i \in 1..n : g[i - 1] = after(i - 1)
    BY <1>4
  <2>2. \A i \in 0..n : g[i] = step(g, i)
    <3> SUFFICES ASSUME NEW i \in 0..n PROVE g[i] = step(g, i)
      OBVIOUS
    <3>1. CASE i = 0
      BY <3>1
    <3>2. CASE i # 0
      <4>1. i \in 1..n
        BY <1>4, <3>2
      <4>2. step(g, i) = placed(after(i - 1), 4, 4)
        BY <1>2, <1>3, <2>1, <4>1
      <4> HIDE DEF step
      <4> QED
        BY <1>6, <4>1, <4>2
    <3> QED
      BY <3>1, <3>2
  <2>3. g = [i \in 0..n |-> g[i]]
    OBVIOUS
  <2> HIDE DEF g, step
  <2>4. g = [i \in 0..n |-> step(g, i)]
    BY <2>2, <2>3
  <2> QED
    BY <2>4 DEF g
<1>8. solves(upto)
  <2> HIDE DEF solves
  <2> QED
    BY <1>7
<1> HIDE DEF upto
<1>9. upto[0] = Empty /\ \A i \in 1..n : upto[i] = placed(upto[i - 1], 4, 4)
  <2>1. \A i \in 0..n : upto[i] = step(upto, i)
    BY <1>8
  <2>2. \A i \in 1..n : i \in 0..n /\ i # 0
    BY <1>4
  <2>3. 0 \in 0..n
    BY <1>4
  <2> QED
    BY <1>2, <1>3, <2>1, <2>2, <2>3
<1>10. upto[n] = result
  <2> HIDE DEF solves, step
  <2>1. after(0) = Empty /\ after(n) = result
    BY <1>4
  <2>2. upto[1] = after(1)
    <3>1. 1 \in 1..n /\ 1 - 1 = 0
      BY <1>4
    <3> HIDE DEF after
    <3> QED
      BY <1>6, <1>9, <2>1, <3>1
  <2>3. upto[2] = after(2)
    <3>1. 2 \in 1..n /\ 2 - 1 = 1
      BY <1>4
    <3> HIDE DEF after
    <3> QED
      BY <1>6, <1>9, <2>2, <3>1
  <2>4. n = 3 => upto[3] = after(3)
    <3>1. n = 3 => 3 \in 1..n /\ 3 - 1 = 2
      OBVIOUS
    <3> HIDE DEF after
    <3> QED
      BY <1>6, <1>9, <2>3, <3>1
  <2> QED
    BY <1>4, <2>1, <2>3, <2>4
<1>11. result \in LayoutType /\ align_to(result.total, result.max_align) = 4 * n
  BY <1>4 DEF LayoutType, align_to
<1>12. Known[x] = Part(4 * n, 4)
  <2>1. CASE x = "Str"
    <3>1. Known[x] = LaidOut(<<Word, Word>>)
      BY <2>1 DEF Known
    <3>2. n = 2
      BY <2>1 DEF n
    <3> QED
      BY <3>1, <3>2, WordsLaid
  <2>2. CASE x = "String"
    <3>1. Known[x] = LaidOut(<<Word, Word, Word>>)
      BY <2>2 DEF Known
    <3>2. n = 3
      BY <2>2 DEF n
    <3> QED
      BY <3>1, <3>2, WordsLaid
  <2> QED
    BY <1>1, <2>1, <2>2
<1>13. builtin_layout(x) = result /\ result.max_align = 4
  BY <1>5, <1>10
<1> HIDE DEF result
<1> QED
  BY <1>11, <1>12, <1>13

(* So does a scalar. *)
LEMMA ScalarPart ==
  ASSUME NEW kind \in scalar_kinds
  PROVE  /\ Known[kind] = Part(scalar_size[kind], scalar_alignment[kind])
         /\ scalar_size[kind] \in Nat /\ scalar_alignment[kind] \in {1, 4}
BY DEF scalar_kinds, Known, scalar_size, scalar_alignment, Word, Part, kPointerSizeBytes

-----------------------------------------------------------------------------
(* Programs and types. *)

(* A type has lengths and a base, which names a struct or is known. *)
LEMMA TypeShape ==
  ASSUME NEW p, NEW type \in Types(p)
  PROVE  /\ type.dims \in Seq(Nat)
         /\ type.base.kind \in scalar_kinds \cup DOMAIN builtin_fields \cup {"struct"}
         /\ type.base.kind = "struct" =>
              type.base.decl \in DOMAIN p /\ type.base = Struct(type.base.decl).base
         /\ NeedsCache(type.base) <=> type.base.kind \notin scalar_kinds
         /\ type # NoType
<1>1. type.dims \in Seq(Nat) /\ type.base \in Bases(p)
  BY DEF Types
<1>2. DOMAIN builtin_fields = {"Str", "String"} /\ DOMAIN scalar_size = scalar_kinds
  BY DEF builtin_fields, scalar_size, scalar_kinds
<1>3. type.base.kind \in scalar_kinds \cup {"Str", "String"} \cup {"struct"}
  BY <1>1 DEF Bases
<1>4. type.base.kind = "struct" => type.base \in [kind : {"struct"}, decl : DOMAIN p]
  BY <1>1 DEF Bases, scalar_kinds
<1>5. type.base.kind = "struct" =>
        type.base.decl \in DOMAIN p /\ type.base = Struct(type.base.decl).base
  BY <1>4 DEF Struct
<1>6. type # NoType
  BY <1>3 DEF NoType, scalar_kinds
<1> QED
  BY <1>1, <1>2, <1>3, <1>5, <1>6 DEF NeedsCache

Name(d) == program[d].name
Fields(d) == program[d].fields
Holding(d) == {e \in DOMAIN program : \E i \in DOMAIN Fields(d) : Fields(d)[i].base = Struct(e).base}

(* A program is a sequence of structs whose fields name structs in reach. *)
LEMMA ProgramShape ==
  ASSUME program \in Programs
  PROVE  /\ Len(program) \in Nat /\ DOMAIN program = 1..Len(program)
         /\ \A d \in DOMAIN program :
              /\ program[d].scope \in Nat
              /\ Len(Fields(d)) \in Nat /\ DOMAIN Fields(d) = 1..Len(Fields(d))
              /\ \A i \in DOMAIN Fields(d) :
                   /\ Fields(d)[i] \in Types(program)
                   /\ Fields(d)[i].base.kind = "struct" =>
                        program[Fields(d)[i].base.decl].scope <= program[d].scope
         /\ Asked(program) \subseteq Types(program)
<1>1. /\ program \in Seq([name : STRING, scope : Nat, fields : Seq(Types(program))])
      /\ Asked(program) \subseteq Types(program)
      /\ \A d \in DOMAIN program : \A i \in DOMAIN program[d].fields :
           program[d].fields[i].base.kind = "struct" =>
             program[program[d].fields[i].base.decl].scope <= program[d].scope
  BY ProgramsAssumption
<1>2. Len(program) \in Nat /\ DOMAIN program = 1..Len(program)
  BY <1>1
<1>3. \A d \in DOMAIN program : program[d] \in [name : STRING, scope : Nat, fields : Seq(Types(program))]
  <2> DEFINE R == [name : STRING, scope : Nat, fields : Seq(Types(program))]
  <2>1. program \in Seq(R)
    BY <1>1
  <2> HIDE DEF R
  <2>2. \A d \in DOMAIN program : program[d] \in R
    BY <2>1
  <2> QED
    BY <2>2 DEF R
<1>4. \A d \in DOMAIN program : program[d].scope \in Nat /\ Fields(d) \in Seq(Types(program))
  BY <1>3 DEF Fields
<1>5. ASSUME NEW d \in DOMAIN program
      PROVE  /\ Len(Fields(d)) \in Nat /\ DOMAIN Fields(d) = 1..Len(Fields(d))
             /\ \A i \in DOMAIN Fields(d) : Fields(d)[i] \in Types(program)
  BY <1>4
<1> QED
  BY <1>1, <1>2, <1>4, <1>5 DEF Fields

-----------------------------------------------------------------------------
(* The names declared and defined, and which structs may be used. *)

Declared == {d \in DOMAIN program : Step("declare", d) \notin todo}
Defined == {d \in DOMAIN program : Step("define", d) \notin todo}

(* The structs all scopes around which are defined. *)
Usable == {d \in DOMAIN program : \A e \in DOMAIN program : program[e].scope <= program[d].scope => e \in Defined}

NamesInv ==
  /\ program \in Programs
  /\ \A d \in Declared : Name(d) \in struct_cache
  /\ struct_cache = pending_struct_defs \cup DOMAIN builtin_fields \cup {Name(d) : d \in Defined}
  /\ pending_struct_defs \cap (DOMAIN builtin_fields \cup {Name(d) : d \in Defined}) = {}
  /\ \A d \in Defined :
       /\ Name(d) \notin DOMAIN builtin_fields
       /\ \A e \in Defined : Name(d) = Name(e) => d = e
       /\ \A i \in DOMAIN Fields(d) : 0 \notin ToSet(Fields(d)[i].dims)

(* Steps are told apart by what they do and to which struct. *)
LEMMA StepsDiffer ==
  ASSUME NEW op, NEW d, NEW q, NEW e
  PROVE  /\ Step(op, d) = Step(q, e) <=> op = q /\ d = e
         /\ Step(op, d).op = op /\ Step(op, d).decl = d
BY DEF Step

(* A struct is in reach of itself. *)
LEMMA OwnScope ==
  ASSUME NamesInv, NEW d \in DOMAIN program
  PROVE  program[d].scope <= program[d].scope
<1>1. program[d].scope \in Nat
  BY ProgramShape DEF NamesInv
<1> QED
  BY <1>1

(* The fields of a usable struct are usable. *)
LEMMA UsableClosed ==
  ASSUME NamesInv, NEW d \in Usable
  PROVE  /\ d \in Defined /\ d \in DOMAIN program
         /\ \A i \in DOMAIN Fields(d) :
              Fields(d)[i].base.kind = "struct" => Fields(d)[i].base.decl \in Usable
<1>1. d \in DOMAIN program /\ \A e \in DOMAIN program : program[e].scope <= program[d].scope => e \in Defined
  BY DEF Usable
<1>2. \A e \in DOMAIN program : program[e].scope \in Nat
  BY ProgramShape DEF NamesInv
<1>3. d \in Defined
  BY <1>1, <1>2
<1>4. ASSUME NEW i \in DOMAIN Fields(d), Fields(d)[i].base.kind = "struct"
      PROVE  Fields(d)[i].base.decl \in Usable
  <2> DEFINE e == Fields(d)[i].base.decl
  <2>1. Fields(d)[i] \in Types(program) /\ program[e].scope <= program[d].scope
    BY <1>1, <1>4, ProgramShape DEF NamesInv
  <2>2. e \in DOMAIN program
    BY <1>4, <2>1, TypeShape
  <2>3. \A x \in DOMAIN program : program[x].scope <= program[e].scope => program[x].scope <= program[d].scope
    BY <1>1, <1>2, <2>1, <2>2
  <2> QED
    BY <1>1, <2>2, <2>3 DEF Usable
<1> QED
  BY <1>1, <1>3, <1>4

(* A step is due when those of its loop and of the scopes around are done. *)
LEMMA DueAfter ==
  ASSUME NamesInv, NEW op \in DOMAIN loop_of, NEW d \in DOMAIN program, Due(op, d)
  PROVE  /\ op = "define" => \A e \in DOMAIN program : program[e].scope <= program[d].scope => e \in Declared
         /\ op = "measure" => d \in Usable
<1>1. \A e \in DOMAIN program : program[e].scope \in Nat
  BY ProgramShape DEF NamesInv
<1>2. ASSUME NEW q \in DOMAIN loop_of, NEW e \in DOMAIN program, program[e].scope <= program[d].scope,
             loop_of[q] < loop_of[op]
      PROVE  Step(q, e) \notin todo
  <2>1. program[e].scope < program[d].scope \/ program[e].scope = program[d].scope
    BY <1>1, <1>2
  <2>2. before(Step(q, e), Step(op, d))
    BY <1>2, <2>1, StepsDiffer DEF before
  <2> QED
    BY <2>2 DEF Due
<1>3. /\ loop_of["declare"] < loop_of["define"] /\ loop_of["define"] < loop_of["measure"]
      /\ "declare" \in DOMAIN loop_of /\ "define" \in DOMAIN loop_of
  BY DEF loop_of
<1> QED
  BY <1>2, <1>3 DEF Declared, Defined, Usable

(* The names keep as they are when no step of theirs is done. *)
LEMMA NamesUntouched ==
  ASSUME NamesInv, UNCHANGED <<program, struct_cache, pending_struct_defs>>,
         Declared' = Declared, Defined' = Defined
  PROVE  NamesInv'
BY DEF NamesInv, Name, Fields

(* Declaring a struct keeps the names. *)
LEMMA NamesDeclared ==
  ASSUME NamesInv, NEW d \in DOMAIN program, DeclareStub(d)
  PROVE  NamesInv' /\ Defined' = Defined
<1>1. /\ struct_cache' = struct_cache \cup {Name(d)}
      /\ pending_struct_defs' =
           IF Name(d) \in struct_cache THEN pending_struct_defs ELSE pending_struct_defs \cup {Name(d)}
      /\ todo' = todo \ {Step("declare", d)} /\ program' = program
  BY DEF DeclareStub, Name
<1>2. Defined' = Defined
  BY <1>1, StepsDiffer DEF Defined
<1>3. Declared' \subseteq Declared \cup {d}
  BY <1>1, StepsDiffer DEF Declared
<1>4. \A e : Name(e)' = Name(e) /\ Fields(e)' = Fields(e)
  BY <1>1 DEF Name, Fields
<1>5. \A e \in Declared' : Name(e) \in struct_cache'
  BY <1>1, <1>3 DEF NamesInv
<1>6. struct_cache' = pending_struct_defs' \cup DOMAIN builtin_fields \cup {Name(e) : e \in Defined}
  BY <1>1 DEF NamesInv
<1>7. pending_struct_defs' \cap (DOMAIN builtin_fields \cup {Name(e) : e \in Defined}) = {}
  BY <1>1 DEF NamesInv
<1> QED
  BY <1>1, <1>2, <1>4, <1>5, <1>6, <1>7 DEF NamesInv

(* The first of the wrong fields is one of them. *)
LEMMA FirstWrong ==
  ASSUME NamesInv, NEW d \in DOMAIN program, wrong_fields(program[d]) # {}
  PROVE  first_wrong(program[d]) \in wrong_fields(program[d])
<1> DEFINE W == wrong_fields(program[d])
<1>1. DOMAIN Fields(d) \subseteq Nat
  BY ProgramShape DEF NamesInv
<1>2. W \in SUBSET Nat
  BY <1>1 DEF wrong_fields, Fields
<1>3. \E n \in W : \A m \in W : n <= m
  BY <1>2, Least
<1> QED
  BY <1>3 DEF first_wrong

(* What the exception of define_struct_fields says of the program. *)
LEMMA DefineRefused ==
  ASSUME NamesInv, NEW d \in DOMAIN program, Due("define", d), define_error(program[d]) # ""
  PROVE  \/ define_error(program[d]) = "struct fields already defined" /\ NameTaken(program)
         \/ define_error(program[d]) = "array size missing" /\ EmptyArray(program)
<1>1. \A e \in DOMAIN program : program[e].scope <= program[d].scope => e \in Declared
  BY DueAfter DEF loop_of
<1>2. d \in Declared /\ Name(d) \in struct_cache
  BY <1>1, OwnScope DEF NamesInv
<1>3. CASE Name(d) \notin pending_struct_defs
  <2>1. Name(d) \in DOMAIN builtin_fields \/ \E e \in Defined : Name(d) = Name(e)
    BY <1>2, <1>3 DEF NamesInv
  <2>2. d \notin Defined
    BY DEF Due, Defined
  <2>3. NameTaken(program)
    BY <2>1, <2>2 DEF NameTaken, Name, Defined
  <2> QED
    BY <1>2, <1>3, <2>3 DEF define_error, Name
<1>4. CASE Name(d) \in pending_struct_defs
  <2> DEFINE W == wrong_fields(program[d])
             i == first_wrong(program[d])
  <2>1. define_error(program[d]) = lower_error(Fields(d)[i]) /\ W # {}
    BY <1>2, <1>4 DEF define_error, Name, Fields
  <2>2. i \in W
    BY <2>1, FirstWrong
  <2>3. i \in DOMAIN Fields(d) /\ lower_error(Fields(d)[i]) # ""
    BY <2>2 DEF wrong_fields, Fields
  <2>4. lower_error(Fields(d)[i]) # "struct not declared"
    <3> SUFFICES ASSUME NeedsCache(Fields(d)[i].base), name_of(Fields(d)[i].base) \notin struct_cache
                 PROVE  FALSE
      BY DEF lower_error
    <3>1. Fields(d)[i] \in Types(program)
      BY <2>3, ProgramShape DEF NamesInv
    <3>2. Fields(d)[i].base.kind = "struct"
      BY <3>1, TypeShape DEF NamesInv, name_of
    <3>3. Fields(d)[i].base.decl \in Declared
      BY <1>1, <2>3, <3>1, <3>2, ProgramShape, TypeShape DEF NamesInv
    <3> QED
      BY <3>2, <3>3 DEF NamesInv, name_of, Name
  <2>5. lower_error(Fields(d)[i]) = "array size missing" /\ 0 \in ToSet(Fields(d)[i].dims)
    BY <2>3, <2>4 DEF lower_error
  <2> QED
    BY <2>1, <2>3, <2>5 DEF EmptyArray, Fields
<1> QED
  BY <1>3, <1>4

(* Defining a struct, or refusing to, keeps the names. *)
LEMMA NamesDefined ==
  ASSUME NamesInv, NEW d \in DOMAIN program, DefineFields(d)
  PROVE  NamesInv' /\ Defined \subseteq Defined'
<1>1. CASE define_error(program[d]) # ""
  <2>1. UNCHANGED <<program, todo, struct_cache, pending_struct_defs>>
    BY <1>1 DEF DefineFields, Throw, tables
  <2> QED
    BY <2>1, NamesUntouched DEF Declared, Defined
<1>2. CASE define_error(program[d]) = ""
  <2>1. /\ pending_struct_defs' = pending_struct_defs \ {Name(d)} /\ todo' = todo \ {Step("define", d)}
        /\ UNCHANGED <<program, struct_cache>>
    BY <1>2 DEF DefineFields, Name
  <2>2. Defined' = Defined \cup {d} /\ Declared' = Declared
    BY <2>1, StepsDiffer DEF Defined, Declared
  <2>3. Name(d) \in pending_struct_defs
    BY <1>2 DEF define_error, Name
  <2>4. \A i \in DOMAIN Fields(d) : 0 \notin ToSet(Fields(d)[i].dims)
    <3>1. wrong_fields(program[d]) = {}
      <4> SUFFICES ASSUME wrong_fields(program[d]) # {} PROVE FALSE
        OBVIOUS
      <4>1. lower_error(program[d].fields[first_wrong(program[d])]) # ""
        BY FirstWrong DEF wrong_fields
      <4> QED
        BY <1>2, <4>1 DEF define_error
    <3> QED
      BY <3>1 DEF wrong_fields, lower_error, Fields
  <2>5. Name(d) \notin DOMAIN builtin_fields /\ \A e \in Defined : Name(e) # Name(d)
    BY <2>3 DEF NamesInv
  <2>6. \A e : Name(e)' = Name(e) /\ Fields(e)' = Fields(e)
    BY <2>1 DEF Name, Fields
  <2>7. struct_cache' = pending_struct_defs' \cup DOMAIN builtin_fields \cup {Name(e) : e \in Defined'}
    BY <2>1, <2>2, <2>3 DEF NamesInv
  <2>8. pending_struct_defs' \cap (DOMAIN builtin_fields \cup {Name(e) : e \in Defined'}) = {}
    BY <2>1, <2>2 DEF NamesInv
  <2>9. \A e \in Defined' :
          /\ Name(e) \notin DOMAIN builtin_fields
          /\ \A x \in Defined' : Name(e) = Name(x) => e = x
          /\ \A i \in DOMAIN Fields(e) : 0 \notin ToSet(Fields(e)[i].dims)
    BY <2>2, <2>4, <2>5 DEF NamesInv
  <2>10. \A e \in Declared' : Name(e) \in struct_cache'
    BY <2>1, <2>2 DEF NamesInv
  <2> QED
    BY <2>1, <2>2, <2>6, <2>7, <2>8, <2>9, <2>10 DEF NamesInv
<1> QED
  BY <1>1, <1>2

(* The other steps leave the names alone. *)
LEMMA NamesStay ==
  ASSUME NamesInv, UNCHANGED <<program, tables>>,
         \/ todo' = todo
         \/ \E d : todo' = todo \ {Step("measure", d)}
  PROVE  NamesInv' /\ Defined' = Defined /\ Usable' = Usable
<1>1. Declared' = Declared /\ Defined' = Defined
  BY StepsDiffer DEF Declared, Defined
<1> QED
  BY <1>1, NamesUntouched DEF Usable, tables

-----------------------------------------------------------------------------
(* The calls under way, what the caches have, and what has been laid out.  *)

Found(type) == type \in Types(program) /\ (type.base.kind = "struct" => type.base.decl \in Usable)

Frame == [decl : Usable, field : Nat \ {0}, layout : LayoutType]

(* Each call but the last waits for the struct of the next. *)
CallsInv ==
  /\ asking = NoType \/ Found(asking)
  /\ frames \in Seq(Frame)
  /\ frames # <<>> => asking # NoType
  /\ \A k \in DOMAIN frames :
       /\ frames[k].field <= Len(Fields(frames[k].decl)) + 1
       /\ k + 1 \in DOMAIN frames =>
            /\ frames[k].field \in DOMAIN Fields(frames[k].decl)
            /\ Fields(frames[k].decl)[frames[k].field].base = Struct(frames[k + 1].decl).base
       /\ name_at(k) \notin DOMAIN struct_size_cache

Done == {d \in Usable : Name(d) \in DOMAIN struct_size_cache}

CachesTyped ==
  /\ DOMAIN struct_align_cache = DOMAIN struct_size_cache
  /\ DOMAIN struct_size_cache \subseteq DOMAIN builtin_fields \cup {Name(d) : d \in Usable}
  /\ \A x \in DOMAIN struct_size_cache : struct_size_cache[x] \in Nat /\ struct_align_cache[x] \in {1, 4}

(* The caches have the layouts: when n structs are measured, none of them  *)
(* nests deeper than n.                                                    *)
CachesRight ==
  /\ \A x \in DOMAIN struct_size_cache \cap DOMAIN builtin_fields :
       Known[x] = Part(struct_size_cache[x], struct_align_cache[x])
  /\ \A d \in Done : \A n \in Cardinality(Done)..Len(program) :
       Nested(program)[n][d] = Part(struct_size_cache[Name(d)], struct_align_cache[Name(d)])

(* The structs measured hold only each other, and not in a circle. *)
DoneNested ==
  /\ \A d \in Done : Holding(d) \subseteq Done
  /\ \A C \in (SUBSET Done) \ {{}} : \E d \in C : Holding(d) \cap C = {}

MeasuredInv ==
  \A d \in DOMAIN program : Step("measure", d) \notin todo => d \in Done \/ asking = Struct(d)

CachesInv == CachesTyped /\ CachesRight /\ DoneNested /\ MeasuredInv

(* The fields a call has placed are measured and laid out. *)
LaidFrame(f) ==
  /\ \A i \in 1..(f.field - 1) : Measured(Fields(f.decl)[i].base)
  /\ \A n \in Cardinality(Done)..Len(program) :
       LaidSoFar(f.layout, PartsOf(program, f.decl, Nested(program)[n]), f.field - 1)

FramesInv == \A k \in DOMAIN frames : LaidFrame(frames[k])

(* The structs of a program are finitely many, and one more counts one more. *)
LEMMA DoneFinite ==
  ASSUME NamesInv, NEW D \in SUBSET DOMAIN program
  PROVE  /\ IsFiniteSet(D) /\ Cardinality(D) \in Nat /\ Cardinality(D) <= Len(program)
         /\ \A d \in DOMAIN program \ D : Cardinality(D \cup {d}) = Cardinality(D) + 1
<1>1. Len(program) \in Nat /\ DOMAIN program = 1..Len(program)
  BY ProgramShape DEF NamesInv
<1>2. IsFiniteSet(1..Len(program)) /\ Cardinality(1..Len(program)) = Len(program)
  BY <1>1, FS_Interval
<1>3. IsFiniteSet(D) /\ Cardinality(D) <= Len(program)
  BY <1>1, <1>2, FS_Subset
<1>4. Cardinality(D) \in Nat
  BY <1>3, FS_CardinalityType
<1> QED
  BY <1>3, <1>4, FS_AddElement

(* What size_in_bytes is called with is a type whose structs are usable. *)
LEMMA WantedFound ==
  ASSUME NamesInv, CallsInv, Sizing
  PROVE  /\ Found(Wanted)
         /\ frames # <<>> =>
              /\ frame \in Frame /\ frame.field \in DOMAIN Fields(frame.decl)
              /\ Wanted = Fields(frame.decl)[frame.field]
              /\ Len(frames) \in DOMAIN frames
<1>1. CASE frames = <<>>
  BY <1>1 DEF CallsInv, Sizing, Wanted
<1>2. CASE frames # <<>>
  <2>1. Len(frames) \in DOMAIN frames /\ frames[Len(frames)] \in Frame
    BY <1>2 DEF CallsInv
  <2>2. frame \in Frame
    BY <2>1 DEF frame
  <2>3. frame.decl \in Usable
    BY <2>2 DEF Frame
  <2>4. frame.field \in DOMAIN Fields(frame.decl) /\ Wanted = Fields(frame.decl)[frame.field]
    BY <1>2 DEF Sizing, HasField, Wanted, FieldsOf, Fields
  <2>5. Wanted \in Types(program)
    BY <2>3, <2>4, ProgramShape, UsableClosed DEF NamesInv
  <2> QED
    BY <2>1, <2>2, <2>3, <2>4, <2>5, UsableClosed DEF Found
<1> QED
  BY <1>1, <1>2

(* The parts of a struct are those of its fields. *)
LEMMA PartsShape ==
  ASSUME NEW inner, NEW d, Len(Fields(d)) \in Nat, DOMAIN Fields(d) = 1..Len(Fields(d))
  PROVE  LET parts == PartsOf(program, d, inner)
         IN  /\ Len(parts) = Len(Fields(d)) /\ DOMAIN parts = 1..Len(parts)
             /\ \A i \in DOMAIN parts : parts[i] = PartOf(Fields(d)[i], inner)
<1> DEFINE part(i) == PartOf(Fields(d)[i], inner)
           len == Len(Fields(d))
           S == {part(i) : i \in 1..len}
           parts == [i \in 1..len |-> part(i)]
<1>1. PartsOf(program, d, inner) = parts
  BY DEF PartsOf, Fields
<1> HIDE DEF part, len
<1>2. \A i \in 1..len : part(i) \in S
  OBVIOUS
<1> HIDE DEF S
<1>3. parts \in Seq(S) /\ Len(parts) = len
  BY <1>2 DEF len
<1> QED
  BY <1>1, <1>3 DEF part, len

(* What the caches say of a type is its part of the layout. *)
LEMMA PartIs ==
  ASSUME NamesInv, CachesTyped, CachesRight, NEW type, Found(type), Measured(type.base),
         NEW n \in Cardinality(Done)..Len(program)
  PROVE  /\ PartOf(type, Nested(program)[n]) = Part(size_in_bytes(type), alignment_of(type))
         /\ size_in_bytes(type) \in Nat /\ alignment_of(type) \in {1, 4}
         /\ Aligned(type.base)
         /\ type.base.kind = "struct" => type.base.decl \in Done
<1> DEFINE base == type.base
           many == elements(type.dims)
<1>1. /\ type.dims \in Seq(Nat) /\ base.kind \in scalar_kinds \cup DOMAIN builtin_fields \cup {"struct"}
      /\ NeedsCache(base) <=> base.kind \notin scalar_kinds
  BY TypeShape DEF Found
<1>2. many \in Nat
  BY <1>1, ElementsNat
<1>3. \A x \in Nat, a \in {1, 4} : Repeated(Part(x, a), type.dims) = Part(many * x, a) /\ many * x \in Nat
  BY <1>2 DEF Repeated, Part
<1> HIDE DEF many
<1>4. "struct" \notin scalar_kinds /\ "struct" \notin DOMAIN builtin_fields
        /\ scalar_kinds \cap DOMAIN builtin_fields = {}
  BY DEF scalar_kinds, builtin_fields
<1>5. CASE base.kind \in scalar_kinds
  <2>1. size_in_bytes(type) = many * scalar_size[base.kind] /\ alignment_of(type) = scalar_alignment[base.kind]
    BY <1>1, <1>5 DEF size_in_bytes, alignment_of, many
  <2>2. PartOf(type, Nested(program)[n]) = Repeated(Known[base.kind], type.dims)
    BY <1>4, <1>5 DEF PartOf
  <2>3. /\ Known[base.kind] = Part(scalar_size[base.kind], scalar_alignment[base.kind])
        /\ scalar_size[base.kind] \in Nat /\ scalar_alignment[base.kind] \in {1, 4}
    BY <1>5, ScalarPart
  <2>4. Aligned(base) /\ base.kind # "struct"
    BY <1>1, <1>4, <1>5 DEF Aligned
  <2> HIDE DEF base
  <2> QED
    BY <1>3, <2>1, <2>2, <2>3, <2>4 DEF base
<1>6. CASE base.kind \notin scalar_kinds
  <2> DEFINE x == name_of(base)
  <2>1. x \in DOMAIN struct_size_cache /\ Aligned(base)
    BY <1>1, <1>6 DEF Measured, Aligned, CachesTyped
  <2>2. /\ size_in_bytes(type) = many * struct_size_cache[x] /\ alignment_of(type) = struct_align_cache[x]
        /\ struct_size_cache[x] \in Nat /\ struct_align_cache[x] \in {1, 4}
    BY <1>1, <1>6, <2>1 DEF size_in_bytes, alignment_of, many, CachesTyped
  <2>3. base.kind = "struct" => base.decl \in Done /\ x = Name(base.decl)
    BY <2>1 DEF name_of, Name, Done, Found
  <2>4. PartOf(type, Nested(program)[n]) = Repeated(Part(struct_size_cache[x], struct_align_cache[x]), type.dims)
    <3>1. CASE base.kind = "struct"
      <4>1. Nested(program)[n][base.decl] = Part(struct_size_cache[x], struct_align_cache[x])
        BY <2>3, <3>1 DEF CachesRight
      <4> QED
        BY <3>1, <4>1 DEF PartOf
    <3>2. CASE base.kind # "struct"
      <4>1. x = base.kind /\ x \in DOMAIN builtin_fields
        BY <1>1, <1>6, <3>2 DEF name_of
      <4>2. Known[x] = Part(struct_size_cache[x], struct_align_cache[x])
        BY <2>1, <4>1 DEF CachesRight
      <4> QED
        BY <3>2, <4>1, <4>2 DEF PartOf
    <3> QED
      BY <3>1, <3>2
  <2> HIDE DEF base, x
  <2>5. PartOf(type, Nested(program)[n]) = Part(many * struct_size_cache[x], struct_align_cache[x])
          /\ many * struct_size_cache[x] \in Nat
    BY <1>3, <2>2, <2>4
  <2> QED
    BY <2>1, <2>2, <2>3, <2>5 DEF base
<1> QED
  BY <1>5, <1>6

-----------------------------------------------------------------------------
(* What each step does to them. *)

LayoutInv == CallsInv /\ CachesInv /\ FramesInv

(* What a call under way is. *)
LEMMA FrameShape ==
  ASSUME NamesInv, CallsInv, NEW k \in DOMAIN frames
  PROVE  /\ frames[k] \in Frame /\ frames[k].decl \in Usable /\ frames[k].decl \in DOMAIN program
         /\ frames[k].field \in Nat \ {0} /\ frames[k].layout \in LayoutType
         /\ frames[k].field <= Len(Fields(frames[k].decl)) + 1
         /\ name_at(k) = Name(frames[k].decl) /\ name_at(k) \notin DOMAIN struct_size_cache
<1>1. frames[k] \in Frame
  BY DEF CallsInv
<1>2. frames[k].decl \in Usable
  BY <1>1 DEF Frame
<1> QED
  BY <1>1, <1>2 DEF Frame, Usable, CallsInv, name_at, Name

(* A sequence over a set is one over a larger set. *)
LEMMA FramesTyped ==
  ASSUME NEW S, NEW T, NEW f \in Seq(S), S \subseteq T
  PROVE  f \in Seq(T)
OBVIOUS

(* Nothing is measured, entered or left. *)
LEMMA LayoutStays ==
  ASSUME NamesInv, LayoutInv, UNCHANGED <<program, caches, frames>>, Done' = Done, Usable \subseteq Usable',
         frames = <<>> \/ asking' # NoType, asking' = NoType \/ Found(asking)', MeasuredInv'
  PROVE  LayoutInv'
<1> USE DEF LayoutInv
<1>1. /\ program' = program /\ frames' = frames
      /\ struct_size_cache' = struct_size_cache /\ struct_align_cache' = struct_align_cache
  BY DEF caches
<1>2. \A d : Name(d)' = Name(d) /\ Fields(d)' = Fields(d)
  BY <1>1 DEF Name, Fields
<1>3. CallsInv'
  <2>1. Frame \subseteq Frame'
    BY DEF Frame
  <2>2. frames' \in Seq(Frame')
    BY <1>1, <2>1, FramesTyped DEF CallsInv
  <2>3. \A k \in DOMAIN frames : name_at(k)' = name_at(k)
    BY <1>1 DEF name_at
  <2> QED
    BY <1>1, <1>2, <2>2, <2>3 DEF CallsInv
<1>4. CachesTyped'
  BY <1>1, <1>2 DEF CachesInv, CachesTyped
<1>5. CachesRight'
  BY <1>1, <1>2 DEF CachesInv, CachesRight
<1>6. DoneNested'
  <2>1. \A d : Holding(d)' = Holding(d)
    BY <1>1, <1>2 DEF Holding
  <2> QED
    BY <2>1 DEF CachesInv, DoneNested
<1>7. FramesInv'
  BY <1>1, <1>2 DEF FramesInv, LaidFrame, Measured, name_of
<1> QED
  BY <1>3, <1>4, <1>5, <1>6, <1>7 DEF CachesInv

(* Nothing is measured by a step that leaves the caches alone. *)
LEMMA DoneStays ==
  ASSUME NamesInv, NamesInv', CachesInv, UNCHANGED <<program, caches>>, Usable \subseteq Usable'
  PROVE  Done' = Done
<1>1. struct_size_cache' = struct_size_cache /\ \A d : Name(d)' = Name(d)
  BY DEF caches, Name
<1>2. Done \subseteq Done'
  BY <1>1 DEF Done
<1>3. ASSUME NEW d \in Done' PROVE d \in Done
  <2>1. d \in Usable' /\ Name(d) \in DOMAIN struct_size_cache
    BY <1>1, <1>3 DEF Done
  <2>2. \A e \in Usable' : e \in Defined'
    BY OwnScope DEF Usable
  <2>3. Name(d) \notin DOMAIN builtin_fields /\ \A e \in Defined' : Name(d) = Name(e) => d = e
    BY <1>1, <2>1, <2>2 DEF NamesInv
  <2>4. \E e \in Usable : Name(d) = Name(e)
    BY <2>1, <2>3 DEF CachesInv, CachesTyped
  <2>5. d \in Usable
    BY <2>2, <2>3, <2>4
  <2> QED
    BY <2>1, <2>5 DEF Done
<1> QED
  BY <1>2, <1>3

(* A step of the walk of the scopes. *)
LEMMA LayoutWalked ==
  ASSUME NamesInv, NamesInv', LayoutInv, NEW d \in DOMAIN program,
         DeclareStub(d) \/ DefineFields(d) \/ AskStruct(d)
  PROVE  LayoutInv'
<1>1. asking = NoType /\ frames = <<>>
  BY DEF DeclareStub, DefineFields, AskStruct, Due, LayoutInv, CallsInv
<1>2. UNCHANGED <<program, caches, frames>>
  BY DEF DeclareStub, DefineFields, AskStruct, Ask, Throw, measuring
<1>3. Usable \subseteq Usable'
  <2>1. Defined \subseteq Defined'
    BY NamesDeclared, NamesDefined, StepsDiffer DEF AskStruct, Defined, Ask
  <2> QED
    BY <1>2, <2>1 DEF Usable
<1>4. Done' = Done
  BY <1>2, <1>3, DoneStays DEF LayoutInv
<1>5. \A e \in DOMAIN program : Step("measure", e) \notin todo => e \in Done
  BY <1>1 DEF LayoutInv, CachesInv, MeasuredInv, NoType, Struct
<1>6. CASE DeclareStub(d) \/ DefineFields(d)
  <2>1. asking' = asking
    BY <1>6 DEF DeclareStub, DefineFields, Throw
  <2>2. \A e : Step("measure", e) \in todo => Step("measure", e) \in todo'
    <3>1. todo' = todo \/ todo' = todo \ {Step("declare", d)} \/ todo' = todo \ {Step("define", d)}
      BY <1>6 DEF DeclareStub, DefineFields, Throw
    <3> QED
      BY <3>1, StepsDiffer
  <2>3. MeasuredInv'
    BY <1>2, <1>4, <1>5, <2>2 DEF MeasuredInv
  <2> QED
    BY <1>1, <1>2, <1>3, <1>4, <2>1, <2>3, LayoutStays
<1>7. CASE AskStruct(d)
  <2>1. asking' = Struct(d) /\ todo' = todo \ {Step("measure", d)} /\ Due("measure", d)
    BY <1>7 DEF AskStruct, Ask
  <2>2. d \in Usable
    BY <2>1, DueAfter DEF loop_of
  <2>3. Struct(d) \in Types(program) /\ Struct(d).base.kind = "struct" /\ Struct(d).base.decl = d
          /\ Struct(d) # NoType
    BY DEF Struct, Types, Bases, NoType
  <2>4. Found(asking)'
    BY <1>2, <1>3, <2>1, <2>2, <2>3 DEF Found
  <2>5. MeasuredInv'
    <3>1. \A e : Step("measure", e) \notin todo' => e = d \/ Step("measure", e) \notin todo
      BY <2>1, StepsDiffer
    <3> QED
      BY <1>2, <1>4, <1>5, <2>1, <3>1 DEF MeasuredInv
  <2> QED
    BY <1>1, <1>2, <1>3, <1>4, <2>1, <2>3, <2>4, <2>5, LayoutStays
<1> QED
  BY <1>6, <1>7

(* A question, an answer and a refusal. *)
LEMMA LayoutAsked ==
  ASSUME NamesInv, NamesInv', LayoutInv, Query \/ Refuse \/ Answer \/ UNCHANGED vars
  PROVE  LayoutInv'
<1>1. UNCHANGED <<program, caches, frames, tables, todo>>
  BY DEF Query, Refuse, Answer, Ask, Throw, vars, measuring
<1>2. Usable' = Usable
  BY <1>1, NamesStay
<1>3. Done' = Done
  BY <1>1, <1>2, DoneStays DEF LayoutInv
<1>4. MeasuredInv /\ (asking = NoType \/ Found(asking)) /\ (frames # <<>> => asking # NoType)
  BY DEF LayoutInv, CachesInv, CallsInv
<1>5. CASE Query
  <2>1. asking' \in Asked(program) /\ asking = NoType
    BY <1>5 DEF Query, Ask
  <2>2. asking' \in Types(program)
    BY <2>1, ProgramShape DEF NamesInv
  <2>3. asking' # NoType
    BY <2>2, TypeShape
  <2>4. \A e \in DOMAIN program : Step("measure", e) \notin todo /\ Step("define", e) \notin todo
    BY <1>5 DEF Query
  <2>5. Found(asking)'
    <3>1. \A e \in DOMAIN program : e \in Usable
      BY <2>4 DEF Usable, Defined
    <3>2. asking'.base.kind = "struct" => asking'.base.decl \in DOMAIN program
      BY <2>2, TypeShape
    <3> QED
      BY <1>1, <1>2, <2>2, <3>1, <3>2 DEF Found
  <2>6. MeasuredInv'
    <3>1. \A e \in DOMAIN program : e \in Done
      BY <1>4, <2>1, <2>4 DEF MeasuredInv, NoType, Struct
    <3> QED
      BY <1>1, <1>3, <3>1 DEF MeasuredInv
  <2> QED
    BY <1>1, <1>2, <1>3, <2>3, <2>5, <2>6, LayoutStays
<1>6. CASE Refuse \/ UNCHANGED vars
  <2>1. asking' = asking
    BY <1>6 DEF Refuse, Throw, vars
  <2>2. MeasuredInv'
    BY <1>1, <1>3, <1>4, <2>1 DEF MeasuredInv
  <2>3. asking' = NoType \/ Found(asking)'
    BY <1>1, <1>2, <1>4, <2>1 DEF Found
  <2> QED
    BY <1>1, <1>2, <1>3, <1>4, <2>1, <2>2, <2>3, LayoutStays
<1>7. CASE Answer
  <2>1. asking' = NoType /\ frames = <<>> /\ Measured(asking.base) /\ asking # NoType
    BY <1>7 DEF Answer, Wanted, Sizing
  <2>2. MeasuredInv'
    <3> SUFFICES ASSUME NEW e \in DOMAIN program, asking = Struct(e) PROVE e \in Done
      BY <1>1, <1>3, <1>4 DEF MeasuredInv
    <3>1. asking.base.kind = "struct" /\ asking.base.decl = e
      BY DEF Struct
    <3>2. e \in Usable
      BY <1>4, <2>1, <3>1 DEF Found
    <3>3. Name(e) \in DOMAIN struct_size_cache
      BY <2>1, <3>1 DEF Measured, NeedsCache, name_of, Name, scalar_size
    <3> QED
      BY <3>2, <3>3 DEF Done
  <2> QED
    BY <1>1, <1>2, <1>3, <2>1, <2>2, LayoutStays
<1> QED
  BY <1>5, <1>6, <1>7

(* What the caches have after a struct was entered. *)
LEMMA Remembered ==
  ASSUME CachesTyped, NEW x, NEW layout \in LayoutType, Remember(x, layout)
  PROVE  /\ DOMAIN struct_size_cache' = DOMAIN struct_size_cache \cup {x}
         /\ DOMAIN struct_align_cache' = DOMAIN struct_size_cache \cup {x}
         /\ struct_size_cache'[x] = align_to(layout.total, layout.max_align) /\ struct_size_cache'[x] \in Nat
         /\ struct_align_cache'[x] = layout.max_align /\ struct_align_cache'[x] \in {1, 4}
         /\ \A y \in DOMAIN struct_size_cache \ {x} :
              struct_size_cache'[y] = struct_size_cache[y] /\ struct_align_cache'[y] = struct_align_cache[y]
<1>1. align_to(layout.total, layout.max_align) \in Nat /\ layout.max_align \in {1, 4}
  BY AlignTo DEF LayoutType
<1> QED
  BY <1>1 DEF Remember, Entered, CachesTyped

(* What has been laid out stays so when more is measured. *)
LEMMA FramesStay ==
  ASSUME NamesInv, program' = program, Done \subseteq Done', Done' \subseteq DOMAIN program,
         DOMAIN struct_size_cache \subseteq DOMAIN struct_size_cache'
  PROVE  \A f : LaidFrame(f) => LaidFrame(f)'
<1>1. \A base : Measured(base) => Measured(base)'
  BY DEF Measured, name_of
<1>2. \A d : Fields(d)' = Fields(d)
  BY DEF Fields
<1>3. Cardinality(Done) <= Cardinality(Done')
  <2>1. IsFiniteSet(Done')
    BY DoneFinite
  <2> QED
    BY <2>1, FS_Subset
<1>4. Cardinality(Done) \in Nat /\ Cardinality(Done') \in Nat /\ Len(program) \in Nat
  <2>1. Done \subseteq DOMAIN program
    BY DEF Done, Usable
  <2> QED
    BY <2>1, DoneFinite, ProgramShape DEF NamesInv
<1>5. \A n \in Cardinality(Done')..Len(program) : n \in Cardinality(Done)..Len(program)
  BY <1>3, <1>4
<1> QED
  BY <1>1, <1>2, <1>5 DEF LaidFrame

(* A builtin that is measured. *)
LEMMA LayoutBuiltin ==
  ASSUME NamesInv, NamesInv', LayoutInv, MeasureBuiltin
  PROVE  LayoutInv'
<1> DEFINE x == name_of(Wanted.base)
<1>1. /\ UNCHANGED <<program, todo, tables, frames, asking>> /\ Remember(x, builtin_layout(x))
      /\ Wanted.base.kind # "struct" /\ ~Measured(Wanted.base) /\ Sizing
  BY DEF MeasureBuiltin
<1>2. x \in DOMAIN builtin_fields /\ x \notin DOMAIN struct_size_cache
  <2>1. Wanted \in Types(program) /\ NeedsCache(Wanted.base) /\ x \notin DOMAIN struct_size_cache
    BY <1>1, WantedFound DEF LayoutInv, Found, Measured
  <2>2. x = Wanted.base.kind
    BY <1>1 DEF name_of
  <2> HIDE DEF x
  <2> QED
    BY <1>1, <2>1, <2>2, TypeShape
<1> HIDE DEF x
<1>3. CachesTyped /\ CachesRight /\ DoneNested /\ MeasuredInv /\ CallsInv /\ FramesInv
  BY DEF LayoutInv, CachesInv
<1>4. builtin_layout(x) \in LayoutType
        /\ Known[x] = Part(align_to(builtin_layout(x).total, builtin_layout(x).max_align),
                           builtin_layout(x).max_align)
  BY <1>2, BuiltinLaid
<1>5. /\ DOMAIN struct_size_cache' = DOMAIN struct_size_cache \cup {x}
      /\ DOMAIN struct_align_cache' = DOMAIN struct_size_cache \cup {x}
      /\ struct_size_cache'[x] \in Nat /\ struct_align_cache'[x] \in {1, 4}
      /\ Known[x] = Part(struct_size_cache'[x], struct_align_cache'[x])
      /\ \A y \in DOMAIN struct_size_cache \ {x} :
           struct_size_cache'[y] = struct_size_cache[y] /\ struct_align_cache'[y] = struct_align_cache[y]
  BY <1>1, <1>3, <1>4, Remembered
<1>6. Usable' = Usable /\ program' = program /\ \A d : Name(d)' = Name(d) /\ Fields(d)' = Fields(d)
  BY <1>1, NamesStay DEF Name, Fields
<1>7. \A d \in Usable : Name(d) # x
  BY <1>2, UsableClosed DEF NamesInv
<1>8. Done' = Done
  BY <1>5, <1>6, <1>7 DEF Done
<1>9. CachesTyped'
  BY <1>2, <1>3, <1>5, <1>6 DEF CachesTyped
<1>10. CachesRight'
  <2>1. \A d \in Done : Name(d) \in DOMAIN struct_size_cache \ {x}
    BY <1>7 DEF Done
  <2> QED
    BY <1>3, <1>5, <1>6, <1>8, <2>1 DEF CachesRight
<1>11. DoneNested' /\ MeasuredInv'
  <2>1. \A d : Holding(d)' = Holding(d)
    BY <1>6 DEF Holding
  <2> QED
    BY <1>1, <1>3, <1>6, <1>8, <2>1 DEF DoneNested, MeasuredInv
<1>12. FramesInv'
  <2>1. Done \subseteq Done' /\ Done' \subseteq DOMAIN program
    BY <1>8 DEF Done, Usable
  <2>2. DOMAIN struct_size_cache \subseteq DOMAIN struct_size_cache'
    BY <1>5
  <2> QED
    BY <1>1, <1>3, <1>6, <2>1, <2>2, FramesStay DEF FramesInv, LaidFrame
<1>13. CallsInv'
  <2>1. Frame' = Frame
    BY <1>6 DEF Frame
  <2>2. \A k \in DOMAIN frames : name_at(k)' = name_at(k) /\ name_at(k) \notin DOMAIN struct_size_cache'
    BY <1>1, <1>3, <1>5, <1>7, FrameShape DEF name_at
  <2>3. asking = NoType \/ Found(asking)'
    BY <1>1, <1>3, <1>6 DEF CallsInv, Found
  <2> QED
    BY <1>1, <1>3, <1>6, <2>1, <2>2, <2>3 DEF CallsInv
<1> QED
  BY <1>9, <1>10, <1>11, <1>12, <1>13 DEF LayoutInv, CachesInv

(* A struct that is entered: none of its fields is placed. *)
LEMMA LayoutEntered ==
  ASSUME NamesInv, NamesInv', LayoutInv, EnterStruct
  PROVE  LayoutInv'
<1> DEFINE e == Wanted.base.decl
           new == [decl |-> e, field |-> 1, layout |-> Empty]
<1> PICK last : last = Len(frames) + 1
  OBVIOUS
<1>1. /\ UNCHANGED <<program, todo, tables, caches, asking>> /\ frames' = Append(frames, new)
      /\ Wanted.base.kind = "struct" /\ ~Measured(Wanted.base) /\ Sizing
  BY DEF EnterStruct
<1>2. CachesInv /\ CallsInv /\ FramesInv
  BY DEF LayoutInv
<1>3. /\ Found(Wanted) /\ e \in Usable /\ Wanted.base = Struct(e).base
      /\ frames # <<>> =>
           /\ frame.field \in DOMAIN Fields(frame.decl) /\ Wanted = Fields(frame.decl)[frame.field]
           /\ Len(frames) \in DOMAIN frames
  BY <1>1, <1>2, WantedFound, TypeShape DEF Found
<1>4. Name(e) \notin DOMAIN struct_size_cache
  BY <1>1 DEF Measured, name_of, Name
<1>5. Usable' = Usable /\ program' = program /\ \A d : Name(d)' = Name(d) /\ Fields(d)' = Fields(d)
  BY <1>1, NamesStay DEF Name, Fields
<1>6. Done' = Done
  BY <1>1, <1>5, DoneStays DEF LayoutInv
<1>7. Len(Fields(e)) \in Nat /\ e \in DOMAIN program
  BY <1>3, ProgramShape, UsableClosed DEF NamesInv
<1>8. Empty \in LayoutType
  BY DEF Empty, LayoutType
<1>9. new \in Frame /\ new.decl = e /\ new.field = 1 /\ new.layout = Empty
  BY <1>3, <1>8 DEF Frame
<1> HIDE DEF e, new
<1>10. /\ DOMAIN frames' = DOMAIN frames \cup {last} /\ frames'[last] = new
       /\ \A k \in DOMAIN frames : frames'[k] = frames[k] /\ k # last
       /\ frames' \in Seq(Frame) /\ DOMAIN frames = 1..Len(frames) /\ Len(frames) \in Nat
  <2>1. frames \in Seq(Frame)
    BY <1>2 DEF CallsInv
  <2> QED
    BY <1>1, <1>9, <2>1
<1>11. CachesInv'
  <2>1. struct_size_cache' = struct_size_cache /\ struct_align_cache' = struct_align_cache
    BY <1>1 DEF caches
  <2>2. \A d : Holding(d)' = Holding(d)
    BY <1>5 DEF Holding
  <2>3. CachesTyped' /\ CachesRight'
    BY <1>2, <1>5, <1>6, <2>1 DEF CachesInv, CachesTyped, CachesRight
  <2>4. DoneNested' /\ MeasuredInv'
    BY <1>1, <1>2, <1>5, <1>6, <2>2 DEF CachesInv, DoneNested, MeasuredInv
  <2> QED
    BY <2>3, <2>4 DEF CachesInv
<1>12. FramesInv'
  <2>1. \A f : LaidFrame(f) => LaidFrame(f)'
    <3>1. Done \subseteq Done' /\ Done' \subseteq DOMAIN program
      BY <1>6 DEF Done, Usable
    <3>2. DOMAIN struct_size_cache \subseteq DOMAIN struct_size_cache'
      BY <1>1 DEF caches
    <3> QED
      BY <1>5, <3>1, <3>2, FramesStay
  <2>2. PICK f : f = new
    OBVIOUS
  <2>3. LaidFrame(f)
    <3>1. \A i : i \notin 1..(1 - 1)
      OBVIOUS
    <3>2. \A n : Len(PartsOf(program, e, Nested(program)[n])) \in Nat
      BY <1>7, PartsShape
    <3>3. \A n : LaidSoFar(Empty, PartsOf(program, e, Nested(program)[n]), 0)
      BY <3>2, NothingLaid
    <3>4. f.field = 1 /\ f.field - 1 = 0 /\ f.decl = e /\ f.layout = Empty
      BY <1>9, <2>2
    <3> QED
      BY <3>1, <3>3, <3>4 DEF LaidFrame
  <2>4. \A k \in DOMAIN frames' : \E g : g = frames'[k] /\ LaidFrame(g)
    BY <1>2, <1>10, <2>2, <2>3 DEF FramesInv
  <2>5. \A k \in DOMAIN frames' : \E g : g = frames'[k] /\ LaidFrame(g)'
    BY <2>1, <2>4
  <2> QED
    BY <2>5 DEF FramesInv, LaidFrame
<1>13. CallsInv'
  <2>1. Frame' = Frame
    BY <1>5 DEF Frame
  <2>2. \A k \in DOMAIN frames : name_at(k)' = name_at(k) /\ name_at(k) \notin DOMAIN struct_size_cache'
    BY <1>1, <1>2, <1>10, FrameShape DEF name_at, caches
  <2>3. name_at(last)' = Name(e) /\ Name(e) \notin DOMAIN struct_size_cache'
    BY <1>1, <1>4, <1>9, <1>10 DEF name_at, caches, Name
  <2>4. asking' = asking /\ asking # NoType /\ Found(asking)'
    BY <1>1, <1>2, <1>5 DEF CallsInv, Found, Sizing
  <2>5. frames'[last].field <= Len(Fields(frames'[last].decl)) + 1
    BY <1>7, <1>9, <1>10
  <2>6. last + 1 \notin DOMAIN frames'
    BY <1>10
  <2>7. ASSUME NEW k \in DOMAIN frames, k + 1 \in DOMAIN frames'
        PROVE  /\ frames'[k].field \in DOMAIN Fields(frames'[k].decl)
               /\ Fields(frames'[k].decl)[frames'[k].field].base = Struct(frames'[k + 1].decl).base
    <3>1. CASE k + 1 \in DOMAIN frames
      BY <1>2, <1>10, <2>7, <3>1 DEF CallsInv
    <3>2. CASE k + 1 = last
      <4>1. k = Len(frames) /\ frames # <<>>
        BY <1>10, <2>7, <3>2
      <4>2. frames[k] = frame
        BY <4>1 DEF frame
      <4> QED
        BY <1>3, <1>9, <1>10, <2>7, <3>2, <4>1, <4>2
    <3> QED
      BY <1>10, <2>7, <3>1, <3>2
  <2> QED
    BY <1>2, <1>5, <1>10, <2>1, <2>2, <2>3, <2>4, <2>5, <2>6, <2>7 DEF CallsInv
<1> QED
  BY <1>11, <1>12, <1>13 DEF LayoutInv

(* A field that is placed, and whose alignment is always found. *)
LEMMA LayoutPlaced ==
  ASSUME NamesInv, NamesInv', LayoutInv, PlaceField
  PROVE  LayoutInv' /\ error' = error
<1>1. CachesInv /\ CallsInv /\ FramesInv /\ CachesTyped /\ CachesRight
  BY DEF LayoutInv, CachesInv
<1>2. frames # <<>> /\ Measured(Wanted.base) /\ Sizing
  BY DEF PlaceField
<1>3. /\ Found(Wanted) /\ frame \in Frame /\ frame.field \in DOMAIN Fields(frame.decl)
      /\ Wanted = Fields(frame.decl)[frame.field] /\ Len(frames) \in DOMAIN frames
  BY <1>1, <1>2, WantedFound
<1>4. Done \subseteq DOMAIN program /\ Len(program) \in Nat
        /\ Cardinality(Done) \in Nat /\ Cardinality(Done) <= Len(program)
  <2>1. Done \subseteq DOMAIN program
    BY DEF Done, Usable
  <2> QED
    BY <2>1, DoneFinite, ProgramShape DEF NamesInv
<1>5. Len(program) \in Cardinality(Done)..Len(program)
  BY <1>4
<1>6. Aligned(Wanted.base)
  BY <1>1, <1>2, <1>3, <1>5, PartIs
<1> DEFINE more == placed(frame.layout, size_in_bytes(Wanted), alignment_of(Wanted))
           new == [decl |-> frame.decl, field |-> frame.field + 1, layout |-> more]
<1>7. /\ UNCHANGED <<program, todo, tables, caches, struct_size_in_progress, asking, answer, error>>
      /\ frames' = [frames EXCEPT ![Len(frames)] = new]
  BY <1>6 DEF PlaceField
<1>8. Usable' = Usable /\ program' = program /\ \A d : Name(d)' = Name(d) /\ Fields(d)' = Fields(d)
  BY <1>7, NamesStay DEF Name, Fields
<1>9. Done' = Done
  BY <1>7, <1>8, DoneStays DEF LayoutInv
<1>10. /\ frame.decl \in Usable /\ frame.field \in Nat \ {0} /\ frame.layout \in LayoutType
       /\ frame.decl \in DOMAIN program /\ frame = frames[Len(frames)]
       /\ Len(Fields(frame.decl)) \in Nat /\ DOMAIN Fields(frame.decl) = 1..Len(Fields(frame.decl))
  BY <1>3, ProgramShape DEF Frame, Usable, NamesInv, frame
<1>11. LaidFrame(frame)
  BY <1>1, <1>3, <1>10 DEF FramesInv
<1>12. ASSUME NEW n \in Cardinality(Done)..Len(program)
       PROVE  more \in LayoutType
                /\ LaidSoFar(more, PartsOf(program, frame.decl, Nested(program)[n]), frame.field)
  <2> DEFINE parts == PartsOf(program, frame.decl, Nested(program)[n])
             m == frame.field
  <2>1. /\ Len(parts) = Len(Fields(frame.decl)) /\ DOMAIN parts = 1..Len(parts)
        /\ parts[m] = PartOf(Wanted, Nested(program)[n])
    BY <1>3, <1>10, PartsShape
  <2>2. /\ parts[m] = Part(size_in_bytes(Wanted), alignment_of(Wanted))
        /\ size_in_bytes(Wanted) \in Nat /\ alignment_of(Wanted) \in {1, 4}
    BY <1>1, <1>2, <1>3, <2>1, PartIs
  <2>3. parts[m].bytes = size_in_bytes(Wanted) /\ parts[m].alignment = alignment_of(Wanted)
    BY <2>2 DEF Part
  <2>4. LaidSoFar(frame.layout, parts, m - 1)
    BY <1>11 DEF LaidFrame
  <2>5. Len(parts) \in Nat /\ m \in 1..Len(parts)
    BY <1>3, <1>10, <2>1
  <2> HIDE DEF parts, m
  <2>6. placed(frame.layout, parts[m].bytes, parts[m].alignment) \in LayoutType
          /\ LaidSoFar(placed(frame.layout, parts[m].bytes, parts[m].alignment), parts, m)
    BY <1>10, <2>2, <2>3, <2>4, <2>5, OneMoreLaid
  <2> QED
    BY <2>3, <2>6 DEF parts, m
<1>13. more \in LayoutType
  BY <1>5, <1>12
<1> HIDE DEF more
<1>14. /\ new \in Frame /\ new.decl = frame.decl /\ new.field = frame.field + 1 /\ new.layout = more
       /\ new.field - 1 = frame.field
  BY <1>10, <1>13 DEF Frame
<1> HIDE DEF new
<1>15. /\ frames' \in Seq(Frame) /\ DOMAIN frames' = DOMAIN frames /\ frames'[Len(frames)] = new
       /\ \A k \in DOMAIN frames : k # Len(frames) => frames'[k] = frames[k]
       /\ DOMAIN frames = 1..Len(frames) /\ Len(frames) \in Nat /\ frames \in Seq(Frame)
  <2>1. frames \in Seq(Frame)
    BY <1>1 DEF CallsInv
  <2> QED
    BY <1>3, <1>7, <1>14, <2>1
<1>16. CachesInv'
  <2>1. struct_size_cache' = struct_size_cache /\ struct_align_cache' = struct_align_cache
    BY <1>7 DEF caches
  <2>2. \A d : Holding(d)' = Holding(d)
    BY <1>8 DEF Holding
  <2>3. CachesTyped' /\ CachesRight'
    BY <1>1, <1>8, <1>9, <2>1 DEF CachesTyped, CachesRight
  <2>4. DoneNested' /\ MeasuredInv'
    BY <1>1, <1>7, <1>8, <1>9, <2>2 DEF CachesInv, DoneNested, MeasuredInv
  <2> QED
    BY <2>3, <2>4 DEF CachesInv
<1>17. FramesInv'
  <2>1. \A f : LaidFrame(f) => LaidFrame(f)'
    <3>1. Done \subseteq Done' /\ Done' \subseteq DOMAIN program
      BY <1>4, <1>9
    <3>2. DOMAIN struct_size_cache \subseteq DOMAIN struct_size_cache'
      BY <1>7 DEF caches
    <3> QED
      BY <1>8, <3>1, <3>2, FramesStay
  <2>2. PICK f : f = new
    OBVIOUS
  <2>3. LaidFrame(f)
    <3>1. \A i \in 1..frame.field : i = frame.field \/ i \in 1..(frame.field - 1)
      BY <1>10
    <3>2. \A i \in 1..frame.field : Measured(Fields(frame.decl)[i].base)
      BY <1>2, <1>3, <1>11, <3>1 DEF LaidFrame
    <3> QED
      BY <1>12, <1>14, <2>2, <3>2 DEF LaidFrame
  <2>4. \A k \in DOMAIN frames' : \E g : g = frames'[k] /\ LaidFrame(g)
    BY <1>1, <1>15, <2>2, <2>3 DEF FramesInv
  <2>5. \A k \in DOMAIN frames' : \E g : g = frames'[k] /\ LaidFrame(g)'
    BY <2>1, <2>4
  <2> QED
    BY <2>5 DEF FramesInv, LaidFrame
<1>18. CallsInv'
  <2>1. Frame' = Frame
    BY <1>8 DEF Frame
  <2>2. \A k \in DOMAIN frames : frames'[k].decl = frames[k].decl
    BY <1>10, <1>14, <1>15
  <2>3. \A k \in DOMAIN frames : name_at(k)' = name_at(k) /\ name_at(k) \notin DOMAIN struct_size_cache'
    BY <1>1, <1>7, <2>2, FrameShape DEF name_at, caches
  <2>4. asking' = asking /\ asking # NoType /\ Found(asking)'
    BY <1>1, <1>2, <1>7, <1>8 DEF CallsInv, Found, Sizing
  <2>5. new.field <= Len(Fields(frame.decl)) + 1
    BY <1>3, <1>10, <1>14
  <2>6. \A k \in DOMAIN frames : frames'[k].field <= Len(Fields(frames'[k].decl)) + 1
    BY <1>1, <1>10, <1>14, <1>15, <2>5 DEF CallsInv
  <2>7. ASSUME NEW k \in DOMAIN frames, k + 1 \in DOMAIN frames
        PROVE  /\ frames'[k].field \in DOMAIN Fields(frames'[k].decl)
               /\ Fields(frames'[k].decl)[frames'[k].field].base = Struct(frames'[k + 1].decl).base
    <3>1. frames'[k] = frames[k] /\ frames'[k + 1].decl = frames[k + 1].decl
      BY <1>15, <2>2, <2>7
    <3> QED
      BY <1>1, <2>7, <3>1 DEF CallsInv
  <2> QED
    BY <1>8, <1>15, <2>1, <2>3, <2>4, <2>6, <2>7 DEF CallsInv
<1> QED
  BY <1>7, <1>16, <1>17, <1>18 DEF LayoutInv

(* The struct that is finished has the layout of one level more. *)
LEMMA FinishedIsLaid ==
  ASSUME NamesInv, LayoutInv, FinishStruct
  PROVE  /\ frame \in Frame /\ frame.decl \in Usable /\ frame.decl \notin Done /\ frame.layout \in LayoutType
         /\ Len(frames) \in DOMAIN frames /\ frames # <<>>
         /\ Holding(frame.decl) \subseteq Done
         /\ \A n \in (Cardinality(Done) + 1)..Len(program) :
              Nested(program)[n][frame.decl]
                = Part(align_to(frame.layout.total, frame.layout.max_align), frame.layout.max_align)
<1> DEFINE d == frame.decl
           l == frame.layout
<1>1. CallsInv /\ FramesInv /\ frames # <<>> /\ frames \in Seq(Frame)
  BY DEF LayoutInv, FinishStruct, HasField, CallsInv
<1>2. Len(frames) \in DOMAIN frames /\ frame = frames[Len(frames)]
  BY <1>1 DEF frame
<1>3. /\ frame \in Frame /\ d \in Usable /\ d \in DOMAIN program /\ frame.field \in Nat \ {0} /\ l \in LayoutType
      /\ frame.field <= Len(Fields(d)) + 1 /\ Name(d) \notin DOMAIN struct_size_cache
  BY <1>1, <1>2, FrameShape
<1>4. Len(Fields(d)) \in Nat /\ DOMAIN Fields(d) = 1..Len(Fields(d)) /\ Len(program) \in Nat
  BY <1>3, ProgramShape DEF NamesInv
<1>5. frame.field = Len(Fields(d)) + 1
  <2>1. frame.field \notin DOMAIN Fields(d)
    BY <1>1 DEF FinishStruct, HasField, FieldsOf, Fields
  <2> QED
    BY <1>3, <1>4, <2>1
<1>6. frame.field - 1 = Len(Fields(d))
  BY <1>4, <1>5
<1>7. d \notin Done
  BY <1>3 DEF Done
<1>8. LaidFrame(frame)
  BY <1>1, <1>2 DEF FramesInv
<1> HIDE DEF d, l
<1>9. Holding(d) \subseteq Done
  <2> SUFFICES ASSUME NEW e \in DOMAIN program, NEW i \in DOMAIN Fields(d), Fields(d)[i].base = Struct(e).base
               PROVE  e \in Done
    BY DEF Holding
  <2>1. Measured(Struct(e).base) /\ Struct(e).base.kind = "struct" /\ Struct(e).base.decl = e
    BY <1>4, <1>6, <1>8 DEF LaidFrame, Struct, d
  <2>2. Name(e) \in DOMAIN struct_size_cache
    BY <2>1 DEF Measured, NeedsCache, name_of, Name, scalar_size
  <2>3. e \in Usable
    BY <1>3, <2>1, UsableClosed
  <2> QED
    BY <2>2, <2>3 DEF Done
<1>10. ASSUME NEW n \in (Cardinality(Done) + 1)..Len(program)
       PROVE  Nested(program)[n][d] = Part(align_to(l.total, l.max_align), l.max_align)
  <2> DEFINE parts == PartsOf(program, d, Nested(program)[n - 1])
  <2>1. Done \subseteq DOMAIN program
    BY DEF Done, Usable
  <2>2. Cardinality(Done) \in Nat
    BY <2>1, DoneFinite
  <2>3. n - 1 \in Cardinality(Done)..Len(program) /\ n \in 1..Len(program)
    BY <1>4, <2>2
  <2>4. Len(parts) = Len(Fields(d)) /\ DOMAIN parts = 1..Len(parts)
    BY <1>4, PartsShape
  <2>5. LaidSoFar(l, parts, Len(parts))
    BY <1>6, <1>8, <2>3, <2>4 DEF LaidFrame, d, l
  <2>6. Nested(program)[n][d] = LaidOut(parts)
    BY <1>3, <1>4, <2>3, NestedEquation
  <2> HIDE DEF parts
  <2> QED
    BY <1>3, <1>4, <2>4, <2>5, <2>6, AllLaid
<1> QED
  BY <1>1, <1>2, <1>3, <1>7, <1>9, <1>10 DEF d, l

(* The caches grow by one struct, and the layouts of one level more are    *)
(* those they give.                                                        *)
LEMMA LayoutFinished ==
  ASSUME NamesInv, NamesInv', LayoutInv, InProgressIsStack, FinishStruct
  PROVE  LayoutInv'
<1> PICK d : d = frame.decl
  OBVIOUS
<1> PICK last : last = Len(frames)
  OBVIOUS
<1> PICK l : l = frame.layout
  OBVIOUS
<1>1. /\ UNCHANGED <<program, todo, tables, asking>> /\ frames' = Front(frames)
      /\ Remember(Name(d), l) /\ asking # NoType
  BY DEF FinishStruct, Name
<1>2. CallsInv /\ CachesTyped /\ CachesRight /\ DoneNested /\ MeasuredInv /\ FramesInv
  BY DEF LayoutInv, CachesInv
<1>3. /\ d \in Usable /\ d \notin Done /\ l \in LayoutType /\ last \in DOMAIN frames /\ frames # <<>>
      /\ Holding(d) \subseteq Done
      /\ \A n \in (Cardinality(Done) + 1)..Len(program) :
           Nested(program)[n][d] = Part(align_to(l.total, l.max_align), l.max_align)
  BY FinishedIsLaid
<1>4. /\ DOMAIN struct_size_cache' = DOMAIN struct_size_cache \cup {Name(d)}
      /\ DOMAIN struct_align_cache' = DOMAIN struct_size_cache \cup {Name(d)}
      /\ struct_size_cache'[Name(d)] = align_to(l.total, l.max_align) /\ struct_size_cache'[Name(d)] \in Nat
      /\ struct_align_cache'[Name(d)] = l.max_align /\ struct_align_cache'[Name(d)] \in {1, 4}
      /\ \A y \in DOMAIN struct_size_cache \ {Name(d)} :
           struct_size_cache'[y] = struct_size_cache[y] /\ struct_align_cache'[y] = struct_align_cache[y]
  BY <1>1, <1>2, <1>3, Remembered
<1>5. Usable' = Usable /\ program' = program /\ \A e : Name(e)' = Name(e) /\ Fields(e)' = Fields(e)
  BY <1>1, NamesStay DEF Name, Fields
<1>6. Name(d) \notin DOMAIN builtin_fields /\ \A e \in Usable : Name(e) = Name(d) => e = d
  <2>1. d \in Defined /\ \A e \in Usable : e \in Defined
    BY <1>3, UsableClosed
  <2> QED
    BY <2>1 DEF NamesInv
<1>7. Done' = Done \cup {d}
  BY <1>3, <1>4, <1>5, <1>6 DEF Done
<1>8. /\ Done \subseteq DOMAIN program /\ d \in DOMAIN program /\ Len(program) \in Nat
      /\ Cardinality(Done) \in Nat /\ Cardinality(Done \cup {d}) = Cardinality(Done) + 1
  <2>1. Done \subseteq DOMAIN program /\ d \in DOMAIN program
    BY <1>3 DEF Done, Usable
  <2>2. d \in DOMAIN program \ Done
    BY <1>3, <2>1
  <2> QED
    BY <2>1, <2>2, DoneFinite, ProgramShape DEF NamesInv
<1>9. Cardinality(Done)' = Cardinality(Done) + 1
  BY <1>7, <1>8
<1>10. CachesTyped'
  BY <1>2, <1>3, <1>4, <1>5 DEF CachesTyped
<1>11. CachesRight'
  <2>1. \A x \in DOMAIN struct_size_cache' \cap DOMAIN builtin_fields :
          Known[x] = Part(struct_size_cache'[x], struct_align_cache'[x])
    BY <1>2, <1>4, <1>6 DEF CachesRight
  <2>2. ASSUME NEW e \in Done', NEW n \in (Cardinality(Done) + 1)..Len(program)
        PROVE  Nested(program)[n][e] = Part(struct_size_cache'[Name(e)], struct_align_cache'[Name(e)])
    <3>1. CASE e = d
      BY <1>3, <1>4, <2>2, <3>1
    <3>2. CASE e # d
      <4>1. e \in Done /\ n \in Cardinality(Done)..Len(program)
        BY <1>7, <1>8, <2>2, <3>2
      <4>2. Name(e) \in DOMAIN struct_size_cache \ {Name(d)}
        BY <1>6, <3>2, <4>1 DEF Done
      <4>3. Nested(program)[n][e] = Part(struct_size_cache[Name(e)], struct_align_cache[Name(e)])
        BY <1>2, <4>1 DEF CachesRight
      <4> QED
        BY <1>4, <4>2, <4>3
    <3> QED
      BY <3>1, <3>2
  <2> QED
    BY <1>5, <1>9, <2>1, <2>2 DEF CachesRight
<1>12. DoneNested'
  <2>1. \A e : Holding(e)' = Holding(e)
    BY <1>5 DEF Holding
  <2>2. \A e \in Done \cup {d} : Holding(e) \subseteq Done
    BY <1>2, <1>3 DEF DoneNested
  <2>3. ASSUME NEW C \in (SUBSET (Done \cup {d})) \ {{}} PROVE \E e \in C : Holding(e) \cap C = {}
    <3>1. CASE C \subseteq {d}
      BY <1>3, <2>3, <3>1
    <3>2. CASE ~(C \subseteq {d})
      <4>1. C \ {d} \in (SUBSET Done) \ {{}}
        BY <2>3, <3>2
      <4>2. PICK e \in C \ {d} : Holding(e) \cap (C \ {d}) = {}
        BY <1>2, <4>1 DEF DoneNested
      <4>3. d \notin Holding(e)
        BY <1>3, <2>2, <2>3, <4>2
      <4> QED
        BY <4>2, <4>3
    <3> QED
      BY <3>1, <3>2
  <2> QED
    BY <1>7, <2>1, <2>2, <2>3 DEF DoneNested
<1>13. MeasuredInv'
  BY <1>1, <1>2, <1>5, <1>7 DEF MeasuredInv
<1>14. /\ DOMAIN frames' = DOMAIN frames \ {last} /\ \A k \in DOMAIN frames' : frames'[k] = frames[k]
       /\ frames' \in Seq(Frame) /\ DOMAIN frames = 1..last /\ last \in Nat
  <2>1. frames \in Seq(Frame)
    BY <1>2 DEF CallsInv
  <2>2. frames' = [k \in 1..(last - 1) |-> frames[k]]
    BY <1>1 DEF Front
  <2>3. frames' \in Seq(Frame)
    BY <1>3, <2>1, <2>2
  <2>4. last \in Nat /\ DOMAIN frames = 1..last
    BY <2>1
  <2>5. DOMAIN frames' = 1..(last - 1)
    BY <2>2
  <2> QED
    BY <2>2, <2>3, <2>4, <2>5
<1>15. FramesInv'
  <2>1. Done \subseteq Done' /\ Done' \subseteq DOMAIN program
    BY <1>7, <1>8
  <2>2. DOMAIN struct_size_cache \subseteq DOMAIN struct_size_cache'
    BY <1>4
  <2>3. \A f : LaidFrame(f) => LaidFrame(f)'
    BY <1>5, <2>1, <2>2, FramesStay
  <2>4. \A k \in DOMAIN frames' : \E f : f = frames'[k] /\ LaidFrame(f)
    BY <1>2, <1>14 DEF FramesInv
  <2>5. \A k \in DOMAIN frames' : \E f : f = frames'[k] /\ LaidFrame(f)'
    BY <2>3, <2>4
  <2> QED
    BY <2>5 DEF FramesInv, LaidFrame
<1>16. CallsInv'
  <2>1. Frame' = Frame
    BY <1>5 DEF Frame
  <2>2. \A k \in DOMAIN frames' : name_at(k)' = name_at(k) /\ name_at(k) \notin DOMAIN struct_size_cache'
    <3>1. \A k \in DOMAIN frames' : name_at(k) # name_at(last) /\ name_at(k) \notin DOMAIN struct_size_cache
      BY <1>2, <1>3, <1>14 DEF InProgressIsStack, CallsInv
    <3>2. name_at(last) = Name(d)
      BY DEF name_at, Name, frame
    <3>3. \A k \in DOMAIN frames' : name_at(k)' = name_at(k)
      BY <1>5, <1>14 DEF name_at
    <3> QED
      BY <1>4, <3>1, <3>2, <3>3
  <2>3. asking' # NoType /\ Found(asking)'
    BY <1>1, <1>2, <1>5 DEF CallsInv, Found
  <2> QED
    BY <1>2, <1>5, <1>14, <2>1, <2>2, <2>3 DEF CallsInv
<1> QED
  BY <1>10, <1>11, <1>12, <1>13, <1>15, <1>16 DEF LayoutInv, CachesInv

-----------------------------------------------------------------------------
(* The exceptions, each with what it says of the program.                  *)

ErrorsInv ==
  \/ error = ""
  \/ error = "cyclic struct size dependency" /\ HoldsItself(program)
  \/ error = "array size missing" /\ (EmptyArray(program) \/ 0 \in ToSet(asking.dims))
  \/ error = "struct fields already defined" /\ NameTaken(program)

(* A struct that is wanted while it is in progress: the calls from its own *)
(* to the last one are for structs each of which holds the next.           *)
LEMMA ChainIsCycle ==
  ASSUME NamesInv, CallsInv, InProgressIsStack, Sizing, Wanted.base.kind = "struct",
         name_of(Wanted.base) \in struct_size_in_progress
  PROVE  HoldsItself(program)
<1>1. /\ Found(Wanted) /\ Wanted.base.decl \in Usable
      /\ Wanted.base = Struct(Wanted.base.decl).base
  BY WantedFound, TypeShape DEF Found
<1>2. PICK k \in DOMAIN frames : name_at(k) = Name(Wanted.base.decl)
  BY DEF InProgressIsStack, name_of, Name
<1>3. frames[k].decl = Wanted.base.decl
  <2>1. frames[k].decl \in Usable /\ name_at(k) = Name(frames[k].decl)
    BY FrameShape
  <2>2. frames[k].decl \in Defined /\ Wanted.base.decl \in Defined
    BY <1>1, <2>1, UsableClosed
  <2> QED
    BY <1>2, <2>1, <2>2 DEF NamesInv
<1> DEFINE above == {j \in DOMAIN frames : k <= j}
           C == {frames[j].decl : j \in above}
<1>4. DOMAIN frames = 1..Len(frames) /\ Len(frames) \in Nat /\ k \in above
  <2>1. frames \in Seq(Frame)
    BY DEF CallsInv
  <2>2. DOMAIN frames = 1..Len(frames) /\ Len(frames) \in Nat
    BY <2>1
  <2> QED
    BY <2>2
<1>5. C \in (SUBSET DOMAIN program) \ {{}}
  <2>1. \A j \in above : frames[j].decl \in DOMAIN program
    BY FrameShape
  <2> QED
    BY <1>4, <2>1
<1>6. ASSUME NEW j \in above
      PROVE  \E e \in C : \E i \in DOMAIN program[frames[j].decl].fields :
               program[frames[j].decl].fields[i].base = Struct(e).base
  <2>1. CASE j + 1 \in DOMAIN frames
    <3>1. /\ frames[j].field \in DOMAIN Fields(frames[j].decl)
          /\ Fields(frames[j].decl)[frames[j].field].base = Struct(frames[j + 1].decl).base
      BY <2>1 DEF CallsInv
    <3>2. j + 1 \in above
      BY <1>4, <2>1
    <3>3. frames[j + 1].decl \in C
      BY <3>2
    <3> QED
      BY <3>1, <3>3 DEF Fields
  <2>2. CASE j + 1 \notin DOMAIN frames
    <3>1. j = Len(frames) /\ frames # <<>>
      BY <1>4, <2>2
    <3>2. frame = frames[j]
      BY <3>1 DEF frame
    <3>3. frames[j].field \in DOMAIN Fields(frames[j].decl) /\ Wanted = Fields(frames[j].decl)[frames[j].field]
      BY <3>1, <3>2, WantedFound
    <3>4. Wanted.base.decl \in C
      BY <1>3, <1>4
    <3> QED
      BY <1>1, <3>3, <3>4 DEF Fields
  <2> QED
    BY <2>1, <2>2
<1>7. \A d \in C : \E j \in above : d = frames[j].decl
  OBVIOUS
<1> HIDE DEF C, above
<1>8. \A d \in C : \E e \in C : \E i \in DOMAIN program[d].fields : program[d].fields[i].base = Struct(e).base
  BY <1>6, <1>7
<1> QED
  BY <1>5, <1>8 DEF HoldsItself

(* What the exceptions of size_in_bytes say of the program. *)
LEMMA RefusedForCause ==
  ASSUME NamesInv, CallsInv, InProgressIsStack, Sizing, size_error(Wanted) # ""
  PROVE  \/ size_error(Wanted) = "cyclic struct size dependency" /\ HoldsItself(program)
         \/ size_error(Wanted) = "array size missing" /\ (EmptyArray(program) \/ 0 \in ToSet(asking.dims))
<1>1. CASE 0 \in ToSet(Wanted.dims)
  <2>1. CASE frames = <<>>
    BY <1>1, <2>1 DEF size_error, Wanted
  <2>2. CASE frames # <<>>
    <3>1. frame \in Frame /\ frame.field \in DOMAIN Fields(frame.decl) /\ Wanted = Fields(frame.decl)[frame.field]
      BY <2>2, WantedFound
    <3>2. frame.decl \in DOMAIN program
      BY <3>1 DEF Frame, Usable
    <3> QED
      BY <1>1, <3>1, <3>2 DEF size_error, EmptyArray, Fields
  <2> QED
    BY <2>1, <2>2
<1>2. CASE 0 \notin ToSet(Wanted.dims)
  <2>1. Wanted.base.kind = "struct"
    BY <1>2 DEF size_error
  <2>2. name_of(Wanted.base) \notin pending_struct_defs
    <3>1. Wanted.base.decl \in Usable
      BY <2>1, WantedFound DEF Found
    <3>2. Wanted.base.decl \in Defined
      BY <3>1, UsableClosed
    <3>3. name_of(Wanted.base) = Name(Wanted.base.decl)
      BY <2>1 DEF name_of, Name
    <3>4. pending_struct_defs \cap {Name(d) : d \in Defined} = {}
      BY DEF NamesInv
    <3> QED
      BY <3>2, <3>3, <3>4
  <2>3. size_error(Wanted) = "cyclic struct size dependency" /\ name_of(Wanted.base) \in struct_size_in_progress
    BY <1>2, <2>1, <2>2 DEF size_error
  <2> QED
    BY <2>1, <2>3, ChainIsCycle
<1> QED
  BY <1>1, <1>2

(* Once an exception is thrown nothing happens. *)
LEMMA ThrownIsFinal ==
  ASSUME error # "", [Next]_vars
  PROVE  UNCHANGED vars
BY DEF Next, visit_scope, Layout, Due, DeclareStub, DefineFields, AskStruct, Query, Refuse, MeasureBuiltin,
       EnterStruct, PlaceField, FinishStruct, Answer, Sizing

(* No step throws anything else. *)
LEMMA ErrorsKept ==
  ASSUME NamesInv, NamesInv', LayoutInv, InProgressIsStack, ErrorsInv, [Next]_vars
  PROVE  ErrorsInv'
<1>1. CASE UNCHANGED vars
  BY <1>1 DEF ErrorsInv, vars
<1>2. CASE error' = ""
  BY <1>2 DEF ErrorsInv
<1>3. CASE error = "" /\ error' # ""
  <2>1. ASSUME NEW d \in DOMAIN program, DefineFields(d) PROVE ErrorsInv'
    <3>1. Throw(define_error(program[d])) /\ define_error(program[d]) # "" /\ Due("define", d)
      BY <1>3, <2>1 DEF DefineFields
    <3>2. error' = define_error(program[d]) /\ program' = program /\ asking' = asking
      BY <3>1 DEF Throw
    <3> QED
      BY <3>1, <3>2, DefineRefused DEF ErrorsInv
  <2>2. CASE Refuse
    <3>1. Sizing /\ Throw(size_error(Wanted)) /\ size_error(Wanted) # ""
      BY <2>2 DEF Refuse
    <3>2. error' = size_error(Wanted) /\ program' = program /\ asking' = asking
      BY <3>1 DEF Throw
    <3> QED
      BY <3>1, <3>2, RefusedForCause DEF ErrorsInv, LayoutInv
  <2>3. ~PlaceField
    BY <1>3, LayoutPlaced
  <2>4. \A d : ~DeclareStub(d) /\ ~AskStruct(d)
    BY <1>3 DEF DeclareStub, AskStruct, Ask
  <2>5. ~MeasureBuiltin /\ ~EnterStruct /\ ~FinishStruct /\ ~Answer /\ ~Query /\ ~UNCHANGED vars
    BY <1>3 DEF MeasureBuiltin, EnterStruct, FinishStruct, Answer, Query, Ask, vars
  <2> QED
    BY <2>1, <2>2, <2>3, <2>4, <2>5 DEF Next, visit_scope, Layout
<1> QED
  BY <1>1, <1>2, <1>3, ThrownIsFinal

(* Every step of every struct is to do at first. *)
LEMMA EveryStep ==
  ASSUME NEW p, NEW op \in DOMAIN loop_of, NEW d \in DOMAIN p
  PROVE  Step(op, d) \in Steps(p)
BY SMT DEF Steps

(* All of it holds at first. *)
LEMMA SizesInit ==
  ASSUME Init
  PROVE  NamesInv /\ LayoutInv /\ ErrorsInv
<1>1. /\ program \in Programs /\ todo = Steps(program) /\ struct_cache = DOMAIN builtin_fields
      /\ pending_struct_defs = {} /\ struct_size_cache = <<>> /\ struct_align_cache = <<>>
      /\ frames = <<>> /\ asking = NoType /\ error = ""
  BY DEF Init
<1>2. Declared = {} /\ Defined = {} /\ \A d \in DOMAIN program : Step("measure", d) \in todo
  <2>1. {"declare", "define", "measure"} \subseteq DOMAIN loop_of
    BY DEF loop_of
  <2>2. \A op \in DOMAIN loop_of, d \in DOMAIN program : Step(op, d) \in todo
    BY <1>1, EveryStep
  <2> QED
    BY <2>1, <2>2 DEF Declared, Defined
<1>3. NamesInv
  BY <1>1, <1>2 DEF NamesInv
<1>4. Usable = {}
  BY <1>2, <1>3, OwnScope DEF Usable
<1>5. Done = {}
  BY <1>4 DEF Done
<1>6. DOMAIN struct_size_cache = {} /\ DOMAIN struct_align_cache = {} /\ DOMAIN frames = {}
  <2>1. DOMAIN <<>> = {}
    OBVIOUS
  <2> QED
    BY <1>1, <2>1
<1>7. frames \in Seq(Frame)
  <2>1. \A S : <<>> \in Seq(S)
    OBVIOUS
  <2> QED
    BY <1>1, <2>1
<1>8. CallsInv
  BY <1>1, <1>6, <1>7 DEF CallsInv
<1>9. CachesInv
  <2>1. CachesTyped /\ CachesRight
    BY <1>5, <1>6 DEF CachesTyped, CachesRight
  <2>2. DoneNested /\ MeasuredInv
    BY <1>2, <1>5 DEF DoneNested, MeasuredInv
  <2> QED
    BY <2>1, <2>2 DEF CachesInv
<1>10. FramesInv
  BY <1>6 DEF FramesInv
<1> QED
  BY <1>1, <1>3, <1>8, <1>9, <1>10 DEF LayoutInv, ErrorsInv

(* Every step keeps all of it. *)
LEMMA SizesStep ==
  ASSUME NamesInv, LayoutInv, ErrorsInv, InProgressIsStack, [Next]_vars
  PROVE  NamesInv' /\ LayoutInv' /\ ErrorsInv'
<1>1. ASSUME NEW d \in DOMAIN program, DeclareStub(d) \/ DefineFields(d) \/ AskStruct(d)
      PROVE  NamesInv' /\ LayoutInv'
  <2>1. NamesInv'
    BY <1>1, NamesDeclared, NamesDefined, NamesStay DEF AskStruct, Ask
  <2> QED
    BY <1>1, <2>1, LayoutWalked
<1>2. ASSUME Query \/ Layout \/ UNCHANGED vars
      PROVE  NamesInv' /\ LayoutInv'
  <2>1. UNCHANGED <<program, todo, tables>>
    BY <1>2 DEF Layout, Query, Refuse, MeasureBuiltin, EnterStruct, PlaceField, FinishStruct, Answer, Ask, Throw, vars
  <2>2. NamesInv'
    BY <2>1, NamesStay
  <2> QED
    BY <1>2, <2>2, LayoutAsked, LayoutBuiltin, LayoutEntered, LayoutPlaced, LayoutFinished DEF Layout
<1>3. NamesInv' /\ LayoutInv'
  BY <1>1, <1>2 DEF Next, visit_scope
<1> QED
  BY <1>3, ErrorsKept

(* The names, the calls and the caches are always as described, whatever   *)
(* was measured before.                                                    *)
LEMMA SizesInductive == Spec => [](NamesInv /\ LayoutInv /\ ErrorsInv)
<1> DEFINE I == NamesInv /\ LayoutInv /\ ErrorsInv
<1>1. Init => I
  BY SizesInit
<1>2. I /\ InProgressIsStack /\ [Next]_vars => I'
  BY SizesStep
<1>3. Spec => []InProgressIsStack
  BY ChainOfStructs
<1> HIDE DEF I
<1>4. Spec => []I
  BY <1>1, <1>2, <1>3, PTL DEF Spec
<1> QED
  BY <1>4 DEF I

(* Every size the lowering gives out is that of the natural layout of its  *)
(* type: what the caches have when it is given out is the layout of as     *)
(* many levels as there are structs (size_of_struct and alignment_of,      *)
(* type_lowering.cpp:434-523).                                             *)
THEOREM SizesAreRight == Spec => []SizesAreLayouts
<1> DEFINE I == NamesInv /\ LayoutInv /\ ErrorsInv
<1>1. Init => SizesAreLayouts
  BY DEF Init, SizesAreLayouts
<1>2. I /\ SizesAreLayouts /\ [Next]_vars => SizesAreLayouts'
  <2> SUFFICES ASSUME NamesInv, LayoutInv, SizesAreLayouts, [Next]_vars PROVE SizesAreLayouts'
    OBVIOUS
  <2>1. CASE Answer
    <3>1. /\ answer' = [type |-> asking, bytes |-> size_in_bytes(asking)] /\ program' = program
          /\ Sizing /\ Measured(Wanted.base) /\ Wanted = asking
      BY <2>1 DEF Answer, Wanted
    <3>2. Found(asking) /\ CachesTyped /\ CachesRight
      BY <3>1, WantedFound DEF LayoutInv, CachesInv
    <3>3. Len(program) \in Cardinality(Done)..Len(program)
      <4>1. Done \subseteq DOMAIN program
        BY DEF Done, Usable
      <4> QED
        BY <4>1, DoneFinite, ProgramShape DEF NamesInv
    <3>4. LayoutOf(program, asking) = Part(size_in_bytes(asking), alignment_of(asking))
      BY <3>1, <3>2, <3>3, PartIs DEF LayoutOf, Layouts
    <3>5. LayoutOf(program, asking).bytes = size_in_bytes(asking)
      BY <3>4 DEF Part
    <3>6. answer'.type = asking /\ answer'.bytes = size_in_bytes(asking)
      BY <3>1
    <3> QED
      BY <3>1, <3>5, <3>6 DEF SizesAreLayouts
  <2>2. CASE ~Answer
    <3>1. program' = program
      BY <2>2 DEF Next, visit_scope, Layout, DeclareStub, DefineFields, AskStruct, Query, Refuse, MeasureBuiltin,
                  EnterStruct, PlaceField, FinishStruct, Ask, Throw, vars
    <3>2. answer' = answer \/ answer' = NoAnswer
      BY <2>2 DEF Next, visit_scope, Layout, DeclareStub, DefineFields, AskStruct, Query, Refuse, MeasureBuiltin,
                  EnterStruct, PlaceField, FinishStruct, Ask, Throw, vars
    <3> QED
      BY <3>1, <3>2 DEF SizesAreLayouts
  <2> QED
    BY <2>1, <2>2
<1>3. Spec => []I
  BY SizesInductive
<1> HIDE DEF I
<1> QED
  BY <1>1, <1>2, <1>3, PTL DEF Spec

(* A program is refused for what it says, and one that gets through says   *)
(* nothing to be refused for (define_struct_fields and size_of_struct,     *)
(* type_lowering.cpp:326-353 and 489-523).                                 *)
THEOREM RefusalsAreExact == Spec => []RefusedExactly
<1> DEFINE I == NamesInv /\ LayoutInv /\ ErrorsInv
<1>1. I => RefusedExactly
  <2> SUFFICES ASSUME NamesInv, LayoutInv, ErrorsInv PROVE RefusedExactly
    OBVIOUS
  <2>1. error # "" => CASE error = "cyclic struct size dependency" -> HoldsItself(program)
                        [] error = "array size missing" -> EmptyArray(program) \/ 0 \in ToSet(asking.dims)
                        [] error = "struct fields already defined" -> NameTaken(program)
                        [] OTHER -> FALSE
    BY DEF ErrorsInv
  <2>2. ASSUME todo = {}, asking = NoType
        PROVE  ~HoldsItself(program) /\ ~EmptyArray(program) /\ ~NameTaken(program)
    <3>1. \A d \in DOMAIN program : d \in Defined /\ d \in Done
      BY <2>2 DEF LayoutInv, CachesInv, MeasuredInv, Defined, NoType, Struct
    <3>2. ~HoldsItself(program)
      <4> SUFFICES ASSUME NEW C \in (SUBSET DOMAIN program) \ {{}},
                          \A d \in C : \E e \in C : \E i \in DOMAIN program[d].fields :
                            program[d].fields[i].base = Struct(e).base
                   PROVE  FALSE
        BY DEF HoldsItself
      <4>1. PICK d \in C : Holding(d) \cap C = {}
        BY <3>1 DEF LayoutInv, CachesInv, DoneNested
      <4> QED
        BY <4>1 DEF Holding, Fields
    <3>3. ~EmptyArray(program)
      BY <3>1 DEF EmptyArray, NamesInv, Fields
    <3>4. ~NameTaken(program)
      BY <3>1 DEF NameTaken, NamesInv, Name
    <3> QED
      BY <3>2, <3>3, <3>4
  <2> QED
    BY <2>1, <2>2 DEF RefusedExactly
<1>2. Spec => []I
  BY SizesInductive
<1> HIDE DEF I
<1> QED
  BY <1>1, <1>2, PTL
=============================================================================
