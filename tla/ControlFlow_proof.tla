-------------------------- MODULE ControlFlow_proof --------------------------
(***************************************************************************)
(* Proofs about ControlFlow, for functions of any size: loop_depth, one    *)
(* number that every visit changes and restores, says how many loops of    *)
(* its function are around a node; therefore the visit refuses exactly the *)
(* jumps without a loop, and what it accepts has an outcome at every node: *)
(* that of its subtree, with NEXT wherever the node can complete.          *)
(***************************************************************************)
EXTENDS ControlFlowSound, FiniteSetTheorems, SequenceTheorems, WellFoundedInduction, TLAPS

(* The visits among the first k of the stack s that are loops of the       *)
(* function the k-th one is in.                                            *)
around(s, k) ==
  {i \in 1..k : s[i].node.k \in Loops /\ \A j \in i + 1..k : s[j].node.k \notin FunctionKinds}

LEMMA AroundFinite ==
  ASSUME NEW s, NEW k \in Nat
  PROVE  IsFiniteSet(around(s, k)) /\ Cardinality(around(s, k)) \in Nat
<1>1. IsFiniteSet(1..k)
  BY FS_Interval
<1>2. around(s, k) \subseteq 1..k
  BY DEF around
<1> QED
  BY <1>1, <1>2, FS_Subset, FS_CardinalityType

(* Only the visits themselves count. *)
LEMMA AroundSame ==
  ASSUME NEW s, NEW t, NEW k \in Nat, \A i \in 1..k : s[i] = t[i]
  PROVE  around(s, k) = around(t, k)
<1>1. ASSUME NEW i \in 1..k
      PROVE  \A j \in i + 1..k : s[j] = t[j]
  OBVIOUS
<1> QED
  BY <1>1 DEF around

(***************************************************************************)
(* One more visit: a loop counts, a function starts again from nothing.    *)
(***************************************************************************)
LEMMA AroundStep ==
  ASSUME NEW s, NEW k \in Nat \ {0}
  PROVE  /\ Cardinality(around(s, k - 1)) \in Nat
         /\ Cardinality(around(s, k)) =
              IF s[k].node.k \in Loops THEN Cardinality(around(s, k - 1)) + 1
              ELSE IF s[k].node.k \in FunctionKinds THEN 0
              ELSE Cardinality(around(s, k - 1))
<1>1. IsFiniteSet(around(s, k - 1)) /\ Cardinality(around(s, k - 1)) \in Nat
  BY AroundFinite
<1>2. Loops \cap FunctionKinds = {}
  BY DEF Loops, FunctionKinds
<1>3. CASE s[k].node.k \in Loops
  <2>1. s[k].node.k \notin FunctionKinds
    BY <1>2, <1>3
  <2>2. ASSUME NEW i \in 1..k - 1
        PROVE  i \in around(s, k) <=> i \in around(s, k - 1)
    <3>1. i + 1..k = (i + 1..k - 1) \cup {k}
      OBVIOUS
    <3> QED
      BY <2>1, <3>1 DEF around
  <2>3. k \in around(s, k) /\ k \notin around(s, k - 1)
    BY <1>3 DEF around
  <2>4. around(s, k) = around(s, k - 1) \cup {k}
    <3>1. around(s, k) \subseteq (1..k - 1) \cup {k} /\ around(s, k - 1) \subseteq 1..k - 1
      BY DEF around
    <3> QED
      BY <2>2, <2>3, <3>1
  <2>5. Cardinality(around(s, k - 1) \cup {k}) = Cardinality(around(s, k - 1)) + 1
    BY <1>1, <2>3, FS_AddElement
  <2> QED
    BY <1>1, <1>3, <2>4, <2>5
<1>4. CASE s[k].node.k \in FunctionKinds
  <2>1. ASSUME NEW i \in around(s, k)
        PROVE  FALSE
    <3>1. i \in 1..k /\ s[i].node.k \in Loops /\ \A j \in i + 1..k : s[j].node.k \notin FunctionKinds
      BY DEF around
    <3>2. i # k
      BY <1>2, <1>4, <3>1
    <3> QED
      BY <1>4, <3>1, <3>2
  <2>2. around(s, k) = {}
    BY <2>1
  <2>3. s[k].node.k \notin Loops
    BY <1>2, <1>4
  <2> QED
    BY <1>1, <1>4, <2>2, <2>3, FS_EmptySet
<1>5. CASE s[k].node.k \notin Loops \cup FunctionKinds
  <2>1. ASSUME NEW i \in 1..k - 1
        PROVE  i \in around(s, k) <=> i \in around(s, k - 1)
    <3>1. i + 1..k = (i + 1..k - 1) \cup {k}
      OBVIOUS
    <3> QED
      BY <1>5, <3>1 DEF around
  <2>2. around(s, k) \subseteq 1..k - 1 /\ around(s, k - 1) \subseteq 1..k - 1
    BY <1>5 DEF around
  <2>3. around(s, k) = around(s, k - 1)
    BY <2>1, <2>2
  <2> QED
    BY <1>1, <1>5, <2>3
<1> QED
  BY <1>3, <1>4, <1>5

-----------------------------------------------------------------------------
(* Nodes and their paths *)

(* A set of naturals that is not empty has a least element. *)
LEMMA Least ==
  ASSUME NEW T \in SUBSET Nat, T # {}
  PROVE  \E n \in T : \A m \in T : n <= m
<1> DEFINE R == OpToRel(<, Nat)
<1>1. \E n \in T : \A m \in T : ~(<<m, n>> \in R)
  BY WFMin, NatLessThanWellFounded
<1>2. \A m, n \in Nat : m < n => <<m, n>> \in R
  BY Zenon DEF OpToRel
<1> HIDE DEF R
<1>3. \A m, n \in T : ~(<<m, n>> \in R) => n <= m
  <2> SUFFICES ASSUME NEW m \in T, NEW n \in T, ~(n <= m) PROVE <<m, n>> \in R
    OBVIOUS
  <2>1. m \in Nat /\ n \in Nat /\ m < n
    OBVIOUS
  <2> QED
    BY <1>2, <2>1
<1> QED
  BY <1>1, <1>3

(* Induction for one set: it has 0, and with a number the next one. *)
LEMMA UpToN ==
  ASSUME NEW n \in Nat, NEW T, 0 \in T, \A k \in 1..n : k - 1 \in T => k \in T
  PROVE  \A k \in 0..n : k \in T
<1> DEFINE out == {k \in 0..n : k \notin T}
<1> SUFFICES ASSUME out # {} PROVE FALSE
  OBVIOUS
<1>1. PICK k \in out : \A m \in out : k <= m
  <2>1. out \in SUBSET Nat
    OBVIOUS
  <2> QED
    BY <2>1, Least
<1>2. k \in 1..n /\ k - 1 \in 0..n /\ ~(k <= k - 1)
  BY <1>1
<1>3. k - 1 \in T
  BY <1>1, <1>2
<1> QED
  BY <1>1, <1>2, <1>3

(***************************************************************************)
(* The walk of At and the levels of paths satisfy their equations: what    *)
(* solves them up to k - 1 extends to k.                                   *)
(***************************************************************************)
LEMMA WalkEquation ==
  ASSUME NEW n, NEW path, Len(path) \in Nat
  PROVE  \E w : /\ w[Len(path)] = At(n, path)
                /\ w[0] = n
                /\ \A i \in 1..Len(path) : w[i] = w[i - 1].s[path[i]]
<1> DEFINE len == Len(path)
           next(m, i) == m.s[path[i]]
           step(f, i) == IF i = 0 THEN n ELSE next(f[i - 1], i)
           solves(f, k) == f = [i \in 0..k |-> step(f, i)]
           T == {k \in 0..len : \E f : solves(f, k)}
           walk == CHOOSE f : solves(f, len)
<1>1. len \in Nat
  OBVIOUS
<1>2. At(n, path) = walk[len]
  BY DEF At
<1> HIDE DEF len, next
<1>3. 0 \in T
  <2> DEFINE f == [i \in 0..0 |-> n]
  <2>1. solves(f, 0)
    OBVIOUS
  <2> HIDE DEF f, solves
  <2> QED
    BY <1>1, <2>1
<1>4. ASSUME NEW k \in 1..len, k - 1 \in T PROVE k \in T
  <2>1. PICK f : solves(f, k - 1)
    BY <1>4
  <2> DEFINE g == [i \in 0..k |-> IF i = k THEN next(f[k - 1], k) ELSE f[i]]
  <2>2. k \in 0..len /\ k \in Nat /\ k # 0 /\ k - 1 \in 0..(k - 1)
    BY <1>1, <1>4
  <2>3. \A i \in 0..k : g[i] = step(g, i)
    <3> SUFFICES ASSUME NEW i \in 0..k PROVE g[i] = step(g, i)
      OBVIOUS
    <3>1. CASE i = k
      <4>1. g[i] = next(f[k - 1], k) /\ g[k - 1] = f[k - 1]
        BY <2>2, <3>1
      <4> QED
        BY <2>2, <3>1, <4>1
    <3>2. CASE i # k
      <4>1. i \in 0..(k - 1) /\ (i # 0 => i - 1 \in 0..(k - 1) /\ i - 1 \in 0..k /\ i - 1 # k)
        BY <2>2, <3>2
      <4>2. g[i] = f[i] /\ f[i] = step(f, i)
        BY <2>1, <3>2, <4>1
      <4>3. i # 0 => g[i - 1] = f[i - 1]
        BY <4>1
      <4> QED
        BY <4>2, <4>3
    <3> QED
      BY <3>1, <3>2
  <2>4. solves(g, k)
    <3>1. g = [i \in 0..k |-> g[i]]
      OBVIOUS
    <3> HIDE DEF g, step
    <3> QED
      BY <2>3, <3>1
  <2> HIDE DEF g, solves
  <2> QED
    BY <2>2, <2>4
<1>5. \E f : solves(f, len)
  <2> HIDE DEF T
  <2>1. \A k \in 0..len : k \in T
    BY <1>1, <1>3, <1>4, UpToN
  <2>2. len \in T
    BY <1>1, <2>1
  <2> QED
    BY <2>2, Zenon DEF T
<1>6. solves(walk, len)
  <2> HIDE DEF solves
  <2> QED
    BY <1>5
<1>7. \A i \in 0..len : walk[i] = step(walk, i)
  BY <1>6
<1> HIDE DEF walk
<1>8. walk[0] = n /\ \A i \in 1..len : walk[i] = next(walk[i - 1], i)
  BY <1>1, <1>7
<1> QED
  BY <1>2, <1>8 DEF len, next

LEMMA LevelEquation ==
  ASSUME NEW n
  PROVE  /\ Level(n)[0] = {<< >>}
         /\ \A k \in 1..MaxNesting :
              Level(n)[k] = UNION {{Append(p, i) : i \in DOMAIN At(n, p).s} : p \in Level(n)[k - 1]}
<1> DEFINE len == MaxNesting
           next(paths) == UNION {{Append(p, i) : i \in DOMAIN At(n, p).s} : p \in paths}
           step(f, k) == IF k = 0 THEN {<< >>} ELSE next(f[k - 1])
           solves(f, k) == f = [j \in 0..k |-> step(f, j)]
           T == {k \in 0..len : \E f : solves(f, k)}
<1>1. len \in Nat
  BY NestingAssumption
<1>2. Level(n) = CHOOSE f : solves(f, len)
  BY DEF Level
<1> HIDE DEF len, next
<1>3. 0 \in T
  <2> DEFINE f == [i \in 0..0 |-> {<< >>}]
  <2>1. solves(f, 0)
    OBVIOUS
  <2> HIDE DEF f, solves
  <2> QED
    BY <1>1, <2>1
<1>4. ASSUME NEW k \in 1..len, k - 1 \in T PROVE k \in T
  <2>1. PICK f : solves(f, k - 1)
    BY <1>4
  <2> DEFINE g == [i \in 0..k |-> IF i = k THEN next(f[k - 1]) ELSE f[i]]
  <2>2. k \in 0..len /\ k \in Nat /\ k # 0 /\ k - 1 \in 0..(k - 1)
    BY <1>1, <1>4
  <2>3. \A i \in 0..k : g[i] = step(g, i)
    <3> SUFFICES ASSUME NEW i \in 0..k PROVE g[i] = step(g, i)
      OBVIOUS
    <3>1. CASE i = k
      <4>1. g[i] = next(f[k - 1]) /\ g[k - 1] = f[k - 1]
        BY <2>2, <3>1
      <4> QED
        BY <2>2, <3>1, <4>1
    <3>2. CASE i # k
      <4>1. i \in 0..(k - 1) /\ (i # 0 => i - 1 \in 0..(k - 1) /\ i - 1 \in 0..k /\ i - 1 # k)
        BY <2>2, <3>2
      <4>2. g[i] = f[i] /\ f[i] = step(f, i)
        BY <2>1, <3>2, <4>1
      <4>3. i # 0 => g[i - 1] = f[i - 1]
        BY <4>1
      <4> QED
        BY <4>2, <4>3
    <3> QED
      BY <3>1, <3>2
  <2>4. solves(g, k)
    <3>1. g = [i \in 0..k |-> g[i]]
      OBVIOUS
    <3> HIDE DEF g, step
    <3> QED
      BY <2>3, <3>1
  <2> HIDE DEF g, solves
  <2> QED
    BY <2>2, <2>4
<1>5. \E f : solves(f, len)
  <2> HIDE DEF T
  <2>1. \A k \in 0..len : k \in T
    BY <1>1, <1>3, <1>4, UpToN
  <2>2. len \in T
    BY <1>1, <2>1
  <2> QED
    BY <2>2, Zenon DEF T
<1>6. solves(Level(n), len)
  <2> HIDE DEF solves
  <2> QED
    BY <1>2, <1>5
<1>7. \A k \in 0..len : Level(n)[k] = step(Level(n), k)
  BY <1>6
<1>8. Level(n)[0] = {<< >>} /\ \A k \in 1..len : Level(n)[k] = next(Level(n)[k - 1])
  BY <1>1, <1>7
<1> QED
  BY <1>8 DEF len, next

LEMMA AtRoot ==
  ASSUME NEW n
  PROVE  At(n, << >>) = n
<1>1. Len(<< >>) = 0
  OBVIOUS
<1> QED
  BY <1>1, WalkEquation

(* A child of a node. *)
LEMMA AtChild ==
  ASSUME NEW n, NEW S, NEW path \in Seq(S), NEW c
  PROVE  At(n, Append(path, c)) = At(n, path).s[c]
<1> DEFINE walks(p, w) == w[Len(p)] = At(n, p) /\ w[0] = n /\ \A i \in 1..Len(p) : w[i] = w[i - 1].s[p[i]]
<1>1. \A p : Len(p) \in Nat => \E w : walks(p, w)
  BY WalkEquation
<1> PICK q : q = Append(path, c)
  OBVIOUS
<1> PICK len : len = Len(path)
  OBVIOUS
<1>2. len \in Nat /\ Len(q) = len + 1 /\ q[len + 1] = c /\ \A i \in 1..len : q[i] = path[i]
  <2>1. path \in Seq(S \cup {c})
    OBVIOUS
  <2> QED
    BY <2>1
<1> HIDE DEF walks
<1>3. PICK w, v : walks(path, w) /\ walks(q, v)
  <2>1. Len(path) \in Nat /\ Len(q) \in Nat
    BY <1>2
  <2> QED
    BY <1>1, <2>1
<1>4. /\ w[len] = At(n, path) /\ w[0] = n /\ \A i \in 1..len : w[i] = w[i - 1].s[path[i]]
      /\ v[len + 1] = At(n, q) /\ v[0] = n /\ \A i \in 1..(len + 1) : v[i] = v[i - 1].s[q[i]]
  BY <1>2, <1>3 DEF walks
<1> DEFINE T == {i \in 0..len : v[i] = w[i]}
<1>5. 0 \in T
  BY <1>2, <1>4
<1>6. ASSUME NEW k \in 1..len, k - 1 \in T PROVE k \in T
  <2>1. v[k - 1] = w[k - 1] /\ q[k] = path[k]
    BY <1>2, <1>6
  <2>2. v[k] = v[k - 1].s[q[k]] /\ w[k] = w[k - 1].s[path[k]] /\ k \in 0..len
    BY <1>2, <1>4
  <2> QED
    BY <2>1, <2>2
<1>7. len \in T
  <2> HIDE DEF T
  <2>1. \A k \in 0..len : k \in T
    BY <1>2, <1>5, <1>6, UpToN
  <2> QED
    BY <1>2, <2>1
<1>8. v[len] = w[len] /\ v[len + 1] = v[len].s[q[len + 1]]
  <2>1. len + 1 \in 1..(len + 1) /\ len + 1 - 1 = len
    BY <1>2
  <2> QED
    BY <1>4, <1>7, <2>1
<1> QED
  BY <1>2, <1>4, <1>8

LEMMA LevelPaths ==
  ASSUME NEW n, NEW k \in 0..MaxNesting, NEW p \in Level(n)[k]
  PROVE  (\E S : p \in Seq(S)) /\ Len(p) = k
<1> DEFINE sized(q, j) == (\E S : q \in Seq(S)) /\ Len(q) = j
           T == {j \in 0..MaxNesting : \A q \in Level(n)[j] : sized(q, j)}
<1>1. MaxNesting \in Nat
  BY NestingAssumption
<1>2. sized(<< >>, 0)
  <2>1. << >> \in Seq({}) /\ Len(<< >>) = 0
    OBVIOUS
  <2> QED
    BY <2>1
<1>3. ASSUME NEW q, NEW j \in Nat, NEW c, sized(q, j)
      PROVE  sized(Append(q, c), j + 1)
  <2>1. PICK S : q \in Seq(S)
    BY <1>3
  <2>2. q \in Seq(S \cup {c}) /\ Len(q) = j
    BY <1>3, <2>1
  <2>3. Append(q, c) \in Seq(S \cup {c}) /\ Len(Append(q, c)) = j + 1
    BY <2>2
  <2> QED
    BY <2>3
<1> HIDE DEF sized
<1>4. 0 \in T
  BY <1>1, <1>2, LevelEquation
<1>5. ASSUME NEW j \in 1..MaxNesting, j - 1 \in T PROVE j \in T
  <2> SUFFICES ASSUME NEW q \in Level(n)[j] PROVE sized(q, j)
    BY <1>1
  <2>1. PICK r \in Level(n)[j - 1] : \E c \in DOMAIN At(n, r).s : q = Append(r, c)
    BY LevelEquation
  <2>2. sized(r, j - 1) /\ j - 1 \in Nat /\ (j - 1) + 1 = j
    BY <1>1, <1>5
  <2> QED
    BY <1>3, <2>1, <2>2
<1>6. k \in T
  <2> HIDE DEF T
  <2> QED
    BY <1>1, <1>4, <1>5, UpToN
<1> QED
  BY <1>6 DEF sized

(* A child of a node is one level below it. *)
LEMMA LevelChild ==
  ASSUME NEW n, NEW k \in 1..MaxNesting, NEW p \in Level(n)[k - 1], NEW c \in DOMAIN At(n, p).s
  PROVE  Append(p, c) \in Level(n)[k]
<1> DEFINE below(q) == {Append(q, i) : i \in DOMAIN At(n, q).s}
<1>1. Level(n)[k] = UNION {below(q) : q \in Level(n)[k - 1]}
  BY LevelEquation
<1>2. Append(p, c) \in below(p)
  OBVIOUS
<1> HIDE DEF below
<1> QED
  BY <1>1, <1>2

(***************************************************************************)
(* A set with the root that has a node's children with it has every node.  *)
(***************************************************************************)
LEMMA EveryNode ==
  ASSUME NEW n, NEW D, << >> \in D,
         \A p \in D : \A c \in DOMAIN At(n, p).s : Append(p, c) \in D
  PROVE  PathsOf(n) \subseteq D
<1> DEFINE T == {k \in 0..MaxNesting : Level(n)[k] \subseteq D}
<1>1. MaxNesting \in Nat
  BY NestingAssumption
<1>2. 0 \in T
  BY <1>1, LevelEquation
<1>3. ASSUME NEW k \in 1..MaxNesting, k - 1 \in T PROVE k \in T
  <2>1. Level(n)[k] = UNION {{Append(p, i) : i \in DOMAIN At(n, p).s} : p \in Level(n)[k - 1]}
    BY LevelEquation
  <2>2. Level(n)[k - 1] \subseteq D
    BY <1>3
  <2>3. \A p \in Level(n)[k - 1] : {Append(p, i) : i \in DOMAIN At(n, p).s} \subseteq D
    BY <2>2
  <2>4. Level(n)[k] \subseteq D
    BY <2>1, <2>3, Zenon
  <2> QED
    BY <1>1, <2>4
<1>4. \A k \in 0..MaxNesting : k \in T
  <2> HIDE DEF T
  <2> QED
    BY <1>1, <1>2, <1>3, UpToN
<1> QED
  BY <1>4 DEF PathsOf

-----------------------------------------------------------------------------
(* The inductive invariant *)

(***************************************************************************)
(* What a visit saved is the depth before it, so that leaving a function   *)
(* restores it, whatever was visited in between; and a jump was let        *)
(* through at a depth that is not 0.                                       *)
(***************************************************************************)
StackTyped == \E S : stack \in Seq(S)
DepthInv ==
  /\ StackTyped
  /\ loop_depth = Cardinality(around(stack, Len(stack)))
  /\ \A k \in 1..Len(stack) :
       /\ stack[k].prev_loop_depth = Cardinality(around(stack, k - 1))
       /\ stack[k].node.k \in {"brk", "cont"} => stack[k].prev_loop_depth # 0

LEMMA DepthInit == Init => DepthInv
<1> SUFFICES ASSUME Init PROVE DepthInv
  OBVIOUS
<1>1. stack = <<frame(program, << >>, 0)>> /\ loop_depth = 0 /\ program.k \in FunctionKinds
  BY ProgramsAssumption DEF Init
<1>2. /\ Len(stack) = 1 /\ stack[1] = frame(program, << >>, 0)
      /\ stack \in Seq({frame(program, << >>, 0)})
  BY <1>1
<1>8. StackTyped
  BY <1>2 DEF StackTyped
<1>9. 1..Len(stack) = {1}
  BY <1>2
<1>3. stack[1].node.k \in FunctionKinds /\ stack[1].prev_loop_depth = 0
  BY <1>1, <1>2 DEF frame
<1>4. Cardinality(around(stack, 1)) = 0
  BY <1>3, AroundStep DEF Loops, FunctionKinds
<1>5. around(stack, 0) = {}
  BY DEF around
<1>6. Cardinality(around(stack, 1 - 1)) = 0
  BY <1>5, FS_EmptySet
<1>7. stack[1].node.k \notin {"brk", "cont"}
  BY <1>3 DEF FunctionKinds
<1> QED
  BY <1>1, <1>2, <1>3, <1>4, <1>6, <1>7, <1>8, <1>9 DEF DepthInv

LEMMA DepthEnter ==
  ASSUME DepthInv, Enter
  PROVE  DepthInv'
<1>1. CASE UNCHANGED <<stack, loop_depth>>
  BY <1>1 DEF DepthInv, StackTyped, around
<1>2. CASE ~UNCHANGED <<stack, loop_depth>>
  <2>1. PICK f : /\ stack' = Append(stack, f)
                 /\ loop_depth' = depth_inside(f.node.k)
                 /\ f.prev_loop_depth = loop_depth
                 /\ ~refused(f.node.k)
    <3> DEFINE n == top.node.s[next_child(top)]
    <3>1. stack' = Append(stack, frame(n, Append(top.path, next_child(top)), loop_depth))
          /\ loop_depth' = depth_inside(n.k) /\ ~refused(n.k)
      BY <1>2 DEF Enter
    <3> QED
      BY <3>1 DEF frame
  <2>2. PICK S : stack \in Seq(S)
    BY DEF DepthInv, StackTyped
  <2>3. PICK n \in Nat : n = Len(stack)
    BY <2>2
  <2>4. stack' \in Seq(S \cup {f})
    <3>1. stack \in Seq(S \cup {f})
      BY <2>2
    <3> QED
      BY <2>1, <3>1
  <2>5. /\ Len(stack') = n + 1
        /\ stack'[n + 1] = f
        /\ \A i \in 1..n : stack'[i] = stack[i]
    BY <2>1, <2>2, <2>3
  <2>6. \A k \in 0..n : around(stack', k) = around(stack, k)
    BY <2>5, AroundSame
  <2>7. loop_depth = Cardinality(around(stack, n)) /\ loop_depth = Cardinality(around(stack', n))
    BY <2>3, <2>6 DEF DepthInv
  <2>8. loop_depth' = Cardinality(around(stack', n + 1))
    <3>1. Cardinality(around(stack', n + 1)) =
            IF f.node.k \in Loops THEN Cardinality(around(stack', n)) + 1
            ELSE IF f.node.k \in FunctionKinds THEN 0
            ELSE Cardinality(around(stack', n))
      BY <2>5, AroundStep, n + 1 \in Nat \ {0}, n + 1 - 1 = n
    <3>2. loop_depth' = depth_inside(f.node.k) /\ loop_depth = Cardinality(around(stack', n))
      BY <2>1, <2>7
    <3>3. CASE f.node.k \in Loops
      BY <3>1, <3>2, <3>3 DEF depth_inside, Loops, FunctionKinds
    <3>4. CASE f.node.k \notin Loops /\ f.node.k \in FunctionKinds
      BY <3>1, <3>2, <3>4 DEF depth_inside
    <3>5. CASE f.node.k \notin Loops /\ f.node.k \notin FunctionKinds
      BY <3>1, <3>2, <3>5 DEF depth_inside
    <3> QED
      BY <3>3, <3>4, <3>5
  <2>9. ASSUME NEW k \in 1..n + 1
        PROVE  /\ stack'[k].prev_loop_depth = Cardinality(around(stack', k - 1))
               /\ stack'[k].node.k \in {"brk", "cont"} => stack'[k].prev_loop_depth # 0
    <3>1. CASE k = n + 1
      BY <2>1, <2>5, <2>7, <3>1 DEF refused
    <3>2. CASE k # n + 1
      <4>1. k \in 1..n /\ k - 1 \in 0..n
        BY <3>2
      <4> QED
        BY <2>3, <2>5, <2>6, <4>1 DEF DepthInv
    <3> QED
      BY <3>1, <3>2
  <2>10. StackTyped'
    BY <2>4 DEF StackTyped
  <2> QED
    BY <2>5, <2>8, <2>9, <2>10 DEF DepthInv, around
<1> QED
  BY <1>1, <1>2

LEMMA DepthLeave ==
  ASSUME DepthInv, Leave
  PROVE  DepthInv'
<1>1. PICK S : stack \in Seq(S)
  BY DEF DepthInv, StackTyped
<1>2. PICK n \in Nat : n + 1 = Len(stack)
  <2>1. Len(stack) \in Nat \ {0}
    BY <1>1, EmptySeq DEF Leave
  <2> QED
    BY <2>1
<1>3. stack' = SubSeq(stack, 1, n) /\ top = stack[n + 1]
  BY <1>2 DEF Leave, Front, top, Last
<1>4. /\ stack' \in Seq(S)
      /\ Len(stack') = n
      /\ \A i \in 1..n : stack'[i] = stack[i]
  BY <1>1, <1>2, <1>3
<1>5. \A k \in 0..n : around(stack', k) = around(stack, k)
  BY <1>4, AroundSame
<1>6. loop_depth = Cardinality(around(stack, n + 1))
      /\ top.prev_loop_depth = Cardinality(around(stack, n))
  BY <1>2, <1>3 DEF DepthInv
<1>7. loop_depth' = Cardinality(around(stack, n))
  <2>1. /\ Cardinality(around(stack, n)) \in Nat
        /\ Cardinality(around(stack, n + 1)) =
            IF top.node.k \in Loops THEN Cardinality(around(stack, n)) + 1
            ELSE IF top.node.k \in FunctionKinds THEN 0
            ELSE Cardinality(around(stack, n))
    <3>1. PICK k \in Nat \ {0} : k = n + 1
      OBVIOUS
    <3>2. /\ Cardinality(around(stack, k - 1)) \in Nat
          /\ Cardinality(around(stack, k)) =
              IF stack[k].node.k \in Loops THEN Cardinality(around(stack, k - 1)) + 1
              ELSE IF stack[k].node.k \in FunctionKinds THEN 0
              ELSE Cardinality(around(stack, k - 1))
      BY AroundStep
    <3>3. k - 1 = n
      BY <3>1
    <3> QED
      BY <1>3, <3>1, <3>2, <3>3
  <2>2. loop_depth' = depth_after(top)
    BY DEF Leave
  <2> QED
    BY <1>6, <2>1, <2>2 DEF depth_after
<1>8. ASSUME NEW k \in 1..n
      PROVE  /\ stack'[k].prev_loop_depth = Cardinality(around(stack', k - 1))
             /\ stack'[k].node.k \in {"brk", "cont"} => stack'[k].prev_loop_depth # 0
  <2>1. k \in 1..Len(stack) /\ k - 1 \in 0..n
    BY <1>2
  <2> QED
    BY <1>4, <1>5, <2>1 DEF DepthInv
<1>9. StackTyped'
  BY <1>4 DEF StackTyped
<1>10. loop_depth' = Cardinality(around(stack', n))
  BY <1>5, <1>7
<1> QED
  BY <1>4, <1>8, <1>9, <1>10 DEF DepthInv, around

THEOREM DepthInvariant == Spec => []DepthInv
<1>1. Init => DepthInv
  BY DepthInit
<1>2. DepthInv /\ [Next]_vars => DepthInv'
  <2> SUFFICES ASSUME DepthInv, [Next]_vars PROVE DepthInv'
    OBVIOUS
  <2>1. CASE UNCHANGED vars \/ Finish
    <3>1. UNCHANGED <<stack, loop_depth>>
      BY <2>1 DEF vars, Finish
    <3> QED
      BY <3>1 DEF DepthInv, StackTyped, around
  <2> QED
    BY <2>1, DepthEnter, DepthLeave DEF Next
<1> QED
  BY <1>1, <1>2, PTL DEF Spec

(***************************************************************************)
(* Wherever the visit is in a function of any size, loop_depth is the      *)
(* number of loops around it (visit of while, loop and function items).    *)
(***************************************************************************)
THEOREM DepthIsRight == Spec => []DepthCountsLoops
<1>1. DepthInv => DepthCountsLoops
  <2> SUFFICES ASSUME DepthInv PROVE DepthCountsLoops
    OBVIOUS
  <2>1. DOMAIN stack = 1..Len(stack)
    BY DEF DepthInv, StackTyped
  <2>2. {i \in DOMAIN stack : stack[i].node.k \in Loops /\ in_function(i)} = around(stack, Len(stack))
    BY <2>1 DEF around, in_function
  <2> QED
    BY <2>2 DEF DepthInv, DepthCountsLoops
<1> QED
  BY <1>1, DepthInvariant, PTL

(***************************************************************************)
(* The check of break and continue is sound: one whose operand is visited  *)
(* stands in a loop of its own function, so that the generator finds the   *)
(* loop's blocks for it (visit of BreakExpr and ContinueExpr).             *)
(***************************************************************************)
JumpsHaveLoops ==
  \A k \in DOMAIN stack : stack[k].node.k \in {"brk", "cont"} =>
    \E i \in 1..k - 1 :
      /\ stack[i].node.k \in Loops
      /\ \A j \in i + 1..k - 1 : stack[j].node.k \notin FunctionKinds

THEOREM JumpsAreInLoops == Spec => []JumpsHaveLoops
<1>1. DepthInv => JumpsHaveLoops
  <2> SUFFICES ASSUME DepthInv, NEW k \in DOMAIN stack, stack[k].node.k \in {"brk", "cont"}
               PROVE  around(stack, k - 1) # {}
    BY DEF JumpsHaveLoops, around
  <2>1. k \in 1..Len(stack)
    BY DEF DepthInv, StackTyped
  <2>2. Cardinality(around(stack, k - 1)) # 0
    BY <2>1 DEF DepthInv
  <2> QED
    BY <2>2, FS_EmptySet
<1> QED
  BY <1>1, DepthInvariant, PTL

-----------------------------------------------------------------------------
(* Every jump that has no loop is refused *)

(***************************************************************************)
(* Where the visit is.  The visits in progress are the nodes on one path   *)
(* from the root, in order; each was let in, and has no outcome yet.  A    *)
(* node that has one was let in, and so were all the nodes below it.       *)
(***************************************************************************)
Onto(k) ==
  /\ stack[k].path \in Level(program)[k - 1]
  /\ stack[k].node = At(program, stack[k].path)
  /\ \A i \in 1..k : SubSeq(stack[k].path, 1, i - 1) = stack[i].path
  /\ ~stray(stack[k].path)
  /\ ~visited(stack[k].path)

ChildStates(p) == [c \in DOMAIN At(program, p).s |-> node_outcome_state_map[Append(p, c)]]

Closed(p) ==
  /\ p \in PathsOf(program)
  /\ ~stray(p)
  /\ \A c \in DOMAIN At(program, p).s : visited(Append(p, c))
  /\ node_outcome_state_map[p] = node_outcome_state(At(program, p), ChildStates(p))

Decided ==
  /\ status \in {"visiting", "done", "CE"}
  /\ status = "CE" => \E p \in PathsOf(program) : stray(p)
  /\ status # "CE" /\ stack = << >> => visited(<< >>)
  /\ status = "done" => stack = << >>

WalkInv ==
  /\ program \in Programs
  /\ \A k \in 1..Len(stack) : k \in 1..MaxNesting /\ Onto(k)
  /\ \A p \in DOMAIN node_outcome_state_map : Closed(p)
  /\ Decided

LEMMA TreeFacts ==
  ASSUME program \in Programs
  PROVE  /\ MaxNesting \in Nat \ {0}
         /\ Level(program)[0] = {<< >>}
         /\ Level(program)[MaxNesting] = {}
         /\ program.k \in FunctionKinds
         /\ \A p \in PathsOf(program) : DOMAIN At(program, p).s \subseteq Nat
<1>1. program.k \in FunctionKinds /\ is_tree(program)
  BY ProgramsAssumption
<1>2. Level(program)[MaxNesting] = {}
  BY <1>1 DEF is_tree
<1>3. \A p \in PathsOf(program) : DOMAIN At(program, p).s \subseteq Nat
  <2> SUFFICES ASSUME NEW p \in PathsOf(program) PROVE DOMAIN At(program, p).s \subseteq Nat
    OBVIOUS
  <2>1. Len(At(program, p).s) \in Nat /\ DOMAIN At(program, p).s = 1..Len(At(program, p).s)
    BY <1>1 DEF is_tree
  <2> QED
    BY <2>1
<1>4. Level(program)[0] = {<< >>}
  BY LevelEquation
<1> QED
  BY <1>1, <1>2, <1>3, <1>4, NestingAssumption

LEMMA WalkInit == Init => WalkInv
<1> SUFFICES ASSUME Init PROVE WalkInv
  OBVIOUS
<1>1. /\ program \in Programs
      /\ stack = <<frame(program, << >>, 0)>>
      /\ DOMAIN node_outcome_state_map = {}
      /\ status = "visiting"
  BY DEF Init
<1>2. /\ Len(stack) = 1
      /\ stack[1].path = << >>
      /\ stack[1].node = program
      /\ stack # << >>
  BY <1>1 DEF frame
<1>3. MaxNesting \in Nat \ {0} /\ << >> \in Level(program)[0] /\ program.k \in FunctionKinds
  BY <1>1, TreeFacts
<1>4. Onto(1)
  <2>1. At(program, << >>) = program
    BY AtRoot
  <2>2. ~stray(<< >>)
    BY <1>3, <2>1 DEF stray, FunctionKinds
  <2>3. SubSeq(<< >>, 1, 1 - 1) = << >>
    OBVIOUS
  <2>4. ASSUME NEW i \in 1..1 PROVE SubSeq(stack[1].path, 1, i - 1) = stack[i].path
    <3>1. i = 1
      OBVIOUS
    <3> QED
      BY <1>2, <2>3, <3>1
  <2>5. ~visited(<< >>)
    BY <1>1 DEF visited
  <2>6. 1 - 1 = 0
    OBVIOUS
  <2> QED
    BY <1>2, <1>3, <2>1, <2>2, <2>4, <2>5, <2>6 DEF Onto
<1>5. \A k \in 1..Len(stack) : k = 1 /\ k \in 1..MaxNesting
  BY <1>2, <1>3
<1>6. Decided
  BY <1>1, <1>2 DEF Decided
<1> QED
  BY <1>1, <1>4, <1>5, <1>6 DEF WalkInv

(* The innermost visit. *)
LEMMA Innermost ==
  ASSUME StackTyped, WalkInv, stack # << >>
  PROVE  \E n, S :
           /\ n \in 1..MaxNesting /\ Len(stack) = n
           /\ top = stack[n]
           /\ top.path \in Seq(S) /\ Len(top.path) = n - 1
           /\ Onto(n)
           /\ DOMAIN top.node.s \subseteq Nat
           /\ top.path \in PathsOf(program)
<1>1. Len(stack) \in Nat \ {0} /\ top = stack[Len(stack)]
  <2>1. PICK S : stack \in Seq(S)
    BY DEF StackTyped
  <2>2. Len(stack) \in Nat \ {0}
    BY <2>1, EmptySeq
  <2> QED
    BY <2>2 DEF top, Last
<1>2. PICK n \in 1..MaxNesting : n = Len(stack) /\ Onto(n)
  <2>1. Len(stack) \in 1..Len(stack)
    BY <1>1
  <2> QED
    BY <2>1 DEF WalkInv
<1>3. top.path \in Level(program)[n - 1] /\ top.node = At(program, top.path)
  BY <1>1, <1>2 DEF Onto
<1>4. n - 1 \in 0..MaxNesting
  BY NestingAssumption
<1>5. (\E S : top.path \in Seq(S)) /\ Len(top.path) = n - 1
  BY <1>3, <1>4, LevelPaths
<1>6. top.path \in PathsOf(program)
  BY <1>3, <1>4 DEF PathsOf
<1>7. DOMAIN top.node.s \subseteq Nat
  BY <1>3, <1>6, TreeFacts DEF WalkInv
<1> QED
  BY <1>1, <1>2, <1>5, <1>6, <1>7

(***************************************************************************)
(* A jump below the innermost visit is stray exactly when no loop of its   *)
(* function is among the visits, that is, when loop_depth is 0.            *)
(***************************************************************************)
LEMMA StrayHere ==
  ASSUME StackTyped, WalkInv, stack # << >>, NEW c \in DOMAIN top.node.s
  PROVE  stray(Append(top.path, c)) <=>
           top.node.s[c].k \in {"brk", "cont"} /\ around(stack, Len(stack)) = {}
<1>1. PICK n, S :
        /\ n \in 1..MaxNesting /\ Len(stack) = n
        /\ top = stack[n]
        /\ top.path \in Seq(S) /\ Len(top.path) = n - 1
        /\ Onto(n)
  BY Innermost
<1> PICK q : q = Append(top.path, c)
  OBVIOUS
<1>2. n \in Nat \ {0}
  BY <1>1, NestingAssumption
<1>3. Len(q) = n /\ At(program, q) = top.node.s[c]
  <2>1. top.path \in Seq(S \cup {c})
    BY <1>1
  <2>2. At(program, q) = At(program, top.path).s[c] /\ top.node = At(program, top.path)
    BY <1>1, AtChild DEF Onto
  <2> QED
    BY <1>1, <1>2, <2>1, <2>2
<1>4. \A i \in 0..n - 1 : At(program, SubSeq(q, 1, i)) = stack[i + 1].node
  <2> SUFFICES ASSUME NEW i \in 0..n - 1 PROVE At(program, SubSeq(q, 1, i)) = stack[i + 1].node
    OBVIOUS
  <2>1. i + 1 \in 1..n /\ i + 1 - 1 = i
    BY <1>2
  <2>2. SubSeq(q, 1, i) = SubSeq(top.path, 1, i)
    <3>1. top.path \in Seq(S \cup {c})
      BY <1>1
    <3> QED
      BY <1>1, <1>2, <3>1
  <2>3. SubSeq(top.path, 1, i) = stack[i + 1].path
    BY <1>1, <2>1 DEF Onto
  <2>4. Onto(i + 1)
    BY <1>1, <2>1 DEF WalkInv
  <2>5. stack[i + 1].node = At(program, stack[i + 1].path)
    BY <2>4 DEF Onto
  <2> QED
    BY <2>2, <2>3, <2>5
<1>5. stray(q) <=>
        /\ top.node.s[c].k \in {"brk", "cont"}
        /\ \A i \in 0..n - 1 :
             stack[i + 1].node.k \in Loops => \E j \in i + 1..n - 1 : stack[j + 1].node.k \in FunctionKinds
  <2>1. \A i \in 0..n - 1 : \A j \in i + 1..n - 1 : At(program, SubSeq(q, 1, j)) = stack[j + 1].node
    BY <1>2, <1>4
  <2> QED
    BY <1>3, <1>4, <2>1 DEF stray
<1> DEFINE K(i) == stack[i].node.k
<1>6. (\A i \in 0..n - 1 : K(i + 1) \in Loops => \E j \in i + 1..n - 1 : K(j + 1) \in FunctionKinds)
      <=> (\A i \in 1..n : K(i) \in Loops => \E j \in i + 1..n : K(j) \in FunctionKinds)
  <2> HIDE DEF K
  <2>1. ASSUME \A i \in 0..n - 1 : K(i + 1) \in Loops => \E j \in i + 1..n - 1 : K(j + 1) \in FunctionKinds,
               NEW i \in 1..n, K(i) \in Loops
        PROVE  \E j \in i + 1..n : K(j) \in FunctionKinds
    <3>1. i - 1 \in 0..n - 1 /\ (i - 1) + 1 = i
      BY <1>2
    <3>2. PICK j \in i..n - 1 : K(j + 1) \in FunctionKinds
      BY <2>1, <3>1
    <3>3. j + 1 \in i + 1..n
      BY <1>2
    <3> QED
      BY <3>2, <3>3
  <2>2. ASSUME \A i \in 1..n : K(i) \in Loops => \E j \in i + 1..n : K(j) \in FunctionKinds,
               NEW i \in 0..n - 1, K(i + 1) \in Loops
        PROVE  \E j \in i + 1..n - 1 : K(j + 1) \in FunctionKinds
    <3>1. i + 1 \in 1..n
      BY <1>2
    <3>2. PICK j \in (i + 1) + 1..n : K(j) \in FunctionKinds
      BY <2>2, <3>1
    <3>3. j - 1 \in i + 1..n - 1 /\ (j - 1) + 1 = j
      BY <1>2
    <3> QED
      BY <3>2, <3>3
  <2> QED
    BY <2>1, <2>2
<1>7. around(stack, n) = {} <=> \A i \in 1..n : K(i) \in Loops => \E j \in i + 1..n : K(j) \in FunctionKinds
  BY DEF around
<1> QED
  BY <1>1, <1>5, <1>6, <1>7

LEMMA NextChild ==
  ASSUME StackTyped, WalkInv, stack # << >>, pending(top) # {}
  PROVE  next_child(top) \in DOMAIN top.node.s /\ ~visited(Append(top.path, next_child(top)))
<1>1. DOMAIN top.node.s \subseteq Nat
  BY Innermost
<1>2. pending(top) \in SUBSET Nat
  BY <1>1 DEF pending, children
<1>3. \E i \in pending(top) : \A j \in pending(top) : i <= j
  BY <1>2, Least
<1>4. next_child(top) \in pending(top)
  BY <1>3, Zenon DEF next_child
<1> QED
  BY <1>4 DEF pending, children

LEMMA WalkEnter ==
  ASSUME DepthInv, WalkInv, Enter
  PROVE  WalkInv'
<1>1. StackTyped /\ stack # << >> /\ status = "visiting" /\ pending(top) # {}
  BY DEF DepthInv, Enter
<1>2. program' = program /\ node_outcome_state_map' = node_outcome_state_map
  BY DEF Enter
<1>3. PICK n, S :
        /\ n \in 1..MaxNesting /\ Len(stack) = n
        /\ top = stack[n]
        /\ top.path \in Seq(S) /\ Len(top.path) = n - 1
        /\ Onto(n)
        /\ top.path \in PathsOf(program)
  BY <1>1, Innermost
<1>4. n \in Nat \ {0} /\ MaxNesting \in Nat /\ n \in 1..MaxNesting
  BY <1>3, NestingAssumption
<1>5. PICK c : c = next_child(top)
  OBVIOUS
<1>6. c \in DOMAIN top.node.s /\ ~visited(Append(top.path, c))
  BY <1>1, <1>5, NextChild
<1> PICK q : q = Append(top.path, c)
  OBVIOUS
<1>7. q \in Level(program)[n] /\ n \in 0..MaxNesting
  <2>1. top.path \in Level(program)[n - 1] /\ c \in DOMAIN At(program, top.path).s
    BY <1>3, <1>6 DEF Onto
  <2> QED
    BY <1>4, <2>1, LevelChild
<1>8. At(program, q) = top.node.s[c]
  BY <1>3, AtChild DEF Onto
<1>9. stray(q) <=> top.node.s[c].k \in {"brk", "cont"} /\ loop_depth = 0
  <2>1. stray(q) <=> top.node.s[c].k \in {"brk", "cont"} /\ around(stack, Len(stack)) = {}
    BY <1>1, <1>6, StrayHere
  <2>2. IsFiniteSet(around(stack, Len(stack))) /\ loop_depth = Cardinality(around(stack, Len(stack)))
    BY <1>3, <1>4, AroundFinite DEF DepthInv
  <2>3. loop_depth = 0 <=> around(stack, Len(stack)) = {}
    BY <2>2, FS_EmptySet
  <2> QED
    BY <2>1, <2>3
<1>10. \A p : stray(p)' <=> stray(p)
  BY <1>2 DEF stray
<1>11. \A p \in DOMAIN node_outcome_state_map' : Closed(p)'
  <2>1. \A p \in DOMAIN node_outcome_state_map : Closed(p)
    BY DEF WalkInv
  <2>2. \A p : Closed(p)' <=> Closed(p)
    BY <1>2, <1>10 DEF Closed, visited, ChildStates
  <2> QED
    BY <1>2, <2>1, <2>2
<1>12. ASSUME NEW s, stack' = s, NEW k, s[k] = stack[k], \A i \in 1..k : s[i] = stack[i], Onto(k)
       PROVE  Onto(k)'
  BY <1>2, <1>10, <1>12 DEF Onto, visited
<1>13. CASE refused(top.node.s[c].k)
  <2>1. status' = "CE" /\ stack' = stack
    BY <1>5, <1>13 DEF Enter
  <2>2. stray(q)
    BY <1>9, <1>13 DEF refused
  <2>3. q \in PathsOf(program)
    BY <1>7 DEF PathsOf
  <2>4. Decided'
    BY <1>2, <1>10, <2>1, <2>2, <2>3 DEF Decided
  <2>5. \A k \in 1..Len(stack') : k \in 1..MaxNesting /\ Onto(k)'
    <3>1. \A k \in 1..Len(stack) : k \in 1..MaxNesting /\ Onto(k)
      BY DEF WalkInv
    <3>2. \A k : Onto(k)' <=> Onto(k)
      BY <1>2, <1>10, <2>1 DEF Onto, visited
    <3> QED
      BY <2>1, <3>1, <3>2
  <2> QED
    BY <1>2, <1>11, <2>4, <2>5 DEF WalkInv
<1>14. CASE ~refused(top.node.s[c].k)
  <2>1. PICK f : f = frame(top.node.s[c], q, loop_depth)
    OBVIOUS
  <2>2. stack' = Append(stack, f) /\ status' = "visiting"
    BY <1>1, <1>5, <1>14, <2>1 DEF Enter
  <2>3. PICK s : s = Append(stack, f)
    OBVIOUS
  <2>4. /\ stack' = s
        /\ Len(s) = n + 1
        /\ s[n + 1] = f
        /\ \A i \in 1..n : s[i] = stack[i]
        /\ s # << >>
    <3>1. PICK R : stack \in Seq(R)
      BY <1>1 DEF StackTyped
    <3>2. stack \in Seq(R \cup {f})
      BY <3>1
    <3>3. Len(s) = n + 1 /\ s[n + 1] = f /\ \A i \in 1..n : s[i] = stack[i]
      BY <1>3, <1>4, <2>3, <3>2
    <3>4. s # << >>
      BY <1>4, <3>3
    <3> QED
      BY <2>2, <2>3, <3>3, <3>4
  <2>5. f.node = At(program, q) /\ f.path = q
    BY <1>8, <2>1 DEF frame
  <2>6. ~stray(q)
    BY <1>9, <1>14 DEF refused
  <2>7. n + 1 \in 1..MaxNesting
    <3>1. Level(program)[MaxNesting] = {}
      BY TreeFacts DEF WalkInv
    <3>2. n # MaxNesting
      BY <1>7, <3>1
    <3> QED
      BY <1>4, <3>2
  <2>8. \A i \in 1..n + 1 : SubSeq(q, 1, i - 1) = s[i].path
    <3> SUFFICES ASSUME NEW i \in 1..n + 1 PROVE SubSeq(q, 1, i - 1) = s[i].path
      OBVIOUS
    <3>1. top.path \in Seq(S \cup {c})
      BY <1>3
    <3>2. q \in Seq(S \cup {c}) /\ Len(q) = n
      BY <1>3, <1>4, <3>1
    <3>3. CASE i = n + 1
      <4>1. SubSeq(q, 1, n) = q
        BY <1>4, <3>2
      <4>2. i - 1 = n /\ s[i].path = q
        BY <1>4, <2>4, <2>5, <3>3
      <4> QED
        BY <4>1, <4>2
    <3>4. CASE i # n + 1
      <4>1. i \in 1..n
        BY <1>4, <3>4
      <4>2. SubSeq(q, 1, i - 1) = SubSeq(top.path, 1, i - 1)
        BY <1>3, <1>4, <3>1, <4>1
      <4>3. SubSeq(top.path, 1, i - 1) = stack[i].path /\ s[i] = stack[i]
        BY <1>3, <2>4, <4>1 DEF Onto
      <4> QED
        BY <4>2, <4>3
    <3> QED
      BY <3>3, <3>4
  <2>9. Onto(n + 1)'
    <3>1. n + 1 - 1 = n
      BY <1>4
    <3>2. s[n + 1].path = q /\ s[n + 1].node = At(program, q)
      BY <2>4, <2>5
    <3>3. ~visited(q)
      BY <1>6
    <3> QED
      BY <1>2, <1>7, <1>10, <2>4, <2>6, <2>8, <3>1, <3>2, <3>3 DEF Onto, visited
  <2>10. \A k \in 1..n + 1 : k \in 1..MaxNesting /\ Onto(k)'
    <3> SUFFICES ASSUME NEW k \in 1..n + 1 PROVE k \in 1..MaxNesting /\ Onto(k)'
      OBVIOUS
    <3>1. CASE k = n + 1
      BY <2>7, <2>9, <3>1
    <3>2. CASE k # n + 1
      <4>1. k \in 1..n /\ \A i \in 1..k : i \in 1..n
        BY <1>4, <3>2
      <4>2. k \in 1..MaxNesting /\ Onto(k)
        BY <1>3, <4>1 DEF WalkInv
      <4>3. s[k] = stack[k] /\ \A i \in 1..k : s[i] = stack[i]
        BY <2>4, <4>1
      <4> QED
        BY <1>12, <2>4, <4>2, <4>3
    <3> QED
      BY <3>1, <3>2
  <2>11. Decided'
    BY <2>2, <2>4 DEF Decided
  <2>12. \A k \in 1..Len(stack') : k \in 1..MaxNesting /\ Onto(k)'
    BY <2>4, <2>10
  <2> QED
    BY <1>2, <1>11, <2>11, <2>12 DEF WalkInv
<1> QED
  BY <1>13, <1>14

LEMMA WalkLeave ==
  ASSUME DepthInv, WalkInv, Leave
  PROVE  WalkInv'
<1>1. StackTyped /\ stack # << >> /\ status = "visiting" /\ pending(top) = {}
  BY DEF DepthInv, Leave
<1>2. program' = program /\ status' = status
  BY DEF Leave
<1>3. PICK n, S :
        /\ n \in 1..MaxNesting /\ Len(stack) = n
        /\ top = stack[n]
        /\ top.path \in Seq(S) /\ Len(top.path) = n - 1
        /\ Onto(n)
        /\ top.path \in PathsOf(program)
  BY <1>1, Innermost
<1>4. n \in Nat \ {0} /\ MaxNesting \in Nat /\ n \in 1..MaxNesting
  BY <1>3, NestingAssumption
<1>5. PICK q, state, m :
        /\ q = top.path
        /\ state = node_outcome_state(top.node, child_states(top))
        /\ m = node_outcome_state_map'
  OBVIOUS
<1>6. /\ DOMAIN m = DOMAIN node_outcome_state_map \cup {q}
      /\ m[q] = state
      /\ \A p \in DOMAIN node_outcome_state_map : p # q => m[p] = node_outcome_state_map[p]
  BY <1>5 DEF Leave, record
<1>7. q \notin DOMAIN node_outcome_state_map /\ top.node = At(program, q) /\ ~stray(q)
  BY <1>3, <1>5 DEF Onto, visited
<1>8. \A p : stray(p)' <=> stray(p)
  BY <1>2 DEF stray
<1>9. \A p : visited(p)' <=> p \in DOMAIN node_outcome_state_map \cup {q}
  BY <1>5, <1>6 DEF visited
<1>10. ASSUME NEW p \in DOMAIN node_outcome_state_map PROVE Closed(p)'
  <2>1. Closed(p)
    BY DEF WalkInv
  <2>2. p # q /\ m[p] = node_outcome_state_map[p]
    BY <1>6, <1>7
  <2>3. \A c \in DOMAIN At(program, p).s :
          /\ Append(p, c) \in DOMAIN node_outcome_state_map
          /\ m[Append(p, c)] = node_outcome_state_map[Append(p, c)]
    BY <1>6, <1>7, <2>1 DEF Closed, visited
  <2>4. [c \in DOMAIN At(program, p).s |-> m[Append(p, c)]] = ChildStates(p)
    BY <2>3 DEF ChildStates
  <2>5. m[p] = node_outcome_state(At(program, p), [c \in DOMAIN At(program, p).s |-> m[Append(p, c)]])
    BY <2>1, <2>2, <2>4 DEF Closed
  <2>6. ChildStates(p)' = [c \in DOMAIN At(program, p).s |-> m[Append(p, c)]]
    BY <1>2, <1>5 DEF ChildStates
  <2> QED
    BY <1>2, <1>5, <1>8, <1>9, <2>1, <2>3, <2>5, <2>6 DEF Closed
<1>11. Closed(q)'
  <2>1. \A c \in DOMAIN At(program, q).s :
          /\ Append(q, c) \in DOMAIN node_outcome_state_map
          /\ m[Append(q, c)] = node_outcome_state_map[Append(q, c)]
    <3> SUFFICES ASSUME NEW c \in DOMAIN At(program, q).s
                 PROVE  Append(q, c) \in DOMAIN node_outcome_state_map
      BY <1>6, <1>7
    <3> QED
      BY <1>1, <1>5, <1>7 DEF pending, children, visited
  <2>2. child_states(top) = [c \in DOMAIN At(program, q).s |-> m[Append(q, c)]]
    BY <1>5, <1>7, <2>1 DEF child_states, children
  <2>3. m[q] = node_outcome_state(At(program, q), [c \in DOMAIN At(program, q).s |-> m[Append(q, c)]])
    BY <1>5, <1>6, <1>7, <2>2
  <2>4. ChildStates(q)' = [c \in DOMAIN At(program, q).s |-> m[Append(q, c)]]
    BY <1>2, <1>5 DEF ChildStates
  <2>5. q \in PathsOf(program)
    BY <1>3, <1>5
  <2> QED
    BY <1>2, <1>5, <1>7, <1>8, <1>9, <2>1, <2>3, <2>4, <2>5 DEF Closed
<1>12. \A p \in DOMAIN node_outcome_state_map' : Closed(p)'
  BY <1>5, <1>6, <1>10, <1>11
<1>13. PICK s : s = SubSeq(stack, 1, n - 1)
  OBVIOUS
<1>14. stack' = s /\ Len(s) = n - 1 /\ \A i \in 1..n - 1 : s[i] = stack[i]
  <2>1. PICK R : stack \in Seq(R)
    BY <1>1 DEF StackTyped
  <2>2. stack' = s
    BY <1>3, <1>13 DEF Leave, Front
  <2>3. Len(s) = n - 1 /\ \A i \in 1..n - 1 : s[i] = stack[i]
    BY <1>3, <1>4, <1>13, <2>1
  <2> QED
    BY <2>2, <2>3
<1>15. ASSUME NEW k \in 1..n - 1
       PROVE  k \in 1..MaxNesting /\ Onto(k)'
  <2>1. k \in 1..n /\ k \in 1..MaxNesting /\ k # n /\ \A i \in 1..k : i \in 1..n - 1
    BY <1>4
  <2>2. Onto(k)
    BY <1>3, <2>1 DEF WalkInv
  <2>3. s[k] = stack[k] /\ \A i \in 1..k : s[i] = stack[i]
    BY <1>14, <2>1
  <2>4. stack[k].path # q
    <3>1. stack[k].path \in Level(program)[k - 1] /\ k - 1 \in 0..MaxNesting
      BY <1>4, <2>1, <2>2 DEF Onto
    <3>2. Len(stack[k].path) = k - 1
      BY <3>1, LevelPaths
    <3> QED
      BY <1>3, <1>4, <1>5, <2>1, <3>2
  <2>5. stack[k].path \notin DOMAIN node_outcome_state_map \cup {q}
    BY <2>2, <2>4 DEF Onto, visited
  <2>6. \A p : p \notin DOMAIN node_outcome_state_map \cup {q} => ~visited(p)'
    BY <1>9
  <2> QED
    BY <1>2, <1>5, <1>6, <1>8, <1>14, <2>1, <2>2, <2>3, <2>5 DEF Onto, visited
<1>16. \A k \in 1..Len(stack') : k \in 1..MaxNesting /\ Onto(k)'
  BY <1>14, <1>15
<1>17. Decided'
  <2>1. ASSUME s = << >> PROVE q = << >>
    <3>1. n = 1
      BY <1>4, <1>14, <2>1
    <3>2. q \in Level(program)[0]
      BY <1>3, <1>5, <3>1 DEF Onto
    <3> QED
      BY <3>2, TreeFacts DEF WalkInv
  <2>2. q \in DOMAIN node_outcome_state_map'
    BY <1>5, <1>6
  <2> QED
    BY <1>1, <1>2, <1>14, <2>1, <2>2 DEF Decided, visited
<1> QED
  BY <1>2, <1>12, <1>16, <1>17 DEF WalkInv

LEMMA WalkSame ==
  ASSUME WalkInv, UNCHANGED <<program, stack, node_outcome_state_map>>, Decided'
  PROVE  WalkInv'
<1>1. \A p : stray(p)' <=> stray(p)
  BY DEF stray
<1>2. \A k : Onto(k)' <=> Onto(k)
  BY <1>1 DEF Onto, visited
<1>3. \A p : Closed(p)' <=> Closed(p)
  BY <1>1 DEF Closed, visited, ChildStates
<1> QED
  BY <1>2, <1>3 DEF WalkInv

THEOREM WalkInvariant == Spec => []WalkInv
<1>1. Init => WalkInv
  BY WalkInit
<1>2. DepthInv /\ WalkInv /\ [Next]_vars => WalkInv'
  <2> SUFFICES ASSUME DepthInv, WalkInv, [Next]_vars PROVE WalkInv'
    OBVIOUS
  <2>1. CASE UNCHANGED vars \/ Finish
    <3>1. UNCHANGED <<program, stack, node_outcome_state_map>>
      BY <2>1 DEF vars, Finish
    <3>2. \A p : stray(p)' <=> stray(p)
      BY <3>1 DEF stray
    <3>3. Decided
      BY DEF WalkInv
    <3>4. Decided'
      BY <2>1, <3>1, <3>2, <3>3 DEF Decided, Finish, vars, visited
    <3> QED
      BY <3>1, <3>4, WalkSame
  <2> QED
    BY <2>1, WalkEnter, WalkLeave DEF Next
<1> QED
  BY <1>1, <1>2, DepthInvariant, PTL DEF Spec

(* A visit that was not refused has reached every node. *)
LEMMA AllReached ==
  ASSUME WalkInv, status = "done"
  PROVE  DOMAIN node_outcome_state_map = PathsOf(program)
<1>1. << >> \in DOMAIN node_outcome_state_map
  BY DEF WalkInv, Decided, visited
<1>2. \A p \in DOMAIN node_outcome_state_map : Closed(p)
  BY DEF WalkInv
<1>3. PathsOf(program) \subseteq DOMAIN node_outcome_state_map
  BY <1>1, <1>2, EveryNode DEF Closed, visited
<1>4. DOMAIN node_outcome_state_map \subseteq PathsOf(program)
  BY <1>2 DEF Closed
<1> QED
  BY <1>3, <1>4

(***************************************************************************)
(* A function of any size is refused exactly when one of its breaks and    *)
(* continues, those of nested functions included, has no loop of its own   *)
(* function around it (visit of BreakExpr and ContinueExpr).               *)
(***************************************************************************)
THEOREM StraysAreRefused == Spec => []StrayJumpsRefused
<1>1. WalkInv => StrayJumpsRefused
  <2> SUFFICES ASSUME WalkInv, status # "visiting"
               PROVE  status = "CE" <=> \E p \in PathsOf(program) : stray(p)
    BY DEF StrayJumpsRefused
  <2>1. CASE status = "CE"
    BY <2>1 DEF WalkInv, Decided
  <2>2. CASE status # "CE"
    <3>1. status = "done"
      BY <2>2 DEF WalkInv, Decided
    <3>2. \A p \in PathsOf(program) : Closed(p)
      BY <3>1, AllReached DEF WalkInv
    <3> QED
      BY <2>2, <3>2 DEF Closed
  <2> QED
    BY <2>1, <2>2
<1> QED
  BY <1>1, WalkInvariant, PTL

(***************************************************************************)
(* An accepted visit has given every node one outcome, the one that its    *)
(* children's outcomes combine to, whatever was visited in between: the    *)
(* loops and jumps of one part of the function do not change what is       *)
(* recorded for another (the visits of the expressions and statements).    *)
(***************************************************************************)
OutcomesLocal ==
  status = "done" =>
    /\ DOMAIN node_outcome_state_map = PathsOf(program)
    /\ \A p \in PathsOf(program) :
         node_outcome_state_map[p] = node_outcome_state(At(program, p), ChildStates(p))

THEOREM OutcomesAreLocal == Spec => []OutcomesLocal
<1>1. WalkInv => OutcomesLocal
  <2> SUFFICES ASSUME WalkInv, status = "done" PROVE OutcomesLocal
    BY DEF OutcomesLocal
  <2>1. DOMAIN node_outcome_state_map = PathsOf(program)
    BY AllReached
  <2>2. \A p \in DOMAIN node_outcome_state_map : Closed(p)
    BY DEF WalkInv
  <2> QED
    BY <2>1, <2>2 DEF OutcomesLocal, Closed
<1> QED
  BY <1>1, WalkInvariant, PTL

-----------------------------------------------------------------------------
(* From the leaves upwards *)

(* What holds of a node when it holds of its children holds of all nodes. *)
LEMMA BottomUp ==
  ASSUME NEW n, Level(n)[MaxNesting] = {},
         NEW D, D \subseteq PathsOf(n),
         \A p \in D : \A c \in DOMAIN At(n, p).s : Append(p, c) \in D,
         NEW T,
         \A p \in D : (\A c \in DOMAIN At(n, p).s : Append(p, c) \in T) => p \in T
  PROVE  D \subseteq T
<1> DEFINE S == {k \in 0..MaxNesting : Level(n)[MaxNesting - k] \cap D \subseteq T}
<1>1. MaxNesting \in Nat
  BY NestingAssumption
<1>2. 0 \in S
  <2>1. MaxNesting - 0 = MaxNesting /\ 0 \in 0..MaxNesting
    BY <1>1
  <2> QED
    BY <2>1
<1>3. ASSUME NEW k \in 1..MaxNesting, k - 1 \in S PROVE k \in S
  <2> DEFINE up == MaxNesting - k
  <2>1. up + 1 = MaxNesting - (k - 1) /\ up + 1 \in 1..MaxNesting /\ (up + 1) - 1 = up /\ k \in 0..MaxNesting
    BY <1>1
  <2>2. Level(n)[up + 1] \cap D \subseteq T
    BY <1>3, <2>1
  <2> HIDE DEF up
  <2>3. ASSUME NEW p \in Level(n)[up], p \in D PROVE p \in T
    <3>1. ASSUME NEW c \in DOMAIN At(n, p).s PROVE Append(p, c) \in T
      <4>1. Append(p, c) \in Level(n)[up + 1]
        BY <2>1, <3>1, LevelChild
      <4>2. Append(p, c) \in D
        BY <2>3
      <4> QED
        BY <2>2, <4>1, <4>2
    <3> QED
      BY <2>3, <3>1
  <2> QED
    BY <2>1, <2>3 DEF up
<1>4. \A k \in 0..MaxNesting : k \in S
  <2> HIDE DEF S
  <2> QED
    BY <1>1, <1>2, <1>3, UpToN
<1> SUFFICES ASSUME NEW p \in D PROVE p \in T
  OBVIOUS
<1>5. PICK j \in 0..MaxNesting : p \in Level(n)[j]
  BY DEF PathsOf
<1>6. MaxNesting - j \in 0..MaxNesting /\ MaxNesting - (MaxNesting - j) = j
  BY <1>1
<1>7. MaxNesting - j \in S
  BY <1>4, <1>6
<1> QED
  BY <1>5, <1>6, <1>7

-----------------------------------------------------------------------------
(* Outcomes in sequence *)

LEMMA SequenceEquation ==
  ASSUME NEW outs, Len(outs) \in Nat
  PROVE  \E w : /\ w[Len(outs)] = all_in_sequence(outs)
                /\ w[0] = {"NEXT"}
                /\ \A i \in 1..Len(outs) : w[i] = sequence_outcome_state(w[i - 1], outs[i])
<1> DEFINE len == Len(outs)
           next(m, i) == sequence_outcome_state(m, outs[i])
           step(f, i) == IF i = 0 THEN {"NEXT"} ELSE next(f[i - 1], i)
           solves(f, k) == f = [i \in 0..k |-> step(f, i)]
           T == {k \in 0..len : \E f : solves(f, k)}
           state == CHOOSE f : solves(f, len)
<1>1. len \in Nat
  OBVIOUS
<1>2. all_in_sequence(outs) = state[len]
  BY DEF all_in_sequence
<1> HIDE DEF len, next
<1>3. 0 \in T
  <2> DEFINE f == [i \in 0..0 |-> {"NEXT"}]
  <2>1. solves(f, 0)
    OBVIOUS
  <2> HIDE DEF f, solves
  <2> QED
    BY <1>1, <2>1
<1>4. ASSUME NEW k \in 1..len, k - 1 \in T PROVE k \in T
  <2>1. PICK f : solves(f, k - 1)
    BY <1>4
  <2> DEFINE g == [i \in 0..k |-> IF i = k THEN next(f[k - 1], k) ELSE f[i]]
  <2>2. k \in 0..len /\ k \in Nat /\ k # 0 /\ k - 1 \in 0..(k - 1)
    BY <1>1, <1>4
  <2>3. \A i \in 0..k : g[i] = step(g, i)
    <3> SUFFICES ASSUME NEW i \in 0..k PROVE g[i] = step(g, i)
      OBVIOUS
    <3>1. CASE i = k
      <4>1. g[i] = next(f[k - 1], k) /\ g[k - 1] = f[k - 1]
        BY <2>2, <3>1
      <4> QED
        BY <2>2, <3>1, <4>1
    <3>2. CASE i # k
      <4>1. i \in 0..(k - 1) /\ (i # 0 => i - 1 \in 0..(k - 1) /\ i - 1 \in 0..k /\ i - 1 # k)
        BY <2>2, <3>2
      <4>2. g[i] = f[i] /\ f[i] = step(f, i)
        BY <2>1, <3>2, <4>1
      <4>3. i # 0 => g[i - 1] = f[i - 1]
        BY <4>1
      <4> QED
        BY <4>2, <4>3
    <3> QED
      BY <3>1, <3>2
  <2>4. solves(g, k)
    <3>1. g = [i \in 0..k |-> g[i]]
      OBVIOUS
    <3> HIDE DEF g, step
    <3> QED
      BY <2>3, <3>1
  <2> HIDE DEF g, solves
  <2> QED
    BY <2>2, <2>4
<1>5. \E f : solves(f, len)
  <2> HIDE DEF T
  <2>1. \A k \in 0..len : k \in T
    BY <1>1, <1>3, <1>4, UpToN
  <2>2. len \in T
    BY <1>1, <2>1
  <2> QED
    BY <2>2, Zenon DEF T
<1>6. solves(state, len)
  <2> HIDE DEF solves
  <2> QED
    BY <1>5
<1>7. \A i \in 0..len : state[i] = step(state, i)
  BY <1>6
<1> HIDE DEF state
<1>8. state[0] = {"NEXT"} /\ \A i \in 1..len : state[i] = next(state[i - 1], i)
  BY <1>1, <1>7
<1> QED
  BY <1>2, <1>8 DEF len, next

(* A sequence completes if all in it do, and breaks where one it reaches does. *)
LEMMA SequenceStates ==
  ASSUME NEW outs, NEW n \in Nat, Len(outs) = n
  PROVE  /\ (\A i \in 1..n : "NEXT" \in outs[i]) => "NEXT" \in all_in_sequence(outs)
         /\ \A i \in 1..n :
              (\A j \in 1..n : j < i => "NEXT" \in outs[j]) /\ "BREAK" \in outs[i]
                => "BREAK" \in all_in_sequence(outs)
<1>1. PICK w : /\ w[n] = all_in_sequence(outs)
               /\ w[0] = {"NEXT"}
               /\ \A i \in 1..n : w[i] = sequence_outcome_state(w[i - 1], outs[i])
  BY SequenceEquation
<1>2. ASSUME NEW k \in 0..n, \A j \in 1..k : "NEXT" \in outs[j] PROVE "NEXT" \in w[k]
  <2> DEFINE T == {i \in 0..k : "NEXT" \in w[i]}
  <2>1. 0 \in T
    BY <1>1, <1>2
  <2>2. ASSUME NEW i \in 1..k, i - 1 \in T PROVE i \in T
    <3>1. w[i] = sequence_outcome_state(w[i - 1], outs[i]) /\ "NEXT" \in outs[i]
      BY <1>1, <1>2
    <3> QED
      BY <2>2, <3>1 DEF sequence_outcome_state, has_state
  <2>3. k \in T
    <3> HIDE DEF T
    <3> QED
      BY <2>1, <2>2, UpToN
  <2> QED
    BY <2>3
<1>3. ASSUME NEW i \in 1..n, \A j \in 1..n : j < i => "NEXT" \in outs[j], "BREAK" \in outs[i]
      PROVE  "BREAK" \in w[n]
  <2> DEFINE T == {k \in 0..n : k >= i => "BREAK" \in w[k]}
  <2>1. "NEXT" \in w[i - 1]
    <3>1. i - 1 \in 0..n /\ \A j \in 1..(i - 1) : "NEXT" \in outs[j]
      BY <1>3
    <3> QED
      BY <1>2, <3>1
  <2>2. 0 \in T
    OBVIOUS
  <2>3. ASSUME NEW k \in 1..n, k - 1 \in T PROVE k \in T
    <3>1. w[k] = sequence_outcome_state(w[k - 1], outs[k])
      BY <1>1
    <3>2. CASE k = i
      BY <1>3, <2>1, <3>1, <3>2 DEF sequence_outcome_state, has_state
    <3>3. CASE k > i
      <4>1. "BREAK" \in w[k - 1]
        BY <2>3, <3>3
      <4> QED
        BY <3>1, <4>1 DEF sequence_outcome_state, has_state
    <3> QED
      BY <3>2, <3>3
  <2>4. n \in T
    <3> HIDE DEF T
    <3> QED
      BY <2>2, <2>3, UpToN
  <2> QED
    BY <2>4
<1>4. n \in 0..n
  OBVIOUS
<1> QED
  BY <1>1, <1>2, <1>3, <1>4

(* The length of a list that is written as a function. *)
LEMMA ListOf ==
  ASSUME NEW f, NEW n \in Nat, f = [i \in 1..n |-> f[i]]
  PROVE  Len(f) = n
<1> DEFINE S == {f[i] : i \in 1..n}
<1>1. \A i \in 1..n : f[i] \in S
  OBVIOUS
<1>2. f \in [1..n -> S]
  <2> HIDE DEF S
  <2> QED
    BY <1>1
<1>3. f \in Seq(S)
  <2> HIDE DEF S
  <2> QED
    BY <1>2
<1>4. Len(f) \in Nat /\ DOMAIN f = 1..Len(f)
  <2> HIDE DEF S
  <2> QED
    BY <1>3
<1>5. DOMAIN f = 1..n
  OBVIOUS
<1> QED
  BY <1>4, <1>5

-----------------------------------------------------------------------------
(* Outcomes and endings *)

(* An ending that leads on, behind the node or behind a loop around it, has an outcome. *)
covered(runs, outs) ==
  /\ "NEXT" \in runs => "NEXT" \in outs
  /\ "BREAK" \in runs => "BREAK" \in outs

LEMMA InTurnMembers ==
  ASSUME NEW n \in Nat, NEW runs, DOMAIN runs = 1..n, NEW e
  PROVE  e \in in_turn(runs) <=>
           \/ /\ e # "NEXT"
              /\ \E i \in 1..n : e \in runs[i] /\ \A j \in 1..n : j < i => "NEXT" \in runs[j]
           \/ e = "NEXT" /\ \A i \in 1..n : "NEXT" \in runs[i]
<1>1. e \in in_turn(runs) <=>
        \/ \E i \in entered(runs) : e \in runs[i] \ {"NEXT"}
        \/ e = "NEXT" /\ \A i \in DOMAIN runs : normally(runs[i])
  BY DEF in_turn
<1>2. \A i : i \in entered(runs) <=> i \in 1..n /\ \A j \in 1..n : j < i => "NEXT" \in runs[j]
  BY DEF entered, normally
<1>3. (\E i \in entered(runs) : e \in runs[i] \ {"NEXT"})
        <=> e # "NEXT" /\ \E i \in 1..n : e \in runs[i] /\ \A j \in 1..n : j < i => "NEXT" \in runs[j]
  BY <1>2
<1>4. (\A i \in DOMAIN runs : normally(runs[i])) <=> \A i \in 1..n : "NEXT" \in runs[i]
  BY DEF normally
<1> QED
  BY <1>1, <1>3, <1>4

LEMMA InTurnCovered ==
  ASSUME NEW n \in Nat, NEW runs, runs = [i \in 1..n |-> runs[i]], NEW outs, Len(outs) = n,
         \A i \in 1..n : covered(runs[i], outs[i])
  PROVE  covered(in_turn(runs), all_in_sequence(outs))
<1>1. DOMAIN runs = 1..n
  OBVIOUS
<1>2. ASSUME "NEXT" \in in_turn(runs) PROVE "NEXT" \in all_in_sequence(outs)
  <2>1. \A i \in 1..n : "NEXT" \in runs[i]
    BY <1>1, <1>2, InTurnMembers
  <2>2. \A i \in 1..n : "NEXT" \in outs[i]
    BY <2>1 DEF covered
  <2> QED
    BY <2>2, SequenceStates
<1>3. ASSUME "BREAK" \in in_turn(runs) PROVE "BREAK" \in all_in_sequence(outs)
  <2>1. PICK i \in 1..n : "BREAK" \in runs[i] /\ \A j \in 1..n : j < i => "NEXT" \in runs[j]
    BY <1>1, <1>3, InTurnMembers
  <2>2. "BREAK" \in outs[i] /\ \A j \in 1..n : j < i => "NEXT" \in outs[j]
    BY <2>1 DEF covered
  <2> QED
    BY <2>2, SequenceStates
<1> QED
  BY <1>2, <1>3 DEF covered

(* in_turn of what all completes normally. *)
LEMMA InTurnNormal ==
  ASSUME NEW n \in Nat, NEW runs, runs = [i \in 1..n |-> runs[i]], \A i \in 1..n : runs[i] = {"NEXT"}
  PROVE  in_turn(runs) = {"NEXT"}
<1>1. DOMAIN runs = 1..n
  OBVIOUS
<1>2. ASSUME NEW r \in in_turn(runs) PROVE r = "NEXT"
  BY <1>1, <1>2, InTurnMembers
<1>3. "NEXT" \in in_turn(runs)
  BY <1>1, InTurnMembers
<1> QED
  BY <1>2, <1>3

(***************************************************************************)
(* One node: if the outcomes of its children cover how they can end, and   *)
(* no operand of it hides a jump, its own outcome covers how it can end.   *)
(***************************************************************************)
LEMMA NodeCovered ==
  ASSUME NEW n, NEW len \in Nat, Len(n.s) = len, DOMAIN n.s = 1..len, right_arity(n),
         NEW runs, runs = [i \in 1..len |-> runs[i]],
         NEW outs, outs = [i \in 1..len |-> outs[i]],
         \A i \in 1..len : covered(runs[i], outs[i]),
         n.k \in {"not", "ret", "brk"} => \A i \in 1..len : runs[i] = {"NEXT"},
         n.k \in ShortCircuit => "NEXT" \in outs[2]
  PROVE  covered(node_runs(n, runs), node_outcome_state(n, outs))
<1>1. Len(runs) = len /\ Len(outs) = len
  BY ListOf
<1>2. covered(in_turn(runs), all_in_sequence(outs))
  BY <1>1, InTurnCovered
<1>3. CASE n.k \in FunctionKinds
  <2>1. node_runs(n, runs) = {"NEXT"}
    <3>1. n.k \notin {"ret", "brk", "cont", "if", "while", "loop"} \cup ShortCircuit
      BY <1>3 DEF FunctionKinds, ShortCircuit
    <3> QED
      BY <1>3, <3>1 DEF node_runs
  <2>2. node_outcome_state(n, outs) = {"NEXT"}
    BY <1>3 DEF node_outcome_state, FunctionKinds
  <2> QED
    BY <2>1, <2>2 DEF covered
<1>4. CASE n.k = "not"
  <2>1. node_runs(n, runs) = in_turn(runs)
    BY <1>4 DEF node_runs, FunctionKinds, ShortCircuit
  <2>2. node_outcome_state(n, outs) = {"NEXT"}
    BY <1>4 DEF node_outcome_state
  <2>3. in_turn(runs) = {"NEXT"}
    BY <1>4, InTurnNormal
  <2> QED
    BY <2>1, <2>2, <2>3 DEF covered
<1>5. CASE n.k = "ret"
  <2>1. node_runs(n, runs) = then(in_turn(runs), {"RETURN"})
    BY <1>5 DEF node_runs, FunctionKinds, ShortCircuit
  <2>2. in_turn(runs) = {"NEXT"}
    BY <1>5, InTurnNormal
  <2>3. node_runs(n, runs) = {"RETURN"}
    BY <2>1, <2>2 DEF then, normally
  <2> QED
    BY <2>3 DEF covered
<1>6. CASE n.k \in {"brk", "cont"}
  <2>1. node_runs(n, runs) = then(in_turn(runs), IF n.k = "brk" THEN {"BREAK"} ELSE {"CONTINUE"})
    BY <1>6 DEF node_runs, FunctionKinds, ShortCircuit
  <2>2. node_outcome_state(n, outs) = {"BREAK"}
    BY <1>6 DEF node_outcome_state, FunctionKinds
  <2>3. "NEXT" \notin node_runs(n, runs)
    BY <2>1 DEF then, normally
  <2> QED
    BY <2>2, <2>3 DEF covered
<1>7. CASE n.k \in ShortCircuit
  <2>1. len = 2
    BY <1>7 DEF right_arity
  <2>2. node_runs(n, runs) = then(runs[1], {"NEXT"} \cup runs[2])
    BY <1>7 DEF node_runs, FunctionKinds, ShortCircuit
  <2>3. node_outcome_state(n, outs) = all_in_sequence(outs)
    BY <1>7 DEF node_outcome_state, FunctionKinds, ShortCircuit
  <2>4. covered(runs[1], outs[1]) /\ covered(runs[2], outs[2]) /\ "NEXT" \in outs[2]
    BY <1>7, <2>1
  <2>5. ASSUME "NEXT" \in node_runs(n, runs) PROVE "NEXT" \in all_in_sequence(outs)
    <3>1. "NEXT" \in outs[1]
      BY <2>2, <2>4, <2>5 DEF then, normally, covered
    <3>2. \A i \in 1..2 : "NEXT" \in outs[i]
      <4>1. \A i \in 1..2 : i = 1 \/ i = 2
        OBVIOUS
      <4> QED
        BY <2>4, <3>1, <4>1
    <3> QED
      BY <1>1, <2>1, <3>2, SequenceStates
  <2>6. ASSUME "BREAK" \in node_runs(n, runs) PROVE "BREAK" \in all_in_sequence(outs)
    <3>1. "BREAK" \in outs[1] \/ ("NEXT" \in outs[1] /\ "BREAK" \in outs[2])
      BY <2>2, <2>4, <2>6 DEF then, normally, covered
    <3>2. 1 \in 1..2 /\ 2 \in 1..2 /\ (\A j \in 1..2 : ~(j < 1)) /\ (\A j \in 1..2 : j < 2 => j = 1)
      OBVIOUS
    <3> QED
      BY <1>1, <2>1, <3>1, <3>2, SequenceStates
  <2> QED
    BY <2>3, <2>5, <2>6 DEF covered
<1>8. CASE n.k = "if"
  <2>1. len \in {2, 3}
    BY <1>8 DEF right_arity
  <2>2. PICK runs3, outs3 : /\ runs3 = (IF len = 3 THEN runs[3] ELSE {"NEXT"})
                            /\ outs3 = (IF len = 3 THEN outs[3] ELSE {"NEXT"})
    OBVIOUS
  <2>3. node_runs(n, runs) = then(runs[1], runs[2] \cup runs3)
    BY <1>1, <1>8, <2>2 DEF node_runs, FunctionKinds, ShortCircuit
  <2>4. node_outcome_state(n, outs) = ifelse_outcome_state(outs[1], outs[2], outs3)
    BY <1>1, <1>8, <2>2 DEF node_outcome_state, FunctionKinds
  <2>5. covered(runs[1], outs[1]) /\ covered(runs[2], outs[2]) /\ covered(runs3, outs3)
    BY <2>1, <2>2 DEF covered
  <2> QED
    BY <2>3, <2>4, <2>5 DEF covered, then, normally, ifelse_outcome_state, sequence_outcome_state, has_state
<1>9. CASE n.k = "while"
  <2>1. len = 2
    BY <1>9 DEF right_arity
  <2>2. node_runs(n, runs) = then(runs[1], {"NEXT"} \cup (runs[2] \cap {"RETURN"}))
    BY <1>9 DEF node_runs, FunctionKinds, ShortCircuit
  <2>3. node_outcome_state(n, outs) = while_outcome_state(outs[1], outs[2])
    BY <1>9 DEF node_outcome_state, FunctionKinds
  <2>4. covered(runs[1], outs[1])
    BY <2>1
  <2>5. "NEXT" \in node_runs(n, runs) => "NEXT" \in runs[1]
    BY <2>2 DEF then, normally
  <2>6. "BREAK" \in node_runs(n, runs) => "BREAK" \in runs[1]
    BY <2>2 DEF then, normally
  <2>7. \A r \in outs[1] : r \in node_outcome_state(n, outs)
    BY <2>3 DEF while_outcome_state
  <2> QED
    BY <2>4, <2>5, <2>6, <2>7 DEF covered
<1>10. CASE n.k = "loop"
  <2>1. len = 1
    BY <1>10 DEF right_arity
  <2>2. node_runs(n, runs) = {r \in {"RETURN"} : r \in runs[1]} \cup {r \in {"NEXT"} : "BREAK" \in runs[1]}
    BY <1>10 DEF node_runs, FunctionKinds, ShortCircuit
  <2>3. node_outcome_state(n, outs) = loop_outcome_state(outs[1])
    BY <1>10 DEF node_outcome_state, FunctionKinds
  <2>4. covered(runs[1], outs[1])
    BY <2>1
  <2> QED
    BY <2>2, <2>3, <2>4 DEF covered, loop_outcome_state, has_state
<1>11. CASE n.k \notin {"not", "ret", "brk", "cont", "if", "while", "loop"} \cup FunctionKinds \cup ShortCircuit
  <2>1. node_runs(n, runs) = in_turn(runs)
    BY <1>11 DEF node_runs
  <2>2. node_outcome_state(n, outs) = all_in_sequence(outs)
    BY <1>11 DEF node_outcome_state
  <2> QED
    BY <1>2, <2>1, <2>2
<1> QED
  BY <1>3, <1>4, <1>5, <1>6, <1>7, <1>8, <1>9, <1>10, <1>11


-----------------------------------------------------------------------------
(* The outcomes recorded are those of the subtrees, and cover their endings *)

LEMMA NodeFacts ==
  ASSUME WalkInv, NEW p \in DOMAIN node_outcome_state_map
  PROVE  LET n == At(program, p)
             m == node_outcome_state_map
         IN  /\ Len(n.s) \in Nat /\ DOMAIN n.s = 1..Len(n.s)
             /\ right_arity(n)
             /\ TreeOutcome(n) = node_outcome_state(n, [i \in DOMAIN n.s |-> TreeOutcome(n.s[i])])
             /\ TreeRuns(n) = node_runs(n, [i \in DOMAIN n.s |-> TreeRuns(n.s[i])])
             /\ m[p] = node_outcome_state(n, [i \in DOMAIN n.s |-> m[Append(p, i)]])
             /\ \A i \in DOMAIN n.s :
                  Append(p, i) \in DOMAIN m /\ At(program, Append(p, i)) = n.s[i]
<1>1. Closed(p) /\ program \in Programs
  BY DEF WalkInv
<1>2. p \in PathsOf(program)
  BY <1>1 DEF Closed
<1>3. is_tree(program)
  BY <1>1, ProgramsAssumption
<1>4. PICK k \in 0..MaxNesting : p \in Level(program)[k]
  BY <1>2 DEF PathsOf
<1>5. PICK S : p \in Seq(S)
  BY <1>4, LevelPaths
<1>6. \A i : At(program, Append(p, i)) = At(program, p).s[i]
  BY <1>5, AtChild
<1>7. Len(At(program, p).s) \in Nat /\ DOMAIN At(program, p).s = 1..Len(At(program, p).s)
  BY <1>2, <1>3 DEF is_tree
<1> QED
  BY <1>1, <1>2, <1>6, <1>7, ReferenceAssumption DEF Closed, ChildStates, visited

LEMMA RecordedFromLeaves ==
  ASSUME WalkInv, NEW T,
         \A p \in DOMAIN node_outcome_state_map :
           (\A c \in DOMAIN At(program, p).s : Append(p, c) \in T) => p \in T
  PROVE  DOMAIN node_outcome_state_map \subseteq T
<1>1. program \in Programs /\ \A p \in DOMAIN node_outcome_state_map : Closed(p)
  BY DEF WalkInv
<1>2. Level(program)[MaxNesting] = {}
  BY <1>1, TreeFacts
<1>3. DOMAIN node_outcome_state_map \subseteq PathsOf(program)
  BY <1>1 DEF Closed
<1>4. \A p \in DOMAIN node_outcome_state_map : \A c \in DOMAIN At(program, p).s :
        Append(p, c) \in DOMAIN node_outcome_state_map
  BY <1>1 DEF Closed, visited
<1> QED
  BY <1>2, <1>3, <1>4, BottomUp

LEMMA OutcomesRecorded ==
  ASSUME WalkInv
  PROVE  \A p \in DOMAIN node_outcome_state_map : node_outcome_state_map[p] = TreeOutcome(At(program, p))
<1> DEFINE m == node_outcome_state_map
           T == {p \in DOMAIN m : m[p] = TreeOutcome(At(program, p))}
<1>1. ASSUME NEW p \in DOMAIN m, \A c \in DOMAIN At(program, p).s : Append(p, c) \in T
      PROVE  p \in T
  <2> DEFINE n == At(program, p)
  <2>1. /\ TreeOutcome(n) = node_outcome_state(n, [i \in DOMAIN n.s |-> TreeOutcome(n.s[i])])
        /\ m[p] = node_outcome_state(n, [i \in DOMAIN n.s |-> m[Append(p, i)]])
        /\ \A i \in DOMAIN n.s : At(program, Append(p, i)) = n.s[i]
    BY NodeFacts
  <2>2. \A i \in DOMAIN n.s : m[Append(p, i)] = TreeOutcome(n.s[i])
    BY <1>1, <2>1
  <2>3. [i \in DOMAIN n.s |-> m[Append(p, i)]] = [i \in DOMAIN n.s |-> TreeOutcome(n.s[i])]
    BY <2>2
  <2> QED
    BY <2>1, <2>3
<1>2. DOMAIN m \subseteq T
  <2> HIDE DEF T
  <2> QED
    BY <1>1, RecordedFromLeaves
<1> QED
  BY <1>2

(***************************************************************************)
(* An accepted visit of a function of any size leaves every node with the  *)
(* outcome that its subtree has on its own (the visits of the expressions  *)
(* and statements).                                                        *)
(***************************************************************************)
THEOREM OutcomesOfSubtrees == Spec => []OutcomesCompositional
<1>1. WalkInv => OutcomesCompositional
  <2> SUFFICES ASSUME WalkInv, status = "done" PROVE OutcomesCompositional
    BY DEF OutcomesCompositional
  <2> QED
    BY AllReached, OutcomesRecorded DEF OutcomesCompositional
<1> QED
  BY <1>1, WalkInvariant, PTL

LEMMA EndingsCovered ==
  ASSUME WalkInv, Plain(program)
  PROVE  \A p \in DOMAIN node_outcome_state_map :
           covered(TreeRuns(At(program, p)), node_outcome_state_map[p])
<1> DEFINE m == node_outcome_state_map
           T == {p \in DOMAIN m : covered(TreeRuns(At(program, p)), m[p])}
<1>1. ASSUME NEW p \in DOMAIN m, \A c \in DOMAIN At(program, p).s : Append(p, c) \in T
      PROVE  p \in T
  <2> DEFINE n == At(program, p)
             len == Len(n.s)
             runs == [i \in 1..len |-> TreeRuns(n.s[i])]
             outs == [i \in 1..len |-> m[Append(p, i)]]
  <2>1. /\ len \in Nat /\ DOMAIN n.s = 1..len
        /\ right_arity(n)
        /\ TreeRuns(n) = node_runs(n, runs)
        /\ m[p] = node_outcome_state(n, outs)
        /\ \A i \in 1..len : Append(p, i) \in DOMAIN m /\ At(program, Append(p, i)) = n.s[i]
    BY NodeFacts
  <2>2. \A i \in 1..len : covered(runs[i], outs[i])
    BY <1>1, <2>1
  <2>3. ~masks_jump(n)
    <3>1. p \in PathsOf(program)
      BY <1>1 DEF WalkInv, Closed
    <3> QED
      BY <3>1 DEF Plain
  <2>4. n.k \in {"not", "ret", "brk"} => \A i \in 1..len : runs[i] = {"NEXT"}
    BY <2>1, <2>3 DEF masks_jump
  <2>5. n.k \in ShortCircuit => "NEXT" \in outs[2]
    <3> SUFFICES ASSUME n.k \in ShortCircuit PROVE "NEXT" \in outs[2]
      OBVIOUS
    <3>1. len = 2
      BY <2>1 DEF right_arity
    <3>2. "NEXT" \in TreeOutcome(n.s[2])
      BY <2>3 DEF masks_jump, has_state
    <3>3. 2 \in 1..len
      BY <3>1
    <3>4. m[Append(p, 2)] = TreeOutcome(n.s[2])
      BY <2>1, <3>3, OutcomesRecorded
    <3> QED
      BY <3>2, <3>3, <3>4
  <2>6. runs = [i \in 1..len |-> runs[i]] /\ outs = [i \in 1..len |-> outs[i]]
    OBVIOUS
  <2> HIDE DEF n, len, runs, outs
  <2>7. covered(node_runs(n, runs), node_outcome_state(n, outs))
    BY <2>1, <2>2, <2>4, <2>5, <2>6, NodeCovered DEF len
  <2> QED
    BY <1>1, <2>1, <2>7 DEF n
<1>2. DOMAIN m \subseteq T
  <2> HIDE DEF T
  <2> QED
    BY <1>1, RecordedFromLeaves
<1> QED
  BY <1>2

(***************************************************************************)
(* In a function of any size in which no operand hides a jump, a node that *)
(* can complete is recorded with NEXT: what follows it is neither typed    *)
(* never nor dropped (current_block_has_next).                             *)
(***************************************************************************)
THEOREM NextIsSound == Spec => []NextSound
<1>1. WalkInv => NextSound
  BY EndingsCovered DEF NextSound, completion_recorded, covered, normally, has_state
<1> QED
  BY <1>1, WalkInvariant, PTL
=============================================================================
