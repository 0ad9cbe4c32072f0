------------------------ MODULE GlobalLowering_proof ------------------------
(***************************************************************************)
(* What names come to, for every set of programs: no two functions or      *)
(* constants share a symbol, a call refers to the body of the function it  *)
(* was resolved to, the tables of methods follow the impls, and an         *)
(* accepted program fails to compile for the known reasons only.           *)
(*                                                                         *)
(* The symbol of a declaration is its name and the path of its scope, so   *)
(* symbols are distinct by two facts: names are distinct in a namespace    *)
(* (NamesDistinct, kept by the checks of the scope builder) and paths are  *)
(* distinct (PathsDistinct).  The walk that gives out paths keeps the      *)
(* second because a scope gets its path when its parent is visited         *)
(* (PathOfParent), which happens once.                                     *)
(*                                                                         *)
(* Calls, tables and failures rest on two inductions, both made with a     *)
(* least counterexample (Least): the scopes reached from the root are all  *)
(* scopes (ClosedIsAll), and what a name is looked up to is what one scope *)
(* has (NearestFinds).                                                     *)
(*                                                                         *)
(* The second half is about positions in the text: the scope of a node is  *)
(* that of the construct around it (ScopesFollow), and a slot that a use   *)
(* makes is one of a local of another function (StoredFirst).  Both walks, *)
(* of the scope builder and of IRGenVisitor, are related to the sequence O *)
(* of the constructs that are open (Enclosing): its stack of scopes        *)
(* (StackFollows) and its frames and slots (FramesFollow, SlotsFollow).    *)
(***************************************************************************)
EXTENDS GlobalLoweringSound, SequenceTheorems, FiniteSetTheorems, WellFoundedInduction, TLAPS

(* The provers do not know that a literal is a STRING. *)
AnyName == STRING \cup {NoName} \cup ToSet(RootBuiltins) \cup ToSet(TypeBuiltins)
ScopeKinds == {"Root", "Function", "Block", "Impl"}
DeclKinds == Values \cup Types \cup {"let"}

Scope == [parent : Nat, kind : ScopeKinds, impl_struct : AnyName, children : Seq(Nat)]
Declaration == [kind : DeclKinds, name : AnyName, scope : Nat, node : Nat, inner : Nat]

Shape ==
  /\ program \in Seq(Node) /\ at \in Nat \ {0}
  /\ scopes \in Seq(Scope) /\ 1 \in DOMAIN scopes
  /\ scope_stack \in Seq(DOMAIN scopes) /\ scope_stack # << >>
  /\ decls \in Seq(Declaration)
  /\ node_scope_map \in Seq(Nat)
  /\ pass = "scopes" => Len(node_scope_map) = at - 1
  /\ pass \in {"types", "constants", "check"} => Len(node_scope_map) >= Len(program)

(* A child is younger than its parent, and listed once. *)
Tree ==
  \A s \in DOMAIN scopes : \A i \in DOMAIN scopes[s].children :
    LET c == scopes[s].children[i]
    IN /\ c \in DOMAIN scopes /\ c > s /\ scopes[c].parent = s
       /\ \A j \in DOMAIN scopes[s].children : scopes[s].children[j] = c => j = i

(* Every scope but the root is a child of another.                         *)
Rooted ==
  /\ scopes[1].parent = 0
  /\ \A s \in DOMAIN scopes : s # 1 =>
       \E p \in DOMAIN scopes : \E i \in DOMAIN scopes[p].children : scopes[p].children[i] = s

Items == {d \in DOMAIN decls : decls[d].kind \in {"fn", "const"}}

NamesDistinct ==
  \A d, e \in Items : decls[d].scope = decls[e].scope /\ decls[d].name = decls[e].name => d = e

PathsDistinct ==
  /\ DOMAIN suffix \subseteq DOMAIN scopes
  /\ \A s \in DOMAIN suffix : suffix[s] \in Seq(Nat)
  /\ \A s, t \in DOMAIN suffix : suffix[s] = suffix[t] => s = t
  /\ pass \in {"scopes", "types", "constants", "check"} => DOMAIN suffix = {}

Visited == DOMAIN suffix \ {todo[i] : i \in DOMAIN todo}
child_of(c, p) ==
  \E i \in DOMAIN scopes[p].children : scopes[p].children[i] = c /\ suffix[c] = Append(suffix[p], i - 1)

(* Scopes with a path are the root, visited, or children of visited ones. *)
PathOfParent ==
  pass = "globals" =>
    /\ todo \in Seq(DOMAIN suffix)
    /\ \A i, j \in DOMAIN todo : todo[i] = todo[j] => i = j
    /\ \A c \in DOMAIN suffix : (c = 1 /\ suffix[c] = << >>) \/ \E p \in Visited : child_of(c, p)

IInv == Shape /\ Tree /\ NamesDistinct /\ PathsDistinct /\ PathOfParent
-----------------------------------------------------------------------------
(* The scope tree *)

LEMMA AppendShape ==
  ASSUME NEW S, NEW s \in Seq(S), NEW e \in S
  PROVE  /\ Append(s, e) \in Seq(S) /\ Len(Append(s, e)) = Len(s) + 1
         /\ DOMAIN Append(s, e) = DOMAIN s \cup {Len(s) + 1}
         /\ Len(s) + 1 \notin DOMAIN s
         /\ \A i \in DOMAIN s : Append(s, e)[i] = s[i]
         /\ Append(s, e)[Len(s) + 1] = e
OBVIOUS

(* A new scope hangs under the current one and disturbs no other. *)
LEMMA PushKeepsTree ==
  ASSUME scopes \in Seq(Scope), scope_stack \in Seq(DOMAIN scopes), scope_stack # << >>, Tree,
         NEW kind \in ScopeKinds, NEW impl \in AnyName, push_scope(kind, impl)
  PROVE  /\ scopes' \in Seq(Scope) /\ DOMAIN scopes \subseteq DOMAIN scopes'
         /\ scope_stack' \in Seq(DOMAIN scopes') /\ scope_stack' # << >>
         /\ Tree' /\ (Rooted => Rooted')
<1> DEFINE n == Len(scopes)
           c == current_scope
           kids == Append(scopes[c].children, n + 1)
           grown == [scopes EXCEPT ![c].children = Append(@, n + 1)]
           new == new_scope(c, kind, impl)
<1>1. n \in Nat /\ DOMAIN scopes = 1..n /\ c \in 1..n
  BY DEF current_scope, Last
<1> HIDE DEF n, c
<1>2. scopes[c] \in Scope
  BY <1>1, ElementOfSeq
<1>3. /\ scopes[c].children \in Seq(Nat) /\ n + 1 \in Nat
      /\ DOMAIN scopes[c].children = 1..Len(scopes[c].children) /\ Len(scopes[c].children) \in Nat
  BY <1>1, <1>2 DEF Scope
<1>31. /\ kids \in Seq(Nat) /\ Len(kids) = Len(scopes[c].children) + 1
       /\ \A i \in DOMAIN scopes[c].children : kids[i] = scopes[c].children[i]
       /\ kids[Len(scopes[c].children) + 1] = n + 1
       /\ DOMAIN kids = DOMAIN scopes[c].children \cup {Len(scopes[c].children) + 1}
       /\ Len(scopes[c].children) + 1 \notin DOMAIN scopes[c].children
  <2> DEFINE old == scopes[c].children
  <2>1. old \in Seq(Nat)
    BY <1>3
  <2> HIDE DEF old
  <2>2. /\ Append(old, n + 1) \in Seq(Nat) /\ Len(Append(old, n + 1)) = Len(old) + 1
        /\ \A i \in DOMAIN old : Append(old, n + 1)[i] = old[i]
        /\ Append(old, n + 1)[Len(old) + 1] = n + 1
        /\ DOMAIN Append(old, n + 1) = DOMAIN old \cup {Len(old) + 1}
        /\ Len(old) + 1 \notin DOMAIN old
    BY <1>3, <2>1
  <2> QED
    BY <2>2 DEF old, kids
<1>4. new \in Scope /\ new.children = << >> /\ new.parent = c
  BY <1>1 DEF Scope, new_scope
<1>5. /\ grown \in Seq(Scope) /\ Len(grown) = n
      /\ \A s \in 1..n : grown[s].parent = scopes[s].parent
      /\ \A s \in 1..n : grown[s].children = IF s = c THEN kids ELSE scopes[s].children
  <2>1. grown = [s \in 1..n |-> IF s = c THEN [scopes[c] EXCEPT !.children = kids] ELSE scopes[s]]
    BY <1>1
  <2>2. [scopes[c] EXCEPT !.children = kids] \in Scope
    BY <1>2, <1>31 DEF Scope
  <2>3. \A s \in 1..n : scopes[s] \in Scope
    BY <1>1
  <2>4. grown \in [1..n -> Scope]
    BY <2>1, <2>2, <2>3
  <2>5. [scopes[c] EXCEPT !.children = kids].children = kids
        /\ [scopes[c] EXCEPT !.children = kids].parent = scopes[c].parent
    BY <1>2 DEF Scope
  <2> QED
    BY <1>1, <2>1, <2>4, <2>5
<1> HIDE DEF kids, grown, new
<1>6. scopes' = Append(grown, new) /\ scope_stack' = Append(scope_stack, n + 1)
  BY DEF push_scope, grown, new, n, c
<1>7. /\ scopes' \in Seq(Scope) /\ Len(scopes') = n + 1 /\ DOMAIN scopes' = 1..(n + 1)
      /\ \A s \in 1..n : scopes'[s] = grown[s]
      /\ scopes'[n + 1] = new
  <2>1. DOMAIN grown = 1..n
    BY <1>1, <1>5
  <2>2. /\ Append(grown, new) \in Seq(Scope) /\ Len(Append(grown, new)) = Len(grown) + 1
        /\ DOMAIN Append(grown, new) = 1..(Len(grown) + 1)
        /\ \A s \in DOMAIN grown : Append(grown, new)[s] = grown[s]
        /\ Append(grown, new)[Len(grown) + 1] = new
    BY <1>4, <1>5
  <2> QED
    BY <1>5, <1>6, <2>1, <2>2
<1>8. scope_stack' \in Seq(DOMAIN scopes') /\ scope_stack' # << >>
  <2>1. scope_stack \in Seq(1..(n + 1))
    BY <1>1
  <2> QED
    BY <1>1, <1>6, <1>7, <2>1
<1>9. Tree'
  <2> SUFFICES ASSUME NEW s \in DOMAIN scopes', NEW i \in DOMAIN scopes'[s].children
               PROVE  /\ scopes'[s].children[i] \in DOMAIN scopes'
                      /\ scopes'[s].children[i] > s
                      /\ scopes'[scopes'[s].children[i]].parent = s
                      /\ \A j \in DOMAIN scopes'[s].children :
                           scopes'[s].children[j] = scopes'[s].children[i] => j = i
    BY Zenon DEF Tree
  <2>1. s \in 1..n
    <3>1. s \in 1..(n + 1) /\ (s = n + 1 => DOMAIN scopes'[s].children = {})
      BY <1>4, <1>7
    <3>2. s # n + 1
      BY <3>1
    <3> QED
      BY <1>1, <3>1, <3>2
  <2>2. \A j \in DOMAIN scopes[s].children :
          /\ scopes[s].children[j] \in 1..n /\ scopes[s].children[j] > s
          /\ scopes[scopes[s].children[j]].parent = s
    BY <1>1, <2>1 DEF Tree
  <2>3. \A j, k \in DOMAIN scopes[s].children : scopes[s].children[j] = scopes[s].children[k] => j = k
    BY <1>1, <2>1 DEF Tree
  <2>4. CASE s # c
    <3>1. scopes'[s].children = scopes[s].children
      BY <1>5, <1>7, <2>1, <2>4
    <3>2. scopes[s].children[i] \in 1..n /\ scopes'[scopes[s].children[i]].parent = s
      BY <1>5, <1>7, <2>2, <3>1
    <3> QED
      BY <1>1, <1>7, <2>2, <2>3, <3>1, <3>2
  <2>5. CASE s = c
    <3>1. scopes'[s].children = kids
      BY <1>5, <1>7, <2>1, <2>5
    <3>2. \A j \in DOMAIN scopes[c].children :
            /\ kids[j] = scopes[c].children[j] /\ kids[j] \in 1..n /\ kids[j] # n + 1
            /\ kids[j] > s /\ scopes'[kids[j]].parent = s
      <4> SUFFICES ASSUME NEW j \in DOMAIN scopes[c].children
                   PROVE  /\ kids[j] = scopes[c].children[j] /\ kids[j] \in 1..n /\ kids[j] # n + 1
                          /\ kids[j] > s /\ scopes'[kids[j]].parent = s
        OBVIOUS
      <4>1. kids[j] = scopes[c].children[j]
        BY <1>31
      <4>2. kids[j] \in 1..n /\ kids[j] > s /\ scopes[kids[j]].parent = s
        BY <2>2, <2>5, <4>1
      <4>3. scopes'[kids[j]].parent = s
        BY <1>5, <1>7, <4>2
      <4> QED
        BY <1>1, <4>1, <4>2, <4>3
    <3>3. CASE i \in DOMAIN scopes[c].children
      <4>1. \A j \in DOMAIN kids : kids[j] = kids[i] => j = i
        BY <1>31, <2>3, <2>5, <3>2, <3>3
      <4> QED
        BY <1>1, <1>7, <3>1, <3>2, <3>3, <4>1
    <3>4. CASE i \notin DOMAIN scopes[c].children
      <4>1. kids[i] = n + 1 /\ i = Len(scopes[c].children) + 1
        BY <1>31, <3>1, <3>4
      <4>2. \A j \in DOMAIN kids : kids[j] = kids[i] => j = i
        BY <1>31, <3>2, <4>1
      <4>3. scopes'[n + 1].parent = s
        BY <1>4, <1>7, <2>5
      <4> QED
        BY <1>1, <1>7, <2>1, <3>1, <4>1, <4>2, <4>3
    <3> QED
      BY <3>3, <3>4
  <2> QED
    BY <2>4, <2>5
<1>10. ASSUME Rooted PROVE Rooted'
  <2> DEFINE child(sc, p, s) == \E i \in DOMAIN sc[p].children : sc[p].children[i] = s
  <2>1. scopes'[1].parent = 0
    BY <1>1, <1>5, <1>7, <1>10 DEF Rooted
  <2>2. \A p \in 1..n, s \in 1..n : child(scopes, p, s) => child(scopes', p, s)
    <3> SUFFICES ASSUME NEW p \in 1..n, NEW s \in 1..n, NEW i \in DOMAIN scopes[p].children,
                        scopes[p].children[i] = s
                 PROVE  child(scopes', p, s)
      OBVIOUS
    <3>1. scopes'[p].children = IF p = c THEN kids ELSE scopes[p].children
      BY <1>5, <1>7
    <3>2. i \in DOMAIN scopes'[p].children /\ scopes'[p].children[i] = s
      BY <1>31, <3>1
    <3> QED
      BY <3>2
  <2>3. child(scopes', c, n + 1)
    <3>1. scopes'[c].children = kids
      BY <1>1, <1>5, <1>7
    <3> QED
      BY <1>31, <3>1
  <2>4. ASSUME NEW s \in DOMAIN scopes', s # 1
        PROVE  \E p \in DOMAIN scopes' : child(scopes', p, s)
    <3>1. CASE s = n + 1
      BY <1>1, <1>7, <2>3, <3>1
    <3>2. CASE s # n + 1
      <4>1. s \in 1..(n + 1)
        BY <1>7, <2>4
      <4>2. s \in 1..n
        BY <1>1, <3>2, <4>1
      <4>3. PICK p \in 1..n : child(scopes, p, s)
        BY <1>1, <1>10, <2>4, <4>2 DEF Rooted
      <4>4. child(scopes', p, s) /\ p \in 1..(n + 1)
        BY <1>1, <2>2, <4>2, <4>3
      <4> HIDE DEF child
      <4> QED
        BY <1>7, <4>4
    <3> QED
      BY <3>1, <3>2
  <2> QED
    BY <2>1, <2>4 DEF Rooted
<1> QED
  BY <1>1, <1>7, <1>8, <1>9, <1>10
-----------------------------------------------------------------------------
(* The declarations *)

(* What the nodes of a program carry. *)
LEMMA NodeOfWalk ==
  ASSUME program \in Seq(Node), at \in DOMAIN program
  PROVE  /\ node.op \in {"fn", "const", "impl", "let", "type"} => node.name \in AnyName
         /\ node.op = "fn" => node.param \in AnyName
         /\ node.op = "type" => node.kind \in Types
<1>1. node \in Node
  BY ElementOfSeq DEF node
<1> QED
  BY <1>1 DEF Node, Types, AnyName

LEMMA DeclarationTyped ==
  ASSUME NEW kind \in DeclKinds, NEW name \in AnyName, NEW s \in Nat, NEW n \in Nat, NEW inner \in Nat
  PROVE  declaration(kind, name, s, n, inner) \in Declaration
BY DEF Declaration, declaration

(* Declarations added keep names distinct, given that each function or     *)
(* constant among them has a name that is new in its scope.                *)
LEMMA DeclareKeepsNames ==
  ASSUME decls \in Seq(Declaration), NamesDistinct, NEW e \in Declaration,
         decls' = Append(decls, e),
         e.kind \in {"fn", "const"} =>
           \A d \in Items : ~(decls[d].scope = e.scope /\ decls[d].name = e.name)
  PROVE  decls' \in Seq(Declaration) /\ NamesDistinct'
<1> DEFINE n == Len(decls)
<1>1. /\ decls' \in Seq(Declaration) /\ DOMAIN decls' = DOMAIN decls \cup {n + 1}
      /\ n + 1 \notin DOMAIN decls
      /\ \A d \in DOMAIN decls : decls'[d] = decls[d]
      /\ decls'[n + 1] = e
  BY AppendShape
<1> HIDE DEF n
<1>2. Items' \subseteq Items \cup {n + 1} /\ (n + 1 \in Items' => e.kind \in {"fn", "const"})
  BY <1>1 DEF Items
<1>3. \A d \in Items : decls'[d] = decls[d]
  BY <1>1 DEF Items
<1>4. ASSUME NEW d \in Items', NEW f \in Items',
             decls'[d].scope = decls'[f].scope, decls'[d].name = decls'[f].name
      PROVE  d = f
  BY <1>1, <1>2, <1>3, <1>4 DEF NamesDistinct
<1> QED
  BY <1>1, <1>4, Zenon DEF NamesDistinct

LEMMA OthersKeepNames ==
  ASSUME decls \in Seq(Declaration), NamesDistinct, NEW more \in Seq(Declaration),
         decls' = decls \o more, \A i \in DOMAIN more : more[i].kind \notin {"fn", "const"}
  PROVE  decls' \in Seq(Declaration) /\ NamesDistinct'
<1> DEFINE n == Len(decls)
<1>1. /\ decls' \in Seq(Declaration) /\ DOMAIN decls' = 1..(n + Len(more))
      /\ n \in Nat /\ Len(more) \in Nat /\ DOMAIN decls = 1..n /\ DOMAIN more = 1..Len(more)
      /\ \A d \in 1..(n + Len(more)) : decls'[d] = IF d <= n THEN decls[d] ELSE more[d - n]
  BY ConcatProperties
<1> HIDE DEF n
<1>2. \A d \in Items' : d \in Items /\ decls'[d] = decls[d]
  <2> SUFFICES ASSUME NEW d \in Items' PROVE d \in Items /\ decls'[d] = decls[d]
    OBVIOUS
  <2>1. d \in 1..(n + Len(more)) /\ decls'[d].kind \in {"fn", "const"}
    BY <1>1 DEF Items
  <2>2. d <= n
    <3> SUFFICES ASSUME ~(d <= n) PROVE FALSE
      OBVIOUS
    <3>1. d - n \in DOMAIN more
      BY <1>1, <2>1
    <3> QED
      BY <1>1, <2>1, <3>1
  <2> QED
    BY <1>1, <2>1, <2>2 DEF Items
<1>3. ASSUME NEW d \in Items', NEW f \in Items',
             decls'[d].scope = decls'[f].scope, decls'[d].name = decls'[f].name
      PROVE  d = f
  BY <1>2, <1>3 DEF NamesDistinct
<1> QED
  BY <1>1, <1>3, Zenon DEF NamesDistinct

(* Declarations and scopes only grow before the walk that gives out paths. *)
Early == {"scopes", "types", "constants", "check"}

LEMMA PathsWait ==
  ASSUME PathsDistinct, PathOfParent, UNCHANGED suffix, DOMAIN scopes \subseteq DOMAIN scopes',
         pass' # "globals", pass' \in Early => pass \in Early
  PROVE  PathsDistinct' /\ PathOfParent'
BY DEF PathsDistinct, PathOfParent, Early
-----------------------------------------------------------------------------
(* The passes *)

(* The walk goes on: the map has an entry for every node walked. *)
LEMMA WalkKeepsMap ==
  ASSUME Shape, pass = "scopes", at' = at + 1, UNCHANGED <<program, pass>>,
         NEW s \in Nat, node_scope_map' = Append(node_scope_map, s)
  PROVE  /\ program' \in Seq(Node) /\ at' \in Nat \ {0}
         /\ node_scope_map' \in Seq(Nat)
         /\ pass' = "scopes" /\ Len(node_scope_map') = at' - 1
BY DEF Shape

LEMMA CurrentScope ==
  ASSUME Shape
  PROVE  current_scope \in DOMAIN scopes /\ current_scope \in Nat
BY DEF Shape, current_scope, Last

LEMMA BuildStep ==
  ASSUME IInv, BuildScopes, UNCHANGED <<checkVars, lowerVars>>
  PROVE  IInv'
<1> USE DEF IInv
<1>1. UNCHANGED suffix
  BY DEF lowerVars
<1>2. current_scope \in DOMAIN scopes /\ current_scope \in Nat
  BY CurrentScope
<1>11. scopes \in Seq(Scope) /\ scope_stack \in Seq(DOMAIN scopes) /\ scope_stack # << >> /\ Tree
  BY DEF Shape
<1>3. CASE Redefinition
  <2>1. UNCHANGED <<scopeVars, program, at>> /\ pass' = "CE"
    BY <1>3 DEF Redefinition, refuse
  <2>2. Shape' /\ Tree' /\ NamesDistinct'
    BY <2>1 DEF Shape, Tree, NamesDistinct, Items, scopeVars
  <2>3. PathsDistinct' /\ PathOfParent'
    BY <1>1, <2>1, PathsWait DEF scopeVars, Early
  <2> QED
    BY <2>2, <2>3
<1>4. ASSUME pass = "scopes", pass' = "scopes", DOMAIN scopes \subseteq DOMAIN scopes'
      PROVE  PathsDistinct' /\ PathOfParent'
  BY <1>1, <1>4, PathsWait DEF Early
<1>5. CASE VisitFnItem
  <2> DEFINE e == declaration("fn", node.name, current_scope, at, Len(scopes) + 1)
  <2>1. /\ pass = "scopes" /\ at \in DOMAIN program /\ node.op = "fn" /\ ~redefined(Values)
        /\ decls' = Append(decls, e) /\ push_scope("Function", NoName) /\ walk_on
    BY <1>5 DEF VisitFnItem, walking
  <2>2. e \in Declaration
    <3>1. node.name \in AnyName /\ at \in Nat /\ Len(scopes) + 1 \in Nat /\ "fn" \in DeclKinds
      BY <2>1, NodeOfWalk DEF Shape, DeclKinds, Values
    <3> QED
      BY <1>2, <3>1, DeclarationTyped
  <2>3. \A d \in Items : ~(decls[d].scope = e.scope /\ decls[d].name = e.name)
    BY <2>1 DEF redefined, named, namespace, Values, Items, declaration
  <2>4. decls' \in Seq(Declaration) /\ NamesDistinct'
    BY <2>1, <2>2, <2>3, DeclareKeepsNames DEF Shape
  <2>5. /\ scopes' \in Seq(Scope) /\ DOMAIN scopes \subseteq DOMAIN scopes'
        /\ scope_stack' \in Seq(DOMAIN scopes') /\ scope_stack' # << >> /\ Tree'
    <3>1. "Function" \in ScopeKinds /\ NoName \in AnyName
      BY DEF AnyName, ScopeKinds
    <3> QED
      BY <1>11, <2>1, <3>1, PushKeepsTree, Zenon
  <2>6. /\ program' \in Seq(Node) /\ at' \in Nat \ {0} /\ node_scope_map' \in Seq(Nat)
        /\ pass' = "scopes" /\ Len(node_scope_map') = at' - 1
    BY <1>2, <2>1, WalkKeepsMap DEF walk_on
  <2>7. Shape'
    BY <2>4, <2>5, <2>6 DEF Shape
  <2> QED
    BY <1>4, <2>1, <2>4, <2>5, <2>6, <2>7
<1>6. CASE VisitBlockExpr
  <2>1. /\ pass = "scopes" /\ UNCHANGED <<program, pass, decls>> /\ at' = at + 1
        /\ node_scope_map' = Append(node_scope_map, Last(scope_stack'))
        /\ \/ scope_stack' = Append(scope_stack, current_scope) /\ UNCHANGED scopes
           \/ push_scope("Block", NoName)
    BY <1>6 DEF VisitBlockExpr, walking
  <2>2. /\ scopes' \in Seq(Scope) /\ DOMAIN scopes \subseteq DOMAIN scopes'
        /\ scope_stack' \in Seq(DOMAIN scopes') /\ scope_stack' # << >> /\ Tree'
    <3>1. CASE scope_stack' = Append(scope_stack, current_scope) /\ UNCHANGED scopes
      BY <1>2, <3>1 DEF Shape, Tree
    <3>2. CASE push_scope("Block", NoName)
      <4>1. "Block" \in ScopeKinds /\ NoName \in AnyName
        BY DEF AnyName, ScopeKinds
      <4> QED
        BY <1>11, <3>2, <4>1, PushKeepsTree, Zenon
    <3> QED
      BY <2>1, <3>1, <3>2
  <2>3. Last(scope_stack') \in Nat
    BY <2>2 DEF Last
  <2>4. /\ program' \in Seq(Node) /\ at' \in Nat \ {0} /\ node_scope_map' \in Seq(Nat)
        /\ pass' = "scopes" /\ Len(node_scope_map') = at' - 1
    BY <2>1, <2>3, WalkKeepsMap
  <2>5. decls' \in Seq(Declaration) /\ NamesDistinct'
    BY <2>1 DEF Shape, NamesDistinct, Items
  <2>6. Shape'
    BY <2>2, <2>4, <2>5 DEF Shape
  <2> QED
    BY <1>4, <2>1, <2>2, <2>4, <2>5, <2>6
<1>7. CASE VisitImplItem
  <2>1. /\ pass = "scopes" /\ at \in DOMAIN program /\ node.op = "impl" /\ UNCHANGED decls
        /\ push_scope("Impl", node.name) /\ walk_on
    BY <1>7 DEF VisitImplItem, walking
  <2>2. node.name \in AnyName
    BY <2>1, NodeOfWalk DEF Shape
  <2>3. /\ scopes' \in Seq(Scope) /\ DOMAIN scopes \subseteq DOMAIN scopes'
        /\ scope_stack' \in Seq(DOMAIN scopes') /\ scope_stack' # << >> /\ Tree'
    <3>1. "Impl" \in ScopeKinds
      BY DEF ScopeKinds
    <3> QED
      BY <1>11, <2>1, <2>2, <3>1, PushKeepsTree, Zenon
  <2>4. /\ program' \in Seq(Node) /\ at' \in Nat \ {0} /\ node_scope_map' \in Seq(Nat)
        /\ pass' = "scopes" /\ Len(node_scope_map') = at' - 1
    BY <1>2, <2>1, WalkKeepsMap DEF walk_on
  <2>5. decls' \in Seq(Declaration) /\ NamesDistinct'
    BY <2>1 DEF Shape, NamesDistinct, Items
  <2>6. Shape'
    BY <2>3, <2>4, <2>5 DEF Shape
  <2> QED
    BY <1>4, <2>1, <2>3, <2>4, <2>5, <2>6
<1>8. ASSUME pass = "scopes", walk_on, UNCHANGED scopes,
             scope_stack' \in Seq(DOMAIN scopes), scope_stack' # << >>,
             decls' \in Seq(Declaration), NamesDistinct'
      PROVE  IInv'
  <2>1. /\ program' \in Seq(Node) /\ at' \in Nat \ {0} /\ node_scope_map' \in Seq(Nat)
        /\ pass' = "scopes" /\ Len(node_scope_map') = at' - 1
    BY <1>2, <1>8, WalkKeepsMap DEF walk_on
  <2>2. Shape' /\ Tree'
    BY <1>8, <2>1 DEF Shape, Tree
  <2> QED
    BY <1>4, <1>8, <2>1, <2>2
<1>9. CASE VisitDeclaration
  <2>1. /\ pass = "scopes" /\ at \in DOMAIN program /\ walk_on
        /\ UNCHANGED <<scopes, scope_stack, block_is_in_function>>
    BY <1>9 DEF VisitDeclaration, walking
  <2>2. PICK e : /\ decls' = Append(decls, e) /\ e \in Declaration
                 /\ e.kind \in {"fn", "const"} =>
                      \A d \in Items : ~(decls[d].scope = e.scope /\ decls[d].name = e.name)
    <3>1. CASE /\ node.op = "type"
               /\ decls' = Append(decls, declaration(node.kind, node.name, current_scope, at, 0))
      <4>1. declaration(node.kind, node.name, current_scope, at, 0) \in Declaration
        <5>1. /\ node.name \in AnyName /\ node.kind \in DeclKinds /\ at \in Nat /\ 0 \in Nat
          BY <2>1, <3>1, NodeOfWalk DEF Shape, Types, DeclKinds
        <5> QED
          BY <1>2, <5>1, DeclarationTyped
      <4>2. declaration(node.kind, node.name, current_scope, at, 0).kind \notin {"fn", "const"}
        BY <2>1, <3>1, NodeOfWalk DEF Shape, declaration, Types
      <4> QED
        BY <3>1, <4>1, <4>2
    <3>2. CASE /\ node.op = "const" /\ ~redefined(Values)
               /\ decls' = Append(decls, declaration("const", node.name, current_scope, at, 0))
      <4>1. declaration("const", node.name, current_scope, at, 0) \in Declaration
        <5>1. node.name \in AnyName /\ at \in Nat /\ 0 \in Nat /\ "const" \in DeclKinds
          BY <2>1, <3>2, NodeOfWalk DEF Shape, DeclKinds, Values
        <5> QED
          BY <1>2, <5>1, DeclarationTyped
      <4>2. \A d \in Items : ~(decls[d].scope = current_scope /\ decls[d].name = node.name)
        BY <3>2 DEF redefined, named, namespace, Values, Items
      <4> QED
        BY <3>2, <4>1, <4>2 DEF declaration
    <3> QED
      BY <1>9, <3>1, <3>2 DEF VisitDeclaration
  <2>3. decls' \in Seq(Declaration) /\ NamesDistinct'
    BY <2>2, DeclareKeepsNames DEF Shape
  <2> QED
    BY <1>8, <2>1, <2>3 DEF Shape
<1>10. CASE VisitLeaf \/ LeaveNode
  <2>1. pass = "scopes" /\ walk_on /\ UNCHANGED <<scopes, decls>>
    BY <1>10 DEF VisitLeaf, LeaveNode, walking
  <2>2. scope_stack' \in Seq(DOMAIN scopes) /\ scope_stack' # << >>
    <3>1. CASE UNCHANGED scope_stack
      BY <3>1 DEF Shape
    <3>2. CASE Len(scope_stack) > 1 /\ scope_stack' = Front(scope_stack)
      <4>1. scope_stack \in Seq(DOMAIN scopes) /\ scope_stack' = SubSeq(scope_stack, 1, Len(scope_stack) - 1)
        BY <3>2 DEF Shape, Front
      <4>2. Len(scope_stack) \in Nat
        BY <4>1
      <4> HIDE DEF IInv
      <4>3. /\ SubSeq(scope_stack, 1, Len(scope_stack) - 1) \in Seq(DOMAIN scopes)
            /\ Len(SubSeq(scope_stack, 1, Len(scope_stack) - 1)) = Len(scope_stack) - 1
        BY <3>2, <4>1, <4>2
      <4>4. Len(scope_stack') # 0
        BY <3>2, <4>1, <4>2, <4>3
      <4> QED
        BY <4>1, <4>3, <4>4
    <3> QED
      BY <1>10, <3>1, <3>2 DEF VisitLeaf, LeaveNode
  <2>3. decls' \in Seq(Declaration) /\ NamesDistinct'
    BY <2>1 DEF Shape, NamesDistinct, Items
  <2> QED
    BY <1>8, <2>1, <2>2, <2>3
<1> QED
  BY <1>3, <1>5, <1>6, <1>7, <1>9, <1>10 DEF BuildScopes

(* Before the walk that gives out paths, a step that keeps the scopes. *)
LEMMA BuiltinsTyped ==
  ASSUME NEW s \in Nat
  PROVE  /\ builtin_decls(RootBuiltins, s) \in Seq(Declaration)
         /\ builtin_decls(TypeBuiltins, s) \in Seq(Declaration)
<1>1. ASSUME NEW names, NEW n \in Nat, DOMAIN names = 1..n, \A i \in 1..n : names[i] \in AnyName
      PROVE  builtin_decls(names, s) \in Seq(Declaration)
  <2>1. \A i \in 1..n : declaration("builtin", names[i], s, 0, 0) \in Declaration
    <3>1. "builtin" \in DeclKinds /\ 0 \in Nat
      BY DEF DeclKinds, Values
    <3> QED
      BY <1>1, <3>1, DeclarationTyped
  <2> QED
    BY <1>1, <2>1, IsASeq DEF builtin_decls
<1>2. DOMAIN RootBuiltins = 1..7 /\ DOMAIN TypeBuiltins = 1..7
  BY DEF RootBuiltins, TypeBuiltins
<1>3. \A i \in 1..7 : RootBuiltins[i] \in AnyName /\ TypeBuiltins[i] \in AnyName
  BY <1>2, Zenon DEF AnyName, ToSet
<1> QED
  BY <1>1, <1>2, <1>3

LEMMA CheckStep ==
  ASSUME IInv, Check, UNCHANGED lowerVars
  PROVE  IInv'
<1> USE DEF IInv
<1>1. UNCHANGED <<suffix, program, scopes, scope_stack, node_scope_map>> /\ pass \in Early
  BY DEF lowerVars, Check, FinishScopes, RefuseScope, Scope_dfs_and_build_type, AddBuiltins,
         ResolveBodies, NameUnknown, ReceiverUnknown, ResolveName, CheckFnItem, CheckLetStmt, CheckNode,
         scopeVars, unresolved_node, walking, Early
<1>2. pass' # "globals" /\ (pass' = "scopes" => FALSE)
  BY <1>1 DEF Check, FinishScopes, RefuseScope, Scope_dfs_and_build_type, AddBuiltins,
         ResolveBodies, NameUnknown, ReceiverUnknown, ResolveName, CheckFnItem, CheckLetStmt, CheckNode,
         refuse, unresolved_node, walking, Early
<1>3. PathsDistinct' /\ PathOfParent'
  BY <1>1, <1>2, PathsWait
<1>4. Tree'
  BY <1>1 DEF Tree
<1>5. at' \in Nat \ {0}
  BY DEF Shape, Check, FinishScopes, RefuseScope, Scope_dfs_and_build_type, AddBuiltins,
         ResolveBodies, NameUnknown, ReceiverUnknown, ResolveName, CheckFnItem, CheckLetStmt, CheckNode,
         unresolved_node
<1>6. pass' \in {"types", "constants", "check"} => Len(node_scope_map) >= Len(program)
  <2>1. CASE FinishScopes
    BY <2>1 DEF FinishScopes, Shape
  <2>2. CASE pass \in {"types", "constants", "check"}
    BY <2>2 DEF Shape
  <2> QED
    BY <2>1, <2>2 DEF Check, RefuseScope, Scope_dfs_and_build_type, AddBuiltins,
         ResolveBodies, NameUnknown, ReceiverUnknown, ResolveName, CheckFnItem, CheckLetStmt, CheckNode,
         walking
<1>7. decls' \in Seq(Declaration) /\ NamesDistinct'
  <2>1. CASE UNCHANGED decls
    BY <2>1 DEF Shape, NamesDistinct, Items
  <2>2. CASE decls' = decls \o builtin_decls(RootBuiltins, 1) \o builtin_decls(TypeBuiltins, 0)
    <3> DEFINE more == builtin_decls(RootBuiltins, 1) \o builtin_decls(TypeBuiltins, 0)
    <3>1. /\ builtin_decls(RootBuiltins, 1) \in Seq(Declaration)
          /\ builtin_decls(TypeBuiltins, 0) \in Seq(Declaration)
      BY BuiltinsTyped
    <3>2. more \in Seq(Declaration) /\ decls' = decls \o more
      <4>1. decls \in Seq(Declaration)
        BY DEF Shape
      <4> HIDE DEF IInv
      <4> QED
        BY <2>2, <3>1, <4>1, ConcatProperties, ConcatAssociative
    <3>3. \A i \in DOMAIN more : more[i].kind = "builtin"
      <4>1. /\ \A i \in DOMAIN builtin_decls(RootBuiltins, 1) : builtin_decls(RootBuiltins, 1)[i].kind = "builtin"
            /\ \A i \in DOMAIN builtin_decls(TypeBuiltins, 0) : builtin_decls(TypeBuiltins, 0)[i].kind = "builtin"
        BY DEF builtin_decls, declaration
      <4> QED
        BY <3>1, <4>1, ConcatProperties
    <3> QED
      BY <3>2, <3>3, OthersKeepNames DEF Shape
  <2>3. ASSUME NEW name \in AnyName, NEW s \in Nat, at \in Nat, introduce(name, s)
        PROVE  decls' \in Seq(Declaration) /\ NamesDistinct'
    <3>1. declaration("let", name, s, at, 0) \in Declaration
      <4>1. "let" \in DeclKinds /\ 0 \in Nat
        BY DEF DeclKinds
      <4> QED
        BY <2>3, <4>1, DeclarationTyped
    <3>2. declaration("let", name, s, at, 0).kind = "let"
      BY DEF declaration
    <3> QED
      BY <2>3, <3>1, <3>2, DeclareKeepsNames DEF introduce, Shape
  <2>4. CASE CheckFnItem
    <3>1. at \in DOMAIN program /\ node.op = "fn" /\ at \in Nat
      BY <2>4 DEF CheckFnItem, walking, Shape
    <3>2. PICK f \in DOMAIN decls : UNCHANGED decls \/ introduce(node.param, decls[f].inner)
      BY <2>4 DEF CheckFnItem, named, namespace
    <3>3. decls[f].inner \in Nat
      <4>1. decls[f] \in Declaration
        BY <3>2, ElementOfSeq DEF Shape
      <4> QED
        BY <4>1 DEF Declaration
    <3>4. node.param \in AnyName
      BY <3>1, NodeOfWalk DEF Shape
    <3> QED
      BY <2>1, <2>3, <3>1, <3>2, <3>3, <3>4
  <2>5. CASE CheckLetStmt
    <3>1. at \in DOMAIN program /\ node.op = "let" /\ at \in Nat /\ pass = "check"
          /\ introduce(node.name, here)
      BY <2>5 DEF CheckLetStmt, walking, Shape
    <3>2. here \in Nat
      <4>1. node_scope_map \in Seq(Nat) /\ program \in Seq(Node) /\ Len(node_scope_map) >= Len(program)
        BY <3>1 DEF Shape
      <4>2. at \in DOMAIN node_scope_map
        BY <3>1, <4>1
      <4> QED
        BY <4>1, <4>2, ElementOfSeq DEF here
    <3>3. node.name \in AnyName
      BY <3>1, NodeOfWalk DEF Shape
    <3> QED
      BY <2>3, <3>1, <3>2, <3>3
  <2> QED
    BY <2>1, <2>2, <2>4, <2>5 DEF Check, FinishScopes, RefuseScope, Scope_dfs_and_build_type,
         AddBuiltins, ResolveBodies, NameUnknown, ReceiverUnknown, ResolveName, CheckNode, scopeVars
<1>8. Shape'
  BY <1>1, <1>2, <1>5, <1>6, <1>7 DEF Shape
<1> QED
  BY <1>3, <1>4, <1>7, <1>8

(* Scopes and declarations are complete: a step that keeps them. *)
LEMMA SettledStep ==
  ASSUME IInv, UNCHANGED <<program, scopes, decls, scope_stack, node_scope_map>>,
         at' \in Nat \ {0}, pass' \notin Early
  PROVE  Shape' /\ Tree' /\ NamesDistinct'
BY DEF IInv, Shape, Tree, NamesDistinct, Items, Early

LEMMA GenerateStep ==
  ASSUME IInv, Generate
  PROVE  IInv'
<1>1. /\ UNCHANGED <<program, scopes, decls, scope_stack, node_scope_map, suffix>>
      /\ pass = "gen" /\ pass' \in {"gen", "error", "done"}
  BY DEF Generate, GenFnItem, SkipFnItem, GenFails, GenEnter, GenLeave, GenReturn, GenLetStmt,
         GenIdentifierExpr, GenCallExpr, GenNothing, FinishGen, generating, gen_on, walking,
         scopeVars, checkVars, lowerVars
<1>2. at' \in Nat \ {0}
  <2>1. at' = at \/ at' = at + 1
    BY DEF Generate, GenFnItem, SkipFnItem, GenFails, GenEnter, GenLeave, GenReturn,
           GenLetStmt, GenIdentifierExpr, GenCallExpr, GenNothing, FinishGen, gen_on
  <2> QED
    BY <2>1 DEF IInv, Shape
<1>3. Shape' /\ Tree' /\ NamesDistinct'
  BY <1>1, <1>2, SettledStep DEF Early
<1>4. PathsDistinct' /\ PathOfParent'
  BY <1>1, PathsWait DEF IInv, Early
<1> QED
  BY <1>3, <1>4 DEF IInv
-----------------------------------------------------------------------------
(* The paths *)

LEMMA PathInjective ==
  ASSUME NEW s \in Seq(Nat), NEW t \in Seq(Nat), NEW i \in Nat, NEW j \in Nat
  PROVE  /\ Append(s, i) \in Seq(Nat)
         /\ Append(s, i) = Append(t, j) => s = t /\ i = j
BY AppendInjective

(* When a scope s is visited its children have no path, and no path that   *)
(* was given out extends that of s: either would make s visited already.   *)
LEMMA NoPathYet ==
  ASSUME IInv, pass = "globals", NEW i \in DOMAIN todo
  PROVE  /\ \A j \in DOMAIN scopes[todo[i]].children : scopes[todo[i]].children[j] \notin DOMAIN suffix
         /\ \A t \in DOMAIN suffix, k \in Nat : suffix[t] # Append(suffix[todo[i]], k)
<1> DEFINE s == todo[i]
<1>1. /\ s \in DOMAIN suffix /\ s \in DOMAIN scopes /\ s \in Nat /\ s >= 1
      /\ suffix[s] \in Seq(Nat)
  BY ElementOfSeq DEF IInv, Shape, PathsDistinct, PathOfParent
<1>2. s \notin Visited
  BY DEF Visited
<1>3. Visited \subseteq DOMAIN suffix /\ DOMAIN suffix \subseteq DOMAIN scopes
  BY DEF Visited, IInv, PathsDistinct
<1> HIDE DEF s
<1>4. \A c \in DOMAIN suffix : (c = 1 /\ suffix[c] = << >>) \/ \E p \in Visited : child_of(c, p)
  BY DEF IInv, PathOfParent
<1>5. ASSUME NEW j \in DOMAIN scopes[s].children, scopes[s].children[j] \in DOMAIN suffix
      PROVE  FALSE
  <2> DEFINE c == scopes[s].children[j]
  <2>1. c > s /\ scopes[c].parent = s
    BY <1>1 DEF IInv, Tree
  <2>2. c # 1
    <3>1. c \in Nat
      BY <1>1, <1>3, <1>5 DEF IInv, Shape
    <3> QED
      BY <1>1, <2>1, <3>1
  <2>3. PICK p \in Visited : child_of(c, p)
    BY <1>4, <1>5, <2>2
  <2>4. scopes[c].parent = p
    BY <1>3, <2>3 DEF child_of, IInv, Tree
  <2> QED
    BY <1>2, <2>1, <2>3, <2>4
<1>6. ASSUME NEW t \in DOMAIN suffix, NEW k \in Nat, suffix[t] = Append(suffix[s], k)
      PROVE  FALSE
  <2>1. suffix[t] # << >>
    BY <1>1, <1>6, AppendShape
  <2>2. PICK p \in Visited : child_of(t, p)
    BY <1>4, <2>1
  <2>3. PICK j \in DOMAIN scopes[p].children : suffix[t] = Append(suffix[p], j - 1)
    BY <2>2 DEF child_of
  <2>4. j - 1 \in Nat /\ suffix[p] \in Seq(Nat)
    <3>1. scopes[p] \in Scope
      BY <1>3, ElementOfSeq DEF IInv, Shape
    <3>2. j \in Nat /\ j >= 1
      BY <2>3, <3>1 DEF Scope
    <3>3. suffix[p] \in Seq(Nat)
      BY <1>3 DEF IInv, PathsDistinct
    <3> QED
      BY <3>2, <3>3
  <2>5. suffix[p] = suffix[s]
    BY <1>1, <1>6, <2>3, <2>4, PathInjective
  <2>6. p = s
    BY <1>1, <1>3, <2>5 DEF IInv, PathsDistinct
  <2> QED
    BY <1>2, <2>2, <2>6
<1> QED
  BY <1>5, <1>6 DEF s

(* The visit of a scope gives its children the paths that extend its own.  *)
LEMMA VisitStep ==
  ASSUME IInv, visit_scope
  PROVE  IInv' /\ Visited \cup {Head(todo)} \subseteq Visited'
<1> DEFINE s == Head(todo)
           kids == scopes[s].children
           K == ToSet(kids)
           rest == Tail(todo)
<1>1. /\ pass = "globals" /\ todo \in Seq(DOMAIN suffix) /\ todo # << >>
      /\ suffix' = child_suffixes(s) /\ todo' = kids \o rest
      /\ UNCHANGED <<program, scopes, decls, scope_stack, node_scope_map, pass, at>>
  BY DEF visit_scope, scopeVars, depth_first, IInv, PathOfParent
<1>2. /\ s = todo[1] /\ 1 \in DOMAIN todo /\ s \in DOMAIN suffix
      /\ rest \in Seq(DOMAIN suffix) /\ Len(rest) = Len(todo) - 1
      /\ \A i \in DOMAIN rest : i + 1 \in DOMAIN todo /\ rest[i] = todo[i + 1]
      /\ \A i \in DOMAIN todo : i # 1 => i - 1 \in DOMAIN rest /\ todo[i] = rest[i - 1]
  BY <1>1, HeadTailProperties
<1>3. kids \in Seq(Nat) /\ suffix[s] \in Seq(Nat)
  <2>1. scopes[s] \in Scope
    BY <1>2, ElementOfSeq DEF IInv, Shape, PathsDistinct
  <2> QED
    BY <1>2, <2>1 DEF Scope, IInv, PathsDistinct
<1>4. /\ \A c \in K : c \notin DOMAIN suffix /\ c \in DOMAIN scopes
      /\ \A t \in DOMAIN suffix, k \in Nat : suffix[t] # Append(suffix[s], k)
  <2>1. \A j \in DOMAIN kids : kids[j] \notin DOMAIN suffix
    BY <1>1, <1>2, NoPathYet
  <2>2. \A j \in DOMAIN kids : kids[j] \in DOMAIN scopes
    BY <1>2 DEF IInv, Tree, PathsDistinct
  <2>3. \A t \in DOMAIN suffix, k \in Nat : suffix[t] # Append(suffix[s], k)
    BY <1>1, <1>2, NoPathYet
  <2> QED
    BY <2>1, <2>2, <2>3 DEF ToSet
<1> DEFINE num(c) == child_number(s, c)
<1>5. \A c \in K : num(c) \in DOMAIN kids /\ kids[num(c)] = c /\ num(c) - 1 \in Nat
  <2>1. \A c \in K : \E i \in DOMAIN kids : kids[i] = c
    BY DEF ToSet
  <2>2. \A c \in K : num(c) \in DOMAIN kids /\ kids[num(c)] = c
    BY <2>1 DEF child_number
  <2> QED
    BY <1>3, <2>2
<1>6. /\ DOMAIN suffix' = DOMAIN suffix \cup K
      /\ \A t \in DOMAIN suffix : suffix'[t] = suffix[t]
      /\ \A c \in K : suffix'[c] = Append(suffix[s], num(c) - 1)
  BY <1>1, <1>4 DEF child_suffixes
<1>7. \A i, j \in DOMAIN kids : kids[i] = kids[j] => i = j
  BY <1>2 DEF IInv, Tree, PathsDistinct
<1>8. \A i, j \in DOMAIN todo : todo[i] = todo[j] => i = j
  BY <1>1 DEF IInv, PathOfParent
<1> HIDE DEF s, kids, K, rest, num
<1>9. PathsDistinct'
  <2>1. \A t \in DOMAIN suffix' : t \in DOMAIN scopes' /\ suffix'[t] \in Seq(Nat)
    <3>1. ASSUME NEW t \in DOMAIN suffix PROVE t \in DOMAIN scopes /\ suffix'[t] \in Seq(Nat)
      BY <1>6 DEF IInv, PathsDistinct
    <3>2. ASSUME NEW c \in K PROVE c \in DOMAIN scopes /\ suffix'[c] \in Seq(Nat)
      <4>1. num(c) - 1 \in Nat /\ suffix'[c] = Append(suffix[s], num(c) - 1)
        BY <1>5, <1>6
      <4>2. Append(suffix[s], num(c) - 1) \in Seq(Nat)
        BY <1>3, <4>1, PathInjective
      <4> QED
        BY <1>4, <4>1, <4>2
    <3> QED
      BY <1>1, <1>6, <3>1, <3>2
  <2>2. ASSUME NEW t \in DOMAIN suffix', NEW u \in DOMAIN suffix', suffix'[t] = suffix'[u]
        PROVE  t = u
    <3>1. CASE t \in DOMAIN suffix /\ u \in DOMAIN suffix
      BY <1>6, <2>2, <3>1 DEF IInv, PathsDistinct
    <3>2. CASE t \in K /\ u \in K
      <4>1. num(t) - 1 = num(u) - 1
        <5>1. Append(suffix[s], num(t) - 1) = Append(suffix[s], num(u) - 1)
          BY <1>6, <2>2, <3>2
        <5>2. num(t) - 1 \in Nat /\ num(u) - 1 \in Nat
          BY <1>5, <3>2
        <5> QED
          BY <1>3, <5>1, <5>2, PathInjective
      <4>2. num(t) = num(u)
        BY <1>3, <1>5, <3>2, <4>1
      <4> QED
        BY <1>5, <3>2, <4>2
    <3>3. CASE t \in DOMAIN suffix /\ u \in K
      BY <1>4, <1>5, <1>6, <2>2, <3>3
    <3>4. CASE t \in K /\ u \in DOMAIN suffix
      BY <1>4, <1>5, <1>6, <2>2, <3>4
    <3> QED
      BY <1>6, <2>2, <3>1, <3>2, <3>3, <3>4
  <2> QED
    BY <1>1, <2>1, <2>2 DEF PathsDistinct
<1>10. /\ \A i \in DOMAIN todo' : todo'[i] \in K \/ \E j \in DOMAIN rest : todo'[i] = rest[j]
       /\ todo' \in Seq(DOMAIN suffix')
       /\ \A i, j \in DOMAIN todo' : todo'[i] = todo'[j] => i = j
  <2> DEFINE D == DOMAIN suffix'
             m == Len(kids)
  <2>1. kids \in Seq(D) /\ rest \in Seq(D)
    <3>1. \A i \in DOMAIN kids : kids[i] \in D
      BY <1>6 DEF K, ToSet
    <3>2. \A i \in DOMAIN rest : rest[i] \in D
      BY <1>2, <1>6, ElementOfSeq
    <3> HIDE DEF D
    <3>3. m \in Nat /\ DOMAIN kids = 1..m /\ kids = [i \in 1..m |-> kids[i]]
      BY <1>3
    <3>4. kids \in Seq(D)
      BY <3>1, <3>3
    <3>5. rest \in Seq(D)
      BY <1>2, <3>2
    <3> QED
      BY <3>4, <3>5
  <2> HIDE DEF D, m
  <2>2. /\ todo' \in Seq(D) /\ DOMAIN todo' = 1..(m + Len(rest))
        /\ m \in Nat /\ Len(rest) \in Nat /\ DOMAIN kids = 1..m /\ DOMAIN rest = 1..Len(rest)
        /\ \A i \in 1..(m + Len(rest)) : todo'[i] = IF i <= m THEN kids[i] ELSE rest[i - m]
    BY <1>1, <2>1, ConcatProperties DEF m
  <2>3. \A i \in DOMAIN todo' :
          \/ i \in DOMAIN kids /\ todo'[i] = kids[i] /\ todo'[i] \in K
          \/ i - m \in DOMAIN rest /\ todo'[i] = rest[i - m] /\ todo'[i] \in DOMAIN suffix
    <3> SUFFICES ASSUME NEW i \in DOMAIN todo'
                 PROVE  \/ i \in DOMAIN kids /\ todo'[i] = kids[i] /\ todo'[i] \in K
                        \/ i - m \in DOMAIN rest /\ todo'[i] = rest[i - m] /\ todo'[i] \in DOMAIN suffix
      OBVIOUS
    <3>1. CASE i <= m
      <4>1. i \in DOMAIN kids /\ todo'[i] = kids[i]
        BY <2>2, <3>1
      <4> QED
        BY <4>1 DEF K, ToSet
    <3>2. CASE ~(i <= m)
      <4>1. i - m \in DOMAIN rest /\ todo'[i] = rest[i - m]
        BY <2>2, <3>2
      <4> QED
        BY <1>2, <4>1, ElementOfSeq
    <3> QED
      BY <3>1, <3>2
  <2>4. \A i, j \in DOMAIN rest : rest[i] = rest[j] => i = j
    <3> SUFFICES ASSUME NEW i \in DOMAIN rest, NEW j \in DOMAIN rest, rest[i] = rest[j]
                 PROVE  i = j
      OBVIOUS
    <3>1. i + 1 = j + 1
      BY <1>2, <1>8
    <3> QED
      BY <2>2, <3>1
  <2>5. ASSUME NEW i \in DOMAIN todo', NEW j \in DOMAIN todo', todo'[i] = todo'[j]
        PROVE  i = j
    <3>1. i \in Nat /\ j \in Nat /\ m \in Nat
      BY <2>2
    <3>2. CASE todo'[i] \in K
      BY <1>4, <1>7, <2>3, <2>5, <3>2
    <3>3. CASE todo'[i] \notin K
      <4>1. i - m = j - m
        BY <2>3, <2>4, <2>5, <3>3
      <4> QED
        BY <3>1, <4>1
    <3> QED
      BY <3>2, <3>3
  <2> QED
    BY <2>2, <2>3, <2>5 DEF D
<1>11. Visited \cup {s} \subseteq Visited'
  <2> SUFFICES ASSUME NEW t \in Visited \cup {s}, NEW i \in DOMAIN todo', todo'[i] = t
               PROVE  FALSE
    <3>1. Visited \cup {s} \subseteq DOMAIN suffix'
      BY <1>2, <1>6 DEF Visited
    <3> QED
      BY <3>1 DEF Visited
  <2>1. t \in DOMAIN suffix
    BY <1>2 DEF Visited
  <2>2. PICK j \in DOMAIN rest : t = rest[j]
    BY <1>4, <1>10, <2>1
  <2>3. j + 1 \in DOMAIN todo /\ t = todo[j + 1] /\ j + 1 # 1
    BY <1>2, <2>2
  <2> QED
    BY <1>2, <1>8, <2>3 DEF Visited
<1>12. PathOfParent'
  <2>1. ASSUME NEW c \in DOMAIN suffix', ~(c = 1 /\ suffix'[c] = << >>)
        PROVE  \E p \in Visited' : child_of(c, p)'
    <3>1. CASE c \in DOMAIN suffix
      <4>1. PICK p \in Visited : child_of(c, p)
        BY <1>1, <1>6, <2>1, <3>1 DEF IInv, PathOfParent
      <4>2. suffix'[c] = suffix[c] /\ suffix'[p] = suffix[p]
        BY <1>6, <3>1, <4>1 DEF Visited
      <4>3. child_of(c, p)'
        BY <1>1, <4>1, <4>2 DEF child_of
      <4> QED
        BY <1>11, <4>1, <4>3
    <3>2. CASE c \in K
      <4>1. PICK p : p = s
        OBVIOUS
      <4>2. /\ suffix'[c] = Append(suffix'[p], num(c) - 1)
            /\ num(c) \in DOMAIN scopes'[p].children /\ scopes'[p].children[num(c)] = c
        BY <1>1, <1>2, <1>5, <1>6, <3>2, <4>1 DEF kids
      <4>3. child_of(c, p)'
        BY <4>2 DEF child_of
      <4> QED
        BY <1>11, <4>1, <4>3
    <3> QED
      BY <1>6, <2>1, <3>1, <3>2
  <2> QED
    BY <1>10, <2>1 DEF PathOfParent
<1>13. Shape' /\ Tree' /\ NamesDistinct'
  BY <1>1, SettledStep DEF Early, IInv, Shape
<1> QED
  BY <1>9, <1>11, <1>12, <1>13 DEF IInv, s

LEMMA LowerStep ==
  ASSUME IInv, Lower
  PROVE  IInv'
<1>1. CASE FinishCheck
  <2>1. /\ UNCHANGED <<program, scopes, decls, scope_stack, node_scope_map, at>>
        /\ pass' = "globals" /\ todo' = <<1>> /\ suffix' = [t \in {1} |-> << >>]
    BY <1>1 DEF FinishCheck, scopeVars
  <2>2. Shape' /\ Tree' /\ NamesDistinct'
    BY <2>1, SettledStep DEF Early, IInv, Shape
  <2>3. PathsDistinct'
    BY <2>1 DEF PathsDistinct, IInv, Shape
  <2>4. PathOfParent'
    BY <2>1 DEF PathOfParent
  <2> QED
    BY <2>2, <2>3, <2>4 DEF IInv
<1>2. CASE LoweringFails \/ FinishGlobals
  <2>1. /\ UNCHANGED <<program, scopes, decls, scope_stack, node_scope_map, suffix>>
        /\ pass' \in {"error", "gen"} /\ at' \in {at, 1}
    BY <1>2 DEF LoweringFails, FinishGlobals, scopeVars, lowerVars
  <2>2. Shape' /\ Tree' /\ NamesDistinct'
    <3>1. at' \in Nat \ {0} /\ pass' \notin Early
      BY <2>1 DEF Early, IInv, Shape
    <3> QED
      BY <2>1, <3>1, SettledStep
  <2>3. PathsDistinct' /\ PathOfParent'
    BY <2>1, PathsWait DEF IInv, Early
  <2> QED
    BY <2>2, <2>3 DEF IInv
<1>3. CASE visit_scope
  BY <1>3, VisitStep
<1> QED
  BY <1>1, <1>2, <1>3 DEF Lower
-----------------------------------------------------------------------------
LEMMA InitHolds ==
  ASSUME Init
  PROVE  IInv
<1>1. /\ program \in Seq(Node) /\ pass = "scopes" /\ at = 1 /\ decls = << >> /\ scope_stack = <<1>>
      /\ node_scope_map = << >> /\ scopes = <<new_scope(0, "Root", NoName)>>
      /\ suffix = [s \in {} |-> << >>]
  BY ProgramsAssumption DEF Init, ScopesInit
<1>2. /\ new_scope(0, "Root", NoName) \in Scope /\ new_scope(0, "Root", NoName).children = << >>
  BY DEF new_scope, Scope, ScopeKinds, AnyName
<1>3. Shape /\ Tree /\ NamesDistinct
  BY <1>1, <1>2 DEF Shape, Tree, NamesDistinct, Items
<1>4. PathsDistinct /\ PathOfParent
  BY <1>1 DEF PathsDistinct, PathOfParent
<1> QED
  BY <1>3, <1>4 DEF IInv

LEMMA StutterHolds ==
  ASSUME IInv, UNCHANGED vars
  PROVE  IInv'
<1>1. UNCHANGED <<program, pass, at, scopes, decls, scope_stack, node_scope_map, suffix, todo>>
  BY DEF vars, scopeVars, checkVars, lowerVars
<1>2. Shape' /\ Tree'
  BY <1>1 DEF IInv, Shape, Tree
<1>3. NamesDistinct'
  BY <1>1 DEF IInv, NamesDistinct, Items
<1>4. PathsDistinct'
  BY <1>1 DEF IInv, PathsDistinct
<1>5. PathOfParent'
  BY <1>1 DEF IInv, PathOfParent, Visited, child_of
<1> QED
  BY <1>2, <1>3, <1>4, <1>5 DEF IInv
-----------------------------------------------------------------------------
(* The tree of scopes *)

(* A set of numbers has a least one. *)
LEMMA Least ==
  ASSUME NEW T \in SUBSET Nat, T # {}
  PROVE  \E n \in T : \A m \in T : n <= m
<1>1. \E n \in T : \A m \in T : ~(<<m, n>> \in OpToRel(<, Nat))
  BY WFMin, NatLessThanWellFounded
<1>2. \A m, n \in Nat : m < n => <<m, n>> \in OpToRel(<, Nat)
  BY Zenon DEF OpToRel
<1>3. \A m, n \in T : ~(<<m, n>> \in OpToRel(<, Nat)) => n <= m
  <2> SUFFICES ASSUME NEW m \in T, NEW n \in T, ~(n <= m) PROVE <<m, n>> \in OpToRel(<, Nat)
    OBVIOUS
  <2>1. m \in Nat /\ n \in Nat /\ m < n
    OBVIOUS
  <2> QED
    BY <1>2, <2>1
<1> DEFINE R == OpToRel(<, Nat)
<1>4. PICK n \in T : \A m \in T : ~(<<m, n>> \in R)
  BY <1>1, Zenon
<1>5. \A m, x \in T : ~(<<m, x>> \in R) => x <= m
  BY <1>3, Zenon
<1> HIDE DEF R
<1> QED
  BY <1>4, <1>5

(* The scopes a walk from the root reaches are all scopes. *)
LEMMA ClosedIsAll ==
  ASSUME Shape, Tree, Rooted, NEW V \in SUBSET DOMAIN scopes, 1 \in V,
         \A s \in V : \A i \in DOMAIN scopes[s].children : scopes[s].children[i] \in V
  PROVE  V = DOMAIN scopes
<1> SUFFICES ASSUME V # DOMAIN scopes PROVE FALSE
  OBVIOUS
<1> DEFINE T == DOMAIN scopes \ V
<1>0. DOMAIN scopes = 1..Len(scopes)
  BY DEF Shape
<1>1. T \in SUBSET Nat /\ T # {}
  <2>1. \A m \in T : m \in Nat
    BY <1>0
  <2>2. \E m : m \in T
    BY Zenon
  <2> QED
    BY <2>1, <2>2, Zenon
<1>2. PICK n \in T : \A m \in T : n <= m
  BY <1>1, Least
<1>3. PICK p \in DOMAIN scopes : \E i \in DOMAIN scopes[p].children : scopes[p].children[i] = n
  BY <1>2 DEF Rooted
<1>4. n > p /\ p \in Nat /\ n \in Nat
  BY <1>1, <1>2, <1>3 DEF Tree, Shape
<1>5. p \in V
  BY <1>2, <1>3, <1>4
<1> QED
  BY <1>2, <1>3, <1>5

LEMMA ParentIsOlder ==
  ASSUME Shape, Tree, Rooted, NEW s \in DOMAIN scopes
  PROVE  scopes[s].parent \in 0..Len(scopes) /\ scopes[s].parent < s
<1>1. DOMAIN scopes = 1..Len(scopes) /\ Len(scopes) \in Nat
  BY DEF Shape
<1>2. CASE s = 1
  BY <1>1, <1>2 DEF Rooted
<1>3. CASE s # 1
  <2>1. PICK p \in DOMAIN scopes : \E i \in DOMAIN scopes[p].children : scopes[p].children[i] = s
    BY <1>3 DEF Rooted
  <2>2. scopes[s].parent = p /\ s > p
    BY <2>1 DEF Tree
  <2> QED
    BY <1>1, <2>1, <2>2
<1> QED
  BY <1>2, <1>3

(* The equation of nearest. *)
LEMMA NearestOutward ==
  ASSUME Shape, Tree, Rooted, NEW found
  PROVE  /\ nearest(0, found) = {}
         /\ \A s \in DOMAIN scopes :
              nearest(s, found) = IF found[s] # {} THEN found[s] ELSE nearest(scopes[s].parent, found)
<1> DEFINE N == Len(scopes)
           step(f, t) == IF t = 0 THEN {} ELSE IF found[t] # {} THEN found[t] ELSE f[scopes[t].parent]
           solves(f, n) == f = [t \in 0..n |-> step(f, t)]
<1>1. N \in Nat /\ DOMAIN scopes = 1..N
  BY DEF Shape
<1>2. \A t \in 1..N : scopes[t].parent \in 0..N /\ scopes[t].parent < t
  BY <1>1, ParentIsOlder
<1> HIDE DEF N
<1>3. ASSUME NEW n \in 0..N, n # 0, \E f : solves(f, n - 1)
      PROVE  \E f : solves(f, n)
  <2>1. PICK f : solves(f, n - 1)
    BY <1>3
  <2> DEFINE g == [t \in 0..n |-> IF t = n THEN step(f, n) ELSE f[t]]
  <2>2. n \in 1..N /\ n - 1 \in Nat /\ DOMAIN f = 0..(n - 1)
    BY <1>1, <1>3, <2>1
  <2>3. \A t \in 0..(n - 1) : g[t] = f[t]
    BY <2>2
  <2>4. \A t \in 0..n : step(g, t) = step(f, t)
    <3> SUFFICES ASSUME NEW t \in 0..n PROVE step(g, t) = step(f, t)
      OBVIOUS
    <3>1. CASE t = 0
      BY <3>1
    <3>2. CASE t # 0
      <4>1. t \in 1..N /\ scopes[t].parent \in 0..(n - 1)
        BY <1>1, <1>2, <2>2, <3>2
      <4> QED
        BY <2>3, <4>1
    <3> QED
      BY <3>1, <3>2
  <2>5. \A t \in 0..n : g[t] = step(f, t)
    <3> SUFFICES ASSUME NEW t \in 0..n PROVE g[t] = step(f, t)
      OBVIOUS
    <3>1. CASE t = n
      BY <3>1
    <3>2. CASE t # n
      <4>1. t \in 0..(n - 1)
        BY <1>1, <2>2, <3>2
      <4> QED
        BY <2>1, <2>3, <4>1
    <3> QED
      BY <3>1, <3>2
  <2>6. g = [t \in 0..n |-> step(g, t)]
    <3> HIDE DEF step
    <3> QED
      BY <2>4, <2>5
  <2> QED
    BY <2>6
<1>4. \A n \in 0..N : \E f : solves(f, n)
  <2> SUFFICES ASSUME NEW n \in 0..N, ~\E f : solves(f, n) PROVE FALSE
    OBVIOUS
  <2> HIDE DEF solves
  <2> DEFINE T == {k \in 0..N : ~\E f : solves(f, k)}
  <2>1. T \in SUBSET Nat /\ T # {}
    BY <1>1
  <2>2. PICK k \in T : \A m \in T : k <= m
    BY <2>1, Least
  <2>3. k # 0
    <3>1. solves([t \in 0..0 |-> {}], 0)
      BY DEF solves
    <3> QED
      BY <2>2, <3>1
  <2>4. k - 1 \in 0..N /\ k - 1 \notin T /\ k \in 0..N
    BY <1>1, <2>1, <2>2, <2>3
  <2> QED
    BY <1>3, <2>2, <2>3, <2>4
<1> DEFINE outward == CHOOSE f : f = [t \in 0..N |-> step(f, t)]
<1>5. outward = [t \in 0..N |-> step(outward, t)]
  <2>1. N \in 0..N
    BY <1>1
  <2>2. \E f : solves(f, N)
    BY <1>4, <2>1, Zenon
  <2> QED
    BY <2>2, Zenon
<1>6. \A s : nearest(s, found) = outward[s]
  BY DEF nearest, N
<1> HIDE DEF outward
<1>7. outward[0] = {} /\ \A t \in 1..N : outward[t] = IF found[t] # {} THEN found[t] ELSE outward[scopes[t].parent]
  <2>1. \A t \in 0..N : outward[t] = step(outward, t)
    <3> HIDE DEF step
    <3> QED
      BY <1>5, Zenon
  <2>2. 0 \in 0..N /\ \A t \in 1..N : t \in 0..N /\ t # 0
    BY <1>1
  <2> QED
    BY <2>1, <2>2
<1> QED
  BY <1>1, <1>6, <1>7

(* What is found is what one scope has. *)
LEMMA NearestFinds ==
  ASSUME Shape, Tree, Rooted, NEW found, NEW s \in DOMAIN scopes, nearest(s, found) # {}
  PROVE  \E t \in DOMAIN scopes : nearest(s, found) = found[t]
<1> DEFINE T == {k \in DOMAIN scopes : nearest(k, found) # {} /\ ~\E t \in DOMAIN scopes : nearest(k, found) = found[t]}
<1> SUFFICES ASSUME T # {} PROVE FALSE
  OBVIOUS
<1>1. T \in SUBSET Nat /\ DOMAIN scopes = 1..Len(scopes) /\ Len(scopes) \in Nat
  BY DEF Shape
<1>2. PICK k \in T : \A m \in T : k <= m
  BY <1>1, Least
<1>3. nearest(0, found) = {} /\ nearest(k, found) = IF found[k] # {} THEN found[k] ELSE nearest(scopes[k].parent, found)
  BY <1>2, NearestOutward
<1>4. scopes[k].parent \in 0..Len(scopes) /\ scopes[k].parent < k
  BY <1>2, ParentIsOlder
<1>5. scopes[k].parent \notin T
  BY <1>1, <1>2, <1>4
<1> QED
  BY <1>1, <1>2, <1>3, <1>4, <1>5
-----------------------------------------------------------------------------
(* The declarations of functions *)

Fns == {d \in DOMAIN decls : decls[d].kind = "fn"}

MapTyped == \A n \in DOMAIN node_scope_map : node_scope_map[n] \in DOMAIN scopes

(* Each function item walked has one declaration. *)
FnPerNode ==
  /\ \A d \in Fns : /\ decls[d].node \in DOMAIN program /\ program[decls[d].node].op = "fn"
                    /\ decls[d].scope \in DOMAIN scopes
                    /\ pass = "scopes" => decls[d].node < at
  /\ \A d, e \in Fns : decls[d].node = decls[e].node => d = e
  /\ pass # "CE" =>
       \A n \in DOMAIN program :
         program[n].op = "fn" /\ (pass = "scopes" => n < at) => \E d \in Fns : decls[d].node = n

SInv == Rooted /\ MapTyped /\ FnPerNode

(* The declarations stay, and those added are locals and builtins. *)
OthersDeclared ==
  /\ decls' \in Seq(Declaration)
  /\ DOMAIN decls \subseteq DOMAIN decls'
  /\ \A d \in DOMAIN decls : decls'[d] = decls[d]
  /\ \A d \in DOMAIN decls' \ DOMAIN decls : decls'[d].kind \in {"let", "builtin"}

LEMMA AppendDeclares ==
  ASSUME decls \in Seq(Declaration), NEW e, decls' = Append(decls, e)
  PROVE  /\ DOMAIN decls' = DOMAIN decls \cup {Len(decls) + 1} /\ Len(decls) + 1 \notin DOMAIN decls
         /\ \A d \in DOMAIN decls : decls'[d] = decls[d]
         /\ decls'[Len(decls) + 1] = e
OBVIOUS

LEMMA CheckDeclares ==
  ASSUME IInv, IInv', Check
  PROVE  OthersDeclared
<1>1. decls \in Seq(Declaration) /\ decls' \in Seq(Declaration)
  BY DEF IInv, Shape
<1>2. CASE UNCHANGED decls
  BY <1>1, <1>2 DEF OthersDeclared
<1>3. CASE decls' = decls \o builtin_decls(RootBuiltins, 1) \o builtin_decls(TypeBuiltins, 0)
  <2> DEFINE more == builtin_decls(RootBuiltins, 1) \o builtin_decls(TypeBuiltins, 0)
  <2>1. /\ builtin_decls(RootBuiltins, 1) \in Seq(Declaration)
        /\ builtin_decls(TypeBuiltins, 0) \in Seq(Declaration)
    BY BuiltinsTyped
  <2>2. more \in Seq(Declaration) /\ decls' = decls \o more
    BY <1>1, <1>3, <2>1, ConcatProperties, ConcatAssociative
  <2>3. \A i \in DOMAIN more : more[i].kind = "builtin"
    <3>1. /\ \A i \in DOMAIN builtin_decls(RootBuiltins, 1) : builtin_decls(RootBuiltins, 1)[i].kind = "builtin"
          /\ \A i \in DOMAIN builtin_decls(TypeBuiltins, 0) : builtin_decls(TypeBuiltins, 0)[i].kind = "builtin"
      BY DEF builtin_decls, declaration
    <3> QED
      BY <2>1, <3>1, ConcatProperties
  <2> HIDE DEF more
  <2> DEFINE n == Len(decls)
  <2>4. /\ DOMAIN decls' = 1..(n + Len(more)) /\ n \in Nat /\ Len(more) \in Nat
        /\ DOMAIN decls = 1..n /\ DOMAIN more = 1..Len(more)
        /\ \A d \in 1..(n + Len(more)) : decls'[d] = IF d <= n THEN decls[d] ELSE more[d - n]
    BY <1>1, <2>2, ConcatProperties
  <2> HIDE DEF n
  <2>5. \A d \in DOMAIN decls' \ DOMAIN decls : d - n \in DOMAIN more /\ decls'[d] = more[d - n]
    BY <2>4
  <2> QED
    BY <1>1, <2>3, <2>4, <2>5 DEF OthersDeclared
<1>4. ASSUME NEW name, NEW s, introduce(name, s)
      PROVE  OthersDeclared
  <2>1. decls' = Append(decls, declaration("let", name, s, at, 0))
    BY <1>4 DEF introduce
  <2>2. declaration("let", name, s, at, 0).kind = "let"
    BY DEF declaration
  <2> QED
    BY <1>1, <2>1, <2>2, AppendDeclares DEF OthersDeclared
<1> QED
  BY <1>2, <1>3, <1>4 DEF Check, FinishScopes, RefuseScope, Scope_dfs_and_build_type, AddBuiltins,
     ResolveBodies, NameUnknown, ReceiverUnknown, ResolveName, CheckFnItem, CheckLetStmt, CheckNode,
     scopeVars

(* What the later passes do not touch. *)
LEMMA Settled ==
  ASSUME IInv, IInv',
         (Check /\ UNCHANGED lowerVars) \/ Lower \/ Generate
  PROVE  /\ UNCHANGED <<program, scopes, node_scope_map>> /\ OthersDeclared
         /\ pass' # "scopes" /\ pass # "CE"
         /\ pass = "scopes" => at > Len(program)
<1>1. CASE Check
  <2>1. UNCHANGED <<program, scopes, node_scope_map>>
    BY <1>1 DEF Check, FinishScopes, RefuseScope, Scope_dfs_and_build_type, AddBuiltins,
       ResolveBodies, NameUnknown, ReceiverUnknown, ResolveName, CheckFnItem, CheckLetStmt, CheckNode,
       scopeVars, unresolved_node
  <2>2. /\ pass' # "scopes" /\ pass # "CE"
        /\ pass = "scopes" => at > Len(program)
    BY <1>1 DEF Check, FinishScopes, RefuseScope, Scope_dfs_and_build_type, AddBuiltins,
       ResolveBodies, NameUnknown, ReceiverUnknown, ResolveName, CheckFnItem, CheckLetStmt, CheckNode,
       refuse, unresolved_node, walking
  <2> QED
    BY <1>1, <2>1, <2>2, CheckDeclares
<1>2. CASE Lower \/ Generate
  <2>1. UNCHANGED <<program, scopes, node_scope_map, decls>>
    BY <1>2 DEF Lower, FinishCheck, LoweringFails, visit_scope, FinishGlobals,
       Generate, GenFnItem, SkipFnItem, GenFails, GenEnter, GenLeave, GenReturn,
       GenLetStmt, GenIdentifierExpr, GenCallExpr, GenNothing, FinishGen, gen_on, scopeVars
  <2>2. pass \in {"check", "globals", "gen"} /\ pass' # "scopes"
    BY <1>2 DEF Lower, FinishCheck, LoweringFails, visit_scope, FinishGlobals,
       Generate, GenFnItem, SkipFnItem, GenFails, GenEnter, GenLeave, GenReturn,
       GenLetStmt, GenIdentifierExpr, GenCallExpr, GenNothing, FinishGen, gen_on, generating, walking
  <2>3. OthersDeclared
    BY <2>1 DEF OthersDeclared, IInv, Shape
  <2> QED
    BY <2>1, <2>2, <2>3
<1> QED
  BY <1>1, <1>2

LEMMA FnsStay ==
  ASSUME OthersDeclared
  PROVE  Fns' = Fns /\ \A d \in Fns : decls'[d] = decls[d]
<1>1. \A d \in DOMAIN decls' : decls'[d].kind = "fn" => d \in DOMAIN decls
  BY DEF OthersDeclared
<1> QED
  BY <1>1 DEF OthersDeclared, Fns

LEMMA SettledScopes ==
  ASSUME IInv, IInv', SInv, (Check /\ UNCHANGED lowerVars) \/ Lower \/ Generate
  PROVE  SInv'
<1>1. /\ UNCHANGED <<program, scopes, node_scope_map>> /\ OthersDeclared
      /\ pass' # "scopes" /\ pass # "CE"
      /\ pass = "scopes" => at > Len(program)
  BY Settled
<1>2. Fns' = Fns /\ \A d \in Fns : decls'[d] = decls[d]
  BY <1>1, FnsStay
<1>3. Rooted' /\ MapTyped'
  BY <1>1 DEF SInv, Rooted, MapTyped
<1>4. \A n \in DOMAIN program : pass = "scopes" => n < at
  BY <1>1 DEF IInv, Shape
<1>5. FnPerNode'
  <2>1. \A n \in DOMAIN program : program[n].op = "fn" => \E d \in Fns : decls[d].node = n
    BY <1>1, <1>4 DEF SInv, FnPerNode
  <2> QED
    BY <1>1, <1>2, <2>1 DEF SInv, FnPerNode
<1> QED
  BY <1>3, <1>5 DEF SInv

LEMMA MapGrows ==
  ASSUME Shape, MapTyped, DOMAIN scopes \subseteq DOMAIN scopes', NEW x \in DOMAIN scopes',
         node_scope_map' = Append(node_scope_map, x)
  PROVE  MapTyped'
<1>1. node_scope_map \in Seq(Nat)
  BY DEF Shape
<1> QED
  BY <1>1 DEF MapTyped

(* A node that declares no function is walked. *)
LEMMA OthersWalked ==
  ASSUME IInv, FnPerNode, pass = "scopes", UNCHANGED <<program, pass>>, at' = at + 1,
         at \in DOMAIN program, node.op # "fn", DOMAIN scopes \subseteq DOMAIN scopes',
         \/ UNCHANGED decls
         \/ \E e : decls' = Append(decls, e) /\ e.kind # "fn"
  PROVE  FnPerNode'
<1>1. at \in Nat /\ decls \in Seq(Declaration) /\ DOMAIN program \subseteq Nat
  BY DEF IInv, Shape
<1>2. Fns' = Fns /\ \A d \in Fns : decls'[d] = decls[d]
  <2>1. CASE UNCHANGED decls
    BY <2>1 DEF Fns
  <2>2. ASSUME NEW e, decls' = Append(decls, e), e.kind # "fn"
        PROVE  Fns' = Fns /\ \A d \in Fns : decls'[d] = decls[d]
    <3>1. /\ DOMAIN decls' = DOMAIN decls \cup {Len(decls) + 1} /\ Len(decls) + 1 \notin DOMAIN decls
          /\ \A d \in DOMAIN decls : decls'[d] = decls[d]
          /\ decls'[Len(decls) + 1] = e
      BY <1>1, <2>2, AppendDeclares
    <3> QED
      BY <2>2, <3>1 DEF Fns
  <2> QED
    BY <2>1, <2>2
<1>3. \A n \in DOMAIN program : program[n].op = "fn" => (n < at + 1 <=> n < at)
  <2> SUFFICES ASSUME NEW n \in DOMAIN program, program[n].op = "fn" PROVE n < at + 1 <=> n < at
    OBVIOUS
  <2>1. n # at
    BY DEF node
  <2> QED
    BY <1>1, <2>1
<1>4. \A d \in Fns' : /\ decls'[d].node \in DOMAIN program' /\ program'[decls'[d].node].op = "fn"
                      /\ decls'[d].scope \in DOMAIN scopes'
                      /\ pass' = "scopes" => decls'[d].node < at'
  BY <1>2, <1>3 DEF FnPerNode
<1>5. \A d, e \in Fns' : decls'[d].node = decls'[e].node => d = e
  BY <1>2 DEF FnPerNode
<1>6. \A n \in DOMAIN program' :
        program'[n].op = "fn" /\ (pass' = "scopes" => n < at') => \E d \in Fns' : decls'[d].node = n
  BY <1>2, <1>3 DEF FnPerNode
<1> QED
  BY <1>4, <1>5, <1>6 DEF FnPerNode

LEMMA BuildScopesStep ==
  ASSUME IInv, IInv', SInv, BuildScopes
  PROVE  SInv'
<1>1. current_scope \in DOMAIN scopes /\ current_scope \in Nat
  BY CurrentScope DEF IInv
<1>2. /\ scopes \in Seq(Scope) /\ scope_stack \in Seq(DOMAIN scopes) /\ scope_stack # << >> /\ Tree
      /\ Shape /\ Rooted /\ MapTyped /\ FnPerNode /\ decls \in Seq(Declaration) /\ at \in Nat
  BY DEF IInv, Shape, SInv
<1>3. CASE Redefinition
  <2>1. UNCHANGED <<scopeVars, program, at>> /\ pass' = "CE" /\ pass = "scopes"
    BY <1>3 DEF Redefinition, refuse, walking
  <2> QED
    BY <2>1 DEF SInv, Rooted, MapTyped, FnPerNode, Fns, scopeVars
<1>4. CASE VisitFnItem
  <2> DEFINE e == declaration("fn", node.name, current_scope, at, Len(scopes) + 1)
             n == Len(decls)
  <2>1. /\ pass = "scopes" /\ at \in DOMAIN program /\ node.op = "fn"
        /\ decls' = Append(decls, e) /\ push_scope("Function", NoName) /\ walk_on
        /\ UNCHANGED <<program, pass>> /\ at' = at + 1
        /\ node_scope_map' = Append(node_scope_map, current_scope)
    BY <1>4 DEF VisitFnItem, walking, walk_on
  <2>2. DOMAIN scopes \subseteq DOMAIN scopes' /\ Rooted'
    <3>1. "Function" \in ScopeKinds /\ NoName \in AnyName
      BY DEF AnyName, ScopeKinds
    <3> QED
      BY <1>2, <2>1, <3>1, PushKeepsTree, Zenon
  <2>3. MapTyped'
    BY <1>1, <1>2, <2>1, <2>2, MapGrows
  <2>4. /\ DOMAIN decls' = DOMAIN decls \cup {n + 1} /\ n + 1 \notin DOMAIN decls
        /\ \A d \in DOMAIN decls : decls'[d] = decls[d]
        /\ decls'[n + 1] = e
    BY <1>2, <2>1, AppendDeclares
  <2>5. e.kind = "fn" /\ e.scope = current_scope /\ e.node = at
    BY DEF declaration
  <2> HIDE DEF e, n
  <2>6. Fns' = Fns \cup {n + 1} /\ n + 1 \notin Fns /\ \A d \in Fns : decls'[d] = decls[d]
    BY <2>4, <2>5 DEF Fns
  <2>7. \A d \in Fns : /\ decls[d].node \in DOMAIN program /\ program[decls[d].node].op = "fn"
                       /\ decls[d].scope \in DOMAIN scopes /\ decls[d].node < at
    BY <1>2, <2>1 DEF FnPerNode
  <2>8. DOMAIN program \subseteq Nat /\ program[at].op = "fn"
    BY <1>2, <2>1 DEF Shape, node
  <2>9. ASSUME NEW d \in Fns'
        PROVE  /\ decls'[d].node \in DOMAIN program' /\ program'[decls'[d].node].op = "fn"
               /\ decls'[d].scope \in DOMAIN scopes'
               /\ pass' = "scopes" => decls'[d].node < at'
    <3>1. CASE d \in Fns
      <4>1. decls'[d] = decls[d] /\ decls[d].node \in Nat
        BY <2>6, <2>7, <2>8, <3>1
      <4> QED
        BY <1>2, <2>1, <2>2, <2>7, <3>1, <4>1
    <3>2. CASE d = n + 1
      BY <1>1, <1>2, <2>1, <2>2, <2>4, <2>5, <2>8, <3>2
    <3> QED
      BY <2>6, <3>1, <3>2
  <2>10. \A d, f \in Fns' : decls'[d].node = decls'[f].node => d = f
    <3>1. \A d \in Fns : decls'[d].node # at
      BY <1>2, <2>6, <2>7, <2>8
    <3>2. \A d, f \in Fns : decls'[d].node = decls'[f].node => d = f
      BY <1>2, <2>6 DEF FnPerNode
    <3> QED
      BY <2>4, <2>5, <2>6, <3>1, <3>2
  <2>11. \A m \in DOMAIN program' :
           program'[m].op = "fn" /\ (pass' = "scopes" => m < at') => \E d \in Fns' : decls'[d].node = m
    <3> SUFFICES ASSUME NEW m \in DOMAIN program, program[m].op = "fn", m < at + 1
                 PROVE  \E d \in Fns' : decls'[d].node = m
      BY <2>1
    <3>1. CASE m = at
      BY <2>4, <2>5, <2>6, <3>1
    <3>2. CASE m # at
      <4>1. m < at
        BY <1>2, <2>8, <3>2
      <4> QED
        BY <1>2, <2>1, <2>6, <4>1 DEF FnPerNode
    <3> QED
      BY <3>1, <3>2
  <2>12. FnPerNode'
    BY <2>9, <2>10, <2>11 DEF FnPerNode
  <2> QED
    BY <2>2, <2>3, <2>12 DEF SInv
<1>5. CASE VisitBlockExpr
  <2>1. /\ pass = "scopes" /\ at \in DOMAIN program /\ node.op = "block"
        /\ UNCHANGED <<program, pass, decls>> /\ at' = at + 1
        /\ node_scope_map' = Append(node_scope_map, Last(scope_stack'))
        /\ UNCHANGED scopes \/ push_scope("Block", NoName)
    BY <1>5 DEF VisitBlockExpr, walking
  <2>2. DOMAIN scopes \subseteq DOMAIN scopes' /\ Rooted'
    <3>1. CASE UNCHANGED scopes
      BY <1>2, <3>1 DEF Rooted
    <3>2. CASE push_scope("Block", NoName)
      <4>1. "Block" \in ScopeKinds /\ NoName \in AnyName
        BY DEF AnyName, ScopeKinds
      <4> QED
        BY <1>2, <3>2, <4>1, PushKeepsTree, Zenon
    <3> QED
      BY <2>1, <3>1, <3>2
  <2>3. Last(scope_stack') \in DOMAIN scopes'
    <3>1. scope_stack' \in Seq(DOMAIN scopes') /\ scope_stack' # << >>
      BY DEF IInv, Shape
    <3> QED
      BY <3>1 DEF Last
  <2>4. MapTyped'
    BY <1>2, <2>1, <2>2, <2>3, MapGrows
  <2>5. FnPerNode'
    BY <1>2, <2>1, <2>2, OthersWalked
  <2> QED
    BY <2>2, <2>4, <2>5 DEF SInv
<1>6. CASE VisitImplItem
  <2>1. /\ pass = "scopes" /\ at \in DOMAIN program /\ node.op = "impl"
        /\ UNCHANGED <<program, pass, decls>> /\ at' = at + 1
        /\ node_scope_map' = Append(node_scope_map, current_scope)
        /\ push_scope("Impl", node.name)
    BY <1>6 DEF VisitImplItem, walking, walk_on
  <2>2. DOMAIN scopes \subseteq DOMAIN scopes' /\ Rooted'
    <3>1. "Impl" \in ScopeKinds /\ node.name \in AnyName
      BY <1>2, <2>1, NodeOfWalk DEF ScopeKinds, Shape
    <3> QED
      BY <1>2, <2>1, <3>1, PushKeepsTree, Zenon
  <2>3. MapTyped'
    BY <1>1, <1>2, <2>1, <2>2, MapGrows
  <2>4. FnPerNode'
    BY <1>2, <2>1, <2>2, OthersWalked
  <2> QED
    BY <2>2, <2>3, <2>4 DEF SInv
<1>7. CASE VisitDeclaration \/ VisitLeaf \/ LeaveNode
  <2>1. /\ pass = "scopes" /\ at \in DOMAIN program /\ node.op # "fn"
        /\ UNCHANGED <<program, pass, scopes>> /\ at' = at + 1
        /\ node_scope_map' = Append(node_scope_map, current_scope)
    BY <1>7 DEF VisitDeclaration, VisitLeaf, LeaveNode, walking, walk_on, Leaves
  <2>2. UNCHANGED decls \/ \E e : decls' = Append(decls, e) /\ e.kind # "fn"
    <3>1. CASE VisitLeaf \/ LeaveNode
      BY <3>1 DEF VisitLeaf, LeaveNode
    <3>2. CASE VisitDeclaration
      <4>1. /\ node.op = "type" => node.kind # "fn"
            /\ \A k, x : declaration(k, x, current_scope, at, 0).kind = k
        BY <1>2, <2>1, NodeOfWalk DEF Shape, declaration, Types
      <4> HIDE DEF declaration
      <4> QED
        BY <3>2, <4>1 DEF VisitDeclaration
    <3> QED
      BY <1>7, <3>1, <3>2
  <2>3. MapTyped' /\ Rooted'
    BY <1>1, <1>2, <2>1, MapGrows DEF Rooted
  <2>4. FnPerNode'
    BY <1>2, <2>1, <2>2, OthersWalked
  <2> QED
    BY <2>3, <2>4 DEF SInv
<1> QED
  BY <1>3, <1>4, <1>5, <1>6, <1>7 DEF BuildScopes

LEMMA ScopesInvariant == Spec => [](IInv /\ SInv)
<1>1. Init => IInv /\ SInv
  <2> SUFFICES ASSUME Init PROVE SInv
    BY InitHolds
  <2>1. /\ scopes = <<new_scope(0, "Root", NoName)>> /\ node_scope_map = << >> /\ decls = << >>
        /\ pass = "scopes" /\ at = 1 /\ program \in Seq(Node)
    BY ProgramsAssumption DEF Init, ScopesInit
  <2>2. Rooted
    BY <2>1 DEF Rooted, new_scope
  <2> QED
    BY <2>1, <2>2 DEF SInv, MapTyped, FnPerNode, Fns
<1>2. IInv /\ SInv /\ [Next]_vars => IInv' /\ SInv'
  <2> SUFFICES ASSUME IInv, SInv, [Next]_vars PROVE IInv' /\ SInv'
    OBVIOUS
  <2>1. IInv'
    BY BuildStep, CheckStep, LowerStep, GenerateStep, StutterHolds DEF Next
  <2>2. CASE UNCHANGED vars
    BY <2>1, <2>2 DEF SInv, Rooted, MapTyped, FnPerNode, Fns, vars, scopeVars
  <2> QED
    BY <2>1, <2>2, BuildScopesStep, SettledScopes DEF Next
<1> QED
  BY <1>1, <1>2, PTL DEF Spec
-----------------------------------------------------------------------------
(* What names are resolved to *)

NamesResolved ==
  /\ \A m \in methods \cup associated_func : m[2] \in DOMAIN decls
  /\ resolved \in Seq(SUBSET DOMAIN decls)
  /\ pass \in {"scopes", "types", "constants"} => resolved = << >>
  /\ pass = "check" => Len(resolved) = at - 1
  /\ pass \in {"globals", "gen", "done"} => Len(resolved) >= Len(program)

LEMMA ValuesAreDeclared ==
  ASSUME IInv, SInv, NEW name, NEW s \in DOMAIN scopes
  PROVE  values_named(name, s) \subseteq DOMAIN decls
<1> DEFINE locals(t) == named(namespace(t, {"let"}), name)
           items(t) == named(namespace(t, Values), name)
           found == [t \in DOMAIN scopes |-> IF locals(t) # {} THEN latest(locals(t)) ELSE items(t)]
<1>1. values_named(name, s) = nearest(s, found)
  BY DEF values_named
<1>2. \A t \in DOMAIN scopes : found[t] \subseteq DOMAIN decls
  BY DEF named, namespace, latest
<1> HIDE DEF found
<1>3. nearest(s, found) = {} \/ \E t \in DOMAIN scopes : nearest(s, found) = found[t]
  BY NearestFinds DEF IInv, SInv
<1> QED
  BY <1>1, <1>2, <1>3

LEMMA CandidatesAreDeclared ==
  ASSUME IInv, SInv, NamesResolved, walking("check")
  PROVE  candidates \subseteq DOMAIN decls /\ here \in DOMAIN scopes
<1>1. here \in DOMAIN scopes
  <2>1. at \in DOMAIN node_scope_map
    BY DEF walking, IInv, Shape
  <2> QED
    BY <2>1 DEF SInv, MapTyped, here
<1>2. values_named(node.name, here) \subseteq DOMAIN decls
  BY <1>1, ValuesAreDeclared
<1>3. in_table(methods) \subseteq DOMAIN decls /\ in_table(associated_func) \subseteq DOMAIN decls
  BY DEF in_table, NamesResolved
<1>4. named(namespace(0, {"builtin"}), node.name) \subseteq DOMAIN decls
  BY DEF named, namespace
<1>5. {d \in values_named(node.name, here) : decls[d].kind \in {"const", "let"}} \subseteq DOMAIN decls
      /\ {d \in values_named(node.name, here) : decls[d].kind \in {"fn", "builtin"}} \subseteq DOMAIN decls
  BY <1>2
<1> QED
  BY <1>1, <1>3, <1>4, <1>5 DEF candidates

LEMMA ResolveStep ==
  ASSUME IInv, IInv', SInv, NamesResolved, Check
  PROVE  NamesResolved'
<1>1. /\ DOMAIN decls \subseteq DOMAIN decls' /\ UNCHANGED program
      /\ decls \in Seq(Declaration) /\ at \in Nat \ {0} /\ program \in Seq(Node)
  BY CheckDeclares DEF OthersDeclared, IInv, Shape, Check, FinishScopes, RefuseScope,
     Scope_dfs_and_build_type, AddBuiltins, ResolveBodies, NameUnknown, ReceiverUnknown, ResolveName,
     CheckFnItem, CheckLetStmt, CheckNode, unresolved_node
<1>2. \A m \in methods' \cup associated_func' : m[2] \in DOMAIN decls'
  <2>1. CASE UNCHANGED <<methods, associated_func>>
    BY <1>1, <2>1 DEF NamesResolved
  <2>2. CASE Scope_dfs_and_build_type
    <3> DEFINE fns == IF scopes[Head(todo)].kind = "Impl" THEN namespace(Head(todo), {"fn"}) ELSE {}
               targets == IF scopes[Head(todo)].kind = "Impl" THEN impl_target(Head(todo)) ELSE {}
    <3>1. /\ methods' = methods \cup (targets \X fns)
          /\ associated_func' = associated_func \cup (targets \X {f \in fns : receiver(f) = "none"})
      BY <2>2 DEF Scope_dfs_and_build_type
    <3>2. fns \subseteq DOMAIN decls
      BY DEF namespace
    <3> HIDE DEF fns, targets
    <3> QED
      BY <1>1, <3>1, <3>2 DEF NamesResolved
  <2> QED
    BY <2>1, <2>2 DEF Check, FinishScopes, RefuseScope, AddBuiltins, ResolveBodies, NameUnknown,
       ReceiverUnknown, ResolveName, CheckFnItem, CheckLetStmt, CheckNode, checkVars, unresolved_node
<1>3. \A S \in SUBSET DOMAIN decls : S \in SUBSET DOMAIN decls'
  BY <1>1
<1>4. resolved \in Seq(SUBSET DOMAIN decls')
  BY <1>3 DEF NamesResolved
<1>5. ASSUME walking("check"), UNCHANGED pass, at' = at + 1, NEW S \in SUBSET DOMAIN decls,
             resolved' = Append(resolved, S)
      PROVE  NamesResolved'
  <2>1. resolved' \in Seq(SUBSET DOMAIN decls') /\ Len(resolved') = Len(resolved) + 1
    BY <1>3, <1>4, <1>5
  <2>2. pass' = "check" /\ Len(resolved) = at - 1
    BY <1>5 DEF walking, NamesResolved
  <2> QED
    BY <1>1, <1>2, <1>5, <2>1, <2>2 DEF NamesResolved
<1>6. CASE ResolveName
  BY <1>5, <1>6, CandidatesAreDeclared DEF ResolveName
<1>7. CASE CheckFnItem \/ CheckLetStmt \/ CheckNode
  <2>1. walking("check") /\ UNCHANGED pass /\ at' = at + 1 /\ resolved' = Append(resolved, {})
    BY <1>7 DEF CheckFnItem, CheckLetStmt, CheckNode, unresolved_node
  <2> QED
    BY <1>5, <2>1
<1>8. ASSUME UNCHANGED resolved,
             \/ pass' \in {"CE", "error"}
             \/ pass \in {"scopes", "types", "constants"} /\ pass' \in {"types", "constants"}
             \/ pass = "constants" /\ pass' = "check" /\ at' = 1
      PROVE  NamesResolved'
  BY <1>1, <1>2, <1>4, <1>8 DEF NamesResolved
<1> QED
  BY <1>6, <1>7, <1>8 DEF Check, FinishScopes, RefuseScope, Scope_dfs_and_build_type, AddBuiltins,
     ResolveBodies, NameUnknown, ReceiverUnknown, refuse, checkVars

LEMMA NamesInvariant == Spec => []NamesResolved
<1>1. Init => NamesResolved
  BY DEF Init, ScopesInit, CheckerInit, NamesResolved
<1>2. IInv /\ IInv' /\ SInv /\ NamesResolved /\ [Next]_vars => NamesResolved'
  <2> SUFFICES ASSUME IInv, IInv', SInv, NamesResolved, [Next]_vars PROVE NamesResolved'
    OBVIOUS
  <2>1. CASE BuildScopes /\ UNCHANGED <<checkVars, lowerVars>>
    <3>1. pass = "scopes" /\ pass' \in {"scopes", "CE"} /\ UNCHANGED program
      BY <2>1 DEF BuildScopes, Redefinition, VisitFnItem, VisitBlockExpr, VisitImplItem,
         VisitDeclaration, VisitLeaf, LeaveNode, walking, walk_on, refuse
    <3>2. UNCHANGED <<methods, associated_func, resolved>> /\ resolved = << >>
      BY <2>1, <3>1 DEF checkVars, NamesResolved
    <3>3. DOMAIN decls \subseteq DOMAIN decls'
      <4>1. UNCHANGED decls \/ \E e : decls' = Append(decls, e)
        BY <2>1 DEF BuildScopes, Redefinition, VisitFnItem, VisitBlockExpr, VisitImplItem,
           VisitDeclaration, VisitLeaf, LeaveNode, scopeVars
      <4> QED
        BY <4>1, AppendDeclares DEF IInv, Shape
    <3> QED
      BY <3>1, <3>2, <3>3 DEF NamesResolved
  <2>2. CASE Check
    BY <2>2, ResolveStep
  <2>3. CASE Lower \/ Generate \/ UNCHANGED vars
    <3>1. UNCHANGED <<methods, associated_func, resolved, decls, program>>
      BY <2>3 DEF Lower, FinishCheck, LoweringFails, visit_scope, FinishGlobals,
         Generate, GenFnItem, SkipFnItem, GenFails, GenEnter, GenLeave, GenReturn,
         GenLetStmt, GenIdentifierExpr, GenCallExpr, GenNothing, FinishGen, gen_on,
         scopeVars, checkVars, vars
    <3>2. \/ UNCHANGED <<pass, at>>
          \/ pass' \in {"CE", "error"}
          \/ pass = "check" /\ at > Len(program) /\ pass' = "globals"
          \/ pass \in {"globals", "gen"} /\ pass' \in {"globals", "gen", "done"}
      BY <2>3 DEF Lower, FinishCheck, LoweringFails, visit_scope, FinishGlobals,
         Generate, GenFnItem, SkipFnItem, GenFails, GenEnter, GenLeave, GenReturn,
         GenLetStmt, GenIdentifierExpr, GenCallExpr, GenNothing, FinishGen, gen_on,
         generating, walking, vars
    <3>3. at \in Nat /\ Len(program) \in Nat
      BY DEF IInv, Shape
    <3>4. CASE pass = "check" /\ at > Len(program) /\ pass' = "globals"
      <4>1. Len(resolved) >= Len(program)
        BY <3>3, <3>4 DEF NamesResolved
      <4> QED
        BY <3>1, <3>4, <4>1 DEF NamesResolved
    <3> QED
      BY <3>1, <3>2, <3>4 DEF NamesResolved
  <2> QED
    BY <2>1, <2>2, <2>3 DEF Next
<1> QED
  BY <1>1, <1>2, ScopesInvariant, PTL DEF Spec
-----------------------------------------------------------------------------
(* The functions of the module *)

(* A function of the module has one entry, made when the walk of the       *)
(* scopes visits its scope, which it does for every scope.                 *)
FunctionsDeclared ==
  /\ \A g, h \in functions : g.symbol = h.symbol => g = h
  /\ pass \in Early => functions = {}
  /\ pass \in Early \cup {"globals"} => skipped = {} /\ calls = {}
  /\ pass = "globals" =>
       /\ 1 \in DOMAIN suffix
       /\ \A s \in Visited : \A i \in DOMAIN scopes[s].children : scopes[s].children[i] \in DOMAIN suffix
       /\ \A g \in functions : g.body = 0
       /\ \A d \in Fns : decls[d].scope \in Visited => \E g \in functions : g.symbol = symbol(d)
  /\ pass \in {"gen", "done"} =>
       DOMAIN suffix = DOMAIN scopes /\ \A d \in Fns : \E g \in functions : g.symbol = symbol(d)

(* The entry of a function has no body before the walk of the program      *)
(* comes to its item; afterwards it has that body, unless the item is in   *)
(* dead code.                                                              *)
BodiesFollowWalk ==
  pass \in {"gen", "done"} =>
    /\ pass = "done" => at > Len(program)
    /\ \A d \in skipped : d \in Fns /\ decls[d].node < at
    /\ \A g \in functions, d \in Fns :
         g.symbol = symbol(d) => g.body = IF decls[d].node < at /\ d \notin skipped THEN d ELSE 0
    /\ \A c \in calls : c.callee \in DOMAIN decls /\ c.symbol = symbol(c.callee)

LInv == FunctionsDeclared /\ BodiesFollowWalk

LEMMA SymbolsApart == IInv => SymbolsUnique
<1> SUFFICES ASSUME IInv, NEW d \in Lowered, NEW e \in Lowered, symbol(d) = symbol(e)
             PROVE  d = e
  BY DEF SymbolsUnique
<1>1. decls[d].name = decls[e].name /\ suffix[decls[d].scope] = suffix[decls[e].scope]
  BY DEF symbol, Lowered
<1>2. decls[d].scope = decls[e].scope
  BY <1>1 DEF IInv, PathsDistinct, Lowered
<1> QED
  BY <1>1, <1>2 DEF IInv, NamesDistinct, Items, Lowered

(***************************************************************************)
(* No two functions or constants of a program get the same symbol          *)
(* (GlobalLoweringDriver::visit_scope, ScopeBuilder_Visitor).              *)
(***************************************************************************)
THEOREM SymbolsDistinct == Spec => []SymbolsUnique
BY ScopesInvariant, SymbolsApart, PTL

LEMMA FnSymbolsApart ==
  ASSUME IInv, SInv, DOMAIN suffix = DOMAIN scopes, NEW d \in Fns, NEW e \in Fns, symbol(d) = symbol(e)
  PROVE  d = e
<1>1. d \in Lowered /\ e \in Lowered
  BY DEF Lowered, Fns, SInv, FnPerNode
<1> QED
  BY <1>1, SymbolsApart DEF SymbolsUnique

(* What the visit of a scope adds to the functions, the paths and todo. *)
LEMMA VisitReaches ==
  ASSUME IInv, visit_scope
  PROVE  /\ Visited' \subseteq Visited \cup {Head(todo)} /\ Head(todo) \in DOMAIN suffix
         /\ \A i \in DOMAIN scopes[Head(todo)].children : scopes[Head(todo)].children[i] \in DOMAIN suffix'
         /\ DOMAIN suffix \subseteq DOMAIN suffix'
         /\ \A t \in DOMAIN suffix : suffix'[t] = suffix[t]
<1> DEFINE s == Head(todo)
           kids == scopes[s].children
           rest == Tail(todo)
<1>1. /\ pass = "globals" /\ todo \in Seq(DOMAIN suffix) /\ todo # << >>
      /\ suffix' = child_suffixes(s) /\ todo' = kids \o rest
  BY DEF visit_scope, depth_first, IInv, PathOfParent
<1>2. /\ s \in DOMAIN suffix /\ rest \in Seq(DOMAIN suffix)
      /\ \A i \in DOMAIN todo : i # 1 => i - 1 \in DOMAIN rest /\ todo[i] = rest[i - 1]
      /\ s = todo[1]
  BY <1>1, HeadTailProperties
<1>3. kids \in Seq(Nat) /\ DOMAIN suffix \subseteq Nat
  <2>1. s \in DOMAIN scopes /\ DOMAIN suffix \subseteq DOMAIN scopes
    BY <1>2 DEF IInv, PathsDistinct
  <2>2. scopes[s] \in Scope
    BY <2>1, ElementOfSeq DEF IInv, Shape
  <2>3. DOMAIN scopes \subseteq Nat
    BY DEF IInv, Shape
  <2> QED
    BY <2>1, <2>2, <2>3 DEF Scope
<1>4. /\ DOMAIN suffix' = DOMAIN suffix \cup ToSet(kids)
      /\ \A t \in DOMAIN suffix : suffix'[t] = suffix[t]
  BY <1>1 DEF child_suffixes
<1>5. \A i \in DOMAIN kids : kids[i] \in ToSet(kids)
  BY DEF ToSet
<1> HIDE DEF s, kids, rest
<1>6. /\ \A i \in DOMAIN kids : \E j \in DOMAIN todo' : todo'[j] = kids[i]
      /\ \A i \in DOMAIN rest : \E j \in DOMAIN todo' : todo'[j] = rest[i]
  <2> DEFINE m == Len(kids)
             r == Len(rest)
  <2>0. rest \in Seq(Nat)
    BY <1>2, <1>3
  <2>1. /\ DOMAIN todo' = 1..(m + r) /\ m \in Nat /\ r \in Nat
        /\ DOMAIN kids = 1..m /\ DOMAIN rest = 1..r
        /\ \A i \in 1..(m + r) : todo'[i] = IF i <= m THEN kids[i] ELSE rest[i - m]
    BY <1>1, <1>3, <2>0, ConcatProperties
  <2> HIDE DEF m, r
  <2>2. ASSUME NEW i \in DOMAIN kids PROVE \E j \in DOMAIN todo' : todo'[j] = kids[i]
    <3>1. i \in DOMAIN todo' /\ todo'[i] = kids[i]
      BY <2>1
    <3> QED
      BY <3>1
  <2>3. ASSUME NEW i \in DOMAIN rest PROVE \E j \in DOMAIN todo' : todo'[j] = rest[i]
    <3>1. i + m \in DOMAIN todo' /\ ~(i + m <= m) /\ (i + m) - m = i
      BY <2>1
    <3> QED
      BY <2>1, <3>1
  <2> QED
    BY <2>2, <2>3
<1>7. ASSUME NEW t \in Visited' PROVE t \in Visited \cup {s}
  <2>1. t \in DOMAIN suffix' /\ \A j \in DOMAIN todo' : todo'[j] # t
    BY <1>7 DEF Visited
  <2>2. t \in DOMAIN suffix
    BY <1>4, <1>6, <2>1 DEF ToSet
  <2>3. ASSUME NEW i \in DOMAIN todo, todo[i] = t PROVE t = s
    BY <1>2, <1>6, <2>1, <2>3
  <2> QED
    BY <2>2, <2>3 DEF Visited
<1> QED
  BY <1>2, <1>4, <1>5, <1>7 DEF s, kids

LEMMA DeclaredOnce ==
  ASSUME NEW fs, NEW symbols, \A g, h \in fs : g.symbol = h.symbol => g = h
  PROVE  /\ fs \subseteq declared(fs, symbols)
         /\ \A g, h \in declared(fs, symbols) : g.symbol = h.symbol => g = h
         /\ \A g \in declared(fs, symbols) \ fs :
              g.body = 0 /\ g.symbol \in symbols /\ \A h \in fs : h.symbol # g.symbol
         /\ \A x \in symbols : \E g \in declared(fs, symbols) : g.symbol = x
<1> DEFINE entry(x) == [symbol |-> x, body |-> 0]
           new == {entry(x) : x \in symbols \ {f.symbol : f \in fs}}
<1>1. declared(fs, symbols) = fs \cup new
  BY DEF declared
<1>2. \A x : entry(x).symbol = x /\ entry(x).body = 0
  OBVIOUS
<1>3. \A g \in new : g = entry(g.symbol) /\ g.body = 0 /\ g.symbol \in symbols /\ \A h \in fs : h.symbol # g.symbol
  <2> SUFFICES ASSUME NEW x \in symbols \ {f.symbol : f \in fs}, NEW g, g = entry(x)
               PROVE  g = entry(g.symbol) /\ g.body = 0 /\ g.symbol \in symbols /\ \A h \in fs : h.symbol # g.symbol
    BY Zenon
  <2>1. g.symbol = x /\ g.body = 0
    BY <1>2
  <2> QED
    BY <2>1
<1>4. ASSUME NEW x \in symbols PROVE \E g \in fs \cup new : g.symbol = x
  <2>1. CASE x \in {f.symbol : f \in fs}
    BY <2>1
  <2>2. CASE x \notin {f.symbol : f \in fs}
    <3>1. entry(x) \in new
      BY <2>2
    <3> QED
      BY <1>2, <3>1, Zenon
  <2> QED
    BY <2>1, <2>2
<1> HIDE DEF new, entry
<1> QED
  BY <1>1, <1>3, <1>4

LEMMA FunctionsBefore ==
  ASSUME IInv, LInv,
         (BuildScopes /\ UNCHANGED <<checkVars, lowerVars>>) \/ (Check /\ UNCHANGED lowerVars)
  PROVE  LInv'
<1>1. pass \in Early /\ pass' \in Early \cup {"CE", "error"}
  BY DEF BuildScopes, Redefinition, VisitFnItem, VisitBlockExpr, VisitImplItem,
     VisitDeclaration, VisitLeaf, LeaveNode, walking, walk_on, refuse, Check, FinishScopes, RefuseScope,
     Scope_dfs_and_build_type, AddBuiltins, ResolveBodies, NameUnknown, ReceiverUnknown, ResolveName,
     CheckFnItem, CheckLetStmt, CheckNode, unresolved_node, Early
<1>2. functions' = {} /\ skipped' = {} /\ calls' = {}
  BY <1>1 DEF LInv, FunctionsDeclared, lowerVars
<1> QED
  BY <1>1, <1>2 DEF LInv, FunctionsDeclared, BodiesFollowWalk, Early

LEMMA FunctionsVisited ==
  ASSUME IInv, SInv, LInv, visit_scope
  PROVE  LInv'
<1> DEFINE s == Head(todo)
           symbols == {symbol(d) : d \in namespace(s, {"fn"})}
<1>1. /\ pass = "globals" /\ UNCHANGED <<scopes, decls, program, pass, at, skipped, calls>>
      /\ functions' = declared(functions, symbols)
  BY DEF visit_scope, scopeVars
<1>2. /\ Visited' \subseteq Visited \cup {s} /\ s \in DOMAIN suffix
      /\ \A i \in DOMAIN scopes[s].children : scopes[s].children[i] \in DOMAIN suffix'
      /\ DOMAIN suffix \subseteq DOMAIN suffix'
      /\ \A t \in DOMAIN suffix : suffix'[t] = suffix[t]
  BY VisitReaches
<1>3. /\ \A g, h \in functions : g.symbol = h.symbol => g = h
      /\ skipped = {} /\ calls = {} /\ 1 \in DOMAIN suffix
      /\ \A t \in Visited : \A i \in DOMAIN scopes[t].children : scopes[t].children[i] \in DOMAIN suffix
      /\ \A g \in functions : g.body = 0
      /\ \A d \in Fns : decls[d].scope \in Visited => \E g \in functions : g.symbol = symbol(d)
  BY <1>1 DEF LInv, FunctionsDeclared
<1>4. /\ functions \subseteq functions'
      /\ \A g, h \in functions' : g.symbol = h.symbol => g = h
      /\ \A g \in functions' \ functions : g.body = 0
      /\ \A x \in symbols : \E g \in functions' : g.symbol = x
  <2> HIDE DEF symbols
  <2>1. /\ functions \subseteq declared(functions, symbols)
        /\ \A g, h \in declared(functions, symbols) : g.symbol = h.symbol => g = h
        /\ \A g \in declared(functions, symbols) \ functions : g.body = 0
        /\ \A x \in symbols : \E g \in declared(functions, symbols) : g.symbol = x
    BY <1>3, DeclaredOnce
  <2> HIDE DEF declared
  <2> QED
    BY <1>1, <2>1
<1>5. Fns' = Fns /\ \A d \in Fns : decls[d].scope = s => symbol(d) \in symbols
  BY <1>1 DEF Fns, namespace
<1>6. \A d \in Fns : decls[d].scope \in DOMAIN suffix => symbol(d)' = symbol(d)
  BY <1>1, <1>2 DEF symbol
<1>7. Visited \subseteq DOMAIN suffix
  BY DEF Visited
<1> HIDE DEF s, symbols
<1>8. \A d \in Fns' : decls'[d].scope \in Visited' => \E g \in functions' : g.symbol = symbol(d)'
  <2> SUFFICES ASSUME NEW d \in Fns, decls[d].scope \in Visited' PROVE \E g \in functions' : g.symbol = symbol(d)'
    BY <1>1, <1>5
  <2>1. symbol(d)' = symbol(d)
    BY <1>2, <1>6, <1>7
  <2>2. CASE decls[d].scope = s
    BY <1>4, <1>5, <2>1, <2>2
  <2>3. CASE decls[d].scope # s
    BY <1>2, <1>3, <1>4, <2>1, <2>3
  <2> QED
    BY <2>2, <2>3
<1>9. \A t \in Visited' : \A i \in DOMAIN scopes'[t].children : scopes'[t].children[i] \in DOMAIN suffix'
  BY <1>1, <1>2, <1>3
<1>10. \A g \in functions' : g.body = 0
  BY <1>3, <1>4
<1>11. 1 \in DOMAIN suffix'
  BY <1>2, <1>3
<1>12. FunctionsDeclared'
  BY <1>1, <1>3, <1>4, <1>8, <1>9, <1>10, <1>11 DEF FunctionsDeclared, Early
<1> QED
  BY <1>1, <1>12 DEF LInv, BodiesFollowWalk

LEMMA AllVisited ==
  ASSUME IInv, SInv, LInv, pass = "globals", todo = << >>
  PROVE  Visited = DOMAIN scopes /\ DOMAIN suffix = DOMAIN scopes
<1>1. Visited = DOMAIN suffix
  <2>1. DOMAIN todo = {}
    OBVIOUS
  <2> QED
    BY <2>1 DEF Visited
<1>2. /\ 1 \in Visited /\ Visited \in SUBSET DOMAIN scopes
      /\ \A s \in Visited : \A i \in DOMAIN scopes[s].children : scopes[s].children[i] \in Visited
  BY <1>1 DEF LInv, FunctionsDeclared, IInv, PathsDistinct
<1> HIDE DEF Visited
<1> QED
  BY <1>1, <1>2, ClosedIsAll DEF IInv, SInv

LEMMA FunctionsLowered ==
  ASSUME IInv, SInv, LInv, Lower
  PROVE  LInv'
<1>1. CASE FinishCheck
  <2>1. /\ pass = "check" /\ pass' = "globals" /\ todo' = <<1>> /\ suffix' = [t \in {1} |-> << >>]
        /\ UNCHANGED <<functions, skipped, calls>>
    BY <1>1 DEF FinishCheck
  <2>2. functions' = {} /\ skipped' = {} /\ calls' = {}
    BY <2>1 DEF LInv, FunctionsDeclared, Early
  <2>3. 1 \in DOMAIN suffix' /\ Visited' = {}
    BY <2>1 DEF Visited
  <2> QED
    BY <2>1, <2>2, <2>3 DEF LInv, FunctionsDeclared, BodiesFollowWalk, Early
<1>2. CASE LoweringFails
  BY <1>2 DEF LoweringFails, lowerVars, LInv, FunctionsDeclared, BodiesFollowWalk, Early
<1>3. CASE FinishGlobals
  <2>1. /\ pass = "globals" /\ pass' = "gen" /\ todo = << >> /\ at' = 1
        /\ UNCHANGED <<program, scopes, decls, suffix, functions, skipped, calls>>
    BY <1>3 DEF FinishGlobals, scopeVars, lowerVars
  <2>2. Visited = DOMAIN scopes /\ DOMAIN suffix = DOMAIN scopes
    BY <2>1, AllVisited
  <2>3. \A d \in Fns : \E g \in functions : g.symbol = symbol(d)
    BY <2>1, <2>2 DEF LInv, FunctionsDeclared, SInv, FnPerNode
  <2>4. Fns' = Fns /\ \A d \in Fns : symbol(d)' = symbol(d)
    BY <2>1 DEF Fns, symbol
  <2>5. FunctionsDeclared'
    BY <2>1, <2>2, <2>3, <2>4 DEF LInv, FunctionsDeclared, Early
  <2>6. \A d \in Fns : ~(decls[d].node < 1)
    <3>1. DOMAIN program = 1..Len(program)
      BY DEF IInv, Shape
    <3> QED
      BY <3>1 DEF SInv, FnPerNode
  <2>7. BodiesFollowWalk'
    BY <2>1, <2>4, <2>6 DEF LInv, FunctionsDeclared, BodiesFollowWalk, Early
  <2> QED
    BY <2>5, <2>7 DEF LInv
<1> QED
  BY <1>1, <1>2, <1>3, FunctionsVisited DEF Lower

(* The function item the walk is at. *)
LEMMA FnHere ==
  ASSUME IInv, SInv, pass = "gen", at \in DOMAIN program, node.op = "fn"
  PROVE  /\ fn_decl \in Fns /\ decls[fn_decl].node = at
         /\ \A d \in Fns : decls[d].node = at => d = fn_decl
<1>1. \E d \in DOMAIN decls : decls[d].kind = "fn" /\ decls[d].node = at
  BY DEF SInv, FnPerNode, node, Fns
<1>2. fn_decl \in DOMAIN decls /\ decls[fn_decl].kind = "fn" /\ decls[fn_decl].node = at
  BY <1>1 DEF fn_decl
<1> QED
  BY <1>2 DEF SInv, FnPerNode, Fns

(* A step of the walk at a node that is no function item.  It may make     *)
(* entries of symbols that no function of the program has.                 *)
LEMMA FunctionsKept ==
  ASSUME IInv, SInv, LInv, pass = "gen", pass' = "gen", at \in DOMAIN program, node.op # "fn",
         at' = at + 1, UNCHANGED <<program, scopes, decls, suffix, skipped>>,
         NEW symbols, functions' = functions \/ functions' = declared(functions, symbols),
         \A c \in calls' \ calls : c.callee \in DOMAIN decls /\ c.symbol = symbol(c.callee)
  PROVE  LInv'
<1>1. /\ \A g, h \in functions : g.symbol = h.symbol => g = h
      /\ DOMAIN suffix = DOMAIN scopes
      /\ \A d \in Fns : \E g \in functions : g.symbol = symbol(d)
  BY DEF LInv, FunctionsDeclared
<1>2. /\ functions \subseteq functions'
      /\ \A g, h \in functions' : g.symbol = h.symbol => g = h
      /\ \A g \in functions' \ functions : \A h \in functions : h.symbol # g.symbol
  <2>1. CASE functions' = functions
    BY <1>1, <2>1
  <2>2. CASE functions' = declared(functions, symbols)
    <3>1. /\ functions \subseteq declared(functions, symbols)
          /\ \A g, h \in declared(functions, symbols) : g.symbol = h.symbol => g = h
          /\ \A g \in declared(functions, symbols) \ functions : \A h \in functions : h.symbol # g.symbol
      BY <1>1, DeclaredOnce
    <3> HIDE DEF declared
    <3> QED
      BY <2>2, <3>1
  <2> QED
    BY <2>1, <2>2
<1>3. Fns' = Fns /\ \A d : symbol(d)' = symbol(d)
  BY DEF Fns, symbol
<1>4. FunctionsDeclared'
  BY <1>1, <1>2, <1>3 DEF FunctionsDeclared, Early
<1>5. \A d \in Fns : decls[d].node < at' <=> decls[d].node < at
  <2> SUFFICES ASSUME NEW d \in Fns PROVE decls[d].node < at + 1 <=> decls[d].node < at
    OBVIOUS
  <2>1. decls[d].node \in DOMAIN program /\ decls[d].node # at
    BY DEF SInv, FnPerNode, node
  <2>2. decls[d].node \in Nat /\ at \in Nat
    BY <2>1 DEF IInv, Shape
  <2> QED
    BY <2>1, <2>2
<1>6. /\ \A d \in skipped : d \in Fns /\ decls[d].node < at
      /\ \A g \in functions, d \in Fns :
           g.symbol = symbol(d) => g.body = IF decls[d].node < at /\ d \notin skipped THEN d ELSE 0
      /\ \A c \in calls : c.callee \in DOMAIN decls /\ c.symbol = symbol(c.callee)
  BY DEF LInv, BodiesFollowWalk
<1>7. \A d \in skipped' : d \in Fns' /\ decls'[d].node < at'
  BY <1>3, <1>5, <1>6
<1>8. ASSUME NEW g \in functions', NEW d \in Fns, g.symbol = symbol(d)
      PROVE  g.body = IF decls[d].node < at' /\ d \notin skipped THEN d ELSE 0
  <2>1. g \in functions
    BY <1>1, <1>2, <1>8
  <2> QED
    BY <1>5, <1>6, <1>8, <2>1
<1>9. \A g \in functions', d \in Fns' :
        g.symbol = symbol(d)' => g.body = IF decls'[d].node < at' /\ d \notin skipped' THEN d ELSE 0
  BY <1>3, <1>8
<1>10. \A c \in calls' : c.callee \in DOMAIN decls' /\ c.symbol = symbol(c.callee)'
  BY <1>3, <1>6
<1>11. BodiesFollowWalk'
  BY <1>7, <1>9, <1>10 DEF BodiesFollowWalk
<1> QED
  BY <1>4, <1>11 DEF LInv

LEMMA FunctionVisited ==
  ASSUME IInv, SInv, LInv, GenFnItem \/ SkipFnItem
  PROVE  LInv'
<1> DEFINE f == fn_decl
<1>1. /\ pass = "gen" /\ pass' = "gen" /\ at \in DOMAIN program /\ node.op = "fn" /\ at' = at + 1
      /\ UNCHANGED <<program, scopes, decls, suffix, calls>>
  BY DEF GenFnItem, SkipFnItem, generating, walking, gen_on, scopeVars
<1>2. /\ f \in Fns /\ decls[f].node = at
      /\ \A d \in Fns : decls[d].node = at => d = f
  BY <1>1, FnHere
<1>3. /\ \A g, h \in functions : g.symbol = h.symbol => g = h
      /\ DOMAIN suffix = DOMAIN scopes
      /\ \A d \in Fns : \E g \in functions : g.symbol = symbol(d)
      /\ \A d \in skipped : d \in Fns /\ decls[d].node < at
      /\ \A g \in functions, d \in Fns :
           g.symbol = symbol(d) => g.body = IF decls[d].node < at /\ d \notin skipped THEN d ELSE 0
      /\ \A c \in calls : c.callee \in DOMAIN decls /\ c.symbol = symbol(c.callee)
  BY <1>1 DEF LInv, FunctionsDeclared, BodiesFollowWalk
<1>4. Fns' = Fns /\ \A d : symbol(d)' = symbol(d)
  BY <1>1 DEF Fns, symbol
<1>5. \A d \in Fns : symbol(d) = symbol(f) => d = f
  BY <1>2, <1>3, FnSymbolsApart
<1>6. \A d \in Fns : decls[d].node \in Nat /\ at \in Nat
  BY DEF SInv, FnPerNode, IInv, Shape
<1>7. /\ ~(decls[f].node < at) /\ decls[f].node < at + 1 /\ f \notin skipped
      /\ \A d \in Fns : d # f => (decls[d].node < at + 1 <=> decls[d].node < at)
  <2>1. ~(decls[f].node < at) /\ decls[f].node < at + 1
    BY <1>2, <1>6
  <2>2. \A d \in Fns : d # f => decls[d].node # at
    BY <1>2
  <2> HIDE DEF f
  <2> QED
    BY <1>3, <1>6, <2>1, <2>2
<1>8. calls' = calls /\ \A c \in calls' : c.callee \in DOMAIN decls' /\ c.symbol = symbol(c.callee)'
  BY <1>1, <1>3, <1>4
<1>9. ASSUME GenFnItem PROVE LInv'
  <2> DEFINE new == [symbol |-> symbol(f), body |-> f]
             others == {g \in functions : g.symbol # symbol(f)}
  <2>1. functions' = others \cup {new} /\ skipped' = skipped
    BY <1>9 DEF GenFnItem
  <2>2. new.symbol = symbol(f) /\ new.body = f
    OBVIOUS
  <2>3. \A g \in others : g \in functions /\ g.symbol # symbol(f)
    OBVIOUS
  <2>4. \A g \in functions : g.symbol # symbol(f) => g \in others
    OBVIOUS
  <2> HIDE DEF new, others, f
  <2>5. \A g, h \in functions' : g.symbol = h.symbol => g = h
    BY <1>3, <2>1, <2>2, <2>3
  <2>6. \A d \in Fns : \E g \in functions' : g.symbol = symbol(d)
    BY <1>3, <2>1, <2>2, <2>4
  <2>7. FunctionsDeclared'
    BY <1>1, <1>3, <1>4, <2>5, <2>6 DEF FunctionsDeclared, Early
  <2>8. ASSUME NEW g \in functions', NEW d \in Fns, g.symbol = symbol(d)
        PROVE  g.body = IF decls[d].node < at' /\ d \notin skipped THEN d ELSE 0
    <3>1. CASE g = new
      BY <1>1, <1>5, <1>7, <2>2, <2>8, <3>1
    <3>2. CASE g # new
      <4>1. g \in functions /\ d # f
        BY <2>1, <2>3, <2>8, <3>2
      <4> QED
        BY <1>1, <1>3, <1>7, <2>8, <4>1
    <3> QED
      BY <3>1, <3>2
  <2>9. \A d \in skipped : d \in Fns /\ decls[d].node < at'
    BY <1>1, <1>3, <1>6
  <2>10. \A g \in functions', d \in Fns' :
           g.symbol = symbol(d)' => g.body = IF decls'[d].node < at' /\ d \notin skipped' THEN d ELSE 0
    BY <1>1, <1>4, <2>1, <2>8
  <2>11. \A d \in skipped' : d \in Fns' /\ decls'[d].node < at'
    BY <1>1, <1>4, <2>1, <2>9
  <2>12. BodiesFollowWalk'
    BY <1>1, <1>8, <2>10, <2>11 DEF BodiesFollowWalk
  <2> QED
    BY <2>7, <2>12 DEF LInv
<1>10. ASSUME SkipFnItem PROVE LInv'
  <2>1. functions' = functions /\ skipped' = skipped \cup {f}
    BY <1>10 DEF SkipFnItem
  <2> HIDE DEF f
  <2>2. FunctionsDeclared'
    BY <1>1, <1>3, <1>4, <2>1 DEF FunctionsDeclared, Early
  <2>3. ASSUME NEW g \in functions, NEW d \in Fns, g.symbol = symbol(d)
        PROVE  g.body = IF decls[d].node < at' /\ d \notin skipped' THEN d ELSE 0
    <3>1. CASE d = f
      BY <1>1, <1>3, <1>7, <2>1, <2>3, <3>1
    <3>2. CASE d # f
      BY <1>1, <1>3, <1>7, <2>1, <2>3, <3>2
    <3> QED
      BY <3>1, <3>2
  <2>4. \A d \in skipped' : d \in Fns /\ decls[d].node < at'
    BY <1>1, <1>2, <1>3, <1>6, <1>7, <2>1
  <2>5. \A g \in functions', d \in Fns' :
          g.symbol = symbol(d)' => g.body = IF decls'[d].node < at' /\ d \notin skipped' THEN d ELSE 0
    BY <1>1, <1>4, <2>1, <2>3
  <2>6. \A d \in skipped' : d \in Fns' /\ decls'[d].node < at'
    BY <1>1, <1>4, <2>4
  <2>7. BodiesFollowWalk'
    BY <1>1, <1>8, <2>5, <2>6 DEF BodiesFollowWalk
  <2> QED
    BY <2>2, <2>7 DEF LInv
<1> QED
  BY <1>9, <1>10

LEMMA FunctionsGenerated ==
  ASSUME IInv, SInv, NamesResolved, LInv, Generate
  PROVE  LInv'
<1>1. CASE GenFnItem \/ SkipFnItem
  BY <1>1, FunctionVisited
<1>2. CASE GenFails
  BY <1>2 DEF GenFails, lowerVars, LInv, FunctionsDeclared, BodiesFollowWalk, Early
<1>3. CASE FinishGen
  <2>1. /\ pass = "gen" /\ pass' = "done" /\ at > Len(program)
        /\ UNCHANGED <<program, scopes, decls, suffix, at, functions, skipped, calls>>
    BY <1>3 DEF FinishGen, scopeVars, lowerVars
  <2>2. Fns' = Fns /\ \A d : symbol(d)' = symbol(d)
    BY <2>1 DEF Fns, symbol
  <2>3. FunctionsDeclared'
    BY <2>1, <2>2 DEF LInv, FunctionsDeclared, Early
  <2>4. BodiesFollowWalk'
    BY <2>1, <2>2 DEF LInv, BodiesFollowWalk
  <2> QED
    BY <2>3, <2>4 DEF LInv
<1>4. CASE GenCallExpr
  <2>1. /\ pass = "gen" /\ pass' = "gen" /\ at \in DOMAIN program /\ node.op # "fn" /\ at' = at + 1
        /\ UNCHANGED <<program, scopes, decls, suffix, skipped>>
    BY <1>4 DEF GenCallExpr, generating, walking, gen_on, scopeVars
  <2>2. PICK callee \in resolved[at] :
          /\ calls' = calls \cup {[node |-> at, callee |-> callee, symbol |-> symbol(callee)]}
          /\ functions' = functions \/ functions' = declared(functions, {symbol(callee)})
    BY <1>4 DEF GenCallExpr
  <2>3. callee \in DOMAIN decls
    <3>1. at \in DOMAIN resolved
      BY <2>1 DEF NamesResolved, IInv, Shape
    <3>2. resolved[at] \in SUBSET DOMAIN decls
      BY <3>1, ElementOfSeq DEF NamesResolved
    <3> QED
      BY <3>2
  <2>4. \A c \in calls' \ calls : c.callee \in DOMAIN decls /\ c.symbol = symbol(c.callee)
    BY <2>2, <2>3
  <2> QED
    BY <2>1, <2>2, <2>4, FunctionsKept
<1>5. CASE GenEnter \/ GenLeave \/ GenReturn \/ GenLetStmt \/ GenIdentifierExpr \/ GenNothing
  <2>1. /\ pass = "gen" /\ pass' = "gen" /\ at \in DOMAIN program /\ node.op # "fn" /\ at' = at + 1
        /\ UNCHANGED <<program, scopes, decls, suffix, skipped, functions, calls>>
    BY <1>5 DEF GenEnter, GenLeave, GenReturn, GenLetStmt, GenIdentifierExpr, GenNothing,
       generating, walking, gen_on, scopeVars, Names
  <2> QED
    BY <2>1, FunctionsKept
<1> QED
  BY <1>1, <1>2, <1>3, <1>4, <1>5 DEF Generate

LEMMA FunctionsInvariant == Spec => []LInv
<1>1. Init => LInv
  BY DEF Init, ScopesInit, LInv, FunctionsDeclared, BodiesFollowWalk, Early
<1>2. IInv /\ SInv /\ NamesResolved /\ LInv /\ [Next]_vars => LInv'
  <2> SUFFICES ASSUME IInv, SInv, NamesResolved, LInv, [Next]_vars PROVE LInv'
    OBVIOUS
  <2>1. CASE UNCHANGED vars
    <3>1. UNCHANGED <<pass, at, program, scopes, decls, suffix, todo, functions, skipped, calls>>
      BY <2>1 DEF vars, scopeVars, checkVars, lowerVars
    <3>2. Fns' = Fns /\ Visited' = Visited /\ \A d : symbol(d)' = symbol(d)
      BY <3>1 DEF Fns, Visited, symbol
    <3>3. FunctionsDeclared' /\ BodiesFollowWalk'
      BY <3>1, <3>2 DEF LInv, FunctionsDeclared, BodiesFollowWalk
    <3> QED
      BY <3>3 DEF LInv
  <2> QED
    BY <2>1, FunctionsBefore, FunctionsLowered, FunctionsGenerated DEF Next
<1> QED
  BY <1>1, <1>2, ScopesInvariant, NamesInvariant, PTL DEF Spec

(***************************************************************************)
(* When compilation succeeds, the symbol a call refers to has the body of  *)
(* the function the checker resolved the call to, and no body only when    *)
(* that function's item is in dead code (IRGenVisitor::visit of FnItem and *)
(* CallExpr, GlobalLoweringDriver::visit_scope).                           *)
(***************************************************************************)
THEOREM CallsReach == Spec => []CallsReachCallee
<1>1. IInv /\ SInv /\ LInv => CallsReachCallee
  <2> SUFFICES ASSUME IInv, SInv, LInv, pass = "done", NEW c \in UserCalls
               PROVE  bodies(c) = {IF c.callee \in skipped THEN 0 ELSE c.callee}
    BY DEF CallsReachCallee
  <2>1. c.callee \in Fns /\ c.symbol = symbol(c.callee)
    BY DEF LInv, BodiesFollowWalk, UserCalls, Fns
  <2>2. PICK g \in functions : g.symbol = c.symbol
    BY <2>1 DEF LInv, FunctionsDeclared
  <2>3. \A h \in functions : h.symbol = c.symbol => h = g
    BY <2>2 DEF LInv, FunctionsDeclared
  <2>4. decls[c.callee].node < at
    <3>1. decls[c.callee].node \in DOMAIN program /\ at > Len(program)
      BY <2>1 DEF SInv, FnPerNode, LInv, BodiesFollowWalk
    <3> QED
      BY <3>1 DEF IInv, Shape
  <2>5. g.body = IF c.callee \in skipped THEN 0 ELSE c.callee
    BY <2>1, <2>2, <2>4 DEF LInv, BodiesFollowWalk
  <2> QED
    BY <2>2, <2>3, <2>5 DEF bodies
<1> QED
  BY <1>1, ScopesInvariant, FunctionsInvariant, PTL
-----------------------------------------------------------------------------
(* The tables of methods *)

TypeDecls == {d \in DOMAIN decls : decls[d].kind \in Types}

(* A scope has one type of a name. *)
TypesDistinct ==
  \A d, e \in TypeDecls : decls[d].scope = decls[e].scope /\ decls[d].name = decls[e].name => d = e

LEMMA TypeAppended ==
  ASSUME decls \in Seq(Declaration), TypesDistinct, NEW e, decls' = Append(decls, e),
         e.kind \in Types => \A d \in TypeDecls : ~(decls[d].scope = e.scope /\ decls[d].name = e.name)
  PROVE  TypesDistinct'
<1> DEFINE n == Len(decls)
<1>1. /\ DOMAIN decls' = DOMAIN decls \cup {n + 1} /\ n + 1 \notin DOMAIN decls
      /\ \A d \in DOMAIN decls : decls'[d] = decls[d]
      /\ decls'[n + 1] = e
  BY AppendDeclares
<1> HIDE DEF n
<1>2. TypeDecls' \subseteq TypeDecls \cup {n + 1} /\ (n + 1 \in TypeDecls' => e.kind \in Types)
  BY <1>1 DEF TypeDecls
<1>3. \A d \in TypeDecls : decls'[d] = decls[d]
  BY <1>1 DEF TypeDecls
<1>4. ASSUME NEW d \in TypeDecls', NEW f \in TypeDecls',
             decls'[d].scope = decls'[f].scope, decls'[d].name = decls'[f].name
      PROVE  d = f
  BY <1>1, <1>2, <1>3, <1>4 DEF TypesDistinct
<1> QED
  BY <1>4, Zenon DEF TypesDistinct

LEMMA TypesBuilt ==
  ASSUME IInv, TypesDistinct, BuildScopes
  PROVE  TypesDistinct'
<1>1. CASE UNCHANGED decls
  BY <1>1 DEF TypesDistinct, TypeDecls
<1>2. decls \in Seq(Declaration) /\ \A k, x, s, n, i :
        /\ declaration(k, x, s, n, i).kind = k /\ declaration(k, x, s, n, i).scope = s
        /\ declaration(k, x, s, n, i).name = x
  BY DEF declaration, IInv, Shape
<1>3. "fn" \notin Types /\ "const" \notin Types
  BY DEF Types
<1> HIDE DEF declaration
<1>4. CASE VisitFnItem
  BY <1>2, <1>3, <1>4, TypeAppended DEF VisitFnItem
<1>5. CASE VisitDeclaration
  <2>1. CASE decls' = Append(decls, declaration("const", node.name, current_scope, at, 0))
    BY <1>2, <1>3, <2>1, TypeAppended
  <2>2. CASE /\ ~redefined(Types)
             /\ decls' = Append(decls, declaration(node.kind, node.name, current_scope, at, 0))
    <3>1. \A d \in TypeDecls : ~(decls[d].scope = current_scope /\ decls[d].name = node.name)
      BY <2>2 DEF redefined, named, namespace, TypeDecls
    <3> QED
      BY <1>2, <2>2, <3>1, TypeAppended
  <2> QED
    BY <1>5, <2>1, <2>2 DEF VisitDeclaration
<1> QED
  BY <1>1, <1>4, <1>5 DEF BuildScopes, Redefinition, VisitBlockExpr, VisitImplItem, VisitLeaf,
     LeaveNode, scopeVars

LEMMA TypesStay ==
  ASSUME OthersDeclared
  PROVE  TypeDecls' = TypeDecls /\ \A d \in TypeDecls : decls'[d] = decls[d]
<1>1. \A d \in DOMAIN decls' : decls'[d].kind \in Types => d \in DOMAIN decls
  BY DEF OthersDeclared, Types
<1> QED
  BY <1>1 DEF OthersDeclared, TypeDecls

LEMMA TypesInvariant == Spec => []TypesDistinct
<1>1. Init => TypesDistinct
  BY DEF Init, ScopesInit, TypesDistinct, TypeDecls
<1>2. IInv /\ IInv' /\ TypesDistinct /\ [Next]_vars => TypesDistinct'
  <2> SUFFICES ASSUME IInv, IInv', TypesDistinct, [Next]_vars PROVE TypesDistinct'
    OBVIOUS
  <2>1. CASE OthersDeclared
    BY <2>1, TypesStay DEF TypesDistinct
  <2>2. CASE UNCHANGED vars
    BY <2>2 DEF vars, scopeVars, TypesDistinct, TypeDecls
  <2> QED
    BY <2>1, <2>2, TypesBuilt, Settled DEF Next
<1> QED
  BY <1>1, <1>2, ScopesInvariant, PTL DEF Spec

(* A name stands for at most one type. *)
LEMMA OneTypeOfName ==
  ASSUME IInv, SInv, TypesDistinct, NEW name, NEW s \in DOMAIN scopes,
         NEW d \in types_named(name, s), NEW e \in types_named(name, s)
  PROVE  d = e /\ d \in TypeDecls
<1> DEFINE found == [t \in DOMAIN scopes |-> named(namespace(t, Types), name)]
<1>1. types_named(name, s) = nearest(s, found)
  BY DEF types_named
<1>2. \A t \in DOMAIN scopes : found[t] = named(namespace(t, Types), name)
  OBVIOUS
<1> HIDE DEF found
<1>3. PICK t \in DOMAIN scopes : types_named(name, s) = named(namespace(t, Types), name)
  BY <1>1, <1>2, NearestFinds DEF IInv, SInv
<1> QED
  BY <1>3 DEF named, namespace, TypesDistinct, TypeDecls

(* Locals and builtins change no type and no function that a name finds. *)
LEMMA LookupsStay ==
  ASSUME IInv, SInv, TypesDistinct, OthersDeclared, UNCHANGED scopes
  PROVE  /\ \A s : namespace(s, {"fn"})' = namespace(s, {"fn"})
         /\ \A name, s : types_named(name, s)' = types_named(name, s)
         /\ \A s \in DOMAIN scopes : impl_target(s)' = impl_target(s)
<1>1. Fns' = Fns /\ \A d \in Fns : decls'[d] = decls[d]
  BY FnsStay
<1>2. TypeDecls' = TypeDecls /\ \A d \in TypeDecls : decls'[d] = decls[d]
  BY TypesStay
<1>3. \A s : namespace(s, {"fn"})' = namespace(s, {"fn"})
  <2>1. \A s : namespace(s, {"fn"}) = {d \in Fns : decls[d].scope = s}
    BY DEF namespace, Fns
  <2>2. \A s : namespace(s, {"fn"})' = {d \in Fns' : decls'[d].scope = s}
    BY DEF namespace, Fns
  <2> QED
    BY <1>1, <2>1, <2>2
<1>4. ASSUME NEW t, NEW name PROVE named(namespace(t, Types), name)' = named(namespace(t, Types), name)
  <2>1. named(namespace(t, Types), name) = {d \in TypeDecls : decls[d].scope = t /\ decls[d].name = name}
    BY DEF namespace, named, TypeDecls
  <2>2. named(namespace(t, Types), name)' = {d \in TypeDecls' : decls'[d].scope = t /\ decls'[d].name = name}
    BY DEF namespace, named, TypeDecls
  <2>3. \A d \in TypeDecls : decls'[d].scope = decls[d].scope /\ decls'[d].name = decls[d].name
    BY <1>2
  <2> QED
    BY <1>2, <2>1, <2>2, <2>3
<1>5. ASSUME NEW name, NEW s PROVE types_named(name, s)' = types_named(name, s)
  <2> DEFINE found == [t \in DOMAIN scopes |-> named(namespace(t, Types), name)]
  <2>1. found' = found
    BY <1>4
  <2>2. nearest(s, found)' = nearest(s, found)
    <3> HIDE DEF found
    <3> QED
      BY <2>1 DEF nearest
  <2> QED
    BY <2>2 DEF types_named
<1>6. ASSUME NEW name, NEW s \in DOMAIN scopes PROVE structs_named(name, s)' = structs_named(name, s)
  <2>1. \A d \in types_named(name, s) : d \in TypeDecls
    BY OneTypeOfName
  <2>2. types_named(name, s)' = types_named(name, s)
    BY <1>5
  <2>3. \A d \in types_named(name, s) : decls'[d].kind = decls[d].kind
    BY <1>2, <2>1
  <2> QED
    BY <2>2, <2>3 DEF structs_named
<1>7. ASSUME NEW s \in DOMAIN scopes PROVE impl_target(s)' = impl_target(s)
  BY <1>6 DEF impl_target
<1> QED
  BY <1>3, <1>5, <1>6, <1>7

(* A method is in the table of the struct its impl is for. *)
OfImpl ==
  \A m \in methods :
    /\ m = <<m[1], m[2]>> /\ m[2] \in Fns
    /\ scopes[decls[m[2]].scope].kind = "Impl" /\ m[1] \in impl_target(decls[m[2]].scope)

OneOfName ==
  /\ \A m, n \in methods : m[1] = n[1] /\ decls[m[2]].name = decls[n[2]].name => m = n
  /\ associated_func = {m \in methods : receiver(m[2]) = "none"}

entered(s) ==
  scopes[s].kind = "Impl" => impl_target(s) # {} /\ impl_target(s) \X namespace(s, {"fn"}) \subseteq methods

(* V are the scopes the walk over the tree has visited. *)
WalkedSoFar(V) ==
  /\ 1 \in V \cup ToSet(todo)
  /\ \A s \in V : /\ entered(s)
                  /\ \A i \in DOMAIN scopes[s].children : scopes[s].children[i] \in V \cup ToSet(todo)

ImplsEntered ==
  /\ pass = "scopes" => methods = {} /\ associated_func = {}
  /\ pass = "types" => todo \in Seq(DOMAIN scopes) /\ \E V \in SUBSET DOMAIN scopes : WalkedSoFar(V)
  /\ Accepted \/ pass = "constants" => \A s \in DOMAIN scopes : entered(s)

MInv == OfImpl /\ OneOfName /\ ImplsEntered

LEMMA TablesStay ==
  ASSUME IInv, SInv, TypesDistinct, MInv, OthersDeclared,
         UNCHANGED <<scopes, program, methods, associated_func>>
  PROVE  OfImpl' /\ OneOfName' /\ \A s \in DOMAIN scopes : entered(s) => entered(s)'
<1>1. /\ \A s : namespace(s, {"fn"})' = namespace(s, {"fn"})
      /\ \A s \in DOMAIN scopes : impl_target(s)' = impl_target(s)
  BY LookupsStay
<1>2. Fns' = Fns /\ \A d \in Fns : decls'[d] = decls[d]
  BY FnsStay
<1>3. \A d \in Fns : decls[d].scope \in DOMAIN scopes
  BY DEF SInv, FnPerNode
<1>4. \A m \in methods : m[2] \in Fns /\ m = <<m[1], m[2]>>
  BY DEF MInv, OfImpl
<1>5. OfImpl'
  BY <1>1, <1>2, <1>3 DEF MInv, OfImpl
<1>6. \A m \in methods : receiver(m[2])' = receiver(m[2])
  BY <1>2, <1>4 DEF receiver
<1>7. OneOfName'
  BY <1>2, <1>4, <1>6 DEF MInv, OneOfName
<1>8. \A s \in DOMAIN scopes : entered(s) => entered(s)'
  BY <1>1 DEF entered
<1> QED
  BY <1>5, <1>7, <1>8

LEMMA ImplVisited ==
  ASSUME IInv, SInv, TypesDistinct, MInv, Scope_dfs_and_build_type
  PROVE  MInv'
<1> DEFINE s == Head(todo)
           fns == IF scopes[s].kind = "Impl" THEN namespace(s, {"fn"}) ELSE {}
           targets == IF scopes[s].kind = "Impl" THEN impl_target(s) ELSE {}
           kids == scopes[s].children
           rest == Tail(todo)
           static == {f \in fns : receiver(f) = "none"}
<1>1. /\ pass = "types" /\ todo # << >> /\ ~refused_scope(s)
      /\ methods' = methods \cup (targets \X fns)
      /\ associated_func' = associated_func \cup (targets \X static)
      /\ todo' = kids \o rest
      /\ UNCHANGED <<scopes, decls, program, pass>>
  BY DEF Scope_dfs_and_build_type, depth_first, scopeVars
<1>2. PICK V \in SUBSET DOMAIN scopes : WalkedSoFar(V)
  BY <1>1 DEF MInv, ImplsEntered
<1>3. /\ todo \in Seq(DOMAIN scopes) /\ s \in DOMAIN scopes /\ s = todo[1]
      /\ rest \in Seq(DOMAIN scopes)
      /\ \A i \in DOMAIN todo : i # 1 => i - 1 \in DOMAIN rest /\ todo[i] = rest[i - 1]
  <2>1. todo \in Seq(DOMAIN scopes)
    BY <1>1 DEF MInv, ImplsEntered
  <2> QED
    BY <1>1, <2>1, HeadTailProperties
<1>4. kids \in Seq(DOMAIN scopes)
  <2>1. scopes[s] \in Scope
    BY <1>3, ElementOfSeq DEF IInv, Shape
  <2>2. kids \in Seq(Nat) /\ \A i \in DOMAIN kids : kids[i] \in DOMAIN scopes
    BY <1>3, <2>1 DEF Scope, IInv, Tree
  <2> HIDE DEF kids
  <2>3. Len(kids) \in Nat /\ DOMAIN kids = 1..Len(kids) /\ kids = [i \in 1..Len(kids) |-> kids[i]]
    BY <2>2
  <2> QED
    BY <2>2, <2>3
<1>5. /\ scopes[s].kind = "Impl" => targets = impl_target(s) /\ fns = namespace(s, {"fn"})
      /\ scopes[s].kind # "Impl" => targets = {} /\ fns = {}
      /\ fns \subseteq Fns /\ \A f \in fns : decls[f].scope = s
      /\ \A f, g \in fns : decls[f].name = decls[g].name => f = g
  <2>1. fns \subseteq Fns /\ \A f \in fns : decls[f].scope = s
    BY DEF namespace, Fns
  <2>2. \A f, g \in fns : decls[f].name = decls[g].name => f = g
    BY <2>1 DEF IInv, NamesDistinct, Items, Fns
  <2> QED
    BY <2>1, <2>2
<1>6. \A f \in fns, m \in methods : m[1] \in targets => decls[m[2]].name # decls[f].name
  <2> SUFFICES ASSUME NEW f \in fns, NEW m \in methods, m[1] \in targets, decls[m[2]].name = decls[f].name
               PROVE  FALSE
    OBVIOUS
  <2>1. scopes[s].kind = "Impl" /\ ~clash_of_impl(s) /\ f \in namespace(s, {"fn"}) /\ m[1] \in impl_target(s)
    BY <1>1 DEF refused_scope
  <2>2. m \in of_target(s, methods \cup associated_func)
    BY <2>1 DEF of_target
  <2>3. f \in named(namespace(s, {"fn"}), decls[m[2]].name)
    BY <2>1, <1>5 DEF named
  <2> HIDE DEF s
  <2> QED
    BY <2>1, <2>2, <2>3 DEF clash_of_impl
<1>7. scopes[s].kind = "Impl" => targets # {}
  BY <1>1 DEF refused_scope
<1>8. /\ \A x : impl_target(x)' = impl_target(x) /\ namespace(x, {"fn"})' = namespace(x, {"fn"})
      /\ Fns' = Fns
  <2>1. \A x : impl_target(x)' = impl_target(x)
    BY <1>1 DEF impl_target, structs_named, types_named, nearest, named, namespace
  <2> QED
    BY <1>1, <2>1 DEF namespace, Fns
<1>9. \A f : receiver(f)' = receiver(f)
  BY <1>1 DEF receiver
<1> HIDE DEF s, fns, targets, kids, rest
<1>10. ASSUME NEW m \in targets \X fns
       PROVE  m = <<m[1], m[2]>> /\ m[1] \in targets /\ m[2] \in fns
  OBVIOUS
<1>11. OfImpl'
  <2> SUFFICES ASSUME NEW m \in methods'
               PROVE  /\ m = <<m[1], m[2]>> /\ m[2] \in Fns
                      /\ scopes[decls[m[2]].scope].kind = "Impl" /\ m[1] \in impl_target(decls[m[2]].scope)
    BY <1>1, <1>8 DEF OfImpl
  <2>1. CASE m \in methods
    BY <2>1 DEF MInv, OfImpl
  <2>2. CASE m \in targets \X fns
    BY <1>5, <1>10, <2>2
  <2> QED
    BY <1>1, <2>1, <2>2
<1>12. OneOfName'
  <2>1. ASSUME NEW m \in methods', NEW n \in methods', m[1] = n[1], decls[m[2]].name = decls[n[2]].name
        PROVE  m = n
    <3>1. CASE m \in methods /\ n \in methods
      BY <2>1, <3>1 DEF MInv, OneOfName
    <3>2. CASE m \in methods /\ n \in targets \X fns
      BY <1>6, <1>10, <2>1, <3>2
    <3>3. CASE m \in targets \X fns /\ n \in methods
      <4>1. n[1] \in targets /\ m[2] \in fns
        BY <1>10, <2>1, <3>3
      <4> QED
        BY <1>6, <2>1, <3>3, <4>1
    <3>4. CASE m \in targets \X fns /\ n \in targets \X fns
      <4>1. m[2] = n[2]
        BY <1>5, <1>10, <2>1, <3>4
      <4> QED
        BY <1>10, <2>1, <3>4, <4>1
    <3> QED
      BY <1>1, <3>1, <3>2, <3>3, <3>4
  <2>2. associated_func' = {m \in methods' : receiver(m[2]) = "none"}
    <3>1. associated_func = {m \in methods : receiver(m[2]) = "none"}
      BY DEF MInv, OneOfName
    <3>2. \A m \in targets \X fns : m \in targets \X static <=> receiver(m[2]) = "none"
      OBVIOUS
    <3>3. targets \X static \subseteq targets \X fns
      OBVIOUS
    <3> HIDE DEF static
    <3> QED
      BY <1>1, <3>1, <3>2, <3>3
  <2>3. associated_func' = {m \in methods' : receiver(m[2])' = "none"}
    BY <1>9, <2>2
  <2> QED
    BY <1>1, <2>1, <2>3 DEF OneOfName
<1>13. todo' \in Seq(DOMAIN scopes) /\ ToSet(todo) \subseteq {s} \cup ToSet(rest)
       /\ ToSet(todo') = ToSet(kids) \cup ToSet(rest)
  <2>1. todo' \in Seq(DOMAIN scopes)
    BY <1>1, <1>3, <1>4, ConcatProperties
  <2>2. ToSet(todo) \subseteq {s} \cup ToSet(rest)
    BY <1>3 DEF ToSet
  <2>3. ToSet(todo') = ToSet(kids) \cup ToSet(rest)
    <3> DEFINE k == Len(kids)
               r == Len(rest)
    <3>1. /\ DOMAIN todo' = 1..(k + r) /\ k \in Nat /\ r \in Nat
          /\ DOMAIN kids = 1..k /\ DOMAIN rest = 1..r
          /\ \A i \in 1..(k + r) : todo'[i] = IF i <= k THEN kids[i] ELSE rest[i - k]
      BY <1>1, <1>3, <1>4, ConcatProperties
    <3> HIDE DEF k, r
    <3>2. ASSUME NEW x \in ToSet(todo') PROVE x \in ToSet(kids) \cup ToSet(rest)
      <4>1. PICK i \in 1..(k + r) : todo'[i] = x
        BY <3>1 DEF ToSet
      <4>2. CASE i <= k
        <5>1. i \in DOMAIN kids /\ kids[i] = x
          BY <3>1, <4>1, <4>2
        <5> QED
          BY <5>1 DEF ToSet
      <4>3. CASE ~(i <= k)
        <5>1. i - k \in DOMAIN rest /\ rest[i - k] = x
          BY <3>1, <4>1, <4>3
        <5> QED
          BY <5>1 DEF ToSet
      <4> QED
        BY <4>2, <4>3
    <3>3. ASSUME NEW x \in ToSet(kids) PROVE x \in ToSet(todo')
      <4>1. PICK i \in DOMAIN kids : kids[i] = x
        BY DEF ToSet
      <4>2. i \in DOMAIN todo' /\ todo'[i] = x
        BY <3>1, <4>1
      <4> QED
        BY <4>2 DEF ToSet
    <3>4. ASSUME NEW x \in ToSet(rest) PROVE x \in ToSet(todo')
      <4>1. PICK i \in DOMAIN rest : rest[i] = x
        BY DEF ToSet
      <4>2. i + k \in DOMAIN todo' /\ ~(i + k <= k) /\ (i + k) - k = i
        BY <3>1, <4>1
      <4>3. todo'[i + k] = x
        BY <3>1, <4>1, <4>2
      <4> QED
        BY <4>2, <4>3 DEF ToSet
    <3> QED
      BY <3>2, <3>3, <3>4
  <2> QED
    BY <2>1, <2>2, <2>3
<1>14. \A x \in V \cup {s} : entered(x)'
  <2>1. methods \subseteq methods' /\ targets \X fns \subseteq methods'
    BY <1>1
  <2>2. ASSUME NEW x, x = s PROVE entered(x)'
    BY <1>1, <1>5, <1>7, <1>8, <2>1, <2>2 DEF entered
  <2>3. \A x : entered(x) => entered(x)'
    BY <1>1, <1>8, <2>1 DEF entered
  <2> QED
    BY <1>2, <2>2, <2>3 DEF WalkedSoFar
<1>15. ImplsEntered'
  <2>0. PICK W : W = V \cup {s}
    OBVIOUS
  <2>1. \A i \in DOMAIN kids : kids[i] \in ToSet(kids)
    BY DEF ToSet
  <2>2. V \cup ToSet(todo) \subseteq W \cup ToSet(todo')
    BY <1>13, <2>0
  <2>3. 1 \in W \cup ToSet(todo')
    BY <1>2, <2>2 DEF WalkedSoFar
  <2>4. \A x \in W : \A i \in DOMAIN scopes[x].children : scopes[x].children[i] \in W \cup ToSet(todo')
    <3>1. \A x \in V : \A i \in DOMAIN scopes[x].children : scopes[x].children[i] \in W \cup ToSet(todo')
      BY <1>2, <2>2 DEF WalkedSoFar
    <3>2. \A i \in DOMAIN scopes[s].children : scopes[s].children[i] \in ToSet(todo')
      BY <1>13, <2>1 DEF kids
    <3> QED
      BY <2>0, <3>1, <3>2
  <2>5. W \in SUBSET DOMAIN scopes /\ \A x \in W : entered(x)'
    BY <1>2, <1>3, <1>14, <2>0
  <2>6. WalkedSoFar(W)'
    BY <1>1, <2>3, <2>4, <2>5 DEF WalkedSoFar
  <2> QED
    BY <1>1, <1>13, <2>5, <2>6 DEF ImplsEntered, Accepted
<1> QED
  BY <1>11, <1>12, <1>15 DEF MInv

LEMMA TablesChecked ==
  ASSUME IInv, IInv', SInv, TypesDistinct, MInv, Check
  PROVE  MInv'
<1>1. OthersDeclared /\ UNCHANGED <<program, scopes>>
  BY CheckDeclares DEF Check, FinishScopes, RefuseScope, Scope_dfs_and_build_type, AddBuiltins,
     ResolveBodies, NameUnknown, ReceiverUnknown, ResolveName, CheckFnItem, CheckLetStmt, CheckNode,
     unresolved_node, scopeVars
<1>2. CASE Scope_dfs_and_build_type
  BY <1>2, ImplVisited
<1>3. CASE FinishScopes
  <2>1. /\ pass = "scopes" /\ pass' = "types" /\ todo' = <<1>> /\ UNCHANGED <<methods, associated_func>>
    BY <1>3 DEF FinishScopes
  <2>2. OfImpl' /\ OneOfName'
    BY <1>1, <2>1, TablesStay
  <2>3. 1 \in ToSet(todo') /\ todo' \in Seq(DOMAIN scopes')
    BY <1>1, <2>1 DEF ToSet, IInv, Shape
  <2>4. WalkedSoFar({})'
    BY <2>3 DEF WalkedSoFar
  <2> QED
    BY <2>1, <2>2, <2>3, <2>4 DEF MInv, ImplsEntered, Accepted
<1>4. CASE AddBuiltins
  <2>1. pass = "types" /\ todo = << >> /\ pass' \in {"CE", "constants"} /\ UNCHANGED <<methods, associated_func>>
    BY <1>4 DEF AddBuiltins, checkVars, refuse
  <2>2. OfImpl' /\ OneOfName' /\ \A s \in DOMAIN scopes : entered(s) => entered(s)'
    BY <1>1, <2>1, TablesStay
  <2>3. PICK V \in SUBSET DOMAIN scopes : WalkedSoFar(V)
    BY <2>1 DEF MInv, ImplsEntered
  <2>4. ToSet(todo) = {}
    <3>1. DOMAIN todo = {}
      BY <2>1
    <3> QED
      BY <3>1 DEF ToSet
  <2>5. V = DOMAIN scopes
    <3>1. 1 \in V /\ \A s \in V : \A i \in DOMAIN scopes[s].children : scopes[s].children[i] \in V
      BY <2>3, <2>4 DEF WalkedSoFar
    <3> QED
      BY <3>1, ClosedIsAll DEF IInv, SInv
  <2>6. \A s \in DOMAIN scopes' : entered(s)'
    BY <1>1, <2>2, <2>3, <2>5 DEF WalkedSoFar
  <2> QED
    BY <2>1, <2>2, <2>6 DEF MInv, ImplsEntered, Accepted
<1>5. ASSUME UNCHANGED <<methods, associated_func>>,
             \/ pass' \in {"CE", "error"}
             \/ pass \in {"constants", "check"} /\ pass' = "check"
      PROVE  MInv'
  <2>1. OfImpl' /\ OneOfName' /\ \A s \in DOMAIN scopes : entered(s) => entered(s)'
    BY <1>1, <1>5, TablesStay
  <2>2. pass \in {"constants", "check"} => \A s \in DOMAIN scopes : entered(s)
    BY DEF MInv, ImplsEntered, Accepted
  <2> QED
    BY <1>1, <1>5, <2>1, <2>2 DEF MInv, ImplsEntered, Accepted
<1> QED
  BY <1>2, <1>3, <1>4, <1>5 DEF Check, RefuseScope, ResolveBodies, NameUnknown, ReceiverUnknown,
     ResolveName, CheckFnItem, CheckLetStmt, CheckNode, checkVars, refuse, unresolved_node, walking

LEMMA TablesInvariant == Spec => [](IInv /\ SInv /\ TypesDistinct /\ MInv)
<1>1. Init => MInv
  <2> SUFFICES ASSUME Init PROVE MInv
    OBVIOUS
  <2>1. methods = {} /\ associated_func = {} /\ pass = "scopes"
    BY DEF Init, ScopesInit, CheckerInit
  <2> QED
    BY <2>1 DEF MInv, OfImpl, OneOfName, ImplsEntered, Accepted
<1>2. IInv /\ IInv' /\ SInv /\ TypesDistinct /\ MInv /\ [Next]_vars => MInv'
  <2> SUFFICES ASSUME IInv, IInv', SInv, TypesDistinct, MInv, [Next]_vars PROVE MInv'
    OBVIOUS
  <2>1. CASE BuildScopes /\ UNCHANGED <<checkVars, lowerVars>>
    <3>1. pass = "scopes" /\ pass' \in {"scopes", "CE"}
      BY <2>1 DEF BuildScopes, Redefinition, VisitFnItem, VisitBlockExpr, VisitImplItem,
         VisitDeclaration, VisitLeaf, LeaveNode, walking, walk_on, refuse
    <3>2. methods' = {} /\ associated_func' = {}
      BY <2>1, <3>1 DEF checkVars, MInv, ImplsEntered
    <3> QED
      BY <3>1, <3>2 DEF MInv, OfImpl, OneOfName, ImplsEntered, Accepted
  <2>2. CASE Lower \/ Generate
    <3>1. UNCHANGED <<methods, associated_func, program, scopes>> /\ OthersDeclared
      BY <2>2, Settled DEF Lower, FinishCheck, LoweringFails, visit_scope, FinishGlobals,
         Generate, GenFnItem, SkipFnItem, GenFails, GenEnter, GenLeave, GenReturn,
         GenLetStmt, GenIdentifierExpr, GenCallExpr, GenNothing, FinishGen, gen_on, checkVars
    <3>2. pass \in {"check", "globals", "gen"} /\ pass' \in {"error", "globals", "gen", "done"}
      BY <2>2 DEF Lower, FinishCheck, LoweringFails, visit_scope, FinishGlobals,
         Generate, GenFnItem, SkipFnItem, GenFails, GenEnter, GenLeave, GenReturn,
         GenLetStmt, GenIdentifierExpr, GenCallExpr, GenNothing, FinishGen, gen_on, generating, walking
    <3>3. OfImpl' /\ OneOfName' /\ \A s \in DOMAIN scopes : entered(s) => entered(s)'
      BY <3>1, TablesStay
    <3>4. \A s \in DOMAIN scopes : entered(s)
      BY <3>2 DEF MInv, ImplsEntered, Accepted
    <3> QED
      BY <3>1, <3>2, <3>3, <3>4 DEF MInv, ImplsEntered, Accepted
  <2>3. CASE UNCHANGED vars
    <3>1. UNCHANGED <<methods, associated_func, program, scopes, decls, todo, pass>>
      BY <2>3 DEF vars, scopeVars, checkVars
    <3>2. OthersDeclared
      BY <3>1 DEF OthersDeclared, IInv, Shape
    <3>3. OfImpl' /\ OneOfName' /\ \A s \in DOMAIN scopes : entered(s) => entered(s)'
      BY <3>1, <3>2, TablesStay
    <3>4. \A V \in SUBSET DOMAIN scopes : WalkedSoFar(V) => WalkedSoFar(V)'
      BY <3>1, <3>3 DEF WalkedSoFar
    <3> QED
      BY <3>1, <3>3, <3>4 DEF MInv, ImplsEntered, Accepted
  <2> QED
    BY <2>1, <2>2, <2>3, TablesChecked DEF Next
<1> QED
  BY <1>1, <1>2, ScopesInvariant, TypesInvariant, PTL DEF Spec

(***************************************************************************)
(* A function of an impl belongs to the one struct whose name is visible   *)
(* there, and a struct has one function of a name, whatever impls and      *)
(* scopes they come from                                                   *)
(* (semantic_checker.cpp: Scope_dfs_and_build_type).                       *)
(***************************************************************************)
THEOREM TablesOfImpls == Spec => []MethodTables
<1>1. IInv /\ SInv /\ TypesDistinct /\ MInv => MethodTables
  <2> SUFFICES ASSUME IInv, SInv, TypesDistinct, MInv, Accepted PROVE MethodTables
    BY DEF MethodTables
  <2>1. ASSUME NEW f \in DOMAIN decls
        PROVE  {m[1] : m \in {x \in methods : x[2] = f}}
                 = IF decls[f].kind = "fn" /\ scopes[decls[f].scope].kind = "Impl"
                     THEN types_named(scopes[decls[f].scope].impl_struct, decls[f].scope) ELSE {}
    <3> DEFINE s == decls[f].scope
               targets == types_named(scopes[s].impl_struct, s)
    <3>1. CASE decls[f].kind = "fn" /\ scopes[s].kind = "Impl"
      <4>1. s \in DOMAIN scopes /\ f \in namespace(s, {"fn"})
        BY <3>1 DEF SInv, FnPerNode, Fns, namespace
      <4>2. impl_target(s) # {} /\ impl_target(s) \X namespace(s, {"fn"}) \subseteq methods
        BY <3>1, <4>1 DEF MInv, ImplsEntered, entered
      <4>3. impl_target(s) \subseteq targets
        BY DEF impl_target, structs_named
      <4>4. impl_target(s) = targets
        BY <4>1, <4>2, <4>3, OneTypeOfName
      <4> HIDE DEF s, targets
      <4>5. \A t \in targets : <<t, f>> \in methods /\ <<t, f>>[1] = t /\ <<t, f>>[2] = f
        BY <4>1, <4>2, <4>4
      <4>6. \A m \in methods : m[2] = f => m[1] \in targets
        BY <4>4 DEF MInv, OfImpl, s
      <4>7. {m[1] : m \in {x \in methods : x[2] = f}} = targets
        BY <4>5, <4>6
      <4> QED
        BY <3>1, <4>7 DEF s, targets
    <3>2. CASE ~(decls[f].kind = "fn" /\ scopes[s].kind = "Impl")
      <4>1. \A m \in methods : m[2] # f
        BY <3>2 DEF MInv, OfImpl, Fns
      <4> QED
        BY <3>2, <4>1
    <3> QED
      BY <3>1, <3>2
  <2> QED
    BY <2>1 DEF MethodTables, MInv, OneOfName
<1> QED
  BY <1>1, TablesInvariant, PTL
-----------------------------------------------------------------------------
(* Structs that contain themselves *)

(* The structs a field of e has, and a chain of them. *)
contents(e) == structs_named(program[decls[e].node].field, decls[e].scope)
chain(p, d, n) ==
  /\ p \in [0..n -> Structs] /\ p[0] = d
  /\ \A k \in 1..n : p[k] \in contents(p[k - 1])

TypesPlaced == \A d \in TypeDecls : decls[d].scope \in DOMAIN scopes

LEMMA ContentsAreStructs ==
  ASSUME IInv, SInv, TypesDistinct, TypesPlaced, NEW e \in Structs
  PROVE  contents(e) \subseteq Structs
<1>1. decls[e].scope \in DOMAIN scopes
  BY DEF TypesPlaced, TypeDecls, Structs, Types
<1>2. \A x \in types_named(program[decls[e].node].field, decls[e].scope) : x \in TypeDecls
  BY <1>1, OneTypeOfName
<1> QED
  BY <1>2 DEF contents, structs_named, Structs, TypeDecls

(* The equation of the levels of parts. *)
LEMMA PartsByLevel ==
  ASSUME NEW d, NEW n \in Nat
  PROVE  \E f : /\ f[0] = {d} /\ parts(d, n) = f[n]
                /\ \A k \in 1..n : f[k] = UNION {contents(e) : e \in f[k - 1]}
<1> DEFINE step(f, k) == IF k = 0 THEN {d} ELSE UNION {contents(e) : e \in f[k - 1]}
           solves(f, m) == f = [k \in 0..m |-> step(f, k)]
<1>1. ASSUME NEW m \in Nat, \E f : solves(f, m)
      PROVE  \E f : solves(f, m + 1)
  <2>1. PICK f : solves(f, m)
    BY <1>1
  <2> HIDE DEF step
  <2> DEFINE g == [k \in 0..(m + 1) |-> IF k = m + 1 THEN step(f, m + 1) ELSE f[k]]
  <2>2. \A k \in 0..m : g[k] = f[k] /\ f[k] = step(f, k)
    BY <2>1
  <2>3. \A k \in 0..(m + 1) : step(g, k) = step(f, k)
    <3> SUFFICES ASSUME NEW k \in 0..(m + 1) PROVE step(g, k) = step(f, k)
      OBVIOUS
    <3>1. CASE k = 0
      BY <3>1 DEF step
    <3>2. CASE k # 0
      <4>1. k - 1 \in 0..m
        BY <3>2
      <4>2. g[k - 1] = f[k - 1]
        BY <2>2, <4>1
      <4> HIDE DEF g
      <4> QED
        BY <3>2, <4>2 DEF step
    <3> QED
      BY <3>1, <3>2
  <2>4. \A k \in 0..(m + 1) : g[k] = step(f, k)
    <3>1. \A k \in 0..(m + 1) : k # m + 1 => k \in 0..m
      OBVIOUS
    <3>2. g[m + 1] = step(f, m + 1)
      OBVIOUS
    <3> HIDE DEF g
    <3> QED
      BY <2>2, <3>1, <3>2
  <2>5. g = [k \in 0..(m + 1) |-> step(g, k)]
    BY <2>3, <2>4
  <2> QED
    BY <2>5
<1>2. \A m \in Nat : \E f : solves(f, m)
  <2> HIDE DEF solves
  <2> SUFFICES ASSUME NEW m \in Nat, ~\E f : solves(f, m) PROVE FALSE
    OBVIOUS
  <2> DEFINE T == {k \in Nat : ~\E f : solves(f, k)}
  <2>1. T \in SUBSET Nat /\ T # {}
    OBVIOUS
  <2>2. PICK k \in T : \A j \in T : k <= j
    BY <2>1, Least
  <2>3. k # 0
    <3>1. solves([j \in 0..0 |-> {d}], 0)
      BY DEF solves
    <3> QED
      BY <2>2, <3>1
  <2>4. k - 1 \in Nat /\ k - 1 \notin T /\ (k - 1) + 1 = k
    BY <2>1, <2>2, <2>3
  <2>5. \E f : solves(f, k - 1)
    BY <2>4
  <2>6. \E f : solves(f, (k - 1) + 1)
    BY <1>1, <2>4, <2>5
  <2> QED
    BY <2>2, <2>4, <2>6
<1> DEFINE contained == CHOOSE f : f = [k \in 0..n |-> step(f, k)]
<1>3. contained = [k \in 0..n |-> step(contained, k)]
  <2>1. \E f : solves(f, n)
    BY <1>2, Zenon
  <2> QED
    BY <2>1, Zenon
<1>4. parts(d, n) = contained[n]
  BY DEF parts, contents
<1> HIDE DEF contained
<1>5. contained[0] = {d} /\ \A k \in 1..n : contained[k] = UNION {contents(e) : e \in contained[k - 1]}
  <2>1. \A k \in 0..n : contained[k] = step(contained, k)
    <3> HIDE DEF step
    <3> QED
      BY <1>3, Zenon
  <2>2. 0 \in 0..n /\ \A k \in 1..n : k \in 0..n /\ k # 0
    OBVIOUS
  <2> QED
    BY <2>1, <2>2
<1> QED
  BY <1>4, <1>5

(* A part n levels deep is at the end of a chain. *)
LEMMA PartsAreChained ==
  ASSUME IInv, SInv, TypesDistinct, TypesPlaced, NEW d \in Structs, NEW n \in Nat, parts(d, n) # {}
  PROVE  \E p : chain(p, d, n)
<1>1. PICK f : /\ f[0] = {d} /\ parts(d, n) = f[n]
               /\ \A k \in 1..n : f[k] = UNION {contents(e) : e \in f[k - 1]}
  BY PartsByLevel
<1> DEFINE reached(k) == \A e \in f[k] : \E p : chain(p, d, k) /\ p[k] = e
<1>2. reached(0)
  <2> SUFFICES ASSUME NEW e \in f[0] PROVE \E p : chain(p, d, 0) /\ p[0] = e
    OBVIOUS
  <2>1. chain([k \in 0..0 |-> d], d, 0) /\ [k \in 0..0 |-> d][0] = e
    BY <1>1 DEF chain
  <2> QED
    BY <2>1
<1>3. ASSUME NEW k \in 1..n, reached(k - 1)
      PROVE  reached(k)
  <2> SUFFICES ASSUME NEW e \in f[k] PROVE \E p : chain(p, d, k) /\ p[k] = e
    OBVIOUS
  <2>1. PICK x \in f[k - 1] : e \in contents(x)
    BY <1>1
  <2>2. PICK p : chain(p, d, k - 1) /\ p[k - 1] = x
    BY <1>3, <2>1
  <2>3. k \in Nat /\ k - 1 \in Nat
    OBVIOUS
  <2>4. x \in Structs
    BY <2>2, <2>3 DEF chain
  <2>5. e \in Structs
    BY <2>1, <2>4, ContentsAreStructs
  <2> DEFINE q == [i \in 0..k |-> IF i = k THEN e ELSE p[i]]
  <2>6. \A i \in 0..(k - 1) : q[i] = p[i]
    BY <2>3
  <2>7. q[k] = e
    BY <2>3
  <2>8. q \in [0..k -> Structs]
    BY <2>2, <2>3, <2>5 DEF chain
  <2>9. \A i \in 1..k : q[i] \in contents(q[i - 1])
    <3> SUFFICES ASSUME NEW i \in 1..k PROVE q[i] \in contents(q[i - 1])
      OBVIOUS
    <3> HIDE DEF q
    <3>1. i - 1 \in 0..(k - 1)
      BY <2>3
    <3>2. CASE i = k
      BY <2>1, <2>2, <2>6, <2>7, <3>1, <3>2
    <3>3. CASE i # k
      <4>1. i \in 1..(k - 1) /\ i \in 0..(k - 1)
        BY <2>3, <3>3
      <4> QED
        BY <2>2, <2>6, <3>1, <4>1 DEF chain
    <3> QED
      BY <3>2, <3>3
  <2>10. q[0] = d
    <3>1. 0 \in 0..(k - 1)
      BY <2>3
    <3> QED
      BY <2>2, <2>6, <3>1 DEF chain
  <2> HIDE DEF q
  <2> QED
    BY <2>7, <2>8, <2>9, <2>10 DEF chain
<1>4. reached(n)
  <2> HIDE DEF reached
  <2> DEFINE T == {k \in 0..n : ~reached(k)}
  <2>0. n \in 0..n
    OBVIOUS
  <2> SUFFICES ASSUME T # {} PROVE FALSE
    BY <2>0, Zenon
  <2>1. T \in SUBSET Nat
    OBVIOUS
  <2>2. PICK k \in T : \A j \in T : k <= j
    BY <2>1, Least
  <2>3. k \in 1..n
    BY <1>2, <2>2
  <2>4. k - 1 \in 0..n /\ ~(k <= k - 1)
    BY <2>3
  <2>5. reached(k - 1)
    BY <2>2, <2>4
  <2> QED
    BY <1>3, <2>2, <2>3, <2>5
<1>5. PICK e : e \in f[n]
  BY <1>1
<1> QED
  BY <1>4, <1>5

(* Some struct is twice on a chain longer than the structs are many. *)
LEMMA CyclicContainsItself ==
  ASSUME IInv, SInv, TypesDistinct, TypesPlaced, NEW d \in Structs, cyclic(d)
  PROVE  contains_itself
<1> DEFINE n == Len(decls)
<1>1. n \in Nat /\ DOMAIN decls = 1..n /\ Structs \subseteq 1..n
  BY DEF IInv, Shape, Structs
<1>2. PICK p : chain(p, d, n)
  BY <1>1, PartsAreChained DEF cyclic
<1> HIDE DEF n
<1>3. PICK i, j \in 0..n : i # j /\ p[i] = p[j]
  <2>1. /\ IsFiniteSet(0..n) /\ Cardinality(0..n) = n + 1
        /\ IsFiniteSet(1..n) /\ Cardinality(1..n) = n
    BY <1>1, FS_Interval
  <2>2. p \in [0..n -> 1..n]
    BY <1>1, <1>2 DEF chain
  <2>3. Cardinality(1..n) < Cardinality(0..n)
    BY <1>1, <2>1
  <2> QED
    BY <2>1, <2>2, <2>3, FS_PigeonHole
<1>4. ASSUME NEW a \in 0..n, NEW b \in 0..n, a < b, p[a] = p[b]
      PROVE  contains_itself
  <2> DEFINE C == {p[k] : k \in a..(b - 1)}
  <2>1. \A k \in a..(b - 1) : k \in 0..n /\ k + 1 \in 1..n /\ (k + 1) - 1 = k
    BY <1>1, <1>4
  <2>2. C \in (SUBSET Structs) \ {{}}
    <3>1. C \subseteq Structs
      BY <1>2, <2>1 DEF chain
    <3>2. p[a] \in C
      BY <1>4
    <3> QED
      BY <3>1, <3>2
  <2>3. \A x \in C : contents(x) \cap C # {}
    <3> SUFFICES ASSUME NEW k \in a..(b - 1) PROVE contents(p[k]) \cap C # {}
      OBVIOUS
    <3>1. p[k + 1] \in contents(p[k])
      BY <1>2, <2>1 DEF chain
    <3>2. p[k + 1] \in C
      <4>1. CASE k = b - 1
        BY <1>4, <4>1
      <4>2. CASE k # b - 1
        <5>1. k + 1 \in a..(b - 1)
          BY <1>4, <4>2
        <5> QED
          BY <5>1
      <4> QED
        BY <4>1, <4>2
    <3> QED
      BY <3>1, <3>2
  <2> HIDE DEF C
  <2> QED
    BY <2>2, <2>3 DEF contains_itself, contents
<1>5. i < j \/ j < i
  BY <1>3
<1> QED
  BY <1>3, <1>4, <1>5
-----------------------------------------------------------------------------
(* Why a program fails to compile *)

LEMMA TypesPlacedInvariant == Spec => []TypesPlaced
<1>1. Init => TypesPlaced
  BY DEF Init, ScopesInit, TypesPlaced, TypeDecls
<1>2. IInv /\ IInv' /\ TypesPlaced /\ [Next]_vars => TypesPlaced'
  <2> SUFFICES ASSUME IInv, IInv', TypesPlaced, [Next]_vars PROVE TypesPlaced'
    OBVIOUS
  <2>1. CASE OthersDeclared /\ UNCHANGED scopes
    BY <2>1, TypesStay DEF TypesPlaced
  <2>2. CASE UNCHANGED vars
    BY <2>2 DEF vars, scopeVars, TypesPlaced, TypeDecls
  <2>3. CASE BuildScopes
    <3>1. decls \in Seq(Declaration) /\ current_scope \in DOMAIN scopes
      BY CurrentScope DEF IInv, Shape
    <3>2. DOMAIN scopes \subseteq DOMAIN scopes'
      <4>1. CASE UNCHANGED scopes
        BY <4>1
      <4>2. ASSUME NEW kind \in ScopeKinds, NEW impl \in AnyName, push_scope(kind, impl)
            PROVE  DOMAIN scopes \subseteq DOMAIN scopes'
        BY <4>2, PushKeepsTree DEF IInv, Shape
      <4>3. /\ "Function" \in ScopeKinds /\ "Block" \in ScopeKinds /\ "Impl" \in ScopeKinds
            /\ NoName \in AnyName
            /\ VisitImplItem => node.name \in AnyName
        BY NodeOfWalk DEF ScopeKinds, AnyName, VisitImplItem, walking, IInv, Shape
      <4> QED
        BY <2>3, <4>1, <4>2, <4>3 DEF BuildScopes, Redefinition, VisitFnItem, VisitBlockExpr, VisitImplItem,
           VisitDeclaration, VisitLeaf, LeaveNode, scopeVars
    <3>3. UNCHANGED decls \/ \E e : decls' = Append(decls, e) /\ e.scope = current_scope
      <4>1. \A k, x, n, i : declaration(k, x, current_scope, n, i).scope = current_scope
        BY DEF declaration
      <4> HIDE DEF declaration
      <4> QED
        BY <2>3, <4>1 DEF BuildScopes, Redefinition, VisitFnItem, VisitBlockExpr, VisitImplItem,
           VisitDeclaration, VisitLeaf, LeaveNode, scopeVars
    <3>4. CASE UNCHANGED decls
      BY <3>2, <3>4 DEF TypesPlaced, TypeDecls
    <3>5. ASSUME NEW e, decls' = Append(decls, e), e.scope = current_scope PROVE TypesPlaced'
      <4> DEFINE n == Len(decls)
      <4>1. /\ DOMAIN decls' = DOMAIN decls \cup {n + 1}
            /\ \A d \in DOMAIN decls : decls'[d] = decls[d]
            /\ decls'[n + 1] = e
        BY <3>1, <3>5, AppendDeclares
      <4> HIDE DEF n
      <4> QED
        BY <3>1, <3>2, <3>5, <4>1 DEF TypesPlaced, TypeDecls
    <3> QED
      BY <3>3, <3>4, <3>5
  <2> QED
    BY <2>1, <2>2, <2>3, Settled DEF Next
<1> QED
  BY <1>1, <1>2, ScopesInvariant, PTL DEF Spec

(* The structs and constants lowered are those of the scopes visited. *)
CachesFollowWalk ==
  /\ pass \in Early => struct_cache = {} /\ globals = {}
  /\ pass = "globals" =>
       /\ \A e \in struct_cache : e \in Structs /\ decls[e].scope \in Visited
       /\ \A x \in globals : \E e \in DOMAIN decls :
            decls[e].kind = "const" /\ decls[e].scope \in Visited /\ symbol(e) = x

LEMMA CachesVisited ==
  ASSUME IInv, CachesFollowWalk, visit_scope
  PROVE  CachesFollowWalk'
<1> DEFINE s == Head(todo)
<1>1. /\ pass = "globals" /\ UNCHANGED <<decls, pass>>
      /\ struct_cache' = struct_cache \cup namespace(s, {"struct"})
      /\ globals' = globals \cup {symbol(d) : d \in namespace(s, {"const"})}
  BY DEF visit_scope, scopeVars
<1>2. Visited \cup {s} \subseteq Visited' /\ s \in DOMAIN suffix /\ \A t \in DOMAIN suffix : suffix'[t] = suffix[t]
  BY VisitStep, VisitReaches
<1>3. \A d \in DOMAIN decls : decls[d].scope \in DOMAIN suffix => symbol(d)' = symbol(d)
  BY <1>1, <1>2 DEF symbol
<1>4. Visited \subseteq DOMAIN suffix
  BY DEF Visited
<1>5. \A e \in struct_cache' : e \in Structs' /\ decls'[e].scope \in Visited'
  BY <1>1, <1>2 DEF CachesFollowWalk, namespace, Structs
<1>6. ASSUME NEW x \in globals'
      PROVE  \E e \in DOMAIN decls' : decls'[e].kind = "const" /\ decls'[e].scope \in Visited' /\ symbol(e)' = x
  <2>1. CASE x \in globals
    <3>1. PICK e \in DOMAIN decls : decls[e].kind = "const" /\ decls[e].scope \in Visited /\ symbol(e) = x
      BY <1>1, <2>1 DEF CachesFollowWalk
    <3> QED
      BY <1>1, <1>2, <1>3, <1>4, <3>1
  <2>2. CASE x \notin globals
    <3>1. PICK e \in namespace(s, {"const"}) : symbol(e) = x
      BY <1>1, <1>6, <2>2
    <3>2. e \in DOMAIN decls /\ decls[e].kind = "const" /\ decls[e].scope = s
      BY <3>1 DEF namespace
    <3> QED
      BY <1>1, <1>2, <1>3, <3>1, <3>2
  <2> QED
    BY <2>1, <2>2
<1> QED
  BY <1>1, <1>5, <1>6 DEF CachesFollowWalk, Early

LEMMA CachesInvariant == Spec => []CachesFollowWalk
<1>1. Init => CachesFollowWalk
  BY DEF Init, ScopesInit, CachesFollowWalk
<1>2. IInv /\ CachesFollowWalk /\ [Next]_vars => CachesFollowWalk'
  <2> SUFFICES ASSUME IInv, CachesFollowWalk, [Next]_vars PROVE CachesFollowWalk'
    OBVIOUS
  <2>1. CASE (BuildScopes /\ UNCHANGED <<checkVars, lowerVars>>) \/ (Check /\ UNCHANGED lowerVars)
    <3>1. pass \in Early /\ pass' # "globals"
      BY <2>1 DEF BuildScopes, Redefinition, VisitFnItem, VisitBlockExpr, VisitImplItem,
         VisitDeclaration, VisitLeaf, LeaveNode, walking, walk_on, refuse, Check, FinishScopes, RefuseScope,
         Scope_dfs_and_build_type, AddBuiltins, ResolveBodies, NameUnknown, ReceiverUnknown, ResolveName,
         CheckFnItem, CheckLetStmt, CheckNode, unresolved_node, Early
    <3>2. struct_cache' = {} /\ globals' = {}
      BY <2>1, <3>1 DEF CachesFollowWalk, lowerVars
    <3> QED
      BY <3>1, <3>2 DEF CachesFollowWalk
  <2>2. CASE FinishCheck
    <3>1. pass = "check" /\ pass' = "globals" /\ UNCHANGED <<struct_cache, globals>>
      BY <2>2 DEF FinishCheck
    <3> QED
      BY <3>1 DEF CachesFollowWalk, Early
  <2>3. CASE LoweringFails \/ FinishGlobals \/ Generate
    <3>1. pass' \in {"error", "gen", "done"}
      BY <2>3 DEF LoweringFails, FinishGlobals,
         Generate, GenFnItem, SkipFnItem, GenFails, GenEnter, GenLeave, GenReturn,
         GenLetStmt, GenIdentifierExpr, GenCallExpr, GenNothing, FinishGen, gen_on, generating, walking
    <3> QED
      BY <3>1 DEF CachesFollowWalk, Early
  <2>4. CASE UNCHANGED vars
    <3>1. UNCHANGED <<pass, struct_cache, globals, decls, suffix, todo>>
      BY <2>4 DEF vars, scopeVars, checkVars, lowerVars
    <3>2. Visited' = Visited /\ Structs' = Structs /\ \A d : symbol(d)' = symbol(d)
      BY <3>1 DEF Visited, Structs, symbol
    <3> QED
      BY <3>1, <3>2 DEF CachesFollowWalk
  <2> QED
    BY <2>1, <2>2, <2>3, <2>4, CachesVisited DEF Next, Lower
<1> QED
  BY <1>1, <1>2, ScopesInvariant, PTL DEF Spec

LEMMA LookupsFixed ==
  ASSUME UNCHANGED <<scopes, decls>>
  PROVE  /\ \A name, s : types_named(name, s)' = types_named(name, s)
         /\ \A name, s : structs_named(name, s)' = structs_named(name, s)
BY DEF structs_named, types_named, nearest, named, namespace

(* The globals of a scope are refused for two reasons. *)
LEMMA RefusedGlobals ==
  ASSUME IInv, SInv, TypesDistinct, TypesPlaced, CachesFollowWalk,
         pass = "globals", todo # << >>, refused_globals(Head(todo))
  PROVE  repeated_struct \/ contains_itself
<1> DEFINE s == Head(todo)
<1>1. s \in DOMAIN suffix /\ s \notin Visited
  <2>1. todo \in Seq(DOMAIN suffix)
    BY DEF IInv, PathOfParent
  <2>2. s = todo[1] /\ 1 \in DOMAIN todo
    BY <2>1
  <2>3. todo[1] \in DOMAIN suffix
    BY <2>1, <2>2, ElementOfSeq
  <2> QED
    BY <2>2, <2>3 DEF Visited
<1> HIDE DEF s
<1>2. ASSUME NEW d \in namespace(s, {"struct"}), refused_struct(d)
      PROVE  repeated_struct \/ contains_itself
  <2>1. d \in Structs /\ decls[d].scope = s
    BY DEF namespace, Structs
  <2>2. CASE decls[d].name \in BuiltinTypes
    BY <2>1, <2>2 DEF repeated_struct
  <2>3. CASE \E e \in struct_cache : decls[e].name = decls[d].name
    <3>1. PICK e \in struct_cache : decls[e].name = decls[d].name
      BY <2>3
    <3>2. e \in Structs /\ decls[e].scope \in Visited
      BY DEF CachesFollowWalk
    <3>3. e # d
      BY <1>1, <2>1, <3>2
    <3> QED
      BY <2>1, <3>1, <3>2, <3>3 DEF repeated_struct
  <2>4. CASE cyclic(d)
    BY <2>1, <2>4, CyclicContainsItself
  <2> QED
    BY <1>2, <2>2, <2>3, <2>4 DEF refused_struct, lowered_names
<1>3. ASSUME NEW d \in namespace(s, {"const"}), symbol(d) \in globals
      PROVE  FALSE
  <2>1. d \in DOMAIN decls /\ decls[d].kind = "const" /\ decls[d].scope = s
    BY DEF namespace
  <2>2. PICK e \in DOMAIN decls : decls[e].kind = "const" /\ decls[e].scope \in Visited /\ symbol(e) = symbol(d)
    BY <1>3 DEF CachesFollowWalk
  <2>3. d \in Lowered /\ e \in Lowered
    BY <1>1, <2>1, <2>2 DEF Lowered, Visited
  <2>4. d = e
    BY <2>2, <2>3, SymbolsApart DEF SymbolsUnique
  <2> QED
    BY <1>1, <2>1, <2>2, <2>4
<1> QED
  BY <1>2, <1>3 DEF refused_globals, s

(* The item of a function has no body when the walk comes to it. *)
LEMMA NoBodyYet ==
  ASSUME IInv, SInv, LInv, pass = "gen", at \in DOMAIN program, node.op = "fn"
  PROVE  ~has_body(fn_decl)
<1> SUFFICES ASSUME NEW g \in functions, g.symbol = symbol(fn_decl) PROVE g.body = 0
  BY DEF has_body
<1>1. fn_decl \in Fns /\ decls[fn_decl].node = at
  BY FnHere
<1>2. ~(at < at)
  BY DEF IInv, Shape
<1> QED
  BY <1>1, <1>2 DEF LInv, BodiesFollowWalk

(***************************************************************************)
(* An accepted program fails to compile only for the reasons               *)
(* FailuresKnown lists: no constant is created twice, no function lowered  *)
(* twice, and a struct that is refused for its parts contains itself       *)
(* (GlobalLoweringDriver, FunctionLowering, type_lowering.cpp).            *)
(***************************************************************************)
THEOREM FailuresAreKnown == Spec => []FailuresKnown
<1>1. Init => FailuresKnown
  BY DEF Init, ScopesInit, FailuresKnown
<1>2. IInv /\ SInv /\ NamesResolved /\ LInv /\ TypesDistinct /\ TypesPlaced /\ CachesFollowWalk
        /\ FailuresKnown /\ [Next]_vars => FailuresKnown'
  <2> SUFFICES ASSUME IInv, SInv, NamesResolved, LInv, TypesDistinct, TypesPlaced, CachesFollowWalk,
                      FailuresKnown, [Next]_vars, pass' = "error"
               PROVE  FailuresKnown'
    BY DEF FailuresKnown
  <2>1. \/ ReceiverUnknown /\ UNCHANGED lowerVars
        \/ LoweringFails \/ GenFails \/ UNCHANGED vars
    BY DEF Next, BuildScopes, Redefinition, VisitFnItem, VisitBlockExpr, VisitImplItem,
       VisitDeclaration, VisitLeaf, LeaveNode, walking, walk_on, refuse, Check, FinishScopes, RefuseScope,
       Scope_dfs_and_build_type, AddBuiltins, ResolveBodies, NameUnknown, ResolveName,
       CheckFnItem, CheckLetStmt, CheckNode, unresolved_node,
       Lower, FinishCheck, visit_scope, FinishGlobals,
       Generate, GenFnItem, SkipFnItem, GenEnter, GenLeave, GenReturn,
       GenLetStmt, GenIdentifierExpr, GenCallExpr, GenNothing, FinishGen, gen_on, generating
  <2>2. UNCHANGED <<program, at, scopes, decls, node_scope_map, methods, associated_func, resolved>>
    BY <2>1 DEF ReceiverUnknown, LoweringFails, GenFails, vars, scopeVars, checkVars
  <2>3. Structs' = Structs /\ (repeated_struct => repeated_struct')
    BY <2>2 DEF Structs, repeated_struct
  <2>4. contains_itself => contains_itself'
    <3>1. \A name, s : structs_named(name, s)' = structs_named(name, s)
      BY <2>2, LookupsFixed
    <3> QED
      BY <2>2, <2>3, <3>1 DEF contains_itself
  <2>5. no_receiver => no_receiver'
    <3> SUFFICES ASSUME node.op = "method", \E f \in candidates : receiver(f) = "none" PROVE no_receiver'
      BY DEF no_receiver
    <3>1. candidates = in_table(methods)
      BY DEF candidates
    <3>2. candidates' = in_table(methods)'
      BY <2>2 DEF candidates, node
    <3>3. in_table(methods)' = in_table(methods)
      <4>1. \A name, s : types_named(name, s)' = types_named(name, s)
        BY <2>2, LookupsFixed
      <4> QED
        BY <2>2, <4>1 DEF in_table, here, node
    <3>4. \A f : receiver(f)' = receiver(f)
      BY <2>2 DEF receiver
    <3> QED
      BY <2>2, <3>1, <3>2, <3>3, <3>4 DEF no_receiver, node
  <2>6. bare_method => bare_method'
    BY <2>2 DEF bare_method, node, receiver
  <2>7. \/ repeated_struct
        \/ contains_itself
        \/ at \in DOMAIN program /\ (no_receiver \/ (at \in DOMAIN resolved /\ bare_method))
    <3>1. CASE ReceiverUnknown
      BY <3>1 DEF ReceiverUnknown, walking
    <3>2. CASE LoweringFails
      BY <3>2, RefusedGlobals DEF LoweringFails
    <3>3. CASE GenFails
      <4>1. pass = "gen" /\ at \in DOMAIN program
        BY <3>3 DEF GenFails, generating, walking
      <4>2. bare_method
        BY <3>3, <4>1, NoBodyYet DEF GenFails, lowering_throws
      <4>3. at \in DOMAIN resolved
        BY <4>1 DEF NamesResolved, IInv, Shape
      <4> QED
        BY <4>1, <4>2, <4>3
    <3>4. CASE UNCHANGED vars
      BY <3>4 DEF vars, FailuresKnown
    <3> QED
      BY <2>1, <3>1, <3>2, <3>3, <3>4
  <2> QED
    BY <2>2, <2>3, <2>4, <2>5, <2>6, <2>7 DEF FailuresKnown
<1> QED
  BY <1>1, <1>2, ScopesInvariant, NamesInvariant, FunctionsInvariant, TypesInvariant,
     TypesPlacedInvariant, CachesInvariant, PTL DEF Spec
-----------------------------------------------------------------------------
(* Counting in the text of a program *)

count(S, m, n) == Cardinality(S \cap (m..n))

LEMMA CountSplit ==
  ASSUME NEW S, NEW m \in Nat, NEW n \in Nat, NEW j \in Nat, m <= j, j <= n + 1
  PROVE  /\ count(S, m, n) \in Nat /\ count(S, m, j - 1) \in Nat /\ count(S, j, n) \in Nat
         /\ count(S, m, n) = count(S, m, j - 1) + count(S, j, n)
<1> DEFINE A == S \cap (m..(j - 1))
           B == S \cap (j..n)
<1>1. m..n = (m..(j - 1)) \cup (j..n) /\ (m..(j - 1)) \cap (j..n) = {} /\ j \in Int
  OBVIOUS
<1>2. S \cap (m..n) = A \cup B /\ A \cap B = {}
  BY <1>1
<1>3. IsFiniteSet(A) /\ IsFiniteSet(B)
  <2>1. IsFiniteSet(m..(j - 1)) /\ IsFiniteSet(j..n)
    BY <1>1, FS_Interval
  <2> QED
    BY <2>1, FS_Subset
<1> HIDE DEF A, B
<1>4. Cardinality(A \cup B) = Cardinality(A) + Cardinality(B) - Cardinality({}) /\ IsFiniteSet(A \cup B)
  BY <1>2, <1>3, FS_Union
<1>5. Cardinality({}) = 0 /\ Cardinality(A) \in Nat /\ Cardinality(B) \in Nat
  BY <1>3, FS_EmptySet, FS_CardinalityType
<1>6. Cardinality(S \cap (m..n)) = Cardinality(A) + Cardinality(B)
  <2>1. Cardinality(S \cap (m..n)) = Cardinality(A \cup B)
    BY <1>2, Zenon
  <2> QED
    BY <1>4, <1>5, <2>1
<1>7. Cardinality(S \cap (m..n)) \in Nat
  BY <1>5, <1>6
<1>8. Cardinality(A) \in Nat /\ Cardinality(B) \in Nat /\ Cardinality(S \cap (m..n)) \in Nat
      /\ Cardinality(S \cap (m..n)) = Cardinality(A) + Cardinality(B)
  BY <1>5, <1>6, <1>7, Zenon
<1> QED
  BY <1>8, Zenon DEF A, B, count

LEMMA CountOne ==
  ASSUME NEW S, NEW n \in Nat
  PROVE  count(S, n, n) = IF n \in S THEN 1 ELSE 0
<1>1. n..n = {n}
  OBVIOUS
<1>2. CASE n \in S
  <2>1. S \cap (n..n) = {n}
    BY <1>1, <1>2
  <2> QED
    BY <1>2, <2>1, FS_Singleton DEF count
<1>3. CASE n \notin S
  <2>1. S \cap (n..n) = {}
    BY <1>1, <1>3
  <2> QED
    BY <1>3, <2>1, FS_EmptySet DEF count
<1> QED
  BY <1>2, <1>3

(* Depth adds up along the text. *)
(* Depth adds up along the text. *)
LEMMA DepthCounts ==
  \E A, B : \A m \in Nat, n \in Int :
    /\ Depth(m, n) = count(A, m, n) - count(B, m, n)
    /\ m \in A <=> opens(m)
    /\ m \in B <=> program[m].op = "end"
<1> DEFINE A == {k \in Nat : opens(k)}
           B == {k \in Nat : program[k].op = "end"}
<1>1. ASSUME NEW m \in Nat, NEW n \in Int
      PROVE  Depth(m, n) = count(A, m, n) - count(B, m, n)
  <2>1. \A k \in m..n : k \in Nat
    OBVIOUS
  <2>2. {k \in m..n : opens(k)} = A \cap (m..n)
    BY <2>1, Zenon
  <2>3. {k \in m..n : program[k].op = "end"} = B \cap (m..n)
    BY <2>1, Zenon
  <2> QED
    BY <2>2, <2>3, Zenon DEF Depth, count
<1>2. \A m \in Nat : (m \in A <=> opens(m)) /\ (m \in B <=> program[m].op = "end")
  BY Zenon
<1> HIDE DEF A, B
<1> QED
  BY <1>1, <1>2, Zenon

LEMMA DepthAdds ==
  ASSUME NEW m \in Nat, NEW n \in Nat, NEW j \in Nat, m <= j, j <= n + 1
  PROVE  /\ Depth(m, n) \in Int /\ Depth(m, j - 1) \in Int /\ Depth(j, n) \in Int
         /\ Depth(m, n) = Depth(m, j - 1) + Depth(j, n)
<1>1. PICK A, B : \A x \in Nat, y \in Int : Depth(x, y) = count(A, x, y) - count(B, x, y)
  BY DepthCounts, Zenon
<1>2. j - 1 \in Int /\ n \in Int
  OBVIOUS
<1>3. /\ Depth(m, n) = count(A, m, n) - count(B, m, n)
      /\ Depth(m, j - 1) = count(A, m, j - 1) - count(B, m, j - 1)
      /\ Depth(j, n) = count(A, j, n) - count(B, j, n)
  BY <1>1, <1>2, Zenon
<1>4. /\ count(A, m, n) \in Nat /\ count(A, m, j - 1) \in Nat /\ count(A, j, n) \in Nat
      /\ count(A, m, n) = count(A, m, j - 1) + count(A, j, n)
  BY CountSplit
<1>5. /\ count(B, m, n) \in Nat /\ count(B, m, j - 1) \in Nat /\ count(B, j, n) \in Nat
      /\ count(B, m, n) = count(B, m, j - 1) + count(B, j, n)
  BY CountSplit
<1> QED
  BY <1>3, <1>4, <1>5

LEMMA DepthOne ==
  ASSUME NEW n \in Nat
  PROVE  /\ opens(n) => Depth(n, n) = 1
         /\ program[n].op = "end" => Depth(n, n) = 0 - 1
         /\ ~opens(n) /\ program[n].op # "end" => Depth(n, n) = 0
<1>1. PICK A, B : \A x \in Nat, y \in Int :
                   /\ Depth(x, y) = count(A, x, y) - count(B, x, y)
                   /\ x \in A <=> opens(x)
                   /\ x \in B <=> program[x].op = "end"
  BY DepthCounts, Zenon
<1>2. count(A, n, n) = (IF n \in A THEN 1 ELSE 0) /\ count(B, n, n) = (IF n \in B THEN 1 ELSE 0)
  BY CountOne
<1>3. Depth(n, n) = count(A, n, n) - count(B, n, n) /\ (n \in A <=> opens(n)) /\ (n \in B <=> program[n].op = "end")
  BY <1>1
<1>4. ~(opens(n) /\ program[n].op = "end")
  BY DEF opens
<1> QED
  BY <1>2, <1>3, <1>4

(* The number a scope gets: scopes are made in the order of the text.      *)
scope_of(m) == 1 + count({k \in Nat : makes_scope(k)}, 1, m)

LEMMA ScopeOfStep ==
  ASSUME NEW n \in Nat
  PROVE  /\ scope_of(n) \in Nat /\ scope_of(n) >= 1
         /\ n > 0 => scope_of(n) = scope_of(n - 1) + IF makes_scope(n) THEN 1 ELSE 0
         /\ n = 0 => scope_of(n) = 1
<1> DEFINE A == {k \in Nat : makes_scope(k)}
<1>1. scope_of(n) = 1 + count(A, 1, n) /\ scope_of(n - 1) = 1 + count(A, 1, n - 1) /\ (n \in A <=> makes_scope(n))
  BY DEF scope_of
<1> HIDE DEF A
<1>2. CASE n = 0
  <2>1. A \cap (1..n) = {}
    BY <1>2
  <2>2. count(A, 1, n) = 0
    BY <2>1, FS_EmptySet DEF count
  <2> QED
    BY <1>1, <1>2, <2>2
<1>3. CASE n > 0
  <2>1. /\ count(A, 1, n) \in Nat /\ count(A, 1, n - 1) \in Nat /\ count(A, n, n) \in Nat
        /\ count(A, 1, n) = count(A, 1, n - 1) + count(A, n, n)
    BY <1>3, CountSplit
  <2>2. count(A, n, n) = IF n \in A THEN 1 ELSE 0
    BY CountOne
  <2> QED
    BY <1>1, <1>3, <2>1, <2>2
<1> QED
  BY <1>2, <1>3

LEMMA ScopeOfGrows ==
  ASSUME NEW a \in Nat, NEW b \in Nat, a <= b
  PROVE  scope_of(a) <= scope_of(b) /\ (a < b /\ makes_scope(b) => scope_of(a) < scope_of(b))
<1> DEFINE A == {k \in Nat : makes_scope(k)}
<1>1. \A n \in Nat : scope_of(n) = 1 + count(A, 1, n)
  BY DEF scope_of
<1> HIDE DEF A
<1>2. \A x, y \in Nat : x <= y => scope_of(x) <= scope_of(y)
  <2> SUFFICES ASSUME NEW x \in Nat, NEW y \in Nat, x <= y PROVE scope_of(x) <= scope_of(y)
    OBVIOUS
  <2>1. x + 1 \in Nat /\ (x + 1) - 1 = x /\ 1 <= x + 1 /\ x + 1 <= y + 1
    OBVIOUS
  <2>2. /\ count(A, 1, y) \in Nat /\ count(A, 1, x) \in Nat /\ count(A, x + 1, y) \in Nat
        /\ count(A, 1, y) = count(A, 1, x) + count(A, x + 1, y)
    <3>1. \A j \in Nat : 1 <= j /\ j <= y + 1 =>
            /\ count(A, 1, y) \in Nat /\ count(A, 1, j - 1) \in Nat /\ count(A, j, y) \in Nat
            /\ count(A, 1, y) = count(A, 1, j - 1) + count(A, j, y)
      BY CountSplit
    <3> QED
      BY <2>1, <3>1
  <2> QED
    BY <1>1, <2>2
<1>3. ASSUME a < b, makes_scope(b) PROVE scope_of(a) < scope_of(b)
  <2>1. b - 1 \in Nat /\ a <= b - 1 /\ b > 0
    BY <1>3
  <2>2. scope_of(a) <= scope_of(b - 1)
    BY <1>2, <2>1
  <2>3. scope_of(b) = scope_of(b - 1) + 1 /\ scope_of(b - 1) \in Nat /\ scope_of(a) \in Nat
    BY <1>3, <2>1, ScopeOfStep
  <2> QED
    BY <2>2, <2>3
<1> QED
  BY <1>2, <1>3

LEMMA ScopeOfInjective ==
  ASSUME NEW a \in Nat \ {0}, NEW b \in Nat \ {0}, makes_scope(a), makes_scope(b)
  PROVE  scope_of(a) > 1 /\ (scope_of(a) = scope_of(b) => a = b)
<1>1. scope_of(0) < scope_of(a) /\ scope_of(0) = 1 /\ scope_of(a) \in Nat /\ scope_of(b) \in Nat
  BY ScopeOfGrows, ScopeOfStep
<1>2. a < b => scope_of(a) < scope_of(b)
  BY ScopeOfGrows
<1>3. b < a => scope_of(b) < scope_of(a)
  BY ScopeOfGrows
<1> QED
  BY <1>1, <1>2, <1>3
-----------------------------------------------------------------------------
(* What is open at a node *)

open_at(n) == {m \in 1..(n - 1) : opens(m) /\ \A k \in m..(n - 1) : Depth(m, k) > 0}

LEMMA AroundOpen ==
  ASSUME NEW n
  PROVE  around(n) = {m \in open_at(n) : makes_scope(m)}
BY DEF around, open_at, makes_scope

(* What is open after node n: what was open before and is not closed by    *)
(* it, and n itself if it opens.                                           *)
LEMMA OpenStep ==
  ASSUME NEW n \in Nat \ {0}
  PROVE  /\ \A m \in open_at(n) : m \in Nat \ {0} /\ m < n /\ Depth(m, n - 1) \in Int /\ Depth(m, n - 1) > 0
         /\ \A m \in open_at(n) : Depth(m, n) = Depth(m, n - 1) + Depth(n, n)
         /\ \A m : m \in open_at(n + 1) <=> (m \in open_at(n) /\ Depth(m, n) > 0) \/ (m = n /\ opens(n))
<1>1. ASSUME NEW m \in open_at(n)
      PROVE  m \in Nat \ {0} /\ m < n /\ Depth(m, n - 1) \in Int /\ Depth(m, n - 1) > 0
             /\ Depth(m, n) = Depth(m, n - 1) + Depth(n, n)
  <2>1. m \in 1..(n - 1) /\ n - 1 \in m..(n - 1)
    BY <1>1 DEF open_at
  <2>2. m \in Nat /\ m <= n /\ n <= n + 1
    BY <2>1
  <2>3. Depth(m, n) = Depth(m, n - 1) + Depth(n, n) /\ Depth(m, n - 1) \in Int
    BY <2>2, DepthAdds
  <2>4. Depth(m, n - 1) > 0
    BY <1>1, <2>1 DEF open_at
  <2> QED
    BY <2>1, <2>3, <2>4
<1>2. ASSUME NEW m
      PROVE  m \in open_at(n + 1) <=> (m \in open_at(n) /\ Depth(m, n) > 0) \/ (m = n /\ opens(n))
  <2>1. m \in open_at(n + 1) <=> m \in 1..n /\ opens(m) /\ \A k \in m..n : Depth(m, k) > 0
    BY DEF open_at
  <2>2. CASE m \in 1..(n - 1)
    <3>1. m..n = (m..(n - 1)) \cup {n} /\ m \in 1..n /\ m # n
      BY <2>2
    <3>2. m \in open_at(n) <=> opens(m) /\ \A k \in m..(n - 1) : Depth(m, k) > 0
      BY <2>2 DEF open_at
    <3>3. (\A k \in m..n : Depth(m, k) > 0) <=> (\A k \in m..(n - 1) : Depth(m, k) > 0) /\ Depth(m, n) > 0
      BY <3>1
    <3> QED
      BY <2>1, <3>1, <3>2, <3>3, Zenon
  <2>3. CASE m = n
    <3>1. m..n = {n} /\ m \in 1..n /\ m \notin 1..(n - 1)
      BY <2>3
    <3>2. opens(n) => Depth(n, n) > 0
      BY DepthOne
    <3>3. m \notin open_at(n)
      BY <3>1 DEF open_at
    <3> QED
      BY <2>1, <2>3, <3>1, <3>2, <3>3
  <2>4. CASE m \notin 1..n
    <3>1. m # n /\ m \notin 1..(n - 1)
      BY <2>4
    <3> QED
      BY <2>1, <2>4, <3>1 DEF open_at
  <2>5. m \in 1..n => m \in 1..(n - 1) \/ m = n
    OBVIOUS
  <2> QED
    BY <2>2, <2>3, <2>4, <2>5
<1> QED
  BY <1>1, <1>2, Zenon

(* O lists what is open at node n, the outermost first. *)
Enclosing(O, n) ==
  /\ O \in Seq(Nat)
  /\ \A i, j \in DOMAIN O : i < j => O[i] < O[j]
  /\ \A m : m \in open_at(n) <=> \E i \in DOMAIN O : O[i] = m
  /\ \A i \in DOMAIN O : Depth(O[i], n - 1) = Len(O) - i + 1

LEMMA SeqFront ==
  ASSUME NEW S, NEW s \in Seq(S), s # << >>
  PROVE  /\ Front(s) \in Seq(S) /\ Len(Front(s)) = Len(s) - 1 /\ DOMAIN Front(s) = 1..(Len(s) - 1)
         /\ Len(s) >= 1 /\ \A i \in 1..(Len(s) - 1) : Front(s)[i] = s[i]
<1>1. Len(s) \in Nat /\ Len(s) >= 1 /\ \A i \in 1..Len(s) : s[i] \in S
  BY EmptySeq
<1>2. Front(s) = [i \in 1..(Len(s) - 1) |-> s[i]]
  BY <1>1 DEF Front
<1>3. Len(s) - 1 \in Nat /\ \A i \in 1..(Len(s) - 1) : s[i] \in S
  BY <1>1
<1> QED
  BY <1>1, <1>2, <1>3

LEMMA EnclosingStart == Enclosing(<< >>, 1)
BY DEF Enclosing, open_at

LEMMA EnclosingStep ==
  ASSUME NEW O, NEW n \in Nat \ {0}, Enclosing(O, n)
  PROVE  /\ ~opens(n) /\ program[n].op # "end" => Enclosing(O, n + 1)
         /\ opens(n) => Enclosing(Append(O, n), n + 1)
         /\ program[n].op = "end" /\ O # << >> => Enclosing(Front(O), n + 1)
<1> DEFINE L == Len(O)
<1>1. O \in Seq(Nat) /\ L \in Nat /\ DOMAIN O = 1..L
  BY DEF Enclosing
<1>2. \A i \in 1..L : /\ O[i] \in open_at(n) /\ O[i] \in Nat /\ O[i] < n
                     /\ Depth(O[i], n - 1) = L - i + 1 /\ Depth(O[i], n) = L - i + 1 + Depth(n, n)
  <2> SUFFICES ASSUME NEW i \in 1..L
               PROVE  /\ O[i] \in open_at(n) /\ O[i] \in Nat /\ O[i] < n
                      /\ Depth(O[i], n - 1) = L - i + 1 /\ Depth(O[i], n) = L - i + 1 + Depth(n, n)
    OBVIOUS
  <2>1. O[i] \in open_at(n) /\ Depth(O[i], n - 1) = L - i + 1
    BY <1>1 DEF Enclosing
  <2>2. /\ O[i] \in Nat /\ O[i] < n /\ Depth(O[i], n) = Depth(O[i], n - 1) + Depth(n, n)
    BY <2>1, OpenStep
  <2> QED
    BY <2>1, <2>2
<1>3. \A m : m \in open_at(n) => \E i \in 1..L : O[i] = m
  BY <1>1 DEF Enclosing
<1>4. \A m : m \in open_at(n + 1) <=> (m \in open_at(n) /\ Depth(m, n) > 0) \/ (m = n /\ opens(n))
  BY OpenStep
<1>5. \A i, j \in 1..L : i < j => O[i] < O[j]
  BY <1>1 DEF Enclosing
<1>6. n + 1 - 1 = n
  OBVIOUS
<1>61. ASSUME NEW P, P \in Seq(Nat), \A i, j \in DOMAIN P : i < j => P[i] < P[j],
              \A m : m \in open_at(n + 1) <=> \E i \in DOMAIN P : P[i] = m,
              \A i \in DOMAIN P : Depth(P[i], n) = Len(P) - i + 1
       PROVE  Enclosing(P, n + 1)
  <2>1. \A x : x = n => \A i \in DOMAIN P : Depth(P[i], x) = Len(P) - i + 1
    BY <1>61
  <2>2. \A i \in DOMAIN P : Depth(P[i], n + 1 - 1) = Len(P) - i + 1
    BY <1>6, <2>1, Zenon
  <2> QED
    BY <1>61, <2>2, SMTT(20) DEF Enclosing
<1> HIDE DEF L
<1>7. ASSUME ~opens(n), program[n].op # "end" PROVE Enclosing(O, n + 1)
  <2>1. Depth(n, n) = 0
    BY <1>7, DepthOne
  <2>2. \A i \in 1..L : Depth(O[i], n) = L - i + 1 /\ Depth(O[i], n) > 0
    BY <1>1, <1>2, <2>1
  <2>3. \A m : m \in open_at(n + 1) <=> \E i \in 1..L : O[i] = m
    BY <1>2, <1>3, <1>4, <1>7, <2>2
  <2> QED
    BY <1>1, <1>5, <1>61, <2>2, <2>3 DEF L
<1>8. ASSUME opens(n) PROVE Enclosing(Append(O, n), n + 1)
  <2> DEFINE P == Append(O, n)
  <2>1. Depth(n, n) = 1
    BY <1>8, DepthOne
  <2>2. /\ P \in Seq(Nat) /\ Len(P) = L + 1 /\ DOMAIN P = 1..(L + 1)
        /\ \A i \in 1..L : P[i] = O[i]
        /\ P[L + 1] = n
    BY <1>1 DEF L
  <2> HIDE DEF P
  <2>3. \A i \in 1..L : Depth(O[i], n) = (L + 1) - i + 1 /\ Depth(O[i], n) > 0
    BY <1>1, <1>2, <2>1
  <2>4. \A i \in 1..(L + 1) : Depth(P[i], n) = Len(P) - i + 1
    <3> SUFFICES ASSUME NEW i \in 1..(L + 1) PROVE Depth(P[i], n) = (L + 1) - i + 1
      BY <2>2
    <3>1. CASE i \in 1..L
      BY <2>2, <2>3, <3>1
    <3>2. CASE i = L + 1
      BY <1>1, <2>1, <2>2, <3>2
    <3> QED
      BY <1>1, <3>1, <3>2
  <2>5. \A i, j \in 1..(L + 1) : i < j => P[i] < P[j]
    <3> SUFFICES ASSUME NEW i \in 1..(L + 1), NEW j \in 1..(L + 1), i < j PROVE P[i] < P[j]
      OBVIOUS
    <3>1. i \in 1..L /\ (j \in 1..L \/ j = L + 1)
      BY <1>1
    <3> QED
      BY <1>2, <1>5, <2>2, <3>1
  <2>6. \A m : m \in open_at(n + 1) <=> \E i \in 1..(L + 1) : P[i] = m
    <3> TAKE m
    <3>1. m \in open_at(n + 1) <=> m \in open_at(n) \/ m = n
      BY <1>2, <1>3, <1>4, <1>8, <2>3
    <3>2. m \in open_at(n) <=> \E i \in 1..L : P[i] = m
      BY <1>2, <1>3, <2>2
    <3>3. (\E i \in 1..(L + 1) : P[i] = m) <=> (\E i \in 1..L : P[i] = m) \/ P[L + 1] = m
      BY <1>1
    <3> QED
      BY <2>2, <3>1, <3>2, <3>3
  <2> QED
    BY <1>61, <2>2, <2>4, <2>5, <2>6 DEF P
<1>9. ASSUME program[n].op = "end", O # << >> PROVE Enclosing(Front(O), n + 1)
  <2> DEFINE P == Front(O)
  <2>1. Depth(n, n) = 0 - 1 /\ ~opens(n)
    BY <1>9, DepthOne DEF opens
  <2>2. /\ P \in Seq(Nat) /\ Len(P) = L - 1 /\ DOMAIN P = 1..(L - 1) /\ L >= 1
        /\ \A i \in 1..(L - 1) : P[i] = O[i]
    BY <1>1, <1>9, SeqFront DEF L
  <2> HIDE DEF P
  <2>3. \A i \in 1..L : Depth(O[i], n) = (L - 1) - i + 1 /\ (Depth(O[i], n) > 0 <=> i # L)
    BY <1>1, <1>2, <2>1
  <2>4. \A m : m \in open_at(n + 1) <=> \E i \in 1..(L - 1) : P[i] = m
    <3> TAKE m
    <3>1. m \in open_at(n + 1) <=> \E i \in 1..L : O[i] = m /\ i # L
      BY <1>2, <1>3, <1>4, <2>1, <2>3
    <3>2. (\E i \in 1..L : O[i] = m /\ i # L) <=> \E i \in 1..(L - 1) : P[i] = m
      BY <1>1, <2>2
    <3> QED
      BY <3>1, <3>2
  <2>5. \A i, j \in 1..(L - 1) : i < j => P[i] < P[j]
    BY <1>1, <1>5, <2>2
  <2>6. \A i \in 1..(L - 1) : Depth(P[i], n) = Len(P) - i + 1
    BY <1>1, <2>2, <2>3
  <2> QED
    BY <1>61, <2>2, <2>4, <2>5, <2>6 DEF P
<1> QED
  BY <1>7, <1>8, <1>9
-----------------------------------------------------------------------------
(* Scopes and the text *)

(* The innermost construct with a scope of its own that is open at n.      *)
inner_of(n) == {m \in around(n) : \A k \in around(n) : k <= m}

(* Scope s is that of the construct in T, or the root when T is empty.     *)
stands_for(s, T) ==
  \/ T = {} /\ s = 1
  \/ \E m \in Nat \ {0} : T = {m} /\ makes_scope(m) /\ s = scope_of(m)

(* A program that reaches the later passes has no block in a size.         *)
Unsized == \A n \in DOMAIN program : program[n].op = "block" => program[n].role # "size"
Text == program \in Seq(Node) /\ well_bodied(program) /\ Unsized

LEMMA StandsForOne ==
  ASSUME NEW s, NEW t, NEW S, NEW T, stands_for(s, S), stands_for(t, T)
  PROVE  s = t <=> S = T
<1>1. CASE S = {} /\ T = {}
  BY <1>1 DEF stands_for
<1>2. ASSUME NEW m \in Nat \ {0}, makes_scope(m) PROVE scope_of(m) # 1
  BY <1>2, ScopeOfInjective
<1>3. ASSUME NEW m \in Nat \ {0}, makes_scope(m), NEW k \in Nat \ {0}, makes_scope(k)
      PROVE  scope_of(m) = scope_of(k) <=> m = k
  BY <1>3, ScopeOfInjective
<1>4. ASSUME NEW m, NEW k PROVE {m} # {} /\ ({m} = {k} <=> m = k)
  OBVIOUS
<1>5. CASE S = {} /\ T # {}
  BY <1>2, <1>5, Zenon DEF stands_for
<1>6. CASE S # {} /\ T = {}
  BY <1>2, <1>6, Zenon DEF stands_for
<1>7. CASE S # {} /\ T # {}
  <2>1. PICK m \in Nat \ {0} : S = {m} /\ makes_scope(m) /\ s = scope_of(m)
    BY <1>7, Zenon DEF stands_for
  <2>2. PICK k \in Nat \ {0} : T = {k} /\ makes_scope(k) /\ t = scope_of(k)
    BY <1>7, Zenon DEF stands_for
  <2> QED
    BY <1>3, <1>4, <2>1, <2>2, Zenon
<1> QED
  BY <1>1, <1>5, <1>6, <1>7

(* Node n follows the head of a function with only names between the two.  *)
headed(n) == \E h \in 1..(n - 1) : in_head(program, h, n)

LEMMA HeadStep ==
  ASSUME NEW n \in Nat \ {0}
  PROVE  headed(n + 1) <=> program[n].op = "fn" \/ (program[n].op \in Leaves /\ headed(n))
<1>1. \A h \in 1..(n - 1) : h \in 1..n /\ (h + 1)..n = ((h + 1)..(n - 1)) \cup {n}
  OBVIOUS
<1>2. (n + 1) - 1 = n /\ (n + 1)..n = {} /\ n \in 1..n /\ \A h \in 1..n : h \in 1..(n - 1) \/ h = n
  OBVIOUS
<1>3. program[n].op = "fn" => program[n].op \notin Leaves
  BY DEF Leaves
<1>4. ASSUME NEW h \in 1..(n - 1)
      PROVE  in_head(program, h, n + 1) <=> in_head(program, h, n) /\ program[n].op \in Leaves
  BY <1>1, <1>2 DEF in_head
<1>5. in_head(program, n, n + 1) <=> program[n].op = "fn"
  BY <1>2 DEF in_head
<1> QED
  BY <1>1, <1>2, <1>4, <1>5 DEF headed

(* Nothing but names comes between a head and the body of its function.    *)
LEMMA HeadBeforeBody ==
  ASSUME Text, NEW n \in DOMAIN program, headed(n)
  PROVE  program[n].op \in Leaves \/ (program[n].op = "block" /\ program[n].role # "stmt")
<1>1. PICK h \in 1..(n - 1) : in_head(program, h, n)
  BY DEF headed
<1>2. n \in Nat /\ DOMAIN program = 1..Len(program) /\ h \in DOMAIN program /\ program[h].op = "fn"
  BY <1>1 DEF Text, in_head
<1>3. PICK b \in DOMAIN program :
        b > h /\ in_head(program, h, b) /\ program[b].op = "block" /\ program[b].role # "stmt"
  BY <1>2 DEF Text, well_bodied
<1>4. b \notin (h + 1)..(n - 1)
  BY <1>1, <1>3 DEF in_head, Leaves
<1>5. b >= n
  BY <1>1, <1>2, <1>3, <1>4
<1>6. n # b => n \in (h + 1)..(b - 1)
  BY <1>1, <1>2, <1>5
<1> QED
  BY <1>3, <1>6 DEF in_head

(* The block of a node that opens without a scope is the body of a         *)
(* function, whose head comes before it.                                   *)
LEMMA BodyAfterHead ==
  ASSUME Text, NEW m \in DOMAIN program, opens(m), ~makes_scope(m)
  PROVE  \E h \in 1..(m - 1) : /\ in_head(program, h, m)
                              /\ h \in DOMAIN program /\ makes_scope(h) /\ opens(h)
                              /\ \A k \in (h + 1)..(m - 1) : ~opens(k) /\ program[k].op # "end"
<1>1. /\ program[m].op = "block" /\ program[m].role # "stmt" /\ program[m] \in Node
      /\ m \in Nat \ {0} /\ m <= Len(program) /\ DOMAIN program = 1..Len(program)
  BY ElementOfSeq DEF makes_scope, opens, Text
<1>2. program[m].role = "body"
  <2>1. program[m].role \in {"stmt", "body", "size"}
    BY <1>1 DEF Node
  <2> QED
    BY <1>1, <2>1 DEF Text, Unsized
<1>3. \E k \in 1..(m - 1) : in_head(program, k, m) \/ (program[k].op = "block" /\ program[k].role = "size")
  BY <1>1, <1>2 DEF Text, well_bodied
<1>4. \A k \in 1..(m - 1) : ~(program[k].op = "block" /\ program[k].role = "size")
  BY <1>1 DEF Text, Unsized
<1>5. PICK h \in 1..(m - 1) : in_head(program, h, m)
  BY <1>3, <1>4
<1>6. h \in DOMAIN program /\ makes_scope(h) /\ opens(h)
  BY <1>1, <1>5 DEF in_head, makes_scope, opens
<1>7. \A k \in (h + 1)..(m - 1) : ~opens(k) /\ program[k].op # "end"
  BY <1>5 DEF in_head, Leaves, opens
<1> QED
  BY <1>5, <1>6, <1>7

(* Two constructs, the first next to the second: both are open together.   *)
LEMMA OpenTogether ==
  ASSUME NEW n \in Nat \ {0}, NEW m \in open_at(n), NEW h \in 1..(m - 1), opens(h),
         \A k \in (h + 1)..(m - 1) : ~opens(k) /\ program[k].op # "end"
  PROVE  h \in open_at(n)
<1>1. m \in 1..(n - 1) /\ h \in 1..(n - 1) /\ m \in Nat /\ h \in Nat /\ h < m
  BY DEF open_at
<1>2. ASSUME NEW k \in h..(m - 1) PROVE Depth(h, k) = 1
  <2>1. {j \in h..k : opens(j)} = {h}
    <3>1. \A j \in h..k : j = h \/ j \in (h + 1)..(m - 1)
      BY <1>1, <1>2
    <3>2. h \in h..k
      BY <1>1, <1>2
    <3> QED
      BY <3>1, <3>2
  <2>2. {j \in h..k : program[j].op = "end"} = {}
    <3>1. program[h].op # "end"
      BY DEF opens
    <3>2. \A j \in h..k : j = h \/ j \in (h + 1)..(m - 1)
      BY <1>1, <1>2
    <3> QED
      BY <3>1, <3>2
  <2>3. Cardinality({h}) = 1 /\ Cardinality({}) = 0
    BY FS_Singleton, FS_EmptySet
  <2>4. 1 - 0 = 1
    OBVIOUS
  <2> QED
    BY <2>1, <2>2, <2>3, <2>4, Zenon DEF Depth
<1>3. ASSUME NEW k \in h..(n - 1) PROVE Depth(h, k) > 0
  <2>1. CASE k <= m - 1
    BY <1>1, <1>2, <2>1
  <2>2. CASE k > m - 1
    <3>1. k \in m..(n - 1) /\ k \in Nat /\ m - 1 \in h..(m - 1)
      BY <1>1, <2>2
    <3>2. Depth(m, k) > 0
      BY <3>1 DEF open_at
    <3>3. Depth(h, m - 1) = 1
      BY <1>2, <3>1
    <3>4. Depth(h, k) = Depth(h, m - 1) + Depth(m, k) /\ Depth(m, k) \in Int
      <4>1. h \in Nat \ {0} /\ m \in Nat \ {0} /\ h <= m /\ m <= k + 1
        BY <1>1, <3>1
      <4> QED
        BY <3>1, <4>1, DepthAdds
    <3> QED
      BY <3>2, <3>3, <3>4
  <2> QED
    BY <1>1, <2>1, <2>2
<1> QED
  BY <1>1, <1>3 DEF open_at

(* The stack of scopes follows what is open: a construct with a scope of   *)
(* its own puts that on it, the body of a function repeats the last one.   *)
StackFollows(stack, O) ==
  /\ stack \in Seq(Nat) /\ Len(stack) = Len(O) + 1 /\ stack[1] = 1
  /\ \A i \in DOMAIN O : stack[i + 1] = IF makes_scope(O[i]) THEN scope_of(O[i]) ELSE stack[i]

(* The innermost construct with a scope is the last one open, or the one   *)
(* before it when the last is the body of a function.                      *)
LEMMA InnerIs ==
  ASSUME Text, NEW n \in 1..(Len(program) + 1), NEW O, Enclosing(O, n), NEW L, L = Len(O)
  PROVE  /\ L \in Nat /\ DOMAIN O = 1..L
         /\ \A i \in 1..L : /\ O[i] \in open_at(n) /\ opens(O[i]) /\ O[i] \in DOMAIN program
                           /\ O[i] \in Nat \ {0} /\ O[i] < n
         /\ L = 0 => inner_of(n) = {}
         /\ L # 0 /\ makes_scope(O[L]) => inner_of(n) = {O[L]}
         /\ L # 0 /\ ~makes_scope(O[L]) => L > 1 /\ makes_scope(O[L - 1]) /\ inner_of(n) = {O[L - 1]}
<1>1. /\ O \in Seq(Nat) /\ L \in Nat /\ DOMAIN O = 1..L
      /\ Len(program) \in Nat /\ DOMAIN program = 1..Len(program) /\ n \in Nat \ {0}
  BY DEF Enclosing, Text
<1>2. \A i \in 1..L : /\ O[i] \in open_at(n) /\ opens(O[i]) /\ O[i] \in DOMAIN program
                     /\ O[i] \in Nat \ {0} /\ O[i] < n
  <2>1. \A m \in open_at(n) : opens(m) /\ m \in 1..(n - 1)
    BY DEF open_at
  <2>2. \A m \in 1..(n - 1) : m \in DOMAIN program /\ m \in Nat \ {0} /\ m < n
    BY <1>1
  <2>3. \A i \in 1..L : O[i] \in open_at(n)
    BY <1>1 DEF Enclosing
  <2> QED
    BY <2>1, <2>2, <2>3
<1>3. \A i, j \in 1..L : i < j => O[i] < O[j]
  BY <1>1 DEF Enclosing
<1>4. \A m : m \in around(n) <=> \E i \in 1..L : O[i] = m /\ makes_scope(m)
  BY <1>1, AroundOpen, Zenon DEF Enclosing
<1>5. L = 0 => inner_of(n) = {}
  BY <1>4 DEF inner_of
<1>6. ASSUME L # 0, makes_scope(O[L]) PROVE inner_of(n) = {O[L]}
  <2>1. L \in 1..L
    BY <1>1, <1>6
  <2>2. \A k \in around(n) : k <= O[L] /\ k \in Nat
    BY <1>1, <1>2, <1>3, <1>4, <2>1
  <2>3. O[L] \in around(n)
    BY <1>4, <1>6, <2>1
  <2> QED
    BY <1>2, <2>1, <2>2, <2>3 DEF inner_of
<1>7. ASSUME L # 0, ~makes_scope(O[L])
      PROVE  L > 1 /\ makes_scope(O[L - 1]) /\ inner_of(n) = {O[L - 1]}
  <2> DEFINE m == O[L]
  <2>1. L \in 1..L /\ m \in open_at(n) /\ opens(m) /\ m \in DOMAIN program /\ m \in Nat
    BY <1>1, <1>2, <1>7
  <2>2. PICK h \in 1..(m - 1) : /\ makes_scope(h) /\ opens(h)
                               /\ \A k \in (h + 1)..(m - 1) : ~opens(k) /\ program[k].op # "end"
    BY <1>7, <2>1, BodyAfterHead
  <2>3. h \in open_at(n) /\ h \in Nat \ {0} /\ h < m
    BY <1>1, <2>1, <2>2, OpenTogether
  <2>4. PICK i \in 1..L : O[i] = h
    BY <1>1, <2>3 DEF Enclosing
  <2>5. i = L - 1 /\ L > 1
    <3>1. i # L
      BY <2>1, <2>3, <2>4
    <3>2. ASSUME i < L - 1 PROVE FALSE
      <4>1. L - 1 \in 1..L /\ O[i] < O[L - 1] /\ O[L - 1] < m
        <5>1. L - 1 \in 1..L /\ i \in 1..L /\ L - 1 < L /\ L \in 1..L
          BY <1>1, <2>1, <3>2
        <5> QED
          BY <1>3, <3>2, <5>1
      <4>2. O[L - 1] \in Nat /\ opens(O[L - 1])
        BY <1>2, <4>1
      <4>3. O[L - 1] \in (h + 1)..(m - 1)
        BY <2>1, <2>3, <2>4, <4>1, <4>2
      <4> QED
        BY <2>2, <4>2, <4>3
    <3> QED
      BY <1>1, <2>1, <2>4, <3>1, <3>2
  <2>7. \A k \in around(n) : k <= h /\ k \in Nat
    <3> SUFFICES ASSUME NEW k \in around(n) PROVE k <= h /\ k \in Nat
      OBVIOUS
    <3>1. PICK j \in 1..L : O[j] = k /\ makes_scope(k)
      BY <1>4
    <3>2. j < L
      BY <1>1, <1>7, <3>1
    <3>3. j = i \/ j < i
      BY <1>1, <2>5, <3>2
    <3> QED
      BY <1>2, <1>3, <2>3, <2>4, <3>1, <3>3
  <2>8. h \in around(n)
    BY <1>4, <2>2, <2>4
  <2> HIDE DEF m
  <2>9. inner_of(n) = {h}
    <3>1. \A k \in around(n) : (\A x \in around(n) : x <= k) <=> k = h
      BY <2>3, <2>7, <2>8
    <3> QED
      BY <2>8, <3>1 DEF inner_of
  <2> QED
    BY <2>2, <2>4, <2>5, <2>9
<1> QED
  BY <1>1, <1>2, <1>5, <1>6, <1>7

LEMMA CurrentPlaced ==
  ASSUME Text, NEW n \in 1..(Len(program) + 1), NEW O, Enclosing(O, n),
         NEW stack, StackFollows(stack, O)
  PROVE  stands_for(Last(stack), inner_of(n))
<1> DEFINE L == Len(O)
<1>1. /\ L \in Nat /\ DOMAIN O = 1..L
      /\ \A i \in 1..L : O[i] \in Nat \ {0}
      /\ L = 0 => inner_of(n) = {}
      /\ L # 0 /\ makes_scope(O[L]) => inner_of(n) = {O[L]}
      /\ L # 0 /\ ~makes_scope(O[L]) => L > 1 /\ makes_scope(O[L - 1]) /\ inner_of(n) = {O[L - 1]}
  BY InnerIs
<1>2. /\ Last(stack) = stack[L + 1] /\ stack[1] = 1
      /\ \A i \in 1..L : stack[i + 1] = IF makes_scope(O[i]) THEN scope_of(O[i]) ELSE stack[i]
  BY <1>1 DEF StackFollows, Last
<1> HIDE DEF L
<1>3. CASE L = 0
  BY <1>1, <1>2, <1>3 DEF stands_for
<1>4. CASE L # 0 /\ makes_scope(O[L])
  <2>1. L \in 1..L
    BY <1>1, <1>4
  <2> QED
    BY <1>1, <1>2, <1>4, <2>1 DEF stands_for
<1>5. CASE L # 0 /\ ~makes_scope(O[L])
  <2>1. L \in 1..L /\ L - 1 \in 1..L /\ (L - 1) + 1 = L
    BY <1>1, <1>5
  <2>2. \A x : x = (L - 1) + 1 => stack[x] = scope_of(O[L - 1])
    BY <1>1, <1>2, <1>5, <2>1
  <2>3. stack[L + 1] = scope_of(O[L - 1])
    BY <1>2, <1>5, <2>1, <2>2
  <2> QED
    BY <1>1, <1>2, <1>5, <2>1, <2>3 DEF stands_for
<1> QED
  BY <1>3, <1>4, <1>5

LEMMA TextualIs ==
  ASSUME Text, NEW n \in DOMAIN program
  PROVE  textual(n) = IF program[n].op = "block" /\ makes_scope(n) THEN {n} ELSE inner_of(n)
<1>1. CASE ~(program[n].op = "block" /\ makes_scope(n))
  BY <1>1 DEF textual, inner_of
<1>2. CASE program[n].op = "block" /\ makes_scope(n)
  <2>1. n \in Nat \ {0} /\ \A k \in around(n) : k \in Nat /\ k < n
    BY DEF Text, around
  <2>2. textual(n) = {m \in around(n) \cup {n} : \A k \in around(n) \cup {n} : k <= m}
    BY <1>2 DEF textual
  <2> QED
    BY <1>2, <2>1, <2>2
<1> QED
  BY <1>1, <1>2
-----------------------------------------------------------------------------
(* The walk of the scope builder follows the text *)

(* Scope s is the one of the text at node n; what a return closes is open. *)
placed(n, s) == IF program[n].op = "end" THEN open_at(n) # {} ELSE stands_for(s, textual(n))

NodesPlaced ==
  \A n \in DOMAIN program : \A s :
    n \in DOMAIN node_scope_map /\ node_scope_map[n] = s => placed(n, s)

(* The tree of scopes is that of the text: node m has its scope in tree.   *)
grown(m, tree) ==
  LET s == scope_of(m)
  IN /\ s \in DOMAIN tree
     /\ stands_for(tree[s].parent, inner_of(m))
     /\ tree[s].kind = "Function" <=> program[m].op = "fn"

ScopesPlaced ==
  /\ scopes[1].kind = "Root"
  /\ \A tree : tree = scopes =>
       \A m \in DOMAIN program : m \in DOMAIN node_scope_map /\ makes_scope(m) => grown(m, tree)

WalkPlaced ==
  \E n, O, stack :
    /\ n = at /\ stack = scope_stack
    /\ Enclosing(O, n) /\ StackFollows(stack, O)
    /\ Len(scopes) = scope_of(n - 1)
    /\ block_is_in_function <=> headed(n)

FnsPlaced ==
  \A d \in Fns : \A n :
    decls[d].node = n =>
      /\ n \in DOMAIN node_scope_map /\ decls[d].scope = node_scope_map[n]
      /\ decls[d].name = program[n].name
      /\ Unsized => decls[d].inner = scope_of(n)

TextInv ==
  /\ well_bodied(program)
  /\ Accepted => Unsized
  /\ pass \notin {"scopes", "CE"} => Len(node_scope_map) >= Len(program)
  /\ FnsPlaced
  /\ Unsized => NodesPlaced /\ ScopesPlaced /\ (pass = "scopes" => WalkPlaced)

(* All of this is about the program, which no step changes. *)
LEMMA TextStays ==
  ASSUME UNCHANGED program
  PROVE  /\ \A m : scope_of(m)' = scope_of(m) /\ (makes_scope(m)' <=> makes_scope(m))
         /\ \A n : inner_of(n)' = inner_of(n) /\ textual(n)' = textual(n)
         /\ \A s, T : stands_for(s, T)' <=> stands_for(s, T)
         /\ \A n, s : placed(n, s)' <=> placed(n, s)
         /\ \A m, tree : grown(m, tree)' <=> grown(m, tree)
         /\ \A O, n : Enclosing(O, n)' <=> Enclosing(O, n)
         /\ \A stack, O : StackFollows(stack, O)' <=> StackFollows(stack, O)
         /\ \A n : headed(n)' <=> headed(n)
         /\ Unsized' <=> Unsized /\ (well_bodied(program)' <=> well_bodied(program))
<1>1. \A m : (makes_scope(m)' <=> makes_scope(m)) /\ (opens(m)' <=> opens(m))
  BY Zenon DEF makes_scope, opens
<1>2. \A m : scope_of(m)' = scope_of(m)
  BY Zenon DEF scope_of, makes_scope, opens, count
<1>3. \A m, n : Depth(m, n)' = Depth(m, n)
  BY Zenon DEF Depth, opens
<1>4. \A n : open_at(n)' = open_at(n)
  BY Zenon DEF Depth, opens, open_at
<1>5. \A n : around(n)' = around(n)
  BY Zenon DEF Depth, opens, around, makes_scope
<1>6. \A n : inner_of(n)' = inner_of(n)
  BY <1>5 DEF inner_of
<1>7. \A n : textual(n)' = textual(n)
  BY <1>1, <1>5 DEF textual
<1>8. \A s, T : stands_for(s, T)' <=> stands_for(s, T)
  BY <1>1, <1>2 DEF stands_for
<1>9. \A O, n : Enclosing(O, n)' <=> Enclosing(O, n)
  BY <1>3, <1>4 DEF Enclosing
<1>10. \A stack, O : StackFollows(stack, O)' <=> StackFollows(stack, O)
  BY <1>1, <1>2 DEF StackFollows
<1>11. \A n, s : placed(n, s)' <=> placed(n, s)
  BY <1>4, <1>7, <1>8 DEF placed
<1>12. \A m, tree : grown(m, tree)' <=> grown(m, tree)
  BY <1>2, <1>6, <1>8 DEF grown
<1>13. (Unsized' <=> Unsized) /\ (well_bodied(program)' <=> well_bodied(program))
  BY DEF Unsized, well_bodied
<1>14. \A n : headed(n)' <=> headed(n)
  BY DEF headed, in_head
<1> QED
  BY <1>1, <1>2, <1>6, <1>7, <1>8, <1>9, <1>10, <1>11, <1>12, <1>13, <1>14

LEMMA PushAdds ==
  ASSUME Shape, NEW kind, NEW impl, push_scope(kind, impl)
  PROVE  /\ Len(scopes') = Len(scopes) + 1 /\ DOMAIN scopes' = DOMAIN scopes \cup {Len(scopes) + 1}
         /\ \A s \in DOMAIN scopes : /\ scopes'[s].parent = scopes[s].parent
                                    /\ scopes'[s].kind = scopes[s].kind
         /\ scopes'[Len(scopes) + 1].parent = current_scope /\ scopes'[Len(scopes) + 1].kind = kind
         /\ scope_stack' = Append(scope_stack, Len(scopes) + 1)
<1> DEFINE n == Len(scopes)
           more == [scopes EXCEPT ![current_scope].children = Append(@, n + 1)]
           new == new_scope(current_scope, kind, impl)
<1>1. /\ n \in Nat /\ DOMAIN scopes = 1..n /\ current_scope \in 1..n /\ scopes \in Seq(Scope)
  BY CurrentScope DEF Shape
<1>2. scopes' = Append(more, new) /\ scope_stack' = Append(scope_stack, n + 1)
  BY DEF push_scope
<1>3. new.parent = current_scope /\ new.kind = kind
  BY DEF new_scope
<1>4. /\ DOMAIN more = 1..n
      /\ \A s \in 1..n : more[s].parent = scopes[s].parent /\ more[s].kind = scopes[s].kind
  <2>1. \A s \in 1..n : more[s] = IF s = current_scope
                                  THEN [scopes[s] EXCEPT !.children = Append(@, n + 1)] ELSE scopes[s]
    BY <1>1
  <2>2. \A s \in 1..n : scopes[s] \in Scope
    BY <1>1
  <2>3. \A r \in Scope : \A c : /\ [r EXCEPT !.children = c].parent = r.parent
                               /\ [r EXCEPT !.children = c].kind = r.kind
    BY DEF Scope
  <2> QED
    BY <1>1, <2>1, <2>2, <2>3
<1>5. more \in Seq({more[s] : s \in 1..n}) /\ Len(more) = n
  <2>1. more = [s \in 1..n |-> more[s]]
    BY <1>1
  <2> HIDE DEF more
  <2> QED
    BY <1>1, <2>1
<1> HIDE DEF n, more, new
<1>6. /\ Len(Append(more, new)) = n + 1 /\ DOMAIN Append(more, new) = 1..(n + 1)
      /\ \A s \in 1..n : Append(more, new)[s] = more[s]
      /\ Append(more, new)[n + 1] = new
  <2> DEFINE S == {more[s] : s \in 1..n} \cup {new}
  <2>1. more \in Seq(S) /\ new \in S
    BY <1>1, <1>4, <1>5
  <2> HIDE DEF S
  <2> QED
    BY <1>1, <1>5, <2>1
<1>7. 1..(n + 1) = (1..n) \cup {n + 1}
  BY <1>1
<1> QED
  BY <1>1, <1>2, <1>3, <1>4, <1>6, <1>7 DEF n

LEMMA FollowsAppend ==
  ASSUME NEW O \in Seq(Nat), NEW stack, StackFollows(stack, O), NEW n \in Nat, NEW x \in Nat,
         x = IF makes_scope(n) THEN scope_of(n) ELSE Last(stack)
  PROVE  StackFollows(Append(stack, x), Append(O, n))
<1> DEFINE L == Len(O)
           P == Append(O, n)
           S == Append(stack, x)
<1>1. /\ stack \in Seq(Nat) /\ L \in Nat /\ Len(stack) = L + 1 /\ stack[1] = 1 /\ DOMAIN O = 1..L
      /\ Last(stack) = stack[L + 1]
  BY DEF StackFollows, Last
<1>2. /\ Len(P) = L + 1 /\ DOMAIN P = 1..(L + 1) /\ P[L + 1] = n
      /\ \A i \in 1..L : P[i] = O[i]
  BY <1>1
<1>3. /\ S \in Seq(Nat) /\ Len(S) = L + 2 /\ S[L + 2] = x
      /\ \A i \in 1..(L + 1) : S[i] = stack[i]
  BY <1>1
<1>4. \A i \in 1..L : stack[i + 1] = IF makes_scope(O[i]) THEN scope_of(O[i]) ELSE stack[i]
  BY <1>1 DEF StackFollows
<1> HIDE DEF L, P, S
<1>5. ASSUME NEW i \in 1..(L + 1)
      PROVE  S[i + 1] = IF makes_scope(P[i]) THEN scope_of(P[i]) ELSE S[i]
  <2>1. CASE i \in 1..L
    <3>1. i + 1 \in 1..(L + 1) /\ i \in 1..(L + 1)
      BY <1>1, <2>1
    <3> QED
      BY <1>2, <1>3, <1>4, <2>1, <3>1
  <2>2. CASE i = L + 1
    <3>1. S[i + 1] = x /\ S[i] = stack[L + 1]
      BY <1>1, <1>3, <2>2
    <3> QED
      BY <1>1, <1>2, <2>2, <3>1
  <2> QED
    BY <1>1, <2>1, <2>2
<1>6. S[1] = 1 /\ Len(S) = Len(P) + 1
  <2>1. 1 \in 1..(L + 1)
    BY <1>1
  <2> QED
    BY <1>1, <1>2, <1>3, <2>1
<1> QED
  BY <1>2, <1>3, <1>5, <1>6 DEF StackFollows, P, S

LEMMA FollowsFront ==
  ASSUME NEW O \in Seq(Nat), NEW stack, StackFollows(stack, O), O # << >>
  PROVE  StackFollows(Front(stack), Front(O))
<1>1. /\ stack \in Seq(Nat) /\ Len(O) \in Nat /\ Len(stack) = Len(O) + 1 /\ stack[1] = 1
      /\ DOMAIN O = 1..Len(O) /\ stack # << >> /\ Len(O) >= 1
  BY EmptySeq DEF StackFollows
<1>2. /\ Front(O) \in Seq(Nat) /\ Len(Front(O)) = Len(O) - 1 /\ DOMAIN Front(O) = 1..(Len(O) - 1)
      /\ \A i \in 1..(Len(O) - 1) : Front(O)[i] = O[i]
  BY SeqFront
<1>3. /\ Front(stack) \in Seq(Nat) /\ Len(Front(stack)) = Len(O)
      /\ \A i \in 1..Len(O) : Front(stack)[i] = stack[i]
  <2>1. /\ Front(stack) \in Seq(Nat) /\ Len(Front(stack)) = Len(stack) - 1
        /\ \A i \in 1..(Len(stack) - 1) : Front(stack)[i] = stack[i]
    BY <1>1, SeqFront
  <2>2. Len(stack) - 1 = Len(O)
    BY <1>1
  <2> QED
    BY <2>1, <2>2
<1>4. \A i \in 1..(Len(O) - 1) :
        /\ i \in 1..Len(O) /\ i + 1 \in 1..Len(O)
        /\ stack[i + 1] = IF makes_scope(O[i]) THEN scope_of(O[i]) ELSE stack[i]
  <2> SUFFICES ASSUME NEW i \in 1..(Len(O) - 1)
               PROVE  /\ i \in 1..Len(O) /\ i + 1 \in 1..Len(O)
                      /\ stack[i + 1] = IF makes_scope(O[i]) THEN scope_of(O[i]) ELSE stack[i]
    OBVIOUS
  <2>1. i \in 1..Len(O) /\ i + 1 \in 1..Len(O)
    BY <1>1
  <2>2. i \in DOMAIN O
    BY <1>1, <2>1
  <2> QED
    BY <2>1, <2>2 DEF StackFollows
<1>5. \A i \in 1..(Len(O) - 1) :
        Front(stack)[i + 1] = IF makes_scope(Front(O)[i]) THEN scope_of(Front(O)[i]) ELSE Front(stack)[i]
  BY <1>2, <1>3, <1>4
<1>6. 1 \in 1..Len(O) /\ Len(O) = (Len(O) - 1) + 1
  BY <1>1
<1>7. Front(stack)[1] = 1 /\ Len(Front(stack)) = Len(Front(O)) + 1
  BY <1>1, <1>2, <1>3, <1>6
<1> QED
  BY <1>2, <1>3, <1>5, <1>7 DEF StackFollows

(* What a node visited adds to the placement of the nodes.                 *)
LEMMA NodesAdvance ==
  ASSUME Shape, NodesPlaced, pass = "scopes", at \in DOMAIN program, UNCHANGED program,
         NEW x, node_scope_map' = Append(node_scope_map, x), placed(at, x)
  PROVE  /\ NodesPlaced' /\ Len(node_scope_map') = at
         /\ DOMAIN node_scope_map = 1..(at - 1) /\ DOMAIN node_scope_map' = 1..at
         /\ \A n \in 1..(at - 1) : node_scope_map'[n] = node_scope_map[n]
         /\ node_scope_map'[at] = x
<1>1. node_scope_map \in Seq(Nat) /\ Len(node_scope_map) = at - 1 /\ at \in Nat \ {0}
  BY DEF Shape
<1>2. /\ Len(node_scope_map') = at
      /\ DOMAIN node_scope_map = 1..(at - 1) /\ DOMAIN node_scope_map' = 1..at
      /\ \A n \in 1..(at - 1) : node_scope_map'[n] = node_scope_map[n]
      /\ node_scope_map'[at] = x
  <2>1. node_scope_map \in Seq(Nat \cup {x})
    BY <1>1
  <2> QED
    BY <1>1, <2>1
<1>3. \A n, s : placed(n, s)' <=> placed(n, s)
  BY TextStays
<1>4. ASSUME NEW n \in DOMAIN program, NEW s, n \in DOMAIN node_scope_map', node_scope_map'[n] = s
      PROVE  placed(n, s)
  <2>1. CASE n = at
    <3>1. s = x
      BY <1>2, <1>4, <2>1
    <3> QED
      BY <2>1, <3>1
  <2>2. CASE n # at
    <3>1. n \in 1..(at - 1)
      BY <1>1, <1>2, <1>4, <2>2
    <3> QED
      BY <1>2, <1>4, <3>1 DEF NodesPlaced
  <2> QED
    BY <2>1, <2>2
<1>5. NodesPlaced'
  BY <1>3, <1>4 DEF NodesPlaced
<1> QED
  BY <1>2, <1>5

LEMMA FnsAdvance ==
  ASSUME IInv, SInv, FnsPlaced, pass = "scopes", at \in DOMAIN program, UNCHANGED program,
         node.op # "fn", NEW x, node_scope_map' = Append(node_scope_map, x),
         \/ UNCHANGED decls
         \/ \E e : decls' = Append(decls, e) /\ e.kind # "fn"
  PROVE  FnsPlaced'
<1>1. node_scope_map \in Seq(Nat) /\ decls \in Seq(Declaration)
  BY DEF IInv, Shape
<1>2. Fns' = Fns /\ \A d \in Fns : decls'[d] = decls[d]
  <2>1. CASE UNCHANGED decls
    BY <2>1 DEF Fns
  <2>2. ASSUME NEW e, decls' = Append(decls, e), e.kind # "fn"
        PROVE  Fns' = Fns /\ \A d \in Fns : decls'[d] = decls[d]
    <3>1. /\ DOMAIN decls' = DOMAIN decls \cup {Len(decls) + 1} /\ Len(decls) + 1 \notin DOMAIN decls
          /\ \A d \in DOMAIN decls : decls'[d] = decls[d]
          /\ decls'[Len(decls) + 1] = e
      BY <1>1, <2>2, AppendDeclares
    <3> QED
      BY <2>2, <3>1 DEF Fns
  <2> QED
    BY <2>1, <2>2
<1>3. \A n \in DOMAIN node_scope_map : n \in DOMAIN node_scope_map' /\ node_scope_map'[n] = node_scope_map[n]
  BY <1>1
<1>4. (\A n : scope_of(n)' = scope_of(n)) /\ (Unsized' <=> Unsized)
  BY TextStays
<1> QED
  BY <1>2, <1>3, <1>4 DEF FnsPlaced

(* The tree after a node that makes no scope, and after one that does.     *)
LEMMA ScopesKept ==
  ASSUME Shape, ScopesPlaced, UNCHANGED <<program, scopes>>, ~makes_scope(at), at \in Nat,
         DOMAIN node_scope_map' = DOMAIN node_scope_map \cup {at}
  PROVE  ScopesPlaced'
<1>1. (\A m, tree : grown(m, tree)' <=> grown(m, tree)) /\ \A m : makes_scope(m)' <=> makes_scope(m)
  BY TextStays
<1>2. \A m \in DOMAIN node_scope_map' : makes_scope(m) => m \in DOMAIN node_scope_map
  BY Zenon
<1> QED
  BY <1>1, <1>2 DEF ScopesPlaced

LEMMA ScopesGrown ==
  ASSUME Shape, ScopesPlaced, UNCHANGED program, makes_scope(at), at \in Nat \ {0},
         NEW kind, NEW impl, push_scope(kind, impl), kind = "Function" <=> program[at].op = "fn",
         Len(scopes) = scope_of(at - 1), stands_for(current_scope, inner_of(at)),
         DOMAIN node_scope_map' = DOMAIN node_scope_map \cup {at}
  PROVE  ScopesPlaced' /\ Len(scopes') = scope_of(at)
<1>1. (\A m, tree : grown(m, tree)' <=> grown(m, tree)) /\ \A m : makes_scope(m)' <=> makes_scope(m)
  BY TextStays
<1>2. /\ Len(scopes') = Len(scopes) + 1 /\ DOMAIN scopes' = DOMAIN scopes \cup {Len(scopes) + 1}
      /\ \A s \in DOMAIN scopes : scopes'[s].parent = scopes[s].parent /\ scopes'[s].kind = scopes[s].kind
      /\ scopes'[Len(scopes) + 1].parent = current_scope /\ scopes'[Len(scopes) + 1].kind = kind
  BY PushAdds
<1>3. scope_of(at) = Len(scopes) + 1
  <2>1. \A n \in Nat : n > 0 => scope_of(n) = scope_of(n - 1) + IF makes_scope(n) THEN 1 ELSE 0
    BY ScopeOfStep
  <2> QED
    BY <2>1
<1>4. grown(at, scopes')
  <2> DEFINE n == Len(scopes) + 1
  <2>1. /\ n \in DOMAIN scopes' /\ scopes'[n].parent = current_scope /\ scopes'[n].kind = kind
        /\ scope_of(at) = n
    BY <1>2, <1>3
  <2> HIDE DEF n
  <2> QED
    BY <2>1 DEF grown
<1>5. ASSUME NEW m \in DOMAIN program, m \in DOMAIN node_scope_map', makes_scope(m)
      PROVE  grown(m, scopes')
  <2>1. CASE m = at
    BY <1>4, <2>1
  <2>2. CASE m # at
    <3>1. grown(m, scopes)
      BY <1>5, <2>2 DEF ScopesPlaced
    <3> QED
      BY <1>2, <3>1 DEF grown
  <2> QED
    BY <2>1, <2>2
<1>6. scopes'[1].kind = "Root"
  BY <1>2 DEF Shape, ScopesPlaced
<1> QED
  BY <1>1, <1>2, <1>3, <1>5, <1>6 DEF ScopesPlaced

LEMMA WalkGoesOn ==
  ASSUME Shape, UNCHANGED program, at' = at + 1, NEW P, NEW S, S = scope_stack',
         Enclosing(P, at + 1), StackFollows(S, P), Len(scopes') = scope_of(at),
         block_is_in_function' <=> headed(at + 1)
  PROVE  WalkPlaced'
<1>1. /\ \A m : scope_of(m)' = scope_of(m)
      /\ \A O, n : Enclosing(O, n)' <=> Enclosing(O, n)
      /\ \A stack, O : StackFollows(stack, O)' <=> StackFollows(stack, O)
      /\ \A n : headed(n)' <=> headed(n)
  BY TextStays
<1>2. PICK n : n = at + 1
  OBVIOUS
<1>3. n - 1 = at /\ n > 1
  <2>1. at \in Nat /\ at # 0
    BY DEF Shape
  <2> QED
    BY <1>2, <2>1
<1>4. n = at' /\ Enclosing(P, n)' /\ StackFollows(S, P)'
  BY <1>1, <1>2
<1>5. Len(scopes') = scope_of(n - 1)' /\ (block_is_in_function' <=> headed(n)')
  <2>1. scope_of(n - 1) = scope_of(at) /\ headed(n) = headed(at + 1)
    BY <1>2, <1>3
  <2> QED
    BY <1>1, <1>2, <1>3, <2>1
<1> QED
  BY <1>4, <1>5 DEF WalkPlaced

LEMMA PlacedStep ==
  ASSUME Shape, TextInv, Unsized, BuildScopes, ~Redefinition
  PROVE  NodesPlaced' /\ ScopesPlaced' /\ WalkPlaced'
<1>0. /\ pass = "scopes" /\ at \in DOMAIN program /\ UNCHANGED program /\ at' = at + 1 /\ node = program[at]
      /\ program \in Seq(Node) /\ scope_stack \in Seq(DOMAIN scopes) /\ scopes \in Seq(Scope)
  BY DEF BuildScopes, VisitFnItem, VisitBlockExpr, VisitImplItem, VisitDeclaration, VisitLeaf, LeaveNode,
         walking, walk_on, node, Shape
<1>1. Text /\ NodesPlaced /\ ScopesPlaced
  BY DEF TextInv, Text, Shape
<1>2. at \in 1..(Len(program) + 1) /\ at \in Nat \ {0} /\ at - 1 \in Nat
  BY <1>0
<1>3. PICK O : /\ Enclosing(O, at) /\ StackFollows(scope_stack, O)
               /\ Len(scopes) = scope_of(at - 1)
               /\ block_is_in_function <=> headed(at)
  BY <1>0, Zenon DEF TextInv, WalkPlaced
<1>4. stands_for(current_scope, inner_of(at)) /\ current_scope \in Nat
  BY <1>1, <1>2, <1>3, CurrentPlaced, CurrentScope DEF current_scope
<1>5. /\ block_is_in_function => program[at].op \in Leaves \cup {"block"}
      /\ program[at].op = "block" => (block_is_in_function <=> ~makes_scope(at))
      /\ headed(at + 1) <=> program[at].op = "fn" \/ (program[at].op \in Leaves /\ block_is_in_function)
  <2>1. block_is_in_function => program[at].op \in Leaves \/ (program[at].op = "block" /\ program[at].role # "stmt")
    BY <1>0, <1>1, <1>3, HeadBeforeBody
  <2>2. program[at].op = "block" /\ ~makes_scope(at) => block_is_in_function
    <3> SUFFICES ASSUME program[at].op = "block", ~makes_scope(at) PROVE block_is_in_function
      OBVIOUS
    <3>1. opens(at)
      BY DEF opens
    <3>2. \E h \in 1..(at - 1) : in_head(program, h, at)
      BY <1>0, <1>1, <3>1, BodyAfterHead
    <3> QED
      BY <1>3, <3>2 DEF headed
  <2>3. headed(at + 1) <=> program[at].op = "fn" \/ (program[at].op \in Leaves /\ block_is_in_function)
    BY <1>2, <1>3, HeadStep
  <2>4. program[at].op = "block" => program[at].op \notin Leaves
    BY DEF Leaves
  <2> QED
    BY <2>1, <2>2, <2>3, <2>4 DEF makes_scope
<1>6. /\ makes_scope(at) => scope_of(at) = Len(scopes) + 1
      /\ ~makes_scope(at) => scope_of(at) = Len(scopes)
      /\ Len(scopes) + 1 \in Nat
  <2>1. \A n \in Nat : n > 0 => scope_of(n) = scope_of(n - 1) + IF makes_scope(n) THEN 1 ELSE 0
    BY ScopeOfStep
  <2> QED
    BY <1>0, <1>2, <1>3, <2>1
<1>7. /\ textual(at) = IF program[at].op = "block" /\ makes_scope(at) THEN {at} ELSE inner_of(at)
      /\ O \in Seq(Nat)
  BY <1>0, <1>1, <1>3, TextualIs DEF Enclosing
<1>8. /\ ~opens(at) /\ program[at].op # "end" => Enclosing(O, at + 1)
      /\ opens(at) => Enclosing(Append(O, at), at + 1)
      /\ program[at].op = "end" /\ O # << >> => Enclosing(Front(O), at + 1)
  BY <1>2, <1>3, EnclosingStep
<1>9. ASSUME NEW x, node_scope_map' = Append(node_scope_map, x), placed(at, x)
      PROVE  NodesPlaced' /\ DOMAIN node_scope_map' = DOMAIN node_scope_map \cup {at}
  <2>1. NodesPlaced' /\ DOMAIN node_scope_map = 1..(at - 1) /\ DOMAIN node_scope_map' = 1..at
    BY <1>0, <1>1, <1>9, NodesAdvance
  <2>2. 1..at = (1..(at - 1)) \cup {at}
    BY <1>2
  <2> QED
    BY <2>1, <2>2
<1>10. ASSUME makes_scope(at), opens(at), NEW kind, NEW impl, push_scope(kind, impl),
              kind = "Function" <=> program[at].op = "fn",
              NEW x, node_scope_map' = Append(node_scope_map, x), placed(at, x),
              block_is_in_function' <=> headed(at + 1)
       PROVE  NodesPlaced' /\ ScopesPlaced' /\ WalkPlaced'
  <2>1. NodesPlaced' /\ DOMAIN node_scope_map' = DOMAIN node_scope_map \cup {at}
    BY <1>9, <1>10
  <2>2. ScopesPlaced' /\ Len(scopes') = scope_of(at)
    BY <1>0, <1>1, <1>2, <1>3, <1>4, <1>10, <2>1, ScopesGrown
  <2>3. scope_stack' = Append(scope_stack, Len(scopes) + 1)
    BY <1>10, PushAdds
  <2>4. StackFollows(Append(scope_stack, Len(scopes) + 1), Append(O, at))
    <3> DEFINE y == Len(scopes) + 1
    <3>1. y \in Nat /\ y = IF makes_scope(at) THEN scope_of(at) ELSE Last(scope_stack)
      BY <1>6, <1>10
    <3> HIDE DEF y
    <3>2. StackFollows(Append(scope_stack, y), Append(O, at))
      BY <1>2, <1>3, <1>7, <3>1, FollowsAppend
    <3> QED
      BY <3>2 DEF y
  <2>5. WalkPlaced'
    BY <1>0, <1>8, <1>10, <2>2, <2>3, <2>4, WalkGoesOn
  <2> QED
    BY <2>1, <2>2, <2>5
<1>11. ASSUME ~makes_scope(at), UNCHANGED scopes, NEW x, node_scope_map' = Append(node_scope_map, x),
              placed(at, x)
       PROVE  NodesPlaced' /\ ScopesPlaced' /\ Len(scopes') = scope_of(at)
  <2>1. NodesPlaced' /\ DOMAIN node_scope_map' = DOMAIN node_scope_map \cup {at}
    BY <1>9, <1>11
  <2>2. ScopesPlaced'
    BY <1>0, <1>1, <1>2, <1>11, <2>1, ScopesKept
  <2> QED
    BY <1>6, <1>11, <2>1, <2>2
<1>12. CASE VisitFnItem \/ VisitImplItem
  <2>1. /\ program[at].op \in {"fn", "impl"} /\ node_scope_map' = Append(node_scope_map, current_scope)
        /\ \/ program[at].op = "fn" /\ push_scope("Function", NoName) /\ block_is_in_function' = TRUE
           \/ program[at].op = "impl" /\ push_scope("Impl", node.name)
              /\ block_is_in_function' = block_is_in_function
    BY <1>0, <1>12 DEF VisitFnItem, VisitImplItem, walk_on, set_flag
  <2>2. makes_scope(at) /\ opens(at) /\ placed(at, current_scope)
    BY <1>4, <1>7, <2>1 DEF makes_scope, opens, placed
  <2>3. block_is_in_function' <=> headed(at + 1)
    BY <1>5, <2>1 DEF Leaves
  <2> QED
    BY <1>10, <2>1, <2>2, <2>3
<1>13. CASE VisitBlockExpr
  <2>1. /\ program[at].op = "block" /\ block_is_in_function' = FALSE
        /\ node_scope_map' = Append(node_scope_map, Last(scope_stack'))
        /\ block_is_in_function => scope_stack' = Append(scope_stack, current_scope) /\ UNCHANGED scopes
        /\ ~block_is_in_function => push_scope("Block", NoName)
    BY <1>0, <1>13 DEF VisitBlockExpr, set_flag
  <2>2. opens(at) /\ (block_is_in_function' <=> headed(at + 1))
    BY <1>5, <2>1 DEF opens, Leaves
  <2>3. CASE block_is_in_function
    <3>1. ~makes_scope(at)
      BY <1>5, <2>1, <2>3
    <3>2. Last(scope_stack') = current_scope
      BY <1>0, <1>4, <2>1, <2>3 DEF Last, Shape
    <3>3. placed(at, Last(scope_stack'))
      BY <1>4, <1>7, <2>1, <3>1, <3>2 DEF placed
    <3>4. NodesPlaced' /\ ScopesPlaced' /\ Len(scopes') = scope_of(at)
      BY <1>11, <2>1, <2>3, <3>1, <3>3
    <3>5. StackFollows(Append(scope_stack, current_scope), Append(O, at))
      BY <1>2, <1>3, <1>4, <1>7, <3>1, FollowsAppend DEF current_scope
    <3>6. WalkPlaced'
      BY <1>0, <1>8, <2>1, <2>2, <2>3, <3>4, <3>5, WalkGoesOn
    <3> QED
      BY <3>4, <3>6
  <2>4. CASE ~block_is_in_function
    <3>1. makes_scope(at)
      BY <1>5, <2>1, <2>4
    <3>2. scope_stack' = Append(scope_stack, Len(scopes) + 1)
      BY <2>1, <2>4, PushAdds
    <3>3. Last(scope_stack') = scope_of(at)
      <4>1. scope_stack \in Seq(Nat)
        BY <1>3 DEF StackFollows
      <4> QED
        BY <1>6, <3>1, <3>2, <4>1 DEF Last
    <3>4. placed(at, Last(scope_stack'))
      BY <1>2, <1>7, <2>1, <3>1, <3>3 DEF placed, stands_for
    <3> QED
      BY <1>10, <2>1, <2>2, <2>4, <3>1, <3>4
  <2> QED
    BY <2>3, <2>4
<1>14. CASE VisitDeclaration \/ VisitLeaf
  <2>1. /\ program[at].op \in Leaves \cup {"type", "const"} /\ block_is_in_function' = block_is_in_function
        /\ node_scope_map' = Append(node_scope_map, current_scope) /\ UNCHANGED <<scopes, scope_stack>>
    BY <1>0, <1>14 DEF VisitDeclaration, VisitLeaf, walk_on
  <2>2. ~opens(at) /\ ~makes_scope(at) /\ program[at].op \notin {"end", "block", "fn"}
    BY <2>1 DEF opens, makes_scope, Leaves
  <2>3. placed(at, current_scope)
    BY <1>4, <1>7, <2>2 DEF placed
  <2>4. NodesPlaced' /\ ScopesPlaced' /\ Len(scopes') = scope_of(at)
    BY <1>11, <2>1, <2>2, <2>3
  <2>5. block_is_in_function' <=> headed(at + 1)
    BY <1>5, <2>1, <2>2 DEF Leaves
  <2>6. WalkPlaced'
    BY <1>0, <1>3, <1>8, <2>1, <2>2, <2>4, <2>5, WalkGoesOn
  <2> QED
    BY <2>4, <2>6
<1>15. CASE LeaveNode
  <2>1. /\ program[at].op = "end" /\ block_is_in_function' = block_is_in_function
        /\ node_scope_map' = Append(node_scope_map, current_scope) /\ UNCHANGED scopes
        /\ Len(scope_stack) > 1 /\ scope_stack' = Front(scope_stack)
    BY <1>0, <1>15 DEF LeaveNode, walk_on
  <2>2. ~opens(at) /\ ~makes_scope(at)
    BY <2>1 DEF opens, makes_scope
  <2>3. O # << >>
    BY <1>3, <2>1 DEF StackFollows
  <2>4. placed(at, current_scope)
    <3>1. 1 \in DOMAIN O
      BY <1>7, <2>3
    <3> QED
      BY <1>3, <2>1, <3>1 DEF placed, Enclosing
  <2>5. NodesPlaced' /\ ScopesPlaced' /\ Len(scopes') = scope_of(at)
    BY <1>11, <2>1, <2>2, <2>4
  <2>6. StackFollows(Front(scope_stack), Front(O))
    BY <1>3, <1>7, <2>3, FollowsFront
  <2>7. WalkPlaced'
    <3>1. block_is_in_function' <=> headed(at + 1)
      BY <1>5, <2>1 DEF Leaves
    <3> QED
      BY <1>0, <1>8, <2>1, <2>3, <2>5, <2>6, <3>1, WalkGoesOn
  <2> QED
    BY <2>5, <2>7
<1> QED
  BY <1>12, <1>13, <1>14, <1>15 DEF BuildScopes

LEMMA TextBuilt ==
  ASSUME IInv, SInv, TextInv, BuildScopes
  PROVE  TextInv'
<1>0. Shape /\ pass = "scopes" /\ UNCHANGED program /\ at \in Nat /\ node_scope_map \in Seq(Nat)
      /\ program \in Seq(Node) /\ decls \in Seq(Declaration) /\ Len(node_scope_map) = at - 1
  BY DEF IInv, Shape, BuildScopes, Redefinition, VisitFnItem, VisitBlockExpr, VisitImplItem,
         VisitDeclaration, VisitLeaf, LeaveNode, walking, walk_on
<1>1. /\ \A m : scope_of(m)' = scope_of(m) /\ (makes_scope(m)' <=> makes_scope(m))
      /\ \A n, s : placed(n, s)' <=> placed(n, s)
      /\ \A m, tree : grown(m, tree)' <=> grown(m, tree)
      /\ Unsized' <=> Unsized
      /\ well_bodied(program)'
  BY <1>0, TextStays DEF TextInv
<1>2. CASE Redefinition
  <2>1. UNCHANGED <<scopes, decls, node_scope_map, program>> /\ pass' = "CE"
    BY <1>2 DEF Redefinition, refuse, scopeVars
  <2>2. FnsPlaced'
    BY <1>1, <2>1 DEF TextInv, FnsPlaced, Fns
  <2>3. Unsized => NodesPlaced' /\ ScopesPlaced'
    BY <1>1, <2>1 DEF TextInv, NodesPlaced, ScopesPlaced
  <2> QED
    BY <1>1, <2>1, <2>2, <2>3 DEF TextInv, Accepted
<1>3. CASE ~Redefinition
  <2>1. pass' = "scopes" /\ at \in DOMAIN program /\ node = program[at]
    BY <1>3 DEF BuildScopes, VisitFnItem, VisitBlockExpr, VisitImplItem,
         VisitDeclaration, VisitLeaf, LeaveNode, walking, walk_on, node
  <2>2. Unsized => NodesPlaced' /\ ScopesPlaced' /\ WalkPlaced'
    BY <1>0, <1>3, PlacedStep
  <2>3. CASE ~VisitFnItem
    <3>1. \E x : node_scope_map' = Append(node_scope_map, x)
      BY <1>3, <2>3 DEF BuildScopes, VisitBlockExpr, VisitImplItem, VisitDeclaration, VisitLeaf, LeaveNode, walk_on
    <3>2. node.op # "fn"
      BY <1>3, <2>3 DEF BuildScopes, VisitBlockExpr, VisitImplItem, VisitDeclaration, VisitLeaf, LeaveNode, Leaves
    <3>3. UNCHANGED decls \/ \E e : decls' = Append(decls, e) /\ e.kind # "fn"
      <4>1. CASE ~VisitDeclaration
        BY <1>3, <2>3, <4>1 DEF BuildScopes, VisitBlockExpr, VisitImplItem, VisitLeaf, LeaveNode
      <4>2. CASE VisitDeclaration
        <5>1. /\ node.op = "type" => node.kind # "fn"
              /\ \A k, x : declaration(k, x, current_scope, at, 0).kind = k
          BY <1>0, <2>1, NodeOfWalk DEF declaration, Types
        <5> HIDE DEF declaration
        <5> QED
          BY <4>2, <5>1 DEF VisitDeclaration
      <4> QED
        BY <4>1, <4>2
    <3>4. FnsPlaced'
      BY <1>0, <2>1, <3>1, <3>2, <3>3, FnsAdvance DEF TextInv
    <3> QED
      BY <1>1, <2>1, <2>2, <3>4 DEF TextInv, Accepted
  <2>4. CASE VisitFnItem
    <3> DEFINE e == declaration("fn", node.name, current_scope, at, Len(scopes) + 1)
               n == Len(decls)
    <3>1. /\ node.op = "fn" /\ decls' = Append(decls, e)
          /\ node_scope_map' = Append(node_scope_map, current_scope)
      BY <2>4 DEF VisitFnItem, walk_on
    <3>2. /\ DOMAIN decls' = DOMAIN decls \cup {n + 1} /\ n + 1 \notin DOMAIN decls
          /\ \A d \in DOMAIN decls : decls'[d] = decls[d]
          /\ decls'[n + 1] = e
      BY <1>0, <3>1, AppendDeclares
    <3>3. e.kind = "fn" /\ e.scope = current_scope /\ e.node = at /\ e.name = node.name /\ e.inner = Len(scopes) + 1
      BY DEF declaration
    <3> HIDE DEF e, n
    <3>4. Fns' = Fns \cup {n + 1} /\ n + 1 \notin Fns /\ \A d \in Fns : decls'[d] = decls[d]
      BY <3>2, <3>3 DEF Fns
    <3>5. /\ \A k \in DOMAIN node_scope_map : k \in DOMAIN node_scope_map' /\ node_scope_map'[k] = node_scope_map[k]
          /\ at \in DOMAIN node_scope_map' /\ node_scope_map'[at] = current_scope
      BY <1>0, <2>1, <3>1
    <3>6. Unsized => Len(scopes) + 1 = scope_of(at)
      <4> SUFFICES ASSUME Unsized PROVE Len(scopes) + 1 = scope_of(at)
        OBVIOUS
      <4>1. Len(scopes) = scope_of(at - 1)
        BY <1>0, Zenon DEF TextInv, WalkPlaced
      <4>2. makes_scope(at) /\ at \in Nat /\ at > 0
        BY <1>0, <2>1, <3>1 DEF makes_scope, opens
      <4>3. \A k \in Nat : k > 0 => scope_of(k) = scope_of(k - 1) + IF makes_scope(k) THEN 1 ELSE 0
        BY ScopeOfStep
      <4> QED
        BY <4>1, <4>2, <4>3
    <3>7. FnsPlaced'
      <4> SUFFICES ASSUME NEW d \in Fns', NEW k, decls'[d].node = k
                   PROVE  /\ k \in DOMAIN node_scope_map' /\ decls'[d].scope = node_scope_map'[k]
                          /\ decls'[d].name = program[k].name
                          /\ Unsized => decls'[d].inner = scope_of(k)
        BY <1>0, <1>1 DEF FnsPlaced
      <4>1. CASE d \in Fns
        BY <3>4, <3>5, <4>1 DEF TextInv, FnsPlaced
      <4>2. CASE d = n + 1
        BY <2>1, <3>2, <3>3, <3>5, <3>6, <4>2
      <4> QED
        BY <3>4, <4>1, <4>2
    <3> QED
      BY <1>1, <2>1, <2>2, <3>7 DEF TextInv, Accepted
  <2> QED
    BY <2>3, <2>4
<1> QED
  BY <1>2, <1>3

LEMMA TextSettled ==
  ASSUME IInv, IInv', SInv, TextInv, (Check /\ UNCHANGED lowerVars) \/ Lower \/ Generate
  PROVE  TextInv'
<1>1. /\ UNCHANGED <<program, scopes, node_scope_map>> /\ OthersDeclared
      /\ pass' # "scopes" /\ pass # "CE"
      /\ pass = "scopes" => at > Len(program)
  BY Settled
<1>2. Fns' = Fns /\ \A d \in Fns : decls'[d] = decls[d]
  BY <1>1, FnsStay
<1>3. /\ \A m : scope_of(m)' = scope_of(m) /\ (makes_scope(m)' <=> makes_scope(m))
      /\ \A n, s : placed(n, s)' <=> placed(n, s)
      /\ \A m, tree : grown(m, tree)' <=> grown(m, tree)
      /\ Unsized' <=> Unsized
      /\ well_bodied(program)'
  BY <1>1, TextStays DEF TextInv
<1>4. FnsPlaced'
  BY <1>1, <1>2, <1>3 DEF TextInv, FnsPlaced
<1>5. Unsized => NodesPlaced' /\ ScopesPlaced'
  BY <1>1, <1>3 DEF TextInv, NodesPlaced, ScopesPlaced
<1>6. Len(node_scope_map) >= Len(program)
  <2>1. CASE pass = "scopes"
    BY <1>1, <2>1 DEF IInv, Shape
  <2>2. CASE pass # "scopes"
    BY <1>1, <2>2 DEF TextInv
  <2> QED
    BY <2>1, <2>2
<1>7. Accepted' => Unsized
  <2>1. CASE Accepted
    BY <2>1 DEF TextInv
  <2>2. CASE ResolveBodies
    <3>1. pass' = "check" => \A n \in DOMAIN program : ~refused_node(n)
      BY <2>2 DEF ResolveBodies, refuse
    <3>2. pass' \in {"CE", "check"}
      BY <2>2 DEF ResolveBodies, refuse
    <3> QED
      BY <3>1, <3>2 DEF Unsized, refused_node, Accepted
  <2>3. CASE ~Accepted /\ ~ResolveBodies
    BY <2>3 DEF Accepted, Check, FinishScopes, RefuseScope, Scope_dfs_and_build_type, AddBuiltins,
       NameUnknown, ReceiverUnknown, ResolveName, CheckFnItem, CheckLetStmt, CheckNode, refuse,
       unresolved_node, walking, Lower, FinishCheck, LoweringFails, visit_scope, FinishGlobals,
       Generate, GenFnItem, SkipFnItem, GenFails, GenEnter, GenLeave, GenReturn,
       GenLetStmt, GenIdentifierExpr, GenCallExpr, GenNothing, FinishGen, gen_on, generating
  <2> QED
    BY <2>1, <2>2, <2>3
<1> QED
  BY <1>1, <1>3, <1>4, <1>5, <1>6, <1>7 DEF TextInv

LEMMA TextInvariant == Spec => []TextInv
<1>1. Init => TextInv
  <2> SUFFICES ASSUME Init PROVE TextInv
    OBVIOUS
  <2>1. /\ program \in Programs /\ pass = "scopes" /\ at = 1 /\ scopes = <<new_scope(0, "Root", NoName)>>
        /\ decls = << >> /\ scope_stack = <<1>> /\ node_scope_map = << >> /\ block_is_in_function = FALSE
    BY DEF Init, ScopesInit
  <2>2. well_bodied(program)
    BY <2>1, BodiesAssumption
  <2>3. FnsPlaced /\ NodesPlaced /\ ~Accepted
    BY <2>1 DEF FnsPlaced, Fns, NodesPlaced, Accepted
  <2>4. ScopesPlaced
    BY <2>1 DEF ScopesPlaced, new_scope
  <2>5. WalkPlaced
    <3>1. Enclosing(<< >>, 1) /\ StackFollows(<<1>>, << >>)
      BY EnclosingStart DEF StackFollows
    <3>2. scope_of(0) = 1
      BY ScopeOfStep
    <3>3. Len(scopes) = scope_of(1 - 1)
      BY <2>1, <3>2
    <3>4. block_is_in_function <=> headed(1)
      BY <2>1 DEF headed
    <3> QED
      BY <2>1, <3>1, <3>3, <3>4, Zenon DEF WalkPlaced
  <2> QED
    BY <2>1, <2>2, <2>3, <2>4, <2>5 DEF TextInv
<1>2. IInv /\ IInv' /\ SInv /\ TextInv /\ [Next]_vars => TextInv'
  <2> SUFFICES ASSUME IInv, IInv', SInv, TextInv, [Next]_vars PROVE TextInv'
    OBVIOUS
  <2>1. CASE UNCHANGED vars
    <3>1. UNCHANGED <<program, pass, at, scopes, decls, scope_stack, node_scope_map, block_is_in_function>>
      BY <2>1 DEF vars, scopeVars
    <3>2. /\ \A m : scope_of(m)' = scope_of(m) /\ (makes_scope(m)' <=> makes_scope(m))
          /\ \A n, s : placed(n, s)' <=> placed(n, s)
          /\ \A m, tree : grown(m, tree)' <=> grown(m, tree)
          /\ \A O, n : Enclosing(O, n)' <=> Enclosing(O, n)
          /\ \A stack, O : StackFollows(stack, O)' <=> StackFollows(stack, O)
          /\ \A n : headed(n)' <=> headed(n)
          /\ Unsized' <=> Unsized
          /\ well_bodied(program)'
      BY <3>1, TextStays DEF TextInv
    <3>3. FnsPlaced' /\ (Unsized => NodesPlaced' /\ ScopesPlaced')
      BY <3>1, <3>2 DEF TextInv, FnsPlaced, Fns, NodesPlaced, ScopesPlaced
    <3>4. WalkPlaced => WalkPlaced'
      BY <3>1, <3>2 DEF WalkPlaced
    <3> QED
      BY <3>1, <3>2, <3>3, <3>4 DEF TextInv, Accepted
  <2> QED
    BY <2>1, TextBuilt, TextSettled DEF Next
<1> QED
  BY <1>1, <1>2, ScopesInvariant, PTL DEF Spec

(* The body of a function is in the scope of the function.                 *)
LEMMA BodyInside ==
  ASSUME Text, NEW n \in DOMAIN program, program[n].op = "fn"
  PROVE  n + 1 \in DOMAIN program /\ program[n + 1].op # "end" /\ textual(n + 1) = {n}
<1>1. /\ n + 1 \in DOMAIN program /\ n \in Nat \ {0}
      /\ program[n + 1].op \in Leaves \/ (program[n + 1].op = "block" /\ program[n + 1].role # "stmt")
  <2>1. n \in Nat \ {0} /\ n + 1 \in Nat \ {0} /\ DOMAIN program = 1..Len(program) /\ Len(program) \in Nat
    BY DEF Text
  <2>2. n + 1 \in DOMAIN program
    BY <2>1 DEF Text, well_bodied
  <2>3. headed(n + 1)
    BY <2>1, HeadStep
  <2> QED
    BY <2>1, <2>2, <2>3, HeadBeforeBody
<1>2. textual(n + 1) = inner_of(n + 1) /\ program[n + 1].op # "end"
  BY <1>1, TextualIs DEF makes_scope, Leaves
<1>3. opens(n) /\ makes_scope(n)
  BY DEF opens, makes_scope
<1>4. n \in around(n + 1)
  BY <1>1, <1>3, OpenStep, AroundOpen
<1>5. \A k \in around(n + 1) : k <= n /\ k \in Nat
  BY <1>1 DEF around
<1> QED
  BY <1>1, <1>2, <1>4, <1>5 DEF inner_of

(***************************************************************************)
(* ScopeBuilder_Visitor gives every node the scope of the construct around *)
(* it in the text: which block is the body of a function follows from the  *)
(* flag block_is_in_function.                                              *)
(***************************************************************************)
THEOREM ScopesFollow == Spec => []ScopesFollowText
<1>1. IInv /\ SInv /\ TextInv => ScopesFollowText
  <2> SUFFICES ASSUME IInv, SInv, TextInv, pass = "done"
               PROVE  /\ \A d \in DOMAIN decls : decls[d].kind = "fn" => node_scope_map[decls[d].node + 1] = decls[d].inner
                      /\ \A m, n \in {k \in DOMAIN program : program[k].op # "end"} :
                           (node_scope_map[m] = node_scope_map[n]) <=> (textual(m) = textual(n))
    BY Zenon DEF ScopesFollowText
  <2>1. Text /\ NodesPlaced /\ FnsPlaced /\ Unsized /\ DOMAIN program \subseteq DOMAIN node_scope_map
    <3>1. /\ program \in Seq(Node) /\ node_scope_map \in Seq(Nat)
          /\ Len(node_scope_map) >= Len(program)
      BY DEF IInv, Shape, TextInv
    <3>2. Unsized /\ well_bodied(program) /\ NodesPlaced /\ FnsPlaced
      BY DEF TextInv, Accepted
    <3> QED
      BY <3>1, <3>2 DEF Text
  <2>2. \A n \in DOMAIN program : program[n].op # "end" => stands_for(node_scope_map[n], textual(n))
    BY <2>1, Zenon DEF NodesPlaced, placed
  <2>3. ASSUME NEW d \in DOMAIN decls, decls[d].kind = "fn"
        PROVE  node_scope_map[decls[d].node + 1] = decls[d].inner
    <3>1. PICK n : n = decls[d].node
      OBVIOUS
    <3>2. d \in Fns /\ n \in DOMAIN program /\ program[n].op = "fn" /\ decls[d].inner = scope_of(n)
      BY <2>1, <2>3, <3>1 DEF SInv, FnPerNode, Fns, FnsPlaced
    <3>3. n + 1 \in DOMAIN program /\ program[n + 1].op # "end" /\ textual(n + 1) = {n}
      BY <2>1, <3>2, BodyInside
    <3>4. stands_for(node_scope_map[n + 1], {n})
      BY <2>2, <3>3, Zenon
    <3>5. node_scope_map[n + 1] = scope_of(n)
      BY <3>4 DEF stands_for
    <3> QED
      BY <3>1, <3>2, <3>5
  <2>4. \A m, n \in {k \in DOMAIN program : program[k].op # "end"} :
          (node_scope_map[m] = node_scope_map[n]) <=> (textual(m) = textual(n))
    BY <2>2, StandsForOne, Zenon
  <2> QED
    BY <2>3, <2>4
<1> QED
  BY <1>1, ScopesInvariant, TextInvariant, PTL
-----------------------------------------------------------------------------
(* The scopes around a node *)

(* What is open at something open is open too. *)
LEMMA OpenInside ==
  ASSUME NEW n \in Nat \ {0}, NEW m \in open_at(n), NEW k \in open_at(m)
  PROVE  k \in open_at(n) /\ k < m
<1>1. /\ m \in 1..(n - 1) /\ m \in Nat \ {0} /\ opens(k)
      /\ k \in 1..(m - 1) /\ k \in Nat \ {0} /\ k \in 1..(n - 1) /\ k < m
  BY DEF open_at
<1>2. ASSUME NEW j \in k..(n - 1) PROVE Depth(k, j) > 0
  <2>1. CASE j \in k..(m - 1)
    BY <1>1, <2>1 DEF open_at
  <2>2. CASE j \notin k..(m - 1)
    <3>1. j \in m..(n - 1) /\ j \in Nat /\ k <= m /\ m <= j + 1 /\ m - 1 \in k..(m - 1)
      BY <1>1, <2>2
    <3>2. Depth(m, j) > 0 /\ Depth(k, m - 1) > 0
      BY <1>1, <3>1 DEF open_at
    <3>3. Depth(k, j) = Depth(k, m - 1) + Depth(m, j) /\ Depth(k, m - 1) \in Int /\ Depth(m, j) \in Int
      BY <1>1, <3>1, DepthAdds
    <3> QED
      BY <3>2, <3>3
  <2> QED
    BY <2>1, <2>2
<1> QED
  BY <1>1, <1>2 DEF open_at

LEMMA AroundInside ==
  ASSUME NEW n \in Nat \ {0}, NEW m \in around(n)
  PROVE  m \in Nat \ {0} /\ m < n /\ makes_scope(m) /\ around(m) \subseteq around(n)
<1>1. m \in open_at(n) /\ makes_scope(m)
  BY AroundOpen
<1>2. \A k \in open_at(m) : k \in open_at(n)
  BY <1>1, OpenInside
<1>3. around(m) \subseteq around(n)
  BY <1>2, AroundOpen
<1> QED
  BY <1>1, <1>3, OpenStep

(* The scopes of some constructs, and the root. *)
scopes_of(T) == {1} \cup {scope_of(m) : m \in T}

(* A search outward ends in a scope of a set that has the parents of its scopes. *)
LEMMA NearestInside ==
  ASSUME Shape, Tree, Rooted, NEW found, NEW C \in SUBSET DOMAIN scopes,
         \A s \in C : scopes[s].parent = 0 \/ scopes[s].parent \in C,
         NEW s \in C, nearest(s, found) # {}
  PROVE  \E t \in C : nearest(s, found) = found[t]
<1> DEFINE T == {k \in C : nearest(k, found) # {} /\ ~\E t \in C : nearest(k, found) = found[t]}
<1> SUFFICES ASSUME T # {} PROVE FALSE
  OBVIOUS
<1>1. T \in SUBSET Nat /\ DOMAIN scopes = 1..Len(scopes) /\ Len(scopes) \in Nat
  BY DEF Shape
<1>2. PICK k \in T : \A m \in T : k <= m
  BY <1>1, Least
<1>3. nearest(0, found) = {} /\ nearest(k, found) = IF found[k] # {} THEN found[k] ELSE nearest(scopes[k].parent, found)
  BY <1>2, NearestOutward
<1>4. scopes[k].parent \in 0..Len(scopes) /\ scopes[k].parent < k
  BY <1>2, ParentIsOlder
<1>5. scopes[k].parent \notin T
  BY <1>1, <1>2, <1>4
<1>6. scopes[k].parent = 0 \/ scopes[k].parent \in C
  BY <1>2
<1> QED
  BY <1>1, <1>2, <1>3, <1>5, <1>6

(* A set of constructs that has what is around each of them. *)
Nest(T) ==
  \A m \in T : m \in DOMAIN program /\ makes_scope(m) /\ inner_of(m) \subseteq T

LEMMA ScopesOfNest ==
  ASSUME Shape, Rooted, ScopesPlaced, DOMAIN program \subseteq DOMAIN node_scope_map, NEW T, Nest(T)
  PROVE  /\ scopes_of(T) \in SUBSET DOMAIN scopes
         /\ \A s \in scopes_of(T) : scopes[s].parent = 0 \/ scopes[s].parent \in scopes_of(T)
<1>1. \A m \in T : grown(m, scopes)
  BY DEF ScopesPlaced, Nest
<1>2. ASSUME NEW m \in T
      PROVE  scope_of(m) \in DOMAIN scopes /\ scopes[scope_of(m)].parent \in scopes_of(T)
  <2>1. scope_of(m) \in DOMAIN scopes /\ stands_for(scopes[scope_of(m)].parent, inner_of(m))
    BY <1>1, <1>2 DEF grown
  <2>2. inner_of(m) \subseteq T
    BY <1>2 DEF Nest
  <2> QED
    BY <2>1, <2>2 DEF stands_for, scopes_of
<1>3. 1 \in DOMAIN scopes /\ scopes[1].parent = 0
  BY DEF Shape, Rooted
<1> QED
  BY <1>2, <1>3 DEF scopes_of

LEMMA AroundNests ==
  ASSUME Text, NEW n \in 1..(Len(program) + 1)
  PROVE  Nest(around(n)) /\ (n \in DOMAIN program /\ makes_scope(n) => Nest(around(n) \cup {n}))
<1>1. n \in Nat \ {0} /\ DOMAIN program = 1..Len(program) /\ Len(program) \in Nat
  BY DEF Text
<1>2. ASSUME NEW m \in around(n)
      PROVE  m \in DOMAIN program /\ makes_scope(m) /\ inner_of(m) \subseteq around(n)
  <2>1. m \in Nat \ {0} /\ m < n /\ makes_scope(m) /\ around(m) \subseteq around(n)
    BY <1>1, <1>2, AroundInside
  <2>2. m \in DOMAIN program
    BY <1>1, <2>1
  <2> QED
    BY <2>1, <2>2 DEF inner_of
<1>3. inner_of(n) \subseteq around(n)
  BY DEF inner_of
<1> QED
  BY <1>2, <1>3 DEF Nest
-----------------------------------------------------------------------------
(* The locals *)

Lets == {d \in DOMAIN decls : decls[d].kind = "let"}

(* A local made at node n is in the scope of the text there, a parameter   *)
(* in the scope of its function.                                           *)
introduced(n, s) ==
  /\ n \in DOMAIN program
  /\ \/ program[n].op = "fn" /\ s = scope_of(n)
     \/ program[n].op = "let" /\ stands_for(s, inner_of(n))

LetsPlaced ==
  \A d \in Lets : \A n, s :
    decls[d].node = n /\ decls[d].scope = s => introduced(n, s) /\ (pass = "check" => n < at)

(* A name is resolved to a local that comes before it, in a scope around it. *)
UsesPlaced ==
  \A n \in DOMAIN resolved : \A d \in resolved[n] \cap Lets : \A e, s :
    decls[d].node = e /\ decls[d].scope = s => e < n /\ s \in scopes_of(around(n))

LetInv ==
  /\ pass \in {"scopes", "types", "constants"} => Lets = {}
  /\ Accepted => LetsPlaced /\ UsesPlaced

LEMMA ReachStays ==
  ASSUME UNCHANGED program
  PROVE  /\ \A n, s : introduced(n, s)' <=> introduced(n, s)
         /\ \A n : scopes_of(around(n))' = scopes_of(around(n))
<1>1. /\ \A m : scope_of(m)' = scope_of(m)
      /\ \A n : inner_of(n)' = inner_of(n)
      /\ \A s, T : stands_for(s, T)' <=> stands_for(s, T)
  BY TextStays
<1>2. \A n : around(n)' = around(n)
  BY Zenon DEF Depth, opens, around, makes_scope
<1>3. \A n, s : introduced(n, s)' <=> introduced(n, s)
  BY <1>1 DEF introduced
<1>4. \A n : scopes_of(around(n))' = scopes_of(around(n))
  BY <1>1, <1>2 DEF scopes_of
<1> QED
  BY <1>3, <1>4

(* What the builder of scopes declares is no local. *)
LEMMA NoLetsYet ==
  ASSUME IInv, Lets = {}, BuildScopes
  PROVE  Lets' = {}
<1>0. decls \in Seq(Declaration) /\ program \in Seq(Node)
  BY DEF IInv, Shape
<1>1. ASSUME NEW e, decls' = Append(decls, e), e.kind # "let"
      PROVE  Lets' = {}
  <2>1. /\ DOMAIN decls' = DOMAIN decls \cup {Len(decls) + 1}
        /\ \A d \in DOMAIN decls : decls'[d] = decls[d]
        /\ decls'[Len(decls) + 1] = e
    BY <1>0, <1>1, AppendDeclares
  <2> QED
    BY <1>1, <2>1 DEF Lets
<1>2. \A k, x, n, i : declaration(k, x, current_scope, n, i).kind = k
  BY DEF declaration
<1>3. CASE VisitFnItem
  <2>1. decls' = Append(decls, declaration("fn", node.name, current_scope, at, Len(scopes) + 1))
    BY <1>3 DEF VisitFnItem
  <2> HIDE DEF declaration
  <2> QED
    BY <1>1, <1>2, <2>1
<1>4. CASE VisitDeclaration
  <2>1. at \in DOMAIN program /\ (node.op = "type" => node.kind # "let")
    <3>1. at \in DOMAIN program /\ node = program[at]
      BY <1>4 DEF VisitDeclaration, walking, node
    <3> QED
      BY <1>0, <3>1, NodeOfWalk DEF Types
  <2> HIDE DEF declaration
  <2>2. \E k \in {node.kind, "const"} :
          k # "let" /\ decls' = Append(decls, declaration(k, node.name, current_scope, at, 0))
    BY <1>4, <2>1 DEF VisitDeclaration
  <2> QED
    BY <1>1, <1>2, <2>2
<1>5. CASE UNCHANGED decls
  BY <1>5 DEF Lets
<1> QED
  BY <1>3, <1>4, <1>5 DEF BuildScopes, Redefinition, VisitBlockExpr, VisitImplItem, VisitLeaf, LeaveNode, scopeVars

LEMMA NoBuiltinLets ==
  ASSUME IInv, IInv', Lets = {}, AddBuiltins
  PROVE  Lets' = {}
<1>1. decls \in Seq(Declaration)
  BY DEF IInv, Shape
<1>2. CASE UNCHANGED decls
  BY <1>2 DEF Lets
<1>3. CASE decls' = decls \o builtin_decls(RootBuiltins, 1) \o builtin_decls(TypeBuiltins, 0)
  <2> DEFINE A == builtin_decls(RootBuiltins, 1)
             B == builtin_decls(TypeBuiltins, 0)
  <2>1. A \in Seq(Declaration) /\ B \in Seq(Declaration)
    BY BuiltinsTyped
  <2>2. /\ \A i \in DOMAIN A : A[i].kind = "builtin"
        /\ \A i \in DOMAIN B : B[i].kind = "builtin"
    BY DEF builtin_decls, declaration
  <2> HIDE DEF A, B
  <2>3. decls' = decls \o A \o B
    BY <1>3 DEF A, B
  <2>4. \A i \in DOMAIN (A \o B) : (A \o B)[i].kind = "builtin"
    BY <2>1, <2>2
  <2>5. A \o B \in Seq(Declaration) /\ decls' = decls \o (A \o B)
    BY <1>1, <2>1, <2>3, ConcatProperties, ConcatAssociative
  <2>6. \A d \in DOMAIN decls' : (d \in DOMAIN decls /\ decls'[d] = decls[d]) \/ decls'[d].kind = "builtin"
    <3> DEFINE C == A \o B
    <3>1. C \in Seq(Declaration) /\ \A i \in DOMAIN C : C[i].kind = "builtin"
      BY <2>4, <2>5
    <3>2. decls' = decls \o C
      BY <2>5
    <3> HIDE DEF C
    <3> QED
      BY <1>1, <3>1, <3>2
  <2> QED
    BY <2>6 DEF Lets
<1> QED
  BY <1>2, <1>3 DEF AddBuiltins
-----------------------------------------------------------------------------
LEMMA HerePlaced ==
  ASSUME IInv, SInv, TextInv, walking("check"), node.op # "end"
  PROVE  /\ Text /\ Unsized /\ at \in Nat \ {0} /\ node = program[at]
         /\ NodesPlaced /\ ScopesPlaced /\ FnsPlaced /\ DOMAIN program \subseteq DOMAIN node_scope_map
         /\ stands_for(here, textual(at)) /\ here \in DOMAIN scopes
<1>1. /\ program \in Seq(Node) /\ node_scope_map \in Seq(Nat) /\ at \in DOMAIN program
      /\ pass = "check" /\ Len(node_scope_map) >= Len(program)
  BY DEF IInv, Shape, TextInv, walking
<1>2. Unsized /\ well_bodied(program) /\ NodesPlaced /\ ScopesPlaced /\ FnsPlaced
  BY <1>1 DEF TextInv, Accepted
<1>3. Text /\ DOMAIN program \subseteq DOMAIN node_scope_map /\ node = program[at] /\ at \in Nat \ {0}
  BY <1>1, <1>2 DEF Text, node
<1>4. here \in DOMAIN scopes
  BY <1>1, <1>3 DEF SInv, MapTyped, here
<1>5. placed(at, here)
  BY <1>1, <1>2, <1>3 DEF NodesPlaced, here
<1> QED
  BY <1>2, <1>3, <1>4, <1>5 DEF placed

(* A use is resolved to a local in a scope around it. *)
LEMMA UsesReach ==
  ASSUME IInv, SInv, TextInv, MInv, LetsPlaced, walking("check"), node.op \in Names,
         NEW d \in candidates, d \in Lets
  PROVE  \A e, s : decls[d].node = e /\ decls[d].scope = s => e < at /\ s \in scopes_of(around(at))
<1>0. /\ Text /\ Unsized /\ at \in Nat \ {0} /\ node = program[at]
      /\ NodesPlaced /\ ScopesPlaced /\ FnsPlaced /\ DOMAIN program \subseteq DOMAIN node_scope_map
      /\ stands_for(here, textual(at)) /\ here \in DOMAIN scopes /\ at \in DOMAIN program
  BY HerePlaced DEF Names, walking
<1>1. \A e : decls[d].node = e => e < at
  BY DEF LetsPlaced, walking
<1>2. node.op = "use" /\ d \in values_named(node.name, here)
  <2>1. in_table(methods) \cap Lets = {} /\ in_table(associated_func) \cap Lets = {}
    <3>1. \A m \in methods \cup associated_func : m[2] \in Fns
      BY DEF MInv, OfImpl, OneOfName
    <3> QED
      BY <3>1 DEF in_table, Fns, Lets
  <2>2. \A e \in named(namespace(0, {"builtin"}), node.name) : e \notin Lets
    BY DEF named, namespace, Lets
  <2>3. node.op = "call" => FALSE
    BY DEF candidates, Lets
  <2>4. node.op \in {"method", "path", "builtin"} => FALSE
    BY <2>1, <2>2 DEF candidates
  <2>5. node.op = "use"
    BY <2>3, <2>4 DEF Names
  <2> QED
    BY <2>5 DEF candidates
<1>3. here \in scopes_of(around(at))
  <2>1. textual(at) = inner_of(at) /\ inner_of(at) \subseteq around(at)
    BY <1>0, <1>2, TextualIs DEF inner_of
  <2> QED
    BY <1>0, <2>1 DEF stands_for, scopes_of
<1>4. /\ scopes_of(around(at)) \in SUBSET DOMAIN scopes
      /\ \A s \in scopes_of(around(at)) : scopes[s].parent = 0 \/ scopes[s].parent \in scopes_of(around(at))
  <2>1. at \in 1..(Len(program) + 1)
    BY <1>0 DEF Text
  <2>2. Nest(around(at))
    BY <1>0, <2>1, AroundNests
  <2> QED
    BY <1>0, <2>2, ScopesOfNest DEF IInv, SInv
<1> DEFINE locals(t) == named(namespace(t, {"let"}), node.name)
           items(t) == named(namespace(t, Values), node.name)
           found == [t \in DOMAIN scopes |-> IF locals(t) # {} THEN latest(locals(t)) ELSE items(t)]
<1>5. values_named(node.name, here) = nearest(here, found)
  BY DEF values_named
<1>6. \A t \in DOMAIN scopes : \A e \in found[t] : decls[e].scope = t
  BY DEF named, namespace, latest
<1> HIDE DEF found
<1>7. PICK t \in scopes_of(around(at)) : nearest(here, found) = found[t]
  BY <1>2, <1>3, <1>4, <1>5, NearestInside DEF IInv, SInv
<1>8. decls[d].scope = t
  BY <1>2, <1>4, <1>5, <1>6, <1>7
<1> QED
  BY <1>1, <1>7, <1>8

(* The declaration a function item finds for itself is its own. *)
LEMMA OwnDeclaration ==
  ASSUME IInv, SInv, TextInv, walking("check"), node.op = "fn",
         NEW f \in named(namespace(here, {"fn"}), node.name)
  PROVE  decls[f].inner = scope_of(at)
<1>0. /\ Unsized /\ node = program[at] /\ FnsPlaced /\ at \in DOMAIN program /\ pass = "check"
  BY HerePlaced DEF walking
<1>1. f \in Fns /\ decls[f].scope = here /\ decls[f].name = node.name /\ f \in Items
  BY DEF named, namespace, Fns, Items
<1>2. PICK g \in Fns : decls[g].node = at
  BY <1>0 DEF SInv, FnPerNode
<1>3. /\ decls[g].scope = here /\ decls[g].name = node.name /\ decls[g].inner = scope_of(at)
      /\ g \in Items
  BY <1>0, <1>2 DEF FnsPlaced, here, Fns, Items
<1>4. f = g
  BY <1>1, <1>3 DEF IInv, NamesDistinct
<1> QED
  BY <1>3, <1>4
-----------------------------------------------------------------------------
LEMMA NodesAreNumbers ==
  ASSUME decls \in Seq(Declaration)
  PROVE  \A d \in DOMAIN decls : decls[d].node \in Nat /\ decls[d].scope \in Nat
<1>1. \A d \in DOMAIN decls : decls[d] \in Declaration
  BY ElementOfSeq
<1> QED
  BY <1>1 DEF Declaration

LEMMA LetsKept ==
  ASSUME UNCHANGED <<program, decls>>, LetsPlaced, pass' = "check" => at' = at + 1 /\ pass = "check",
         at \in Nat, decls \in Seq(Declaration)
  PROVE  LetsPlaced'
<1>1. (\A n, s : introduced(n, s)' <=> introduced(n, s)) /\ Lets' = Lets
  BY ReachStays DEF Lets
<1>2. ASSUME NEW d \in Lets', NEW n, NEW s, decls'[d].node = n, decls'[d].scope = s
      PROVE  introduced(n, s)' /\ (pass' = "check" => n < at')
  <2>1. introduced(n, s) /\ (pass = "check" => n < at)
    BY <1>1, <1>2 DEF LetsPlaced
  <2>2. n \in Nat
    BY <1>2, NodesAreNumbers DEF Lets
  <2> QED
    BY <1>1, <2>1, <2>2
<1> QED
  BY <1>2 DEF LetsPlaced

LEMMA LetAdded ==
  ASSUME IInv, LetsPlaced, walking("check"), UNCHANGED <<program, pass>>, at' = at + 1,
         NEW name, NEW s, introduce(name, s), introduced(at, s)
  PROVE  LetsPlaced'
<1>0. decls \in Seq(Declaration) /\ at \in Nat /\ pass = "check"
  BY DEF IInv, Shape, walking
<1> DEFINE e == declaration("let", name, s, at, 0)
<1>1. e.node = at /\ e.scope = s /\ decls' = Append(decls, e)
  BY DEF declaration, introduce
<1> HIDE DEF e
<1>2. /\ DOMAIN decls' = DOMAIN decls \cup {Len(decls) + 1}
      /\ \A d \in DOMAIN decls : decls'[d] = decls[d]
      /\ decls'[Len(decls) + 1] = e
  BY <1>0, <1>1, AppendDeclares
<1>3. \A n, t : introduced(n, t)' <=> introduced(n, t)
  BY ReachStays
<1>4. ASSUME NEW d \in Lets', NEW n, NEW t, decls'[d].node = n, decls'[d].scope = t
      PROVE  introduced(n, t)' /\ n < at'
  <2>1. CASE d \in DOMAIN decls
    <3>1. d \in Lets /\ decls[d].node = n /\ decls[d].scope = t /\ n \in Nat
      BY <1>0, <1>2, <1>4, <2>1, NodesAreNumbers DEF Lets
    <3>2. introduced(n, t) /\ n < at
      BY <1>0, <3>1 DEF LetsPlaced
    <3> QED
      BY <1>0, <1>3, <3>1, <3>2
  <2>2. CASE d \notin DOMAIN decls
    <3>1. n = at /\ t = s
      BY <1>1, <1>2, <1>4, <2>2 DEF Lets
    <3> QED
      BY <1>0, <1>3, <3>1
  <2> QED
    BY <2>1, <2>2
<1> QED
  BY <1>4 DEF LetsPlaced

LEMMA UsesKept ==
  ASSUME UNCHANGED program, OthersDeclared, UsesPlaced, resolved \in Seq(SUBSET DOMAIN decls),
         \/ UNCHANGED resolved
         \/ \E S \in SUBSET DOMAIN decls :
              /\ resolved' = Append(resolved, S) /\ Len(resolved) + 1 = at
              /\ \A d \in S \cap Lets : \A e, s :
                   decls[d].node = e /\ decls[d].scope = s => e < at /\ s \in scopes_of(around(at))
  PROVE  UsesPlaced'
<1>1. \A n : scopes_of(around(n))' = scopes_of(around(n))
  BY ReachStays
<1>2. \A d \in DOMAIN decls : decls'[d] = decls[d] /\ (d \in Lets' <=> d \in Lets)
  BY DEF OthersDeclared, Lets
<1>3. ASSUME NEW n \in DOMAIN resolved', NEW d \in resolved'[n] \cap Lets', NEW e, NEW s,
             decls'[d].node = e, decls'[d].scope = s
      PROVE  e < n /\ s \in scopes_of(around(n))'
  <2>1. CASE n \in DOMAIN resolved /\ resolved'[n] = resolved[n]
    <3>1. d \in resolved[n] /\ d \in DOMAIN decls
      BY <1>3, <2>1
    <3>2. d \in resolved[n] \cap Lets /\ decls[d].node = e /\ decls[d].scope = s
      BY <1>2, <1>3, <3>1
    <3>3. e < n /\ s \in scopes_of(around(n))
      BY <2>1, <3>2 DEF UsesPlaced
    <3> QED
      BY <1>1, <3>3
  <2>2. CASE ~(n \in DOMAIN resolved /\ resolved'[n] = resolved[n])
    <3>1. PICK S \in SUBSET DOMAIN decls :
              /\ resolved' = Append(resolved, S) /\ Len(resolved) + 1 = at
              /\ \A x \in S \cap Lets : \A y, t :
                   decls[x].node = y /\ decls[x].scope = t => y < at /\ t \in scopes_of(around(at))
      BY <1>3, <2>2
    <3>2. n = at /\ resolved'[n] = S
      BY <1>3, <2>2, <3>1
    <3>3. d \in S \cap Lets /\ decls[d].node = e /\ decls[d].scope = s
      BY <1>2, <1>3, <3>2
    <3>4. e < at /\ s \in scopes_of(around(at))
      BY <3>1, <3>3
    <3> QED
      BY <1>1, <3>2, <3>4
  <2> QED
    BY <2>1, <2>2
<1> QED
  BY <1>3 DEF UsesPlaced

LEMMA LetsChecked ==
  ASSUME IInv, IInv', SInv, TextInv, MInv, NamesResolved, LetInv, Check, UNCHANGED lowerVars
  PROVE  LetInv'
<1>1. UNCHANGED program /\ OthersDeclared /\ pass # "CE" /\ pass' # "scopes"
  BY Settled
<1>2. decls \in Seq(Declaration) /\ at \in Nat \ {0} /\ resolved \in Seq(SUBSET DOMAIN decls)
  BY DEF IInv, Shape, NamesResolved
<1>3. CASE pass' \in {"CE", "error"}
  BY <1>3 DEF LetInv, Accepted
<1>4. CASE ~(pass' \in {"CE", "error"}) /\ pass \in {"scopes", "types", "constants"}
  <2>1. Lets = {} /\ resolved = << >>
    BY <1>4 DEF LetInv, NamesResolved
  <2>2. CASE AddBuiltins
    <3>1. Lets' = {}
      BY <2>1, <2>2, NoBuiltinLets
    <3>2. pass' = "constants"
      BY <1>4, <2>2 DEF AddBuiltins, refuse
    <3> QED
      BY <3>1, <3>2 DEF LetInv, Accepted
  <2>3. CASE ~AddBuiltins
    <3>1. UNCHANGED <<decls, resolved>>
      BY <1>4, <2>3 DEF Check, FinishScopes, RefuseScope, Scope_dfs_and_build_type, ResolveBodies, NameUnknown,
         ReceiverUnknown, ResolveName, CheckFnItem, CheckLetStmt, CheckNode, scopeVars, checkVars, walking
    <3>2. Lets' = {} /\ resolved' = << >>
      BY <2>1, <3>1 DEF Lets
    <3> QED
      BY <3>2 DEF LetInv, LetsPlaced, UsesPlaced
  <2> QED
    BY <2>2, <2>3
<1>5. CASE ~(pass' \in {"CE", "error"}) /\ ~(pass \in {"scopes", "types", "constants"})
  <2>1. /\ walking("check") /\ pass = "check" /\ pass' = "check" /\ at' = at + 1
        /\ at \in DOMAIN program /\ node = program[at]
        /\ ResolveName \/ CheckFnItem \/ CheckLetStmt \/ CheckNode
    BY <1>5 DEF Check, FinishScopes, RefuseScope, Scope_dfs_and_build_type, AddBuiltins, ResolveBodies, NameUnknown,
       ReceiverUnknown, ResolveName, CheckFnItem, CheckLetStmt, CheckNode, refuse, walking, unresolved_node, node
  <2>2. LetsPlaced /\ UsesPlaced /\ Len(resolved) + 1 = at
    BY <1>2, <2>1 DEF LetInv, Accepted, NamesResolved
  <2>3. CASE ResolveName
    <3>1. UNCHANGED decls /\ resolved' = Append(resolved, candidates) /\ node.op \in Names
      BY <2>3 DEF ResolveName, scopeVars
    <3>2. candidates \subseteq DOMAIN decls
      BY <2>1, CandidatesAreDeclared
    <3>3. \A d \in candidates \cap Lets : \A e, s :
            decls[d].node = e /\ decls[d].scope = s => e < at /\ s \in scopes_of(around(at))
      BY <2>1, <2>2, <3>1, UsesReach
    <3>4. UsesPlaced'
      BY <1>1, <1>2, <2>2, <3>1, <3>2, <3>3, UsesKept
    <3>5. LetsPlaced'
      BY <1>1, <1>2, <2>1, <2>2, <3>1, LetsKept
    <3> QED
      BY <2>1, <3>4, <3>5 DEF LetInv
  <2>4. CASE CheckFnItem \/ CheckLetStmt \/ CheckNode
    <3>1. resolved' = Append(resolved, {})
      BY <2>4 DEF CheckFnItem, CheckLetStmt, CheckNode, unresolved_node
    <3>2. UsesPlaced'
      <4>1. {} \in SUBSET DOMAIN decls /\ {} \cap Lets = {}
        OBVIOUS
      <4> QED
        BY <1>1, <1>2, <2>2, <3>1, <4>1, UsesKept
    <3>3. LetsPlaced'
      <4>1. CASE UNCHANGED decls
        BY <1>1, <1>2, <2>1, <2>2, <4>1, LetsKept
      <4>2. CASE CheckLetStmt
        <5>1. node.op = "let" /\ introduce(node.name, here)
          BY <4>2 DEF CheckLetStmt
        <5>2. Text /\ stands_for(here, textual(at))
          BY <2>1, <5>1, HerePlaced
        <5>3. textual(at) = inner_of(at)
          BY <2>1, <5>1, <5>2, TextualIs
        <5>4. introduced(at, here)
          BY <2>1, <5>1, <5>2, <5>3 DEF introduced
        <5> QED
          BY <1>1, <2>1, <2>2, <5>1, <5>4, LetAdded
      <4>3. CASE CheckFnItem /\ ~UNCHANGED decls
        <5>1. PICK f \in named(namespace(here, {"fn"}), node.name) : introduce(node.param, decls[f].inner)
          BY <4>3 DEF CheckFnItem
        <5>2. node.op = "fn"
          BY <4>3 DEF CheckFnItem
        <5>3. decls[f].inner = scope_of(at)
          BY <2>1, <5>2, OwnDeclaration
        <5>4. introduced(at, decls[f].inner)
          BY <2>1, <5>2, <5>3 DEF introduced
        <5> QED
          BY <1>1, <2>1, <2>2, <5>1, <5>4, LetAdded
      <4> QED
        BY <2>4, <4>1, <4>2, <4>3 DEF CheckNode
    <3> QED
      BY <2>1, <3>2, <3>3 DEF LetInv
  <2> QED
    BY <2>1, <2>3, <2>4
<1> QED
  BY <1>3, <1>4, <1>5

LEMMA LetInvariant == Spec => []LetInv
<1>1. Init => LetInv
  BY DEF Init, ScopesInit, LetInv, Lets, Accepted
<1>2. IInv /\ IInv' /\ SInv /\ TextInv /\ MInv /\ NamesResolved /\ LetInv /\ [Next]_vars => LetInv'
  <2> SUFFICES ASSUME IInv, IInv', SInv, TextInv, MInv, NamesResolved, LetInv, [Next]_vars PROVE LetInv'
    OBVIOUS
  <2>1. CASE BuildScopes /\ UNCHANGED <<checkVars, lowerVars>>
    <3>1. pass = "scopes" /\ pass' \in {"scopes", "CE"}
      BY <2>1 DEF BuildScopes, Redefinition, VisitFnItem, VisitBlockExpr, VisitImplItem,
         VisitDeclaration, VisitLeaf, LeaveNode, walking, walk_on, refuse
    <3>2. Lets' = {}
      BY <2>1, <3>1, NoLetsYet DEF LetInv
    <3> QED
      BY <3>1, <3>2 DEF LetInv, Accepted
  <2>2. CASE Lower \/ Generate \/ UNCHANGED vars
    <3>1. UNCHANGED <<resolved, decls, program>>
      BY <2>2 DEF Lower, FinishCheck, LoweringFails, visit_scope, FinishGlobals,
         Generate, GenFnItem, SkipFnItem, GenFails, GenEnter, GenLeave, GenReturn,
         GenLetStmt, GenIdentifierExpr, GenCallExpr, GenNothing, FinishGen, gen_on,
         scopeVars, checkVars, vars
    <3>2. \/ UNCHANGED <<pass, at>>
          \/ pass \in {"check", "globals", "gen"} /\ pass' \in {"globals", "gen", "done", "error"}
      BY <2>2 DEF Lower, FinishCheck, LoweringFails, visit_scope, FinishGlobals,
         Generate, GenFnItem, SkipFnItem, GenFails, GenEnter, GenLeave, GenReturn,
         GenLetStmt, GenIdentifierExpr, GenCallExpr, GenNothing, FinishGen, gen_on,
         generating, walking, vars
    <3>3. (\A n, s : introduced(n, s)' <=> introduced(n, s)) /\ (\A n : scopes_of(around(n))' = scopes_of(around(n)))
      BY <3>1, ReachStays
    <3>4. UsesPlaced => UsesPlaced'
      BY <3>1, <3>3 DEF UsesPlaced, Lets
    <3>5. CASE UNCHANGED <<pass, at>>
      <4>1. LetsPlaced => LetsPlaced'
        BY <3>1, <3>3, <3>5 DEF LetsPlaced, Lets
      <4> QED
        BY <3>1, <3>4, <3>5, <4>1 DEF LetInv, Accepted, Lets
    <3>6. CASE ~UNCHANGED <<pass, at>>
      <4>1. Accepted /\ pass' # "check" /\ pass' \notin {"scopes", "types", "constants"}
        BY <3>2, <3>6 DEF Accepted
      <4>2. LetsPlaced'
        BY <3>1, <3>3, <4>1 DEF LetsPlaced, Lets, LetInv
      <4> QED
        BY <3>4, <4>1, <4>2 DEF LetInv
    <3> QED
      BY <3>5, <3>6
  <2> QED
    BY <2>1, <2>2, LetsChecked DEF Next
<1> QED
  BY <1>1, <1>2, ScopesInvariant, TextInvariant, TablesInvariant, NamesInvariant, PTL DEF Spec
-----------------------------------------------------------------------------
(* The frames and slots of IRGenVisitor *)

Frame == [op : {"fn", "impl", "block"}, fn : Nat, dead : BOOLEAN]

(* There is a frame for everything open, with the function it is in.       *)
FramesFollow(fs, O) ==
  /\ fs \in Seq(Frame) /\ Len(fs) = Len(O)
  /\ \A i \in 1..Len(O) :
       /\ fs[i].op = program[O[i]].op
       /\ program[O[i]].op = "fn" => fs[i].fn \in Fns /\ decls[fs[i].fn].node = O[i]
       /\ program[O[i]].op # "fn" => (i = 1 => fs[i].fn = 0) /\ (i > 1 => fs[i].fn = fs[i - 1].fn)
  /\ \A i, j \in 1..Len(O) : i < j /\ fs[i].dead => fs[j].dead

(* The statements of O[i] are still lowered: its own, or those of the body *)
(* that has no scope of its own.                                           *)
alive(fs, O, i) == ~fs[i].dead /\ (i < Len(O) /\ ~makes_scope(O[i + 1]) => ~fs[i + 1].dead)

(* The locals introduced so far in what is still lowered have slots.       *)
SlotsFollow(sl, fs, O, n) ==
  \A d \in Lets : \A i \in 1..Len(O) :
    decls[d].node < n /\ makes_scope(O[i]) /\ decls[d].scope = scope_of(O[i]) /\ alive(fs, O, i)
      => <<fs[i].fn, d>> \in sl

GenInv ==
  /\ pass \in Early \cup {"globals"} => frames = << >> /\ slots = {} /\ bare_slots = {}
  /\ pass = "gen" => \E n, O, fs, sl : /\ n = at /\ fs = frames /\ sl = slots
                                      /\ Enclosing(O, n) /\ FramesFollow(fs, O) /\ SlotsFollow(sl, fs, O, n)

LEMMA FramesStay ==
  ASSUME UNCHANGED <<program, decls>>
  PROVE  /\ \A O, n : Enclosing(O, n)' <=> Enclosing(O, n)
         /\ \A fs, O : FramesFollow(fs, O)' <=> FramesFollow(fs, O)
         /\ \A sl, fs, O, n : SlotsFollow(sl, fs, O, n)' <=> SlotsFollow(sl, fs, O, n)
<1>1. \A m : scope_of(m)' = scope_of(m) /\ (makes_scope(m)' <=> makes_scope(m))
  BY TextStays
<1>2. \A O, n : Enclosing(O, n)' <=> Enclosing(O, n)
  BY TextStays
<1>3. Fns' = Fns /\ Lets' = Lets
  BY DEF Fns, Lets
<1>4. \A fs, O : FramesFollow(fs, O)' <=> FramesFollow(fs, O)
  BY <1>3 DEF FramesFollow
<1>5. \A fs, O, i : alive(fs, O, i)' <=> alive(fs, O, i)
  BY <1>1 DEF alive
<1>6. \A sl, fs, O, n : SlotsFollow(sl, fs, O, n)' <=> SlotsFollow(sl, fs, O, n)
  <2> SUFFICES ASSUME NEW sl, NEW fs, NEW O, NEW n
               PROVE  SlotsFollow(sl, fs, O, n)' <=> SlotsFollow(sl, fs, O, n)
    BY Zenon
  <2> DEFINE slotted(d, i) == decls[d].node < n /\ makes_scope(O[i]) /\ decls[d].scope = scope_of(O[i])
                                /\ alive(fs, O, i) => <<fs[i].fn, d>> \in sl
  <2>1. \A d, i : slotted(d, i)' <=> slotted(d, i)
    BY <1>1, <1>5
  <2> QED
    BY <1>3, <2>1, Zenon DEF SlotsFollow
<1> QED
  BY <1>2, <1>4, <1>6

LEMMA FramesEnter ==
  ASSUME NEW O \in Seq(Nat), NEW fs, FramesFollow(fs, O), NEW n \in Nat, NEW f \in Frame,
         f.op = program[n].op,
         f.op = "fn" => f.fn \in Fns /\ decls[f.fn].node = n,
         f.op # "fn" => f.fn = IF fs = << >> THEN 0 ELSE Last(fs).fn,
         fs # << >> /\ Last(fs).dead => f.dead
  PROVE  FramesFollow(Append(fs, f), Append(O, n))
<1> DEFINE L == Len(O)
           P == Append(O, n)
           gs == Append(fs, f)
<1>1. /\ fs \in Seq(Frame) /\ L \in Nat /\ Len(fs) = L /\ L + 1 \in 1..(L + 1)
      /\ fs = << >> <=> L = 0
      /\ L > 0 => Last(fs) = fs[L] /\ L \in 1..L
  BY EmptySeq DEF FramesFollow, Last
<1>2. Len(P) = L + 1 /\ P[L + 1] = n /\ \A i \in 1..L : P[i] = O[i]
  BY <1>1
<1>3. gs \in Seq(Frame) /\ Len(gs) = L + 1 /\ gs[L + 1] = f /\ \A i \in 1..L : gs[i] = fs[i]
  BY <1>1
<1> HIDE DEF L, P, gs
<1>4. ASSUME NEW i \in 1..(L + 1)
      PROVE  /\ gs[i].op = program[P[i]].op
             /\ program[P[i]].op = "fn" => gs[i].fn \in Fns /\ decls[gs[i].fn].node = P[i]
             /\ program[P[i]].op # "fn" => (i = 1 => gs[i].fn = 0) /\ (i > 1 => gs[i].fn = gs[i - 1].fn)
  <2>1. CASE i \in 1..L
    <3>1. gs[i] = fs[i] /\ P[i] = O[i] /\ (i > 1 => gs[i - 1] = fs[i - 1])
      BY <1>1, <1>2, <1>3, <2>1
    <3>2. /\ fs[i].op = program[O[i]].op
          /\ program[O[i]].op = "fn" => fs[i].fn \in Fns /\ decls[fs[i].fn].node = O[i]
          /\ program[O[i]].op # "fn" => (i = 1 => fs[i].fn = 0) /\ (i > 1 => fs[i].fn = fs[i - 1].fn)
      BY <2>1 DEF FramesFollow, L
    <3> QED
      BY <3>1, <3>2
  <2>2. CASE i = L + 1
    <3>1. gs[i] = f /\ P[i] = n /\ (i = 1 <=> L = 0) /\ (i > 1 => L > 0 /\ gs[i - 1] = fs[L])
      BY <1>1, <1>2, <1>3, <2>2
    <3> QED
      BY <1>1, <3>1
  <2> QED
    BY <1>1, <2>1, <2>2
<1>5. ASSUME NEW i \in 1..(L + 1), NEW j \in 1..(L + 1), i < j, gs[i].dead PROVE gs[j].dead
  <2>1. i \in 1..L /\ gs[i] = fs[i] /\ L > 0
    BY <1>1, <1>3, <1>5
  <2>2. CASE j \in 1..L
    BY <1>3, <1>5, <2>1, <2>2 DEF FramesFollow, L
  <2>3. CASE j = L + 1
    <3>1. fs[L].dead
      <4>1. CASE i = L
        BY <1>5, <2>1, <4>1
      <4>2. CASE i < L
        BY <1>1, <1>5, <2>1, <4>2 DEF FramesFollow, L
      <4> QED
        BY <1>1, <2>1, <4>1, <4>2
    <3> QED
      BY <1>1, <1>3, <2>1, <2>3, <3>1
  <2> QED
    BY <1>1, <2>2, <2>3
<1> QED
  BY <1>2, <1>3, <1>4, <1>5 DEF FramesFollow, P, gs

LEMMA FramesFront ==
  ASSUME NEW O \in Seq(Nat), NEW fs, FramesFollow(fs, O), O # << >>
  PROVE  FramesFollow(Front(fs), Front(O)) /\ fs # << >>
<1> DEFINE P == Front(O)
           gs == Front(fs)
<1>1. /\ fs \in Seq(Frame) /\ Len(O) \in Nat /\ Len(fs) = Len(O) /\ fs # << >>
  BY EmptySeq DEF FramesFollow
<1>2. /\ Len(P) = Len(O) - 1 /\ Len(O) >= 1
      /\ \A i \in 1..(Len(O) - 1) : P[i] = O[i]
  BY SeqFront
<1>3. /\ gs \in Seq(Frame) /\ Len(gs) = Len(fs) - 1
      /\ \A i \in 1..(Len(fs) - 1) : gs[i] = fs[i]
  BY <1>1, SeqFront
<1> HIDE DEF P, gs
<1>4. \A i \in 1..(Len(O) - 1) : /\ i \in 1..Len(O) /\ gs[i] = fs[i] /\ P[i] = O[i]
                                /\ i > 1 => gs[i - 1] = fs[i - 1]
  BY <1>1, <1>2, <1>3
<1>5. /\ gs \in Seq(Frame) /\ Len(gs) = Len(P)
  BY <1>1, <1>2, <1>3
<1>6. ASSUME NEW i \in 1..Len(P)
      PROVE  /\ gs[i].op = program[P[i]].op
             /\ program[P[i]].op = "fn" =>
                  gs[i].fn \in Fns /\ decls[gs[i].fn].node = P[i]
             /\ program[P[i]].op # "fn" =>
                  (i = 1 => gs[i].fn = 0) /\ (i > 1 => gs[i].fn = gs[i - 1].fn)
  <2>1. /\ i \in 1..Len(O) /\ gs[i] = fs[i] /\ P[i] = O[i]
        /\ i > 1 => gs[i - 1] = fs[i - 1]
    <3>1. i \in 1..(Len(O) - 1)
      BY <1>2
    <3> QED
      BY <1>1, <1>2, <1>3, <3>1
  <2> QED
    BY <2>1 DEF FramesFollow
<1>7. \A i, j \in 1..Len(P) : i < j /\ gs[i].dead => gs[j].dead
  <2> SUFFICES ASSUME NEW i \in 1..Len(P), NEW j \in 1..Len(P), i < j, gs[i].dead
               PROVE  gs[j].dead
    BY Zenon
  <2>1. i \in 1..(Len(O) - 1) /\ j \in 1..(Len(O) - 1)
    BY <1>2
  <2>2. i \in 1..Len(O) /\ j \in 1..Len(O) /\ gs[i] = fs[i] /\ gs[j] = fs[j]
    BY <1>1, <1>2, <1>3, <2>1
  <2> QED
    BY <2>2 DEF FramesFollow
<1> QED
  BY <1>1, <1>5, <1>6, <1>7 DEF FramesFollow, P, gs

LEMMA LastChanged ==
  ASSUME NEW S, NEW s \in Seq(S), s # << >>, NEW e \in S
  PROVE  /\ [s EXCEPT ![Len(s)] = e] \in Seq(S) /\ Len([s EXCEPT ![Len(s)] = e]) = Len(s)
         /\ \A i \in 1..Len(s) : [s EXCEPT ![Len(s)] = e][i] = IF i = Len(s) THEN e ELSE s[i]
<1>1. Len(s) \in Nat /\ DOMAIN s = 1..Len(s) /\ Len(s) \in 1..Len(s)
  BY EmptySeq
<1> QED
  BY <1>1, ExceptSeq

(* The last frame may die. *)
LEMMA FramesDying ==
  ASSUME NEW O \in Seq(Nat), NEW fs, FramesFollow(fs, O),
         NEW gs \in Seq(Frame), Len(gs) = Len(O),
         \A i \in 1..Len(O) : /\ gs[i].op = fs[i].op /\ gs[i].fn = fs[i].fn
                              /\ fs[i].dead => gs[i].dead
                              /\ i # Len(O) /\ gs[i].dead => fs[i].dead
  PROVE  FramesFollow(gs, O)
<1>1. /\ fs \in Seq(Frame) /\ Len(O) \in Nat /\ Len(fs) = Len(O)
  BY DEF FramesFollow
<1>2. ASSUME NEW i \in 1..Len(O)
      PROVE  /\ gs[i].op = program[O[i]].op
             /\ program[O[i]].op = "fn" => gs[i].fn \in Fns /\ decls[gs[i].fn].node = O[i]
             /\ program[O[i]].op # "fn" => (i = 1 => gs[i].fn = 0) /\ (i > 1 => gs[i].fn = gs[i - 1].fn)
  <2>1. i > 1 => i - 1 \in 1..Len(O)
    BY <1>1
  <2> QED
    BY <2>1 DEF FramesFollow
<1>3. ASSUME NEW i \in 1..Len(O), NEW j \in 1..Len(O), i < j, gs[i].dead PROVE gs[j].dead
  <2>1. fs[i].dead
    BY <1>1, <1>3
  <2>2. fs[j].dead
    BY <1>3, <2>1 DEF FramesFollow
  <2> QED
    BY <2>2
<1> QED
  BY <1>2, <1>3 DEF FramesFollow
-----------------------------------------------------------------------------
(* A scope has no locals before the walk comes to it. *)
LEMMA LetBelow ==
  ASSUME Text, NEW e, NEW s, introduced(e, s), NEW n \in Nat \ {0}, e < n, makes_scope(n)
  PROVE  s # scope_of(n)
<1>1. e \in DOMAIN program /\ e \in Nat \ {0}
  BY DEF introduced, Text
<1>2. \A m \in Nat \ {0} : m < n => scope_of(m) # scope_of(n)
  <2>1. \A m \in Nat \ {0} : scope_of(m) \in Nat
    BY ScopeOfStep
  <2> QED
    BY <2>1, ScopeOfGrows
<1>3. scope_of(n) # 1
  BY ScopeOfInjective
<1>4. CASE s = scope_of(e)
  BY <1>1, <1>2, <1>4
<1>5. CASE stands_for(s, inner_of(e))
  <2>1. \A m \in inner_of(e) : m < n /\ m \in Nat \ {0}
    BY <1>1 DEF inner_of, around
  <2> QED
    BY <1>2, <1>3, <1>5, <2>1 DEF stands_for
<1> QED
  BY <1>4, <1>5 DEF introduced

LEMMA LetAt ==
  ASSUME LetsPlaced, NEW d \in Lets
  PROVE  \A e : decls[d].node = e => introduced(e, decls[d].scope)
BY DEF LetsPlaced

LEMMA SlotsEnter ==
  ASSUME Text, decls \in Seq(Declaration), LetsPlaced, NEW n \in Nat \ {0}, opens(n),
         NEW O, Enclosing(O, n), NEW fs, FramesFollow(fs, O), NEW f \in Frame,
         NEW sl, NEW sm, sl \subseteq sm, SlotsFollow(sl, fs, O, n),
         \A d \in Lets : decls[d].node = n /\ program[n].op = "fn" /\ ~f.dead => <<f.fn, d>> \in sm
  PROVE  SlotsFollow(sm, Append(fs, f), Append(O, n), n + 1)
<1> DEFINE L == Len(O)
           P == Append(O, n)
           gs == Append(fs, f)
<1>1. fs \in Seq(Frame) /\ L \in Nat /\ Len(fs) = L /\ O \in Seq(Nat) /\ DOMAIN O = 1..L
  BY DEF FramesFollow, Enclosing
<1>2. Len(P) = L + 1 /\ P[L + 1] = n /\ \A i \in 1..L : P[i] = O[i]
  BY <1>1
<1>3. Len(gs) = L + 1 /\ gs[L + 1] = f /\ \A i \in 1..L : gs[i] = fs[i]
  BY <1>1
<1>4. \A i \in 1..L : O[i] \in Nat \ {0} /\ O[i] < n
  BY <1>1, OpenStep DEF Enclosing
<1> HIDE DEF L, P, gs
<1>5. ASSUME NEW d \in Lets, NEW i \in 1..(L + 1), decls[d].node < n + 1, makes_scope(P[i]),
             decls[d].scope = scope_of(P[i]), alive(gs, P, i)
      PROVE  <<gs[i].fn, d>> \in sm
  <2>0. PICK e : e = decls[d].node
    OBVIOUS
  <2>1. introduced(e, decls[d].scope) /\ e \in Nat /\ e < n + 1
    BY <1>5, <2>0, LetAt, NodesAreNumbers DEF Lets
  <2>2. CASE i \in 1..L /\ e < n
    <3>1. alive(fs, O, i)
      <4>1. i < L => i + 1 \in 1..L
        BY <1>1, <2>2
      <4>2. i < L => gs[i + 1] = fs[i + 1] /\ P[i + 1] = O[i + 1] /\ i < Len(P)
        BY <1>1, <1>2, <1>3, <4>1
      <4>3. gs[i] = fs[i]
        BY <1>3, <2>2
      <4> QED
        BY <1>5, <4>2, <4>3 DEF alive, L
    <3>2. P[i] = O[i] /\ gs[i] = fs[i]
      BY <1>2, <1>3, <2>2
    <3>3. <<fs[i].fn, d>> \in sl
      BY <1>5, <2>0, <2>2, <3>1, <3>2 DEF SlotsFollow, L
    <3> QED
      BY <3>2, <3>3
  <2>3. CASE e = n
    <3>1. program[n].op = "fn" /\ decls[d].scope = scope_of(n) /\ makes_scope(n)
      BY <2>1, <2>3 DEF introduced, opens, makes_scope
    <3>2. i = L + 1
      <4> SUFFICES ASSUME i \in 1..L PROVE FALSE
        BY <1>1
      <4>1. O[i] \in Nat \ {0} /\ O[i] < n /\ P[i] = O[i]
        BY <1>2, <1>4
      <4>2. O[i] = n
        BY <1>5, <3>1, <4>1, ScopeOfInjective
      <4> QED
        BY <4>1, <4>2
    <3>3. gs[i] = f /\ ~f.dead
      BY <1>3, <1>5, <3>2 DEF alive
    <3> QED
      BY <2>0, <2>3, <3>1, <3>3
  <2>4. CASE i = L + 1 /\ e < n
    <3>1. makes_scope(n) /\ decls[d].scope = scope_of(n)
      BY <1>2, <1>5, <2>4
    <3>2. decls[d].scope # scope_of(n)
      BY <2>1, <2>4, <3>1, LetBelow
    <3> QED
      BY <3>1, <3>2
  <2> QED
    BY <1>1, <2>1, <2>2, <2>3, <2>4
<1> QED
  BY <1>2, <1>5 DEF SlotsFollow, P, gs

LEMMA SlotsLeave ==
  ASSUME Text, decls \in Seq(Declaration), LetsPlaced, NEW n \in Nat \ {0}, program[n].op = "end",
         NEW O, Enclosing(O, n), O # << >>, NEW fs, FramesFollow(fs, O), NEW gs,
         \A i \in 1..(Len(O) - 1) :
           /\ gs[i].fn = fs[i].fn
           /\ fs[i].dead => gs[i].dead
           /\ i = Len(O) - 1 /\ fs[Len(O)].op = "block" /\ fs[Len(O)].dead => gs[i].dead,
         NEW sl, SlotsFollow(sl, fs, O, n)
  PROVE  SlotsFollow(sl, gs, Front(O), n + 1)
<1> DEFINE L == Len(O)
           P == Front(O)
<1>1. fs \in Seq(Frame) /\ L \in Nat /\ Len(fs) = L /\ O \in Seq(Nat) /\ DOMAIN O = 1..L
  BY DEF FramesFollow, Enclosing
<1>2. Len(P) = L - 1 /\ L >= 1 /\ \A i \in 1..(L - 1) : P[i] = O[i]
  BY <1>1, SeqFront
<1>3. \A i \in 1..L : O[i] \in Nat \ {0} /\ O[i] < n /\ opens(O[i]) /\ fs[i].op = program[O[i]].op
  <2>1. \A i \in 1..L : O[i] \in open_at(n)
    BY <1>1 DEF Enclosing
  <2>2. \A m \in open_at(n) : m \in Nat \ {0} /\ m < n /\ opens(m)
    BY DEF open_at
  <2> QED
    BY <2>1, <2>2 DEF FramesFollow, L
<1> HIDE DEF P
<1>5. ASSUME NEW d \in Lets, NEW i \in 1..(L - 1), decls[d].node < n + 1, makes_scope(P[i]),
             decls[d].scope = scope_of(P[i]), alive(gs, P, i)
      PROVE  <<gs[i].fn, d>> \in sl
  <2>0. PICK e : e = decls[d].node
    OBVIOUS
  <2>1. introduced(e, decls[d].scope) /\ e \in Nat /\ e < n + 1
    BY <1>5, <2>0, LetAt, NodesAreNumbers DEF Lets
  <2>2. e < n
    <3>1. e # n
      BY <2>1 DEF introduced
    <3> QED
      BY <2>1, <3>1
  <2>3. i \in 1..L /\ i + 1 \in 1..L /\ i < L /\ L \in 1..L /\ P[i] = O[i]
    BY <1>1, <1>2
  <2>4. ~fs[i].dead /\ gs[i].fn = fs[i].fn
    BY <1>5 DEF alive
  <2>5. ~makes_scope(O[i + 1]) => ~fs[i + 1].dead
    <3> SUFFICES ASSUME ~makes_scope(O[i + 1]) PROVE ~fs[i + 1].dead
      OBVIOUS
    <3>1. fs[i + 1].op = "block"
      BY <1>3, <2>3 DEF makes_scope, opens
    <3>2. CASE i = L - 1
      <4>1. i + 1 = L
        BY <1>1, <3>2
      <4>2. ~(fs[L].op = "block" /\ fs[L].dead)
        BY <1>5, <3>2 DEF alive
      <4> QED
        BY <3>1, <4>1, <4>2
    <3>3. CASE i # L - 1
      <4>1. i + 1 \in 1..(L - 1) /\ i < L - 1
        BY <1>1, <3>3
      <4>2. P[i + 1] = O[i + 1] /\ i < Len(P)
        BY <1>2, <4>1
      <4>3. ~gs[i + 1].dead
        BY <1>5, <4>2 DEF alive
      <4> QED
        BY <4>1, <4>3
    <3> QED
      BY <3>2, <3>3
  <2>6. alive(fs, O, i)
    BY <2>4, <2>5 DEF alive
  <2>7. <<fs[i].fn, d>> \in sl
    BY <1>5, <2>0, <2>2, <2>3, <2>6 DEF SlotsFollow
  <2> QED
    BY <2>4, <2>7
<1> QED
  BY <1>2, <1>5 DEF SlotsFollow, P

LEMMA SlotsWalk ==
  ASSUME Text, decls \in Seq(Declaration), LetsPlaced, NEW n \in DOMAIN program, ~opens(n), program[n].op # "end",
         NEW O, Enclosing(O, n), NEW fs, FramesFollow(fs, O), NEW gs,
         \A i \in 1..Len(O) : gs[i].fn = fs[i].fn /\ (fs[i].dead => gs[i].dead),
         NEW sl, NEW sm, sl \subseteq sm, SlotsFollow(sl, fs, O, n),
         \A d \in Lets : \A i \in 1..Len(O) :
           i = Len(O) /\ program[n].op = "let" /\ decls[d].node = n /\ ~fs[i].dead => <<fs[i].fn, d>> \in sm
  PROVE  SlotsFollow(sm, gs, O, n + 1)
<1> DEFINE L == Len(O)
<1>1. /\ fs \in Seq(Frame) /\ L \in Nat /\ Len(fs) = L /\ O \in Seq(Nat) /\ DOMAIN O = 1..L
      /\ n \in Nat \ {0} /\ n \in 1..(Len(program) + 1)
  BY DEF FramesFollow, Enclosing, Text
<1>2. /\ \A i \in 1..L : /\ O[i] \in open_at(n) /\ opens(O[i]) /\ O[i] \in DOMAIN program
                        /\ O[i] \in Nat \ {0} /\ O[i] < n
      /\ L = 0 => inner_of(n) = {}
      /\ L # 0 /\ makes_scope(O[L]) => inner_of(n) = {O[L]}
      /\ L # 0 /\ ~makes_scope(O[L]) => L > 1 /\ makes_scope(O[L - 1]) /\ inner_of(n) = {O[L - 1]}
  BY <1>1, InnerIs
<1>3. \A i, j \in 1..L : O[i] = O[j] => i = j
  <2>1. \A i, j \in 1..L : i < j => O[i] < O[j]
    BY <1>1 DEF Enclosing
  <2> QED
    BY <1>1, <1>2, <2>1
<1>4. ASSUME NEW d \in Lets, NEW i \in 1..L, decls[d].node < n + 1, makes_scope(O[i]),
             decls[d].scope = scope_of(O[i]), alive(gs, O, i)
      PROVE  <<gs[i].fn, d>> \in sm
  <2>0. PICK e : e = decls[d].node
    OBVIOUS
  <2>1. introduced(e, decls[d].scope) /\ e \in Nat /\ e < n + 1
    BY <1>4, <2>0, LetAt, NodesAreNumbers DEF Lets
  <2>2. alive(fs, O, i) /\ gs[i].fn = fs[i].fn
    <3>1. i < L => i + 1 \in 1..L
      BY <1>1
    <3> QED
      BY <1>4, <3>1 DEF alive
  <2>3. CASE e < n
    <3>1. <<fs[i].fn, d>> \in sl
      BY <1>4, <2>0, <2>2, <2>3 DEF SlotsFollow
    <3> QED
      BY <2>2, <3>1
  <2>4. CASE e = n
    <3>1. program[n].op = "let" /\ stands_for(decls[d].scope, inner_of(n))
      BY <2>1, <2>4 DEF introduced, opens
    <3>2. inner_of(n) = {O[i]}
      <4>1. decls[d].scope # 1 /\ O[i] \in Nat \ {0}
        BY <1>2, <1>4, ScopeOfInjective
      <4>2. PICK m \in Nat \ {0} : inner_of(n) = {m} /\ makes_scope(m) /\ decls[d].scope = scope_of(m)
        BY <3>1, <4>1 DEF stands_for
      <4>3. m = O[i]
        BY <1>4, <4>1, <4>2, ScopeOfInjective
      <4> QED
        BY <4>2, <4>3
    <3>3. CASE makes_scope(O[L])
      <4>0. L \in 1..L /\ L # 0
        BY <1>1
      <4>1. O[L] = O[i]
        <5>1. inner_of(n) = {O[L]}
          BY <1>2, <3>3, <4>0
        <5> QED
          BY <3>2, <5>1
      <4>2. i = L
        BY <1>3, <4>0, <4>1
      <4> QED
        BY <2>0, <2>2, <2>4, <3>1, <4>2 DEF alive
    <3>4. CASE ~makes_scope(O[L])
      <4>0. L \in 1..L /\ L # 0
        BY <1>1
      <4>1. L \in 1..L /\ L - 1 \in 1..L /\ L > 1 /\ O[L - 1] = O[i] /\ (L - 1) + 1 = L
        <5>1. L > 1 /\ inner_of(n) = {O[L - 1]}
          BY <1>2, <3>4, <4>0
        <5>2. O[L - 1] = O[i]
          BY <3>2, <5>1
        <5> QED
          BY <1>1, <4>0, <5>1, <5>2
      <4>2. i = L - 1 /\ i + 1 = L
        BY <1>3, <4>1
      <4>3. ~fs[L].dead
        <5>1. \A k : k = i + 1 => (~makes_scope(O[k]) => ~fs[k].dead)
          BY <1>1, <2>2, <4>1, <4>2 DEF alive
        <5> QED
          BY <3>4, <4>2, <5>1
      <4>4. program[O[L]].op = "block"
        BY <1>2, <3>4, <4>1 DEF makes_scope, opens
      <4>5. fs[L].fn = fs[L - 1].fn
        BY <4>1, <4>4 DEF FramesFollow
      <4>6. <<fs[L].fn, d>> \in sm
        BY <2>0, <2>4, <3>1, <4>1, <4>3
      <4> QED
        BY <2>2, <4>2, <4>5, <4>6
    <3> QED
      BY <3>3, <3>4
  <2> QED
    BY <1>1, <2>1, <2>3, <2>4
<1> QED
  BY <1>4 DEF SlotsFollow
-----------------------------------------------------------------------------
LEMMA GenGoesOn ==
  ASSUME pass = "gen", UNCHANGED <<program, decls, pass>>, at' = at + 1,
         NEW P, Enclosing(P, at + 1), NEW gs, gs = frames', NEW sm, sm = slots',
         FramesFollow(gs, P), SlotsFollow(sm, gs, P, at + 1)
  PROVE  GenInv'
<1>1. /\ \A O, n : Enclosing(O, n)' <=> Enclosing(O, n)
      /\ \A fs, O : FramesFollow(fs, O)' <=> FramesFollow(fs, O)
      /\ \A sl, fs, O, n : SlotsFollow(sl, fs, O, n)' <=> SlotsFollow(sl, fs, O, n)
  BY FramesStay
<1>2. PICK n : n = at + 1
  OBVIOUS
<1>3. n = at' /\ Enclosing(P, n)' /\ FramesFollow(gs, P)' /\ SlotsFollow(sm, gs, P, n)'
  BY <1>1, <1>2
<1>4. pass' \notin Early \cup {"globals"}
  BY DEF Early
<1> QED
  BY <1>3, <1>4 DEF GenInv

(* gs are the frames rest after a construct with the frame g is left.      *)
left_by(g, rest, gs) ==
  /\ gs \in Seq(Frame) /\ Len(gs) = Len(rest)
  /\ \A i \in 1..Len(rest) : /\ gs[i].op = rest[i].op /\ gs[i].fn = rest[i].fn
                             /\ rest[i].dead => gs[i].dead
                             /\ i # Len(rest) /\ gs[i].dead => rest[i].dead
                             /\ i = Len(rest) /\ g.op = "block" /\ g.dead => gs[i].dead

LEMMA LeaveChanges ==
  ASSUME NEW rest \in Seq(Frame), NEW g \in Frame,
         NEW gs, gs = IF rest = << >> THEN rest ELSE [rest EXCEPT ![Len(rest)] = after_statement(@, g)]
  PROVE  left_by(g, rest, gs)
<1>1. CASE rest = << >>
  BY <1>1, EmptySeq DEF left_by
<1>2. CASE rest # << >>
  <2>1. Len(rest) \in 1..Len(rest) /\ rest[Len(rest)] \in Frame
    BY <1>2, EmptySeq
  <2>2. PICK r, f : r = rest[Len(rest)] /\ f = after_statement(r, g)
    OBVIOUS
  <2>3. /\ f \in Frame /\ f.op = r.op /\ f.fn = r.fn
        /\ r.dead => f.dead
        /\ g.op = "block" /\ g.dead => f.dead
    <3>1. \A b \in BOOLEAN : /\ [r EXCEPT !.dead = b] \in Frame /\ [r EXCEPT !.dead = b].op = r.op
                              /\ [r EXCEPT !.dead = b].fn = r.fn /\ [r EXCEPT !.dead = b].dead = b
      BY <2>1, <2>2 DEF Frame
    <3>2. f = [r EXCEPT !.dead = r.dead \/ (g.op = "block" /\ g.dead)]
      BY <2>2 DEF after_statement
    <3> QED
      BY <3>1, <3>2
  <2>4. gs = [rest EXCEPT ![Len(rest)] = f]
    BY <1>2, <2>2
  <2>5. /\ gs \in Seq(Frame) /\ Len(gs) = Len(rest)
        /\ \A i \in 1..Len(rest) : gs[i] = IF i = Len(rest) THEN f ELSE rest[i]
    BY <1>2, <2>3, <2>4, LastChanged
  <2> QED
    BY <2>2, <2>3, <2>5 DEF left_by
<1> QED
  BY <1>1, <1>2

(* The frame of a block that is left may kill the one around it. *)
LEMMA FramesLeave ==
  ASSUME NEW O \in Seq(Nat), O # << >>, NEW fs, FramesFollow(fs, O),
         NEW gs, left_by(Last(fs), Front(fs), gs)
  PROVE  /\ FramesFollow(gs, Front(O))
         /\ \A i \in 1..(Len(O) - 1) :
              /\ gs[i].fn = fs[i].fn
              /\ fs[i].dead => gs[i].dead
              /\ i = Len(O) - 1 /\ fs[Len(O)].op = "block" /\ fs[Len(O)].dead => gs[i].dead
<1>0. PICK P, rest, g : P = Front(O) /\ rest = Front(fs) /\ g = Last(fs)
  OBVIOUS
<1>1. FramesFollow(rest, P) /\ fs # << >> /\ left_by(g, rest, gs)
  BY <1>0, FramesFront
<1>2. fs \in Seq(Frame) /\ Len(O) \in Nat /\ Len(fs) = Len(O)
  BY DEF FramesFollow
<1>3. /\ P \in Seq(Nat) /\ Len(P) = Len(O) - 1 /\ Len(rest) = Len(O) - 1
      /\ \A i \in 1..(Len(O) - 1) : rest[i] = fs[i]
  BY <1>0, <1>1, <1>2, SeqFront
<1>4. g = fs[Len(O)]
  BY <1>0, <1>2 DEF Last
<1>5. FramesFollow(gs, P)
  <2>1. Len(gs) = Len(P) /\ gs \in Seq(Frame) /\ Len(rest) = Len(P)
    BY <1>1, <1>3 DEF left_by
  <2>2. \A i \in 1..Len(rest) : /\ gs[i].op = rest[i].op /\ gs[i].fn = rest[i].fn
                                /\ rest[i].dead => gs[i].dead
                                /\ i # Len(rest) /\ gs[i].dead => rest[i].dead
    BY <1>1 DEF left_by
  <2>3. \A i \in 1..Len(P) : /\ gs[i].op = rest[i].op /\ gs[i].fn = rest[i].fn
                             /\ rest[i].dead => gs[i].dead
                             /\ i # Len(P) /\ gs[i].dead => rest[i].dead
    BY <2>1, <2>2
  <2> QED
    BY <1>1, <1>3, <2>1, <2>3, FramesDying
<1>6. ASSUME NEW i \in 1..(Len(O) - 1)
      PROVE  /\ gs[i].fn = fs[i].fn
             /\ fs[i].dead => gs[i].dead
             /\ i = Len(O) - 1 /\ fs[Len(O)].op = "block" /\ fs[Len(O)].dead => gs[i].dead
  <2>1. i \in 1..Len(rest) /\ rest[i] = fs[i] /\ (i = Len(O) - 1 => i = Len(rest))
    BY <1>3
  <2> QED
    BY <1>1, <1>4, <2>1 DEF left_by
<1> QED
  BY <1>0, <1>5, <1>6

LEMMA SlotsGenerated ==
  ASSUME IInv, SInv, TextInv, LetInv, GenInv, Generate
  PROVE  GenInv'
<1>1. CASE GenFails \/ FinishGen
  BY <1>1 DEF GenFails, FinishGen, GenInv, Early
<1>2. CASE ~(GenFails \/ FinishGen)
  <2>1. /\ pass = "gen" /\ at \in DOMAIN program /\ node = program[at] /\ UNCHANGED <<program, decls, pass>>
        /\ at' = at + 1
    BY <1>2 DEF Generate, GenFnItem, SkipFnItem, GenEnter, GenLeave, GenReturn,
         GenLetStmt, GenIdentifierExpr, GenCallExpr, GenNothing, gen_on, generating, walking, node, scopeVars
  <2>2. /\ Text /\ LetsPlaced /\ NodesPlaced /\ decls \in Seq(Declaration) /\ at \in Nat \ {0}
        /\ node_scope_map \in Seq(Nat) /\ Len(node_scope_map) >= Len(program) /\ program \in Seq(Node)
    <3>1. Unsized /\ well_bodied(program) /\ NodesPlaced /\ LetsPlaced /\ Len(node_scope_map) >= Len(program)
      BY <2>1 DEF TextInv, LetInv, Accepted
    <3> QED
      BY <2>1, <3>1 DEF Text, IInv, Shape
  <2>3. PICK O, fs, sl : fs = frames /\ sl = slots /\ Enclosing(O, at) /\ FramesFollow(fs, O) /\ SlotsFollow(sl, fs, O, at)
    BY <2>1, Zenon DEF GenInv
  <2>4. /\ ~opens(at) /\ program[at].op # "end" => Enclosing(O, at + 1)
        /\ opens(at) => Enclosing(Append(O, at), at + 1)
        /\ program[at].op = "end" /\ O # << >> => Enclosing(Front(O), at + 1)
    BY <2>2, <2>3, EnclosingStep
  <2>5. PICK gs, sm : gs = frames' /\ sm = slots'
    OBVIOUS
  <2>6. /\ O \in Seq(Nat) /\ Len(O) \in Nat /\ fs \in Seq(Frame) /\ Len(fs) = Len(O) /\ DOMAIN fs = 1..Len(O)
        /\ DOMAIN O = 1..Len(O)
    BY <2>3 DEF Enclosing, FramesFollow
  <2>7. \A d \in Lets : decls[d].node = at => program[at].op \in {"fn", "let"} /\ d \in locals_here
    BY <2>2, LetAt DEF introduced, locals_here, Lets
  <2>8. ASSUME opens(at), NEW f \in Frame, gs = Append(fs, f), sl \subseteq sm,
               f.op = program[at].op,
               f.op = "fn" => f.fn \in Fns /\ decls[f.fn].node = at,
               f.op # "fn" => f.fn = current_fn,
               dead => f.dead,
               program[at].op = "fn" /\ ~f.dead => {f.fn} \X locals_here \subseteq sm
        PROVE  GenInv'
    <3>1. /\ f.op # "fn" => f.fn = IF fs = << >> THEN 0 ELSE Last(fs).fn
          /\ fs # << >> /\ Last(fs).dead => f.dead
      BY <2>3, <2>8 DEF current_fn, dead
    <3>2. FramesFollow(gs, Append(O, at))
      BY <2>2, <2>3, <2>6, <2>8, <3>1, FramesEnter
    <3>3. \A d \in Lets : decls[d].node = at /\ program[at].op = "fn" /\ ~f.dead => <<f.fn, d>> \in sm
      BY <2>7, <2>8
    <3>4. SlotsFollow(sm, gs, Append(O, at), at + 1)
      BY <2>2, <2>3, <2>8, <3>3, SlotsEnter
    <3> QED
      BY <2>1, <2>4, <2>5, <2>8, <3>2, <3>4, GenGoesOn
  <2>9. ASSUME ~opens(at), program[at].op # "end", UNCHANGED frames, sl \subseteq sm,
               program[at].op = "let" /\ ~dead => {current_fn} \X locals_here \subseteq sm
        PROVE  GenInv'
    <3>1. gs = fs
      BY <2>3, <2>5, <2>9
    <3>2. \A i \in 1..Len(O) : i = Len(O) => current_fn = fs[i].fn /\ (dead <=> fs[i].dead)
      <4> SUFFICES ASSUME NEW i \in 1..Len(O), i = Len(O) PROVE current_fn = fs[i].fn /\ (dead <=> fs[i].dead)
        OBVIOUS
      <4>1. fs # << >> /\ Last(fs) = fs[i]
        BY <2>6 DEF Last
      <4> QED
        BY <2>3, <4>1 DEF current_fn, dead
    <3>3. \A d \in Lets : \A i \in 1..Len(O) :
            i = Len(O) /\ program[at].op = "let" /\ decls[d].node = at /\ ~fs[i].dead => <<fs[i].fn, d>> \in sm
      BY <2>7, <2>9, <3>2
    <3>4. SlotsFollow(sm, gs, O, at + 1)
      BY <2>1, <2>2, <2>3, <2>9, <3>1, <3>3, SlotsWalk
    <3> QED
      BY <2>1, <2>3, <2>4, <2>5, <2>9, <3>1, <3>4, GenGoesOn
  <2>10. CASE GenFnItem \/ SkipFnItem
    <3> DEFINE f == frame("fn", fn_decl, SkipFnItem)
    <3>1. node.op = "fn" /\ opens(at)
      BY <2>1, <2>10 DEF GenFnItem, SkipFnItem, generating, opens
    <3>2. fn_decl \in Fns /\ decls[fn_decl].node = at /\ fn_decl \in Nat
      BY <2>1, <2>2, <3>1, FnHere DEF Fns
    <3>3. /\ GenFnItem => /\ frames' = Append(frames, frame("fn", fn_decl, FALSE)) /\ ~dead
                         /\ slots' = slots \cup ({fn_decl} \X locals_here)
          /\ SkipFnItem => frames' = Append(frames, frame("fn", fn_decl, TRUE)) /\ dead /\ slots' = slots
      BY DEF GenFnItem, SkipFnItem
    <3>4. \A b \in BOOLEAN : /\ frame("fn", fn_decl, b) \in Frame /\ frame("fn", fn_decl, b).op = "fn"
                            /\ frame("fn", fn_decl, b).fn = fn_decl /\ frame("fn", fn_decl, b).dead = b
      BY <3>2 DEF frame, Frame
    <3> HIDE DEF frame
    <3>5. CASE GenFnItem
      BY <2>1, <2>3, <2>5, <2>8, <3>1, <3>2, <3>3, <3>4, <3>5
    <3>6. CASE SkipFnItem
      BY <2>1, <2>3, <2>5, <2>8, <3>1, <3>2, <3>3, <3>4, <3>6
    <3> QED
      BY <2>10, <3>5, <3>6
  <2>11. CASE GenEnter
    <3> DEFINE f == frame(node.op, current_fn, dead)
    <3>1. node.op \in {"block", "impl"} /\ opens(at)
      BY <2>1, <2>11 DEF GenEnter, generating, opens
    <3>2. current_fn \in Nat /\ dead \in BOOLEAN
      <4>1. fs # << >> => Last(fs) \in Frame
        BY <2>6 DEF Last
      <4> QED
        BY <2>3, <4>1 DEF current_fn, dead, Frame
    <3>3. f \in Frame /\ f.op = node.op /\ f.fn = current_fn /\ (f.dead <=> dead)
      BY <3>1, <3>2 DEF frame, Frame
    <3>4. frames' = Append(frames, f) /\ slots' = slots
      BY <2>11 DEF GenEnter
    <3> HIDE DEF f
    <3> QED
      BY <2>1, <2>3, <2>5, <2>8, <3>1, <3>3, <3>4
  <2>12. CASE GenReturn \/ GenLetStmt \/ GenIdentifierExpr \/ GenCallExpr \/ GenNothing
    <3>1. /\ node.op \in Leaves \cup {"type", "const"} /\ slots \subseteq slots'
          /\ ~opens(at) /\ program[at].op # "end"
      <4>1. node.op \in Leaves \cup {"type", "const"} /\ slots \subseteq slots'
        BY <2>12 DEF GenReturn, GenLetStmt, GenIdentifierExpr, GenCallExpr, GenNothing, generating, Leaves, Names
      <4> QED
        BY <2>1, <4>1 DEF opens, Leaves
    <3>2. CASE GenReturn
      <4>1. frames' = [frames EXCEPT ![Len(frames)].dead = TRUE] /\ node.op = "ret"
        BY <3>2 DEF GenReturn, generating
      <4>2. gs = [fs EXCEPT ![Len(O)].dead = TRUE]
        BY <2>3, <2>5, <2>6, <4>1, Zenon
      <4>3. FramesFollow(gs, O) /\ \A i \in 1..Len(O) : gs[i].fn = fs[i].fn /\ (fs[i].dead => gs[i].dead)
        <5>1. CASE O = << >>
          <6>1. gs = fs
            BY <2>6, <4>2, <5>1
          <6> QED
            BY <2>3, <6>1
        <5>2. CASE O # << >>
          <6>1. Len(O) \in 1..Len(O) /\ fs[Len(O)] \in Frame
            BY <2>6, <5>2, EmptySeq
          <6>2. PICK f : f = [fs[Len(O)] EXCEPT !.dead = TRUE]
            OBVIOUS
          <6>3. f \in Frame /\ f.op = fs[Len(O)].op /\ f.fn = fs[Len(O)].fn /\ f.dead
            BY <6>1, <6>2 DEF Frame
          <6>4. gs = [fs EXCEPT ![Len(fs)] = f]
            BY <2>6, <4>2, <6>2
          <6>5. /\ gs \in Seq(Frame) /\ Len(gs) = Len(O)
                /\ \A i \in 1..Len(O) : gs[i] = IF i = Len(O) THEN f ELSE fs[i]
            BY <2>6, <5>2, <6>1, <6>3, <6>4, LastChanged
          <6>6. \A i \in 1..Len(O) : /\ gs[i].op = fs[i].op /\ gs[i].fn = fs[i].fn
                                     /\ fs[i].dead => gs[i].dead
                                     /\ i # Len(O) /\ gs[i].dead => fs[i].dead
            BY <6>3, <6>5
          <6> QED
            BY <2>3, <2>6, <6>5, <6>6, FramesDying
        <5> QED
          BY <5>1, <5>2
      <4>5. program[at].op # "let"
        BY <2>1, <4>1
      <4>6. SlotsFollow(sm, gs, O, at + 1)
        BY <2>1, <2>2, <2>3, <2>5, <3>1, <4>3, <4>5, SlotsWalk
      <4> QED
        BY <2>1, <2>3, <2>4, <2>5, <3>1, <4>3, <4>6, GenGoesOn
    <3>3. CASE ~GenReturn
      <4>1. UNCHANGED frames
        BY <2>12, <3>3 DEF GenLetStmt, GenIdentifierExpr, GenCallExpr, GenNothing
      <4>2. program[at].op = "let" /\ ~dead => {current_fn} \X locals_here \subseteq sm
        BY <2>1, <2>5, <2>12, <3>3 DEF GenLetStmt, GenIdentifierExpr, GenCallExpr, GenNothing, generating, Names
      <4> QED
        BY <2>3, <2>5, <2>9, <3>1, <4>1, <4>2
    <3> QED
      BY <3>2, <3>3
  <2>13. CASE GenLeave
    <3>1. program[at].op = "end" /\ slots' = slots
      BY <2>1, <2>13 DEF GenLeave, generating
    <3>2. O # << >>
      <4>1. at \in DOMAIN node_scope_map
        BY <2>1, <2>2
      <4>2. placed(at, node_scope_map[at])
        BY <2>1, <2>2, <4>1 DEF NodesPlaced
      <4>3. open_at(at) # {}
        BY <3>1, <4>2 DEF placed
      <4> QED
        BY <2>3, <4>3 DEF Enclosing
    <3>3. FramesFollow(Front(fs), Front(O)) /\ fs # << >>
      BY <2>3, <2>6, <3>2, FramesFront
    <3>4. PICK P, rest, g : P = Front(O) /\ rest = Front(fs) /\ g = Last(fs)
      OBVIOUS
    <3>5. gs = IF rest = << >> THEN rest ELSE [rest EXCEPT ![Len(rest)] = after_statement(@, g)]
      BY <2>3, <2>5, <2>13, <3>4 DEF GenLeave
    <3>6. /\ FramesFollow(gs, Front(O))
          /\ \A i \in 1..(Len(O) - 1) :
               /\ gs[i].fn = fs[i].fn
               /\ fs[i].dead => gs[i].dead
               /\ i = Len(O) - 1 /\ fs[Len(O)].op = "block" /\ fs[Len(O)].dead => gs[i].dead
      <4>1. rest \in Seq(Frame) /\ g \in Frame
        BY <2>6, <3>3, <3>4, SeqFront DEF Last
      <4>2. left_by(g, rest, gs)
        BY <3>5, <4>1, LeaveChanges
      <4>3. left_by(Last(fs), Front(fs), gs) /\ O \in Seq(Nat)
        BY <2>3, <3>4, <4>2 DEF Enclosing
      <4> QED
        BY <2>3, <3>2, <4>3, FramesLeave
    <3>7. SlotsFollow(sl, gs, Front(O), at + 1) /\ sl = slots'
      BY <2>2, <2>3, <3>1, <3>2, <3>6, SlotsLeave
    <3>8. FramesFollow(gs, Front(O)) /\ sl = sm
      BY <2>5, <3>4, <3>6, <3>7
    <3> QED
      BY <2>1, <2>4, <2>5, <3>1, <3>2, <3>7, <3>8, GenGoesOn
  <2> QED
    BY <1>2, <2>10, <2>11, <2>12, <2>13 DEF Generate
<1> QED
  BY <1>1, <1>2
-----------------------------------------------------------------------------
LEMMA GenInvariant == Spec => []GenInv
<1>1. Init => GenInv
  BY DEF Init, ScopesInit, GenInv
<1>2. IInv /\ SInv /\ TextInv /\ LetInv /\ GenInv /\ [Next]_vars => GenInv'
  <2> SUFFICES ASSUME IInv, SInv, TextInv, LetInv, GenInv, [Next]_vars PROVE GenInv'
    OBVIOUS
  <2>1. CASE BuildScopes /\ UNCHANGED <<checkVars, lowerVars>>
    <3>1. pass = "scopes" /\ pass' \in {"scopes", "CE"}
      BY <2>1 DEF BuildScopes, Redefinition, VisitFnItem, VisitBlockExpr, VisitImplItem,
         VisitDeclaration, VisitLeaf, LeaveNode, walking, walk_on, refuse
    <3> QED
      BY <2>1, <3>1 DEF GenInv, lowerVars, Early
  <2>2. CASE Check /\ UNCHANGED lowerVars
    <3>1. pass \in Early /\ pass' \in Early \cup {"CE", "error"}
      BY <2>2 DEF Check, FinishScopes, RefuseScope, Scope_dfs_and_build_type, AddBuiltins, ResolveBodies, NameUnknown,
         ReceiverUnknown, ResolveName, CheckFnItem, CheckLetStmt, CheckNode, refuse, walking, unresolved_node, Early
    <3> QED
      BY <2>2, <3>1 DEF GenInv, lowerVars, Early
  <2>3. CASE Lower
    <3>1. /\ pass \in {"check", "globals"} /\ UNCHANGED <<frames, slots, bare_slots>>
          /\ pass' = "gen" => at' = 1 /\ UNCHANGED <<program, decls>>
      BY <2>3 DEF Lower, FinishCheck, LoweringFails, visit_scope, FinishGlobals, lowerVars, scopeVars
    <3>2. frames = << >> /\ slots = {} /\ bare_slots = {}
      BY <3>1 DEF GenInv, Early
    <3>3. CASE pass' # "gen"
      BY <3>1, <3>2, <3>3 DEF GenInv
    <3>4. CASE pass' = "gen"
      <4>1. Enclosing(<< >>, 1) /\ FramesFollow(<< >>, << >>) /\ SlotsFollow({}, << >>, << >>, 1)
        BY EnclosingStart DEF FramesFollow, SlotsFollow
      <4>2. Enclosing(<< >>, 1)' /\ FramesFollow(<< >>, << >>)' /\ SlotsFollow({}, << >>, << >>, 1)'
        BY <3>1, <3>4, <4>1, FramesStay
      <4>3. at' = 1 /\ frames' = << >> /\ slots' = {} /\ pass' \notin Early \cup {"globals"}
        BY <3>1, <3>2, <3>4 DEF Early
      <4> QED
        BY <4>2, <4>3, Zenon DEF GenInv
    <3> QED
      BY <3>3, <3>4
  <2>4. CASE UNCHANGED vars
    <3>1. UNCHANGED <<program, decls, pass, at, frames, slots, bare_slots>>
      BY <2>4 DEF vars, scopeVars, lowerVars
    <3>2. /\ \A O, n : Enclosing(O, n)' <=> Enclosing(O, n)
          /\ \A fs, O : FramesFollow(fs, O)' <=> FramesFollow(fs, O)
          /\ \A sl, fs, O, n : SlotsFollow(sl, fs, O, n)' <=> SlotsFollow(sl, fs, O, n)
      BY <3>1, FramesStay
    <3> QED
      BY <3>1, <3>2 DEF GenInv
  <2> QED
    BY <2>1, <2>2, <2>3, <2>4, SlotsGenerated DEF Next
<1> QED
  BY <1>1, <1>2, ScopesInvariant, TextInvariant, LetInvariant, PTL DEF Spec
-----------------------------------------------------------------------------
(* Every frame has the function of the last item around it. *)
of_item(fs, O, i) ==
  \/ \A k \in 1..i : program[O[k]].op # "fn"
  \/ \E q \in 1..i : program[O[q]].op = "fn" /\ \A k \in q..i : fs[k].fn = fs[i].fn

LEMMA FrameFunction ==
  ASSUME NEW O \in Seq(Nat), NEW fs, FramesFollow(fs, O), NEW i \in 1..Len(O)
  PROVE  of_item(fs, O, i)
<1> DEFINE L == Len(O)
           T == {k \in 1..L : ~of_item(fs, O, k)}
<1> SUFFICES ASSUME T # {} PROVE FALSE
  OBVIOUS
<1>1. L \in Nat /\ T \in SUBSET Nat
  OBVIOUS
<1>2. PICK k \in T : \A m \in T : k <= m
  BY <1>1, Least
<1> HIDE DEF L
<1>3. k \in 1..L /\ k \in Nat /\ ~of_item(fs, O, k)
  BY <1>2
<1>4. program[O[k]].op # "fn"
  <2> SUFFICES ASSUME program[O[k]].op = "fn" PROVE of_item(fs, O, k)
    BY <1>3
  <2>1. k \in 1..k /\ \A j \in k..k : j = k
    BY <1>1, <1>3
  <2> QED
    BY <2>1 DEF of_item
<1>5. CASE k = 1
  <2>1. \A j \in 1..k : j = k
    BY <1>5
  <2> QED
    BY <1>3, <1>4, <2>1 DEF of_item
<1>6. CASE k # 1
  <2>1. k > 1 /\ k - 1 \in 1..L /\ k - 1 < k
    BY <1>1, <1>3, <1>6
  <2>2. of_item(fs, O, k - 1)
    <3>1. k - 1 \notin T
      BY <1>1, <1>2, <1>3, <2>1
    <3> QED
      BY <2>1, <3>1
  <2>3. fs[k].fn = fs[k - 1].fn
    BY <1>3, <1>4, <2>1 DEF FramesFollow, L
  <2>4. CASE \A j \in 1..(k - 1) : program[O[j]].op # "fn"
    <3>1. \A j \in 1..k : j \in 1..(k - 1) \/ j = k
      BY <1>3
    <3>2. \A j \in 1..k : program[O[j]].op # "fn"
      BY <1>4, <2>4, <3>1
    <3> QED
      BY <1>3, <3>2 DEF of_item
  <2>5. CASE \E q \in 1..(k - 1) : program[O[q]].op = "fn" /\ \A j \in q..(k - 1) : fs[j].fn = fs[k - 1].fn
    <3>1. PICK q \in 1..(k - 1) : program[O[q]].op = "fn" /\ \A j \in q..(k - 1) : fs[j].fn = fs[k - 1].fn
      BY <2>5
    <3>2. q \in 1..k /\ \A j \in q..k : j \in q..(k - 1) \/ j = k
      BY <1>3
    <3>3. \A j \in q..k : fs[j].fn = fs[k].fn
      BY <2>3, <3>1, <3>2
    <3> QED
      BY <1>3, <3>1, <3>2, <3>3 DEF of_item
  <2> QED
    BY <2>2, <2>4, <2>5 DEF of_item
<1> QED
  BY <1>5, <1>6

(* A local whose scope is in the function that is lowered has a slot.      *)
LEMMA OthersAreCaptured ==
  ASSUME IInv, SInv, TextInv, LetInv, GenInv, NamesResolved, pass = "gen", at \in DOMAIN program,
         program[at].op = "use", ~dead, NEW d \in resolved[at], d \in Lets, <<current_fn, d>> \notin slots
  PROVE  captured(<<current_fn, d>>)
<1>1. /\ Text /\ LetsPlaced /\ UsesPlaced /\ ScopesPlaced /\ FnsPlaced /\ Unsized
      /\ decls \in Seq(Declaration) /\ at \in Nat \ {0} /\ at \in 1..(Len(program) + 1)
      /\ DOMAIN program \subseteq DOMAIN node_scope_map /\ at \in DOMAIN resolved /\ Shape /\ Tree /\ Rooted
  <2>1. /\ Unsized /\ well_bodied(program) /\ ScopesPlaced /\ FnsPlaced /\ LetsPlaced /\ UsesPlaced
        /\ Len(node_scope_map) >= Len(program) /\ Len(resolved) >= Len(program) /\ resolved \in Seq(SUBSET DOMAIN decls)
    BY DEF TextInv, LetInv, Accepted, NamesResolved
  <2>2. Shape /\ Tree /\ Rooted /\ program \in Seq(Node) /\ node_scope_map \in Seq(Nat) /\ decls \in Seq(Declaration)
    BY DEF IInv, SInv, Shape
  <2> QED
    BY <2>1, <2>2 DEF Text
<1>2. PICK O, fs, sl : fs = frames /\ sl = slots /\ Enclosing(O, at) /\ FramesFollow(fs, O) /\ SlotsFollow(sl, fs, O, at)
  BY Zenon DEF GenInv
<1> DEFINE L == Len(O)
           s == decls[d].scope
           found == [t \in DOMAIN scopes |-> IF scopes[t].kind = "Function" THEN {t} ELSE {}]
<1>3. O \in Seq(Nat) /\ L \in Nat /\ Len(fs) = L /\ DOMAIN O = 1..L /\ fs \in Seq(Frame)
  BY <1>2 DEF Enclosing, FramesFollow
<1>4. /\ \A i \in 1..L : O[i] \in Nat \ {0} /\ O[i] < at /\ O[i] \in DOMAIN program /\ O[i] \in open_at(at)
      /\ \A m \in around(at) : makes_scope(m) /\ \E i \in 1..L : O[i] = m
  BY <1>1, <1>2, <1>3, InnerIs, AroundOpen DEF Enclosing
<1>5. decls[d].node < at /\ s \in scopes_of(around(at))
  BY <1>1 DEF UsesPlaced
<1>6. captured(<<current_fn, d>>) <=> nearest(s, found) # {decls[current_fn].inner}
  <2>1. <<current_fn, d>>[1] = current_fn /\ <<current_fn, d>>[2] = d
    OBVIOUS
  <2> QED
    BY <2>1 DEF function_scope, captured
<1> HIDE DEF L, s
<1>7. scopes[1].kind = "Root" /\ 1 \in DOMAIN scopes /\ scopes[1].parent = 0
  BY <1>1 DEF ScopesPlaced, Shape, Rooted
<1>8. CASE s = 1
  <2>1. found[1] = {}
    BY <1>7
  <2> HIDE DEF found
  <2>2. nearest(1, found) = {}
    BY <1>1, <1>7, <2>1, NearestOutward
  <2> QED
    BY <1>6, <1>8, <2>2
<1>9. CASE s # 1
  <2>1. PICK i \in 1..L : s = scope_of(O[i]) /\ makes_scope(O[i]) /\ O[i] \in around(at)
    BY <1>4, <1>5, <1>9 DEF scopes_of
  <2>2. L \in 1..L /\ L # 0
    BY <1>3
  <2>3. current_fn = fs[L].fn /\ ~fs[L].dead
    <3>1. fs # << >> /\ Last(fs) = fs[L]
      BY <1>3, <2>2 DEF Last
    <3> QED
      BY <1>2, <3>1 DEF current_fn, dead
  <2>4. \A k \in 1..L : ~fs[k].dead
    <3> SUFFICES ASSUME NEW k \in 1..L, fs[k].dead PROVE FALSE
      OBVIOUS
    <3>1. k # L /\ k < L
      BY <1>3, <2>3
    <3> QED
      BY <1>2, <2>2, <2>3, <3>1 DEF FramesFollow, L
  <2>5. alive(fs, O, i)
    <3>1. i < L => i + 1 \in 1..L
      BY <1>3
    <3> QED
      BY <2>4, <3>1 DEF alive, L
  <2>6. <<fs[i].fn, d>> \in sl
    BY <1>2, <1>5, <2>1, <2>5 DEF SlotsFollow, L, s
  <2>7. fs[i].fn # fs[L].fn
    BY <1>2, <2>3, <2>6
  <2> SUFFICES ASSUME nearest(s, found) = {decls[fs[L].fn].inner} PROVE FALSE
    BY <1>6, <2>3
  <2> DEFINE C == scopes_of(around(O[i]) \cup {O[i]})
  <2>8. C \in SUBSET DOMAIN scopes /\ s \in C /\ \A t \in C : scopes[t].parent = 0 \/ scopes[t].parent \in C
    <3>1. O[i] \in 1..(Len(program) + 1) /\ O[i] \in DOMAIN program
      BY <1>1, <1>4 DEF Text
    <3>2. Nest(around(O[i]) \cup {O[i]})
      BY <1>1, <2>1, <3>1, AroundNests
    <3>3. s \in C
      BY <2>1 DEF scopes_of
    <3> QED
      BY <1>1, <3>2, <3>3, ScopesOfNest
  <2>9. PICK t \in C : nearest(s, found) = found[t]
    <3>1. nearest(s, found) # {}
      OBVIOUS
    <3> HIDE DEF C, found
    <3> QED
      BY <1>1, <2>8, <3>1, NearestInside
  <2>10. scopes[t].kind = "Function" /\ t = decls[fs[L].fn].inner /\ t # 1
    <3>1. t \in DOMAIN scopes /\ found[t] = {decls[fs[L].fn].inner}
      BY <2>8, <2>9
    <3> QED
      BY <1>7, <3>1
  <2>11. PICK m \in around(O[i]) \cup {O[i]} : t = scope_of(m)
    BY <2>10 DEF scopes_of
  <2>12. m \in around(at) /\ m <= O[i] /\ m \in Nat \ {0} /\ makes_scope(m) /\ m \in DOMAIN program
    <3>1. O[i] \in Nat \ {0} /\ around(O[i]) \subseteq around(at)
      BY <1>1, <2>1, AroundInside
    <3>2. \A k \in around(O[i]) : k \in Nat /\ k < O[i]
      BY <3>1, AroundInside
    <3>3. m \in around(at) /\ m <= O[i]
      BY <2>1, <2>11, <3>1, <3>2
    <3> QED
      BY <1>4, <3>3
  <2>13. program[m].op = "fn"
    <3>1. grown(m, scopes)
      BY <1>1, <2>12 DEF ScopesPlaced
    <3> QED
      BY <2>10, <2>11, <3>1 DEF grown
  <2>14. PICK j \in 1..L : O[j] = m
    BY <1>4, <2>12
  <2>15. \A a, b \in 1..L : a < b => O[a] < O[b]
    BY <1>2, <1>3 DEF Enclosing
  <2>16. j <= i
    BY <1>3, <1>4, <2>12, <2>14, <2>15
  <2>17. PICK q \in 1..L : program[O[q]].op = "fn" /\ \A k \in q..L : fs[k].fn = fs[L].fn
    <3>1. of_item(fs, O, L)
      BY <1>2, <1>3, <2>2, FrameFunction DEF L
    <3>2. ~\A k \in 1..L : program[O[k]].op # "fn"
      BY <2>13, <2>14
    <3> QED
      BY <3>1, <3>2 DEF of_item
  <2>18. q \in q..L /\ q \in Nat
    BY <1>3
  <2>19. fs[q].fn \in Fns /\ decls[fs[q].fn].node = O[q] /\ fs[q].fn = fs[L].fn
    BY <1>2, <2>17, <2>18 DEF FramesFollow, L
  <2>20. t = scope_of(O[q])
    BY <1>1, <2>10, <2>19 DEF FnsPlaced
  <2>21. O[q] = O[j]
    <3>1. makes_scope(O[q])
      BY <2>17 DEF makes_scope, opens
    <3> QED
      BY <1>4, <2>11, <2>12, <2>14, <2>20, <3>1, ScopeOfInjective
  <2>22. q = j
    BY <1>3, <1>4, <2>15, <2>21
  <2>23. i \in q..L
    BY <1>3, <2>16, <2>22
  <2> QED
    BY <2>7, <2>17, <2>23
<1> QED
  BY <1>8, <1>9

(***************************************************************************)
(* A slot that a use makes, into which nothing was stored, is one of a     *)
(* local of another function: a local of the function that is lowered was  *)
(* stored when the walk came to its let or parameter (IRGen.cpp:           *)
(* ensure_slot_for_decl).                                                  *)
(***************************************************************************)
THEOREM StoredFirst == Spec => []StoredBeforeRead
<1>1. Init => StoredBeforeRead
  BY DEF Init, StoredBeforeRead
<1>2. IInv /\ IInv' /\ SInv /\ TextInv /\ LetInv /\ GenInv /\ NamesResolved /\ StoredBeforeRead /\ [Next]_vars
        => StoredBeforeRead'
  <2> SUFFICES ASSUME IInv, IInv', SInv, TextInv, LetInv, GenInv, NamesResolved, StoredBeforeRead, [Next]_vars
               PROVE  StoredBeforeRead'
    OBVIOUS
  <2>1. ASSUME UNCHANGED <<scopes, decls>> PROVE \A p : captured(p)' <=> captured(p)
    <3>1. ASSUME NEW s PROVE function_scope(s)' = function_scope(s)
      <4> DEFINE found == [t \in DOMAIN scopes |-> IF scopes[t].kind = "Function" THEN {t} ELSE {}]
      <4>1. found' = found
        BY <2>1
      <4>2. nearest(s, found)' = nearest(s, found)
        <5> HIDE DEF found
        <5> QED
          BY <2>1, <4>1 DEF nearest
      <4> QED
        BY <4>2 DEF function_scope
    <3> QED
      BY <2>1, <3>1 DEF captured
  <2>2. CASE pass \in Early \cup {"globals"} /\ UNCHANGED bare_slots
    BY <2>2 DEF GenInv, StoredBeforeRead
  <2>3. CASE UNCHANGED <<scopes, decls, bare_slots>>
    BY <2>1, <2>3 DEF StoredBeforeRead
  <2>4. CASE GenIdentifierExpr
    <3>1. /\ pass = "gen" /\ at \in DOMAIN program /\ program[at].op = "use" /\ ~dead
          /\ UNCHANGED <<scopes, decls>>
      BY <2>4 DEF GenIdentifierExpr, generating, walking, node, gen_on, scopeVars
    <3> DEFINE locals == {d \in resolved[at] : decls[d].kind = "let"}
    <3>2. bare_slots' = bare_slots \cup (({current_fn} \X locals) \ slots)
      BY <2>4 DEF GenIdentifierExpr
    <3>3. \A d \in locals : d \in resolved[at] /\ d \in Lets
      <4>1. resolved[at] \subseteq DOMAIN decls
        <5>1. at \in DOMAIN resolved /\ resolved \in Seq(SUBSET DOMAIN decls)
          BY <3>1 DEF NamesResolved, IInv, Shape
        <5> QED
          BY <5>1
      <4> QED
        BY <4>1 DEF Lets
    <3> HIDE DEF locals
    <3>4. \A p \in ({current_fn} \X locals) \ slots : captured(p)
      <4> SUFFICES ASSUME NEW p \in ({current_fn} \X locals) \ slots PROVE captured(p)
        OBVIOUS
      <4>1. PICK d \in locals : p = <<current_fn, d>> /\ p \notin slots
        OBVIOUS
      <4>2. captured(<<current_fn, d>>)
        BY <3>1, <3>3, <4>1, OthersAreCaptured
      <4> QED
        BY <4>1, <4>2
    <3>5. \A p \in bare_slots' : captured(p)
      BY <3>2, <3>4 DEF StoredBeforeRead
    <3> QED
      BY <2>1, <3>1, <3>5 DEF StoredBeforeRead
  <2>5. CASE BuildScopes /\ UNCHANGED <<checkVars, lowerVars>>
    <3>1. pass = "scopes" /\ UNCHANGED bare_slots
      BY <2>5 DEF BuildScopes, Redefinition, VisitFnItem, VisitBlockExpr, VisitImplItem,
         VisitDeclaration, VisitLeaf, LeaveNode, walking, lowerVars
    <3> QED
      BY <2>2, <3>1 DEF Early
  <2>6. CASE Check /\ UNCHANGED lowerVars
    <3>1. pass \in Early /\ UNCHANGED bare_slots
      BY <2>6 DEF Check, FinishScopes, RefuseScope, Scope_dfs_and_build_type, AddBuiltins, ResolveBodies, NameUnknown,
         ReceiverUnknown, ResolveName, CheckFnItem, CheckLetStmt, CheckNode, walking, Early, lowerVars
    <3> QED
      BY <2>2, <3>1
  <2>7. CASE (Lower \/ Generate \/ UNCHANGED vars) /\ ~GenIdentifierExpr
    <3>1. UNCHANGED <<scopes, decls, bare_slots>>
      BY <2>7 DEF Lower, FinishCheck, LoweringFails, visit_scope, FinishGlobals,
         Generate, GenFnItem, SkipFnItem, GenFails, GenEnter, GenLeave, GenReturn,
         GenLetStmt, GenCallExpr, GenNothing, FinishGen, gen_on, scopeVars, lowerVars, vars
    <3> QED
      BY <2>3, <3>1
  <2> QED
    BY <2>4, <2>5, <2>6, <2>7 DEF Next
<1> QED
  BY <1>1, <1>2, ScopesInvariant, TextInvariant, LetInvariant, GenInvariant, NamesInvariant, PTL DEF Spec
=============================================================================
