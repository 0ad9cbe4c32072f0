------------------------- MODULE GlobalLoweringSound ------------------------
(* What names mean from the source to the module: properties of            *)
(* GlobalLowering.                                                         *)
EXTENDS GlobalLowering, FiniteSets, Functions

(***************************************************************************)
(* No two functions or constants of the source get the same symbol,        *)
(* wherever in the program they are declared.                              *)
(***************************************************************************)
Lowered == {d \in DOMAIN decls : decls[d].kind \in {"fn", "const"} /\ decls[d].scope \in DOMAIN suffix}

SymbolsUnique == \A d, e \in Lowered : symbol(d) = symbol(e) => d = e

(***************************************************************************)
(* The scope of a node is that of the innermost function, impl or block    *)
(* around it in the text, although the flag block_is_in_function decides   *)
(* from the order of the walk which block is the body of a function.  The  *)
(* body of a function has the scope its parameters are put into.           *)
(***************************************************************************)
Accepted == pass \in {"check", "globals", "gen", "done"}

opens(n) == program[n].op \in {"fn", "impl", "block"}
Depth(m, n) == Cardinality({k \in m..n : opens(k)}) - Cardinality({k \in m..n : program[k].op = "end"})
makes_scope(n) == opens(n) /\ (program[n].op = "block" => program[n].role = "stmt")

(* The constructs that are open just before node n is visited. *)
around(n) == {m \in 1..(n - 1) : makes_scope(m) /\ \A k \in m..(n - 1) : Depth(m, k) > 0}
textual(n) ==
  LET inside == IF program[n].op = "block" /\ makes_scope(n) THEN {n} ELSE {}
  IN {m \in around(n) \cup inside : \A k \in around(n) \cup inside : k <= m}

ScopesFollowText ==
  (pass = "done") =>
    /\ \A d \in DOMAIN decls : decls[d].kind = "fn" => node_scope_map[decls[d].node + 1] = decls[d].inner
    /\ \A m, n \in {k \in DOMAIN program : program[k].op # "end"} :
         (node_scope_map[m] = node_scope_map[n]) <=> (textual(m) = textual(n))

(***************************************************************************)
(* A function of an impl belongs to exactly one struct, the one whose name *)
(* is visible there, and a struct never has two functions of one name,     *)
(* whatever scopes its impls are in.  Its associated functions are the     *)
(* ones without a receiver.                                                *)
(***************************************************************************)
MethodTables ==
  Accepted =>
    /\ \A f \in DOMAIN decls :
         LET s == decls[f].scope
             impl == decls[f].kind = "fn" /\ scopes[s].kind = "Impl"
         IN {m[1] : m \in {x \in methods : x[2] = f}}
              = IF impl THEN types_named(scopes[s].impl_struct, s) ELSE {}
    /\ \A m, n \in methods : m[1] = n[1] /\ decls[m[2]].name = decls[n[2]].name => m = n
    /\ associated_func = {m \in methods : receiver(m[2]) = "none"}

(***************************************************************************)
(* When compilation succeeds the symbol of a call is attached to the body  *)
(* of the function the checker resolved the name to; it has no body only   *)
(* when that function's item was left out as dead code.                    *)
(***************************************************************************)
UserCalls == {c \in calls : decls[c.callee].kind = "fn"}
bodies(c) == {f.body : f \in {g \in functions : g.symbol = c.symbol}}

CallsReachCallee ==
  (pass = "done") =>
    \A c \in UserCalls : bodies(c) = {IF c.callee \in skipped THEN 0 ELSE c.callee}

(***************************************************************************)
(* A local is stored before it is read: the only slots made by a use are   *)
(* those of locals of another function, which nested functions can name.   *)
(***************************************************************************)
function_scope(s) ==
  nearest(s, [t \in DOMAIN scopes |-> IF scopes[t].kind = "Function" THEN {t} ELSE {}])
captured(p) == function_scope(decls[p[2]].scope) # {decls[p[1]].inner}

StoredBeforeRead == \A p \in bare_slots : captured(p)

(***************************************************************************)
(* An accepted program fails to compile for four reasons only: it declares *)
(* two structs of one name (or one named as a builtin), a struct that      *)
(* contains itself, it calls an associated function as a method, or a      *)
(* method by its bare name.  No function is lowered twice, no global is    *)
(* created twice.                                                          *)
(***************************************************************************)
Structs == {d \in DOMAIN decls : decls[d].kind = "struct"}
repeated_struct ==
  \E d \in Structs : decls[d].name \in BuiltinTypes \/ \E e \in Structs \ {d} : decls[d].name = decls[e].name

contains_itself ==
  \E C \in (SUBSET Structs) \ {{}} :
    \A d \in C : structs_named(program[decls[d].node].field, decls[d].scope) \cap C # {}

FailuresKnown ==
  (pass = "error") =>
    \/ repeated_struct
    \/ contains_itself
    \/ at \in DOMAIN program /\ (no_receiver \/ (at \in DOMAIN resolved /\ bare_method))

(***************************************************************************)
(* PLAN.md: symbols never clash, whatever the scopes.  A call of a builtin *)
(* must not reach a function of the program.                               *)
(***************************************************************************)
BuiltinsReachRuntime ==
  (pass = "done") => \A c \in calls \ UserCalls : bodies(c) = {0}
=============================================================================
