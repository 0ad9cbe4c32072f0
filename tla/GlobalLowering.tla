--------------------------- MODULE GlobalLowering ---------------------------
(***************************************************************************)
(* From names in scopes to symbols in one module.                          *)
(* globals   GlobalLoweringDriver walks the scope tree: struct types are   *)
(*           cached by name, functions and constants get the path of their *)
(*           scope as a suffix and are declared                            *)
(* gen       IRGenVisitor walks the program: function items become bodies, *)
(*           calls and uses of names become references to symbols or slots *)
(* Any exception is "error".  The runtime's types Str and String are       *)
(* declared before the walk.                                               *)
(***************************************************************************)
EXTENDS Checker

VARIABLES
  suffix,        \* scope -> the path of child numbers that leads to it from the root
  struct_cache,  \* the structs lowered, as declarations
  functions,     \* the functions of the module: a symbol and the item its blocks come from, or 0
  globals,       \* the symbols of the module's constants
  frames,        \* items and blocks IRGenVisitor is in, each with its function
  slots,         \* <<function, local>>: local_slots of each FunctionContext
  bare_slots,    \* those made by a use: nothing was stored before (a history variable)
  skipped,       \* function items never visited, in dead code (a history variable)
  calls          \* the calls emitted: node, callee, symbol

lowerVars == <<suffix, struct_cache, functions, globals, frames, slots, bare_slots, skipped, calls>>

vars == <<scopeVars, checkVars, lowerVars, program, pass, at>>

FinishCheck ==
  /\ pass = "check" /\ at > Len(program)
  /\ pass' = "globals"
  /\ todo' = <<1>>
  /\ suffix' = [s \in {1} |-> << >>]
  /\ UNCHANGED <<scopeVars, program, at, methods, associated_func, resolved, struct_cache,
                 functions, globals, frames, slots, bare_slots, skipped, calls>>

(* decl->name after lowering; a builtin keeps its name. *)
symbol(d) ==
  [of |-> IF decls[d].kind = "const" THEN "const" ELSE "fn", name |-> decls[d].name,
   path |-> IF decls[d].kind = "builtin" THEN << >> ELSE suffix[decls[d].scope]]

BuiltinTypes == {"Str", "String"}
lowered_names == BuiltinTypes \cup {decls[d].name : d \in struct_cache}

(* The structs that are parts of d, n levels deep. *)
parts(d, n) ==
  LET field(e) == program[decls[e].node].field
      contained[k \in 0..n] ==
        IF k = 0 THEN {d}
        ELSE UNION {structs_named(field(e), decls[e].scope) : e \in contained[k - 1]}
  IN contained[n]

has_parts(d) == parts(d, 1) # {}                         \* mutant of cyclic

cyclic(d) == parts(d, Len(decls)) # {}

(* define_struct_fields of a name that is not pending, size_of_struct of a *)
(* struct that contains itself, create_global of a symbol that exists.     *)
refused_struct(d) == decls[d].name \in lowered_names \/ cyclic(d)
refused_globals(s) ==
  \/ \E d \in namespace(s, {"struct"}) : refused_struct(d)
  \/ \E d \in namespace(s, {"const"}) : symbol(d) \in globals

LoweringFails ==
  /\ pass = "globals" /\ todo # << >> /\ refused_globals(Head(todo))
  /\ pass' = "error"
  /\ UNCHANGED <<scopeVars, checkVars, lowerVars, program, at>>

child_number(s, c) == CHOOSE i \in DOMAIN scopes[s].children : scopes[s].children[i] = c

flat_suffixes(s) ==                                      \* mutant of child_suffixes
  [c \in DOMAIN suffix \cup ToSet(scopes[s].children) |->
     IF c \in DOMAIN suffix THEN suffix[c] ELSE <<child_number(s, c) - 1>>]

(* local_counter numbers the children of a scope from 0. *)
child_suffixes(s) ==
  [c \in DOMAIN suffix \cup ToSet(scopes[s].children) |->
     IF c \in DOMAIN suffix THEN suffix[c] ELSE Append(suffix[s], child_number(s, c) - 1)]

declared(fs, symbols) ==
  fs \cup {[symbol |-> x, body |-> 0] : x \in symbols \ {f.symbol : f \in fs}}

visit_scope ==
  /\ pass = "globals" /\ todo # << >> /\ ~refused_globals(Head(todo))
  /\ LET s == Head(todo)
     IN /\ struct_cache' = struct_cache \cup namespace(s, {"struct"})
        /\ functions' = declared(functions, {symbol(d) : d \in namespace(s, {"fn"})})
        /\ globals' = globals \cup {symbol(d) : d \in namespace(s, {"const"})}
        /\ suffix' = child_suffixes(s)
        /\ todo' = depth_first(s)
  /\ UNCHANGED <<scopeVars, program, pass, at, methods, associated_func, resolved,
                 frames, slots, bare_slots, skipped, calls>>

FinishGlobals ==
  /\ pass = "globals" /\ todo = << >>
  /\ pass' = "gen"
  /\ at' = 1
  /\ UNCHANGED <<scopeVars, checkVars, lowerVars, program>>

(***************************************************************************)
(* IRGenVisitor.  A frame is dead once a statement before the current one  *)
(* has no NEXT: visit(BlockExpr) leaves the rest of the statements out,    *)
(* whatever they are.                                                      *)
(***************************************************************************)
dead == frames # << >> /\ Last(frames).dead
current_fn == IF frames = << >> THEN 0 ELSE Last(frames).fn
frame(op, f, is_dead) == [op |-> op, fn |-> f, dead |-> is_dead]

generating(ops) == walking("gen") /\ node.op \in ops
gen_on == at' = at + 1 /\ UNCHANGED <<scopeVars, checkVars, program, pass, suffix, struct_cache, globals>>

fn_decl == CHOOSE d \in DOMAIN decls : decls[d].kind = "fn" /\ decls[d].node = at
not_introduced == {}                                      \* mutant of locals_here

(* What the current node introduces: a let, or the parameter of a function. *)
locals_here == {d \in DOMAIN decls : decls[d].kind = "let" /\ decls[d].node = at}
has_body(f) == \E g \in functions : g.symbol = symbol(f) /\ g.body # 0

GenFnItem ==
  /\ generating({"fn"}) /\ ~dead /\ ~has_body(fn_decl)
  /\ functions' = {g \in functions : g.symbol # symbol(fn_decl)}
                    \cup {[symbol |-> symbol(fn_decl), body |-> fn_decl]}
  /\ frames' = Append(frames, frame("fn", fn_decl, FALSE))
  /\ slots' = slots \cup ({fn_decl} \X locals_here)
  /\ gen_on
  /\ UNCHANGED <<bare_slots, skipped, calls>>

(* A function item in dead code is passed over with the statements. *)
SkipFnItem ==
  /\ generating({"fn"}) /\ dead
  /\ skipped' = skipped \cup {fn_decl}
  /\ frames' = Append(frames, frame("fn", fn_decl, TRUE))
  /\ gen_on
  /\ UNCHANGED <<functions, slots, bare_slots, calls>>

bare_method == node.op = "call" /\ \E f \in resolved[at] : decls[f].kind = "fn" /\ receiver(f) # "none"

(* "already lowered", or a method call without a base expression. *)
lowering_throws == (node.op = "fn" /\ has_body(fn_decl)) \/ bare_method

GenFails ==
  /\ generating({"fn", "call"}) /\ ~dead /\ lowering_throws
  /\ pass' = "error"
  /\ UNCHANGED <<scopeVars, checkVars, lowerVars, program, at>>

GenEnter ==
  /\ generating({"block", "impl"})
  /\ frames' = Append(frames, frame(node.op, current_fn, dead))
  /\ gen_on
  /\ UNCHANGED <<functions, slots, bare_slots, skipped, calls>>

(* A block without NEXT is a statement without NEXT; an item has NEXT. *)
after_statement(f, g) == [f EXCEPT !.dead = @ \/ (g.op = "block" /\ g.dead)]

GenLeave ==
  /\ generating({"end"})
  /\ LET rest == Front(frames)
     IN frames' = IF rest = << >> THEN rest
                  ELSE [rest EXCEPT ![Len(rest)] = after_statement(@, Last(frames))]
  /\ gen_on
  /\ UNCHANGED <<functions, slots, bare_slots, skipped, calls>>

GenReturn ==
  /\ generating({"ret"})
  /\ frames' = [frames EXCEPT ![Len(frames)].dead = TRUE]
  /\ gen_on
  /\ UNCHANGED <<functions, slots, bare_slots, skipped, calls>>

(* ensure_slot_for_decl of the current function, then a store. *)
GenLetStmt ==
  /\ generating({"let"}) /\ ~dead
  /\ slots' = slots \cup ({current_fn} \X locals_here)
  /\ gen_on
  /\ UNCHANGED <<functions, frames, bare_slots, skipped, calls>>

(* A use makes the slot when the current function has none. *)
GenIdentifierExpr ==
  /\ generating({"use"}) /\ ~dead
  /\ LET used == {current_fn} \X {d \in resolved[at] : decls[d].kind = "let"}
     IN /\ bare_slots' = bare_slots \cup (used \ slots)
        /\ slots' = slots \cup used
  /\ gen_on
  /\ UNCHANGED <<functions, frames, skipped, calls>>

GenCallExpr ==
  /\ generating({"call", "method", "path", "builtin"}) /\ ~dead /\ ~bare_method
  /\ \E callee \in resolved[at] :
       /\ calls' = calls \cup {[node |-> at, callee |-> callee, symbol |-> symbol(callee)]}
       /\ functions' = IF decls[callee].kind = "builtin" THEN declared(functions, {symbol(callee)})
                                                         ELSE functions
  /\ gen_on
  /\ UNCHANGED <<frames, slots, bare_slots, skipped>>

GenNothing ==
  /\ \/ generating({"type", "const"})
     \/ generating(Names \cup {"let"}) /\ dead
  /\ gen_on
  /\ UNCHANGED <<functions, frames, slots, bare_slots, skipped, calls>>

FinishGen ==
  /\ pass = "gen" /\ at > Len(program)
  /\ pass' = "done"
  /\ UNCHANGED <<scopeVars, checkVars, lowerVars, program, at>>

Init ==
  /\ ScopesInit /\ CheckerInit
  /\ suffix = [s \in {} |-> << >>]
  /\ struct_cache = {} /\ functions = {} /\ globals = {}
  /\ frames = << >> /\ slots = {} /\ bare_slots = {} /\ skipped = {} /\ calls = {}

Lower == FinishCheck \/ LoweringFails \/ visit_scope \/ FinishGlobals

Generate ==
  \/ GenFnItem \/ SkipFnItem \/ GenFails \/ GenEnter \/ GenLeave \/ GenReturn
  \/ GenLetStmt \/ GenIdentifierExpr \/ GenCallExpr \/ GenNothing \/ FinishGen

Next ==
  \/ BuildScopes /\ UNCHANGED <<checkVars, lowerVars>>
  \/ Check /\ UNCHANGED lowerVars
  \/ Lower
  \/ Generate

Spec == Init /\ [][Next]_vars
=============================================================================
