------------------------------ MODULE Checker -------------------------------
(***************************************************************************)
(* Semantic_Checker after the scopes are built, as far as names go.        *)
(* types     walk the scope tree: types of fields, targets of impls        *)
(* builtins  put the runtime's functions into the root scope               *)
(* constants resolve the types in bodies, evaluate the sizes of arrays     *)
(* check     walk the program: introduce locals, resolve names             *)
(* decls grows by the builtins and, in the last pass, by the locals.       *)
(***************************************************************************)
EXTENDS Scopes

VARIABLES
  todo,            \* scopes the recursion over the tree has still to visit
  methods,         \* <<struct, function>>: the map methods of each StructDecl
  associated_func, \* <<struct, function>>: the map associated_func
  resolved         \* node -> the declarations its name stands for: one or none

checkVars == <<todo, methods, associated_func, resolved>>

receiver(f) == program[decls[f].node].receiver

(* What found has for s or for the nearest scope around it. *)
nearest(s, found) ==
  LET outward[t \in 0..Len(scopes)] ==
        IF t = 0 THEN {}
        ELSE IF found[t] # {} THEN found[t] ELSE outward[scopes[t].parent]
  IN outward[s]

types_named(name, s) == nearest(s, [t \in DOMAIN scopes |-> named(namespace(t, Types), name)])

structs_named(name, s) == {d \in types_named(name, s) : decls[d].kind = "struct"}

latest(ds) == {d \in ds : \A e \in ds : e <= d}

(* In each scope the last local of the name, then its items. *)
values_named(name, s) ==
  LET locals(t) == named(namespace(t, {"let"}), name)
      items(t) == named(namespace(t, Values), name)
  IN nearest(s, [t \in DOMAIN scopes |-> IF locals(t) # {} THEN latest(locals(t)) ELSE items(t)])

depth_first(s) == scopes[s].children \o Tail(todo)

FinishScopes ==
  /\ pass = "scopes" /\ at > Len(program)
  /\ pass' = "types"
  /\ todo' = <<1>>
  /\ UNCHANGED <<scopeVars, program, at, methods, associated_func, resolved>>

outermost_target(s) ==                                   \* mutant of impl_target
  named(namespace(1, {"struct"}), scopes[s].impl_struct)

(* The struct an impl is for; the nearest type of the name may be an enum. *)
impl_target(s) == structs_named(scopes[s].impl_struct, s)
of_target(s, table) == {m \in table : m[1] \in impl_target(s)}

unresolved_field(d) ==
  LET field == program[decls[d].node].field
  IN field # NoName /\ types_named(field, decls[d].scope) = {}

clash_of_impl(s) ==
  \E m \in of_target(s, methods \cup associated_func) :
    named(namespace(s, {"fn"}), decls[m[2]].name) # {}

refused_scope(s) ==
  \/ \E d \in namespace(s, {"struct"}) : unresolved_field(d)
  \/ scopes[s].kind = "Impl" /\ (impl_target(s) = {} \/ clash_of_impl(s))
  \/ scopes[s].kind # "Impl" /\ \E f \in namespace(s, {"fn"}) : receiver(f) # "none"
  \/ scopes[s].kind = "Root" /\ named(namespace(s, {"fn"}), "main") = {}

RefuseScope ==
  /\ pass = "types" /\ todo # << >> /\ refused_scope(Head(todo))
  /\ refuse
  /\ UNCHANGED <<scopeVars, checkVars, program, at>>

(* Both kinds of functions go into methods, so neither can be redefined. *)
Scope_dfs_and_build_type ==
  /\ pass = "types" /\ todo # << >> /\ ~refused_scope(Head(todo))
  /\ LET s == Head(todo)
         fns == IF scopes[s].kind = "Impl" THEN namespace(s, {"fn"}) ELSE {}
         targets == IF scopes[s].kind = "Impl" THEN impl_target(s) ELSE {}
     IN /\ methods' = methods \cup (targets \X fns)
        /\ associated_func' = associated_func \cup (targets \X {f \in fns : receiver(f) = "none"})
        /\ todo' = depth_first(s)
  /\ UNCHANGED <<scopeVars, program, pass, at, resolved>>

RootBuiltins == <<"print", "println", "printInt", "printlnInt", "getString", "getInt", "exit">>
TypeBuiltins == <<"to_string", "as_str", "as_mut_str", "string_len", "str_len", "from", "append">>
builtin_decls(names, s) == [i \in DOMAIN names |-> declaration("builtin", names[i], s, 0, 0)]

(* add_builtin_methods_and_associated_funcs.  The methods of builtin types *)
(* enter no namespace (here: that of scope 0); a node "builtin" has the    *)
(* name of the FnDecl, for instance string_len for the method len.  A call *)
(* of exit, which ends main and is lowered to a return, is left out.       *)
AddBuiltins ==
  /\ pass = "types" /\ todo = << >>
  /\ IF \E i \in DOMAIN RootBuiltins : named(namespace(1, Values), RootBuiltins[i]) # {}
       THEN refuse /\ UNCHANGED decls
       ELSE /\ pass' = "constants"
            /\ decls' = decls \o builtin_decls(RootBuiltins, 1) \o builtin_decls(TypeBuiltins, 0)
  /\ UNCHANGED <<scopes, scope_stack, node_scope_map, block_is_in_function, checkVars, program, at>>

(* Step 3: a type named in a body is resolved in the scope of its node,    *)
(* and a block cannot be evaluated as a size.                              *)
refused_node(n) ==
  \/ program[n].op = "block" /\ program[n].role = "size"
  \/ program[n].op \in {"method", "path"} /\ types_named(program[n].of, node_scope_map[n]) = {}

ResolveBodies ==
  /\ pass = "constants"
  /\ IF \E n \in DOMAIN program : refused_node(n)
       THEN refuse /\ UNCHANGED at
       ELSE pass' = "check" /\ at' = 1
  /\ UNCHANGED <<scopeVars, checkVars, program>>

here == node_scope_map[at]
in_table(table) ==
  {m[2] : m \in {x \in table : x[1] \in types_named(node.of, here) /\ decls[x[2]].name = node.name}}

(* find_value_decl, get_method_func and get_associated_func. *)
candidates ==
  CASE node.op = "use" -> {d \in values_named(node.name, here) : decls[d].kind \in {"const", "let"}}
    [] node.op = "call" -> {d \in values_named(node.name, here) : decls[d].kind \in {"fn", "builtin"}}
    [] node.op = "method" -> in_table(methods)
    [] node.op = "path" -> in_table(associated_func)
    [] node.op = "builtin" -> named(namespace(0, {"builtin"}), node.name)
    [] OTHER -> {}

Names == {"use", "call", "method", "path", "builtin"}
no_receiver == node.op = "method" /\ \E f \in candidates : receiver(f) = "none"

NameUnknown ==
  /\ walking("check") /\ node.op \in Names /\ candidates = {}
  /\ refuse
  /\ UNCHANGED <<scopeVars, checkVars, program, at>>

(* The table of methods holds associated functions too. *)
ReceiverUnknown ==
  /\ walking("check") /\ no_receiver
  /\ pass' = "error"
  /\ UNCHANGED <<scopeVars, checkVars, program, at>>

ResolveName ==
  /\ walking("check") /\ node.op \in Names /\ candidates # {} /\ ~no_receiver
  /\ resolved' = Append(resolved, candidates)
  /\ at' = at + 1
  /\ UNCHANGED <<scopeVars, program, pass, todo, methods, associated_func>>

introduce(name, s) == decls' = Append(decls, declaration("let", name, s, at, 0))

unresolved_node ==
  /\ resolved' = Append(resolved, {})
  /\ at' = at + 1
  /\ UNCHANGED <<scopes, scope_stack, node_scope_map, block_is_in_function, program, pass,
                 todo, methods, associated_func>>

(* A parameter is a local in the scope of its function. *)
CheckFnItem ==
  /\ walking("check") /\ node.op = "fn"
  /\ \E f \in named(namespace(here, {"fn"}), node.name) :
       IF node.param = NoName THEN UNCHANGED decls ELSE introduce(node.param, decls[f].inner)
  /\ unresolved_node

CheckLetStmt ==
  /\ walking("check") /\ node.op = "let"
  /\ introduce(node.name, here)
  /\ unresolved_node

CheckNode ==
  /\ walking("check") /\ node.op \notin Names \cup {"fn", "let"}
  /\ unresolved_node
  /\ UNCHANGED decls

CheckerInit ==
  /\ todo = << >>
  /\ methods = {}
  /\ associated_func = {}
  /\ resolved = << >>

Check ==
  \/ FinishScopes \/ RefuseScope \/ Scope_dfs_and_build_type \/ AddBuiltins \/ ResolveBodies
  \/ NameUnknown \/ ReceiverUnknown \/ ResolveName \/ CheckFnItem \/ CheckLetStmt \/ CheckNode
=============================================================================
