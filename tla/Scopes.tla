------------------------------- MODULE Scopes -------------------------------
(***************************************************************************)
(* ScopeBuilder_Visitor (semantic/scope): the tree of scopes of a program  *)
(* and the declarations found in each.  A program is the walk AST_Walker   *)
(* makes of its items: the sequence of nodes entered, and "end" for every  *)
(* return from a node with children.  The nodes are                        *)
(*   fn     name, receiver and parameter; its body is the next block       *)
(*   block  role "stmt", "body" (of a function) or "size" (in the array    *)
(*          type of a parameter, walked before the body)                   *)
(*   type   a struct or an enum, with the type of a struct's field         *)
(*   impl   of the struct name                                             *)
(*   const, let, use, call, method, path, builtin, ret                     *)
(* Every later pass walks the same nodes, so they are known by position.   *)
(***************************************************************************)
EXTENDS Naturals, Sequences, SequencesExt

CONSTANT Programs      \* the programs to compile

NoName == ""           \* no parameter, a field of a builtin type, no impl

Leaves == {"let", "use", "call", "method", "path", "builtin", "ret"}

Node ==
  [op : {"fn"}, name : STRING, receiver : {"none", "self"}, param : STRING]
    \cup [op : {"block"}, role : {"stmt", "body", "size"}]
    \cup [op : {"type"}, kind : {"struct", "enum"}, name : STRING, field : STRING]
    \cup [op : {"impl", "const", "let", "use", "call", "builtin"}, name : STRING]
    \cup [op : {"method", "path"}, of : STRING, name : STRING]
    \cup [op : {"ret", "end"}]

ASSUME ProgramsAssumption == Programs \subseteq Seq(Node)

(* The body of a function comes after its head and the sizes of arrays in  *)
(* its parameters and its result: names and calls, if they have no block.  *)
in_head(p, m, n) == p[m].op = "fn" /\ \A k \in (m + 1)..(n - 1) : p[k].op \in Leaves

well_bodied(p) ==
  \A n \in DOMAIN p :
    /\ p[n].op = "fn" =>
         \E b \in DOMAIN p : b > n /\ in_head(p, n, b) /\ p[b].op = "block" /\ p[b].role # "stmt"
    /\ p[n].op = "block" /\ p[n].role = "body" =>
         \E m \in 1..(n - 1) : in_head(p, m, n) \/ (p[m].op = "block" /\ p[m].role = "size")

ASSUME BodiesAssumption == \A p \in Programs : well_bodied(p)

VARIABLES
  program,               \* the program being compiled
  pass,                  \* the pass of the compiler, or "done", "CE", "error"
  at,                    \* the next node of the walk
  scopes,                \* the scope tree; a scope is known by its number, the root is 1
  decls,                 \* the declarations, in the order in which they are made
  scope_stack,           \* the scope of each node the walk is in, the innermost last
  node_scope_map,        \* the scope of each node walked
  block_is_in_function   \* the next block is taken to be the body of a function

scopeVars == <<scopes, decls, scope_stack, node_scope_map, block_is_in_function>>

node == program[at]
current_scope == Last(scope_stack)
walking(p) == pass = p /\ at \in DOMAIN program

(* A value or type declaration: what, called how, in which scope, where.   *)
(* inner is the scope of a function.                                       *)
declaration(kind, name, scope, n, inner) ==
  [kind |-> kind, name |-> name, scope |-> scope, node |-> n, inner |-> inner]

Values == {"fn", "const", "builtin"}
Types == {"struct", "enum"}
namespace(s, kinds) == {d \in DOMAIN decls : decls[d].scope = s /\ decls[d].kind \in kinds}
named(ds, name) == {d \in ds : decls[d].name = name}

new_scope(parent, kind, impl) ==
  [parent |-> parent, kind |-> kind, impl_struct |-> impl, children |-> << >>]

(***************************************************************************)
(* The code pushes and pops only where it builds a scope; here a block     *)
(* that builds none repeats the current scope, so that every node pops.    *)
(***************************************************************************)
push_scope(kind, impl) ==
  /\ scopes' = Append([scopes EXCEPT ![current_scope].children = Append(@, Len(scopes) + 1)],
                      new_scope(current_scope, kind, impl))
  /\ scope_stack' = Append(scope_stack, Len(scopes) + 1)

walk_on ==
  /\ at' = at + 1
  /\ node_scope_map' = Append(node_scope_map, current_scope)
  /\ UNCHANGED <<program, pass>>

refuse == pass' = "CE"

(* A second declaration of the same name in the same namespace. *)
redefined(kinds) == named(namespace(current_scope, kinds), node.name) # {}

Redefinition ==
  /\ walking("scopes")
  /\ \/ node.op \in {"fn", "const"} /\ redefined(Values)
     \/ node.op = "type" /\ redefined(Types)
  /\ refuse
  /\ UNCHANGED <<scopeVars, program, at>>

flag_forgotten(value) == UNCHANGED block_is_in_function  \* mutant of set_flag

set_flag(value) == block_is_in_function' = value

VisitFnItem ==
  /\ walking("scopes") /\ node.op = "fn" /\ ~redefined(Values)
  /\ decls' = Append(decls, declaration("fn", node.name, current_scope, at, Len(scopes) + 1))
  /\ push_scope("Function", NoName)
  /\ set_flag(TRUE)
  /\ walk_on

(* The first block after the head of a function gets no scope of its own. *)
VisitBlockExpr ==
  /\ walking("scopes") /\ node.op = "block"
  /\ IF block_is_in_function
       THEN scope_stack' = Append(scope_stack, current_scope) /\ UNCHANGED scopes
       ELSE push_scope("Block", NoName)
  /\ node_scope_map' = Append(node_scope_map, Last(scope_stack'))
  /\ set_flag(FALSE)
  /\ at' = at + 1
  /\ UNCHANGED <<program, pass, decls>>

VisitImplItem ==
  /\ walking("scopes") /\ node.op = "impl"
  /\ push_scope("Impl", node.name)
  /\ walk_on
  /\ UNCHANGED <<decls, block_is_in_function>>

(* StructItem, EnumItem and ConstItem. *)
VisitDeclaration ==
  /\ walking("scopes")
  /\ \/ node.op = "type" /\ ~redefined(Types)
        /\ decls' = Append(decls, declaration(node.kind, node.name, current_scope, at, 0))
     \/ node.op = "const" /\ ~redefined(Values)
        /\ decls' = Append(decls, declaration("const", node.name, current_scope, at, 0))
  /\ walk_on
  /\ UNCHANGED <<scopes, scope_stack, block_is_in_function>>

VisitLeaf ==
  /\ walking("scopes") /\ node.op \in Leaves
  /\ walk_on
  /\ UNCHANGED <<scopes, decls, scope_stack, block_is_in_function>>

LeaveNode ==
  /\ walking("scopes") /\ node.op = "end" /\ Len(scope_stack) > 1
  /\ scope_stack' = Front(scope_stack)
  /\ walk_on
  /\ UNCHANGED <<scopes, decls, block_is_in_function>>

ScopesInit ==
  /\ program \in Programs
  /\ pass = "scopes"
  /\ at = 1
  /\ scopes = <<new_scope(0, "Root", NoName)>>
  /\ decls = << >>
  /\ scope_stack = <<1>>
  /\ node_scope_map = << >>
  /\ block_is_in_function = FALSE

BuildScopes ==
  \/ Redefinition \/ VisitFnItem \/ VisitBlockExpr \/ VisitImplItem
  \/ VisitDeclaration \/ VisitLeaf \/ LeaveNode
=============================================================================
