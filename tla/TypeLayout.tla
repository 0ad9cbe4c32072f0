----------------------------- MODULE TypeLayout -----------------------------
(***************************************************************************)
(* How many bytes a value takes (TypeLowering): GlobalLoweringDriver       *)
(* declares, defines and measures the structs of one scope after another,  *)
(* then the visits of expressions ask for the size of what they copy or    *)
(* clear.  A struct is measured once; all the tables are keyed by its      *)
(* name.  A program is the sequence of its structs [name, scope, fields];  *)
(* a type is [dims, base]: the lengths of the arrays around a base,        *)
(* outermost first.  The base "struct" names a position of the program.    *)
(***************************************************************************)
EXTENDS Integers, SequencesExt

CONSTANTS
  Programs,
  Asked(_)   (* the types a program copies or clears *)

scalar_kinds == {"bool", "unit", "i32", "ref"}
Bases(p) == [kind : scalar_kinds \cup {"Str", "String"}] \cup [kind : {"struct"}, decl : DOMAIN p]
Types(p) == [dims : Seq(Nat), base : Bases(p)]

(* A field names a struct of its own scope or one around it; scopes have   *)
(* the numbers of the order in which they are visited, outer ones first.   *)
ASSUME ProgramsAssumption ==
  \A p \in Programs :
    /\ p \in Seq([name : STRING, scope : Nat, fields : Seq(Types(p))])
    /\ Asked(p) \subseteq Types(p)
    /\ \A d \in DOMAIN p : \A i \in DOMAIN p[d].fields :
         LET base == p[d].fields[i].base IN base.kind = "struct" => p[base.decl].scope <= p[d].scope

VARIABLES
  program,
  todo,                    (* the steps of visit_scope left to do, for all scopes *)
  struct_cache,            (* the names declared *)
  pending_struct_defs,     (* those whose fields are not defined yet *)
  struct_size_cache,
  struct_align_cache,
  struct_size_in_progress,
  frames,                  (* the calls of size_of_struct under way *)
  asking,                  (* the type size_in_bytes was called with *)
  answer,                  (* what it returned last *)
  error                    (* the exception that ended the compilation *)

tables == <<struct_cache, pending_struct_defs>>
caches == <<struct_size_cache, struct_align_cache>>
measuring == <<caches, struct_size_in_progress, frames>>
vars == <<program, todo, tables, measuring, asking, answer, error>>

NoType == [dims |-> <<>>, base |-> [kind |-> "none"]]
NoAnswer == [type |-> NoType, bytes |-> 0]
Struct(d) == [dims |-> <<>>, base |-> [kind |-> "struct", decl |-> d]]

-----------------------------------------------------------------------------
(* Sizes and alignments. *)

kPointerSizeBytes == 4
scalar_size == [bool |-> 1, unit |-> 0, i32 |-> 4, ref |-> kPointerSizeBytes]
scalar_alignment == [bool |-> 1, unit |-> 1, i32 |-> 4, ref |-> kPointerSizeBytes]
builtin_fields == [Str |-> <<"ref", "i32">>, String |-> <<"ref", "i32", "i32">>]

align_to(offset, alignment) ==
  IF offset % alignment = 0 THEN offset ELSE offset + (alignment - (offset % alignment))

Empty == [total |-> 0, max_align |-> 1]

packed(layout, bytes, alignment) ==                       \* mutant of placed
  [total |-> layout.total + bytes, max_align |-> alignment]

(* One more field at the end of a struct. *)
placed(layout, bytes, alignment) ==
  [total     |-> align_to(layout.total, alignment) + bytes,
   max_align |-> IF alignment > layout.max_align THEN alignment ELSE layout.max_align]

builtin_layout(name) ==
  LET fields == builtin_fields[name]
      upto[i \in 0..Len(fields)] ==
        IF i = 0 THEN Empty ELSE placed(upto[i - 1], scalar_size[fields[i]], scalar_alignment[fields[i]])
  IN upto[Len(fields)]

elements(dims) ==
  LET product[i \in 0..Len(dims)] == IF i = 0 THEN 1 ELSE product[i - 1] * dims[i]
  IN product[Len(dims)]

NeedsCache(base) == base.kind \notin DOMAIN scalar_size
name_of(base) == IF base.kind = "struct" THEN program[base.decl].name ELSE base.kind
Measured(base) == NeedsCache(base) => name_of(base) \in DOMAIN struct_size_cache
Aligned(base) == NeedsCache(base) => name_of(base) \in DOMAIN struct_align_cache

size_in_bytes(type) ==
  elements(type.dims)
    * IF NeedsCache(type.base) THEN struct_size_cache[name_of(type.base)]
                               ELSE scalar_size[type.base.kind]

alignment_of(type) ==
  IF NeedsCache(type.base) THEN struct_align_cache[name_of(type.base)]
                           ELSE scalar_alignment[type.base.kind]

-----------------------------------------------------------------------------
(* The walk of the scopes: three loops over the structs of a scope, then   *)
(* the scopes inside it.  Within a loop the code takes the structs in the  *)
(* order of their names; here every order is possible.                     *)

loop_of == [declare |-> 1, define |-> 2, measure |-> 3]
Step(op, d) == [op |-> op, decl |-> d]
Steps(p) == {Step(op, d) : op \in DOMAIN loop_of, d \in DOMAIN p}

before(a, b) ==
  LET s == program[a.decl].scope
      t == program[b.decl].scope
  IN s < t \/ (s = t /\ loop_of[a.op] < loop_of[b.op])

Init ==
  /\ program \in Programs
  /\ todo = Steps(program)
  /\ struct_cache = DOMAIN builtin_fields     (* declare_builtin_string_types *)
  /\ pending_struct_defs = {}
  /\ struct_size_cache = <<>> /\ struct_align_cache = <<>>
  /\ struct_size_in_progress = {}
  /\ frames = <<>> /\ asking = NoType /\ answer = NoAnswer /\ error = ""

(* An exception: the driver does not catch it, and main ends. *)
Throw(what) ==
  /\ error' = what
  /\ UNCHANGED <<program, todo, tables, measuring, asking, answer>>

Due(op, d) ==
  /\ error = "" /\ asking = NoType
  /\ Step(op, d) \in todo
  /\ \A other \in todo : ~before(other, Step(op, d))

DeclareStub(d) ==
  /\ Due("declare", d)
  /\ LET name == program[d].name IN
       /\ struct_cache' = struct_cache \cup {name}
       /\ pending_struct_defs' =
            IF name \in struct_cache THEN pending_struct_defs ELSE pending_struct_defs \cup {name}
  /\ todo' = todo \ {Step("declare", d)}
  /\ UNCHANGED <<program, measuring, asking, answer, error>>

(* What lower throws for the type of a field. *)
lower_error(type) ==
  IF 0 \in ToSet(type.dims) THEN "array size missing"
  ELSE IF NeedsCache(type.base) /\ name_of(type.base) \notin struct_cache THEN "struct not declared"
  ELSE ""

(* The first of the fields that has no type decides. *)
wrong_fields(decl) == {i \in DOMAIN decl.fields : lower_error(decl.fields[i]) # ""}
first_wrong(decl) == CHOOSE i \in wrong_fields(decl) : \A j \in wrong_fields(decl) : i <= j

redefinable(decl) ==                                      \* mutant of define_error
  IF wrong_fields(decl) # {} THEN lower_error(decl.fields[first_wrong(decl)]) ELSE ""

define_error(decl) ==
  IF decl.name \notin struct_cache THEN "struct stub missing"
  ELSE IF decl.name \notin pending_struct_defs THEN "struct fields already defined"
  ELSE IF wrong_fields(decl) # {} THEN lower_error(decl.fields[first_wrong(decl)])
  ELSE ""

DefineFields(d) ==
  /\ Due("define", d)
  /\ LET decl == program[d] IN
       IF define_error(decl) # ""
       THEN Throw(define_error(decl))
       ELSE /\ pending_struct_defs' = pending_struct_defs \ {decl.name}
            /\ todo' = todo \ {Step("define", d)}
            /\ UNCHANGED <<program, struct_cache, measuring, asking, answer, error>>

Ask(type) ==
  /\ asking' = type /\ answer' = NoAnswer
  /\ UNCHANGED <<program, tables, measuring, error>>

AskStruct(d) ==
  /\ Due("measure", d)
  /\ Ask(Struct(d))
  /\ todo' = todo \ {Step("measure", d)}

(* emit_memcpy and zero_initialize, once the driver is done. *)
Query ==
  /\ error = "" /\ asking = NoType /\ todo = {}
  /\ \E type \in Asked(program) : Ask(type)
  /\ UNCHANGED todo

-----------------------------------------------------------------------------
(* size_in_bytes: a field, or the type asked about when no struct is under *)
(* way.  What is not in the caches is measured first.                      *)

frame == frames[Len(frames)]
FieldsOf(f) == program[f.decl].fields
HasField == frames # <<>> => frame.field \in DOMAIN FieldsOf(frame)
Wanted == IF frames = <<>> THEN asking ELSE FieldsOf(frame)[frame.field]

Sizing == error = "" /\ asking # NoType /\ HasField

(* What size_in_bytes throws before it looks into a struct. *)
size_error(type) ==
  IF 0 \in ToSet(type.dims) THEN "array size missing"
  ELSE IF type.base.kind # "struct" THEN ""
  ELSE IF name_of(type.base) \in pending_struct_defs THEN "struct fields not defined"
  ELSE IF Measured(type.base) THEN ""
  ELSE IF name_of(type.base) \in struct_size_in_progress THEN "cyclic struct size dependency"
  ELSE ""

Refuse ==
  /\ Sizing /\ size_error(Wanted) # ""
  /\ Throw(size_error(Wanted))

(* Both caches get a finished struct. *)
Entered(cache, name, n) ==
  [x \in DOMAIN cache \cup {name} |-> IF x = name THEN n ELSE cache[x]]

RememberNonEmpty(name, layout) ==                         \* mutant of Remember
  IF layout.total = 0
  THEN UNCHANGED caches
  ELSE /\ struct_size_cache' = Entered(struct_size_cache, name, align_to(layout.total, layout.max_align))
       /\ struct_align_cache' = Entered(struct_align_cache, name, layout.max_align)

Remember(name, layout) ==
  /\ struct_size_cache' = Entered(struct_size_cache, name, align_to(layout.total, layout.max_align))
  /\ struct_align_cache' = Entered(struct_align_cache, name, layout.max_align)

MeasureBuiltin ==
  /\ Sizing /\ size_error(Wanted) = "" /\ ~Measured(Wanted.base)
  /\ Wanted.base.kind # "struct"
  /\ Remember(name_of(Wanted.base), builtin_layout(name_of(Wanted.base)))
  /\ UNCHANGED <<program, todo, tables, struct_size_in_progress, frames, asking, answer, error>>

EnterStruct ==
  /\ Sizing /\ size_error(Wanted) = "" /\ ~Measured(Wanted.base)
  /\ Wanted.base.kind = "struct"
  /\ struct_size_in_progress' = struct_size_in_progress \cup {name_of(Wanted.base)}
  /\ frames' = Append(frames, [decl |-> Wanted.base.decl, field |-> 1, layout |-> Empty])
  /\ UNCHANGED <<program, todo, tables, caches, asking, answer, error>>

(* alignment_of comes after the size; a struct that has a size but no      *)
(* alignment would be refused.                                             *)
PlaceField ==
  /\ Sizing /\ size_error(Wanted) = "" /\ Measured(Wanted.base)
  /\ frames # <<>>
  /\ IF ~Aligned(Wanted.base)
     THEN Throw("struct alignment cache missing")
     ELSE /\ frames' = [frames EXCEPT ![Len(frames)] =
               [decl   |-> frame.decl,
                field  |-> frame.field + 1,
                layout |-> placed(frame.layout, size_in_bytes(Wanted), alignment_of(Wanted))]]
          /\ UNCHANGED <<program, todo, tables, caches, struct_size_in_progress, asking, answer, error>>

left_there(name) == struct_size_in_progress               \* mutant of erased
erased(name) == struct_size_in_progress \ {name}

FinishStruct ==
  /\ error = "" /\ asking # NoType /\ ~HasField
  /\ LET name == program[frame.decl].name IN
       /\ Remember(name, frame.layout)
       /\ struct_size_in_progress' = erased(name)
  /\ frames' = Front(frames)
  /\ UNCHANGED <<program, todo, tables, asking, answer, error>>

Answer ==
  /\ Sizing /\ size_error(Wanted) = "" /\ Measured(Wanted.base)
  /\ frames = <<>>
  /\ answer' = [type |-> asking, bytes |-> size_in_bytes(asking)]
  /\ asking' = NoType
  /\ UNCHANGED <<program, todo, tables, measuring, error>>

visit_scope == \E d \in DOMAIN program : DeclareStub(d) \/ DefineFields(d) \/ AskStruct(d)
Layout == Refuse \/ MeasureBuiltin \/ EnterStruct \/ PlaceField \/ FinishStruct \/ Answer

Next == visit_scope \/ Layout \/ Query

(* The compiler is one thread that runs until it is done: a call that can  *)
(* continue does.  Nothing makes the visits ask for a size.                *)
Spec == Init /\ [][Next]_vars /\ WF_vars(visit_scope \/ Layout)

-----------------------------------------------------------------------------
name_at(i) == program[frames[i].decl].name

(* The structs in progress are those of the calls under way, and no two of *)
(* the calls are for the same name: the check for cycles sees the whole    *)
(* chain of calls and nothing else, so a chain never returns to a struct   *)
(* it came through, and one that is finished can be measured again         *)
(* (size_of_struct, type_lowering.cpp:489-523).                            *)
InProgressIsStack ==
  /\ struct_size_in_progress = {name_at(i) : i \in DOMAIN frames}
  /\ \A i, j \in DOMAIN frames : name_at(i) = name_at(j) => i = j

(* Whatever has a size has an alignment: alignment_of, which is called     *)
(* after size_in_bytes, always finds its struct                            *)
(* (alignment_of_struct, type_lowering.cpp:549-562).                       *)
AlignmentsCached ==
  /\ DOMAIN struct_align_cache = DOMAIN struct_size_cache
  /\ error # "struct alignment cache missing"
=============================================================================
