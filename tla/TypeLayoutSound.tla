-------------------------- MODULE TypeLayoutSound --------------------------
(***************************************************************************)
(* What the sizes are for: the bytes a copy moves are those of the value,  *)
(* laid out with natural alignment on the 32-bit target of the documents.  *)
(***************************************************************************)
EXTENDS TypeLayout, FiniteSetsExt

(* A layout built the declarative way: every field at the first multiple   *)
(* of its alignment after the field before it, the whole a multiple of the *)
(* largest alignment.                                                      *)
FirstMultiple(from, alignment) == CHOOSE o \in from..(from + alignment - 1) : o % alignment = 0

Ends(parts) ==
  LET end[i \in 0..Len(parts)] ==
        IF i = 0 THEN 0 ELSE FirstMultiple(end[i - 1], parts[i].alignment) + parts[i].bytes
  IN end

LaidOut(parts) ==
  LET alignment == Max({1} \cup {parts[i].alignment : i \in DOMAIN parts})
  IN [bytes |-> FirstMultiple(Ends(parts)[Len(parts)], alignment), alignment |-> alignment]

Part(bytes, alignment) == [bytes |-> bytes, alignment |-> alignment]
Word == Part(4, 4)
Known ==
  [bool |-> Part(1, 1), unit |-> Part(0, 1), i32 |-> Word, ref |-> Word,
   Str |-> LaidOut(<<Word, Word>>), String |-> LaidOut(<<Word, Word, Word>>)]

Repeated(part, dims) == [part EXCEPT !.bytes = @ * elements(dims)]

(* The part a type is, when inner has those of the structs. *)
PartOf(type, inner) ==
  Repeated(IF type.base.kind = "struct" THEN inner[type.base.decl] ELSE Known[type.base.kind], type.dims)
PartsOf(p, d, inner) == [i \in DOMAIN p[d].fields |-> PartOf(p[d].fields[i], inner)]

(* The layouts of structs whose fields nest at most n deep.  A struct that *)
(* does not hold itself nests no deeper than there are structs.            *)
Nested(p) ==
  LET upto[n \in 0..Len(p)] ==
        [d \in DOMAIN p |-> IF n = 0 THEN Part(0, 1) ELSE LaidOut(PartsOf(p, d, upto[n - 1]))]
  IN upto
Layouts(p) == Nested(p)[Len(p)]

LayoutOf(p, type) == PartOf(type, Layouts(p))

-----------------------------------------------------------------------------
(* The programs that have no layout, and those the tables by name refuse. *)

(* Structs each of which holds another of them, or itself. *)
HoldsItself(p) ==
  \E C \in (SUBSET DOMAIN p) \ {{}} :
    \A d \in C : \E e \in C : \E i \in DOMAIN p[d].fields : p[d].fields[i].base = Struct(e).base
EmptyArray(p) == \E d \in DOMAIN p : \E i \in DOMAIN p[d].fields : 0 \in ToSet(p[d].fields[i].dims)
NameTaken(p) ==
  \E d \in DOMAIN p : p[d].name \in DOMAIN builtin_fields \cup {p[e].name : e \in DOMAIN p \ {d}}

-----------------------------------------------------------------------------
(* Every size the lowering gives out is that of the natural layout of the  *)
(* type, whatever was measured before it, in whatever order, and although  *)
(* the caches know a struct by its name only (size_of_struct and           *)
(* alignment_of, type_lowering.cpp:434-523).                               *)
SizesAreLayouts ==
  answer # NoAnswer => answer.bytes = LayoutOf(program, answer.type).bytes

(* A compilation ends in an exception here exactly when a struct holds     *)
(* itself, holds an array of length 0, or has the name of another struct,  *)
(* in any scope, or of a builtin, or when the size of an array of length 0 *)
(* is asked for; no other exception of the sizes and tables is thrown.     *)
RefusedExactly ==
  /\ error # "" => CASE error = "cyclic struct size dependency" -> HoldsItself(program)
                     [] error = "array size missing" -> EmptyArray(program) \/ 0 \in ToSet(asking.dims)
                     [] error = "struct fields already defined" -> NameTaken(program)
                     [] OTHER -> FALSE
  /\ error = "" /\ todo = {} /\ asking = NoType =>
       ~HoldsItself(program) /\ ~EmptyArray(program) /\ ~NameTaken(program)

(* The walk of the scopes and every question about a size end, with an     *)
(* answer or an exception, also for structs that hold themselves           *)
(* (struct_size_in_progress_, type_lowering.cpp:495-499).                  *)
MeasuringEnds ==
  (todo # {} \/ asking # NoType) ~> ((todo = {} /\ asking = NoType) \/ error # "")
=============================================================================
