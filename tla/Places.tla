-------------------------------- MODULE Places --------------------------------
(***************************************************************************)
(* Types, values and memory, shared by the meaning of a program and its    *)
(* lowering.  A memory is a sequence of objects; a place is an object and  *)
(* a path of positions in it.  A value is an integer, a reference, or the  *)
(* parts of a struct or array; a copy of n bytes copies a value, as the    *)
(* sizes are right (TypeLayout).                                           *)
(***************************************************************************)
EXTENDS Integers, Sequences, SequencesExt, TLC

CONSTANT Structs   (* the fields [name, type] of each struct, in field_order *)

I32 == [k |-> "i32"]
Usize == [k |-> "usize"]
Unit == [k |-> "unit"]
Struct(name) == [k |-> "struct", struct |-> name]
Array(type, size) == [k |-> "array", of |-> type, size |-> size]
Reference(type) == [k |-> "ref", to |-> type]

is_ref(type) == type.k = "ref"
is_aggregate_type(type) == type.k \in {"array", "struct"}
referent(type) == IF is_ref(type) THEN type.to ELSE type
field_index(type, name) == CHOOSE i \in DOMAIN Structs[type.struct] : Structs[type.struct][i].name = name
parts_of(type) ==
  IF type.k = "array" THEN [i \in 1..type.size |-> type.of]
                      ELSE [i \in DOMAIN Structs[type.struct] |-> Structs[type.struct][i].type]

Number(n) == [number |-> n]
Place(object, path) == [object |-> object, path |-> path]
Parts(values) == [parts |-> values]
Undefined == [undefined |-> TRUE]

(* The value of a type that is the same scalar everywhere. *)
RECURSIVE filled(_, _)
filled(type, scalar) ==
  IF is_aggregate_type(type)
  THEN Parts([i \in DOMAIN parts_of(type) |-> filled(parts_of(type)[i], scalar)])
  ELSE scalar

RECURSIVE at(_, _)
at(value, path) ==
  CASE path = <<>> -> value
    [] "parts" \in DOMAIN value /\ path[1] \in DOMAIN value.parts -> at(value.parts[path[1]], Tail(path))
    [] OTHER -> Undefined

RECURSIVE with(_, _, _)
with(value, path, new) ==
  CASE path = <<>> -> new
    [] "parts" \in DOMAIN value /\ path[1] \in DOMAIN value.parts ->
         Parts([value.parts EXCEPT ![path[1]] = with(@, Tail(path), new)])
    [] OTHER -> value

is_place(value) == "object" \in DOMAIN value
read(memory, place) == IF is_place(place) THEN at(memory[place.object], place.path) ELSE Undefined
write(memory, place, value) ==
  IF is_place(place) THEN [memory EXCEPT ![place.object] = with(@, place.path, value)] ELSE memory
inside(place, i) == IF is_place(place) THEN Place(place.object, Append(place.path, i)) ELSE Undefined
=============================================================================
