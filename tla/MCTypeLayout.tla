---------------------------- MODULE MCTypeLayout ----------------------------
(***************************************************************************)
(* TypeLayout for TLC: two structs of the root scope that may hold each    *)
(* other, and one of an inner scope, which may have a name that is taken.  *)
(***************************************************************************)
EXTENDS TypeLayoutSound

Of(kind) == [dims |-> <<>>, base |-> [kind |-> kind]]
Array(dims, type) == [type EXCEPT !.dims = dims \o @]

FieldLists(n, types) == UNION {[1..m -> types] : m \in 0..n}

InA == {Of("bool"), Of("i32"), Struct(1), Struct(2), Array(<<3>>, Struct(2))}
InB == {Of("bool"), Of("unit"), Of("Str"), Struct(1)}
InC == {<<>>, <<Of("String")>>, <<Array(<<2, 0>>, Of("i32"))>>,
        <<Of("bool"), Struct(1)>>, <<Array(<<2, 3>>, Of("bool")), Struct(2), Of("ref")>>}

Decl(name, scope, fields) == [name |-> name, scope |-> scope, fields |-> fields]

MCPrograms ==
  {<<Decl("A", 1, a), Decl("B", 1, b), Decl(name, 2, c)>> :
     a \in FieldLists(2, InA), b \in FieldLists(2, InB), c \in InC, name \in {"A", "C", "String"}}

MCAsked(p) ==
  {Struct(d) : d \in DOMAIN p} \cup {Array(<<2>>, Struct(3)), Array(<<3>>, Of("Str")), Array(<<0>>, Of("bool")), Of("String"), Of("ref")}
=============================================================================
