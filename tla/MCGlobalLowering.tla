------------------------- MODULE MCGlobalLowering ---------------------------
(***************************************************************************)
(* GlobalLowering for TLC: programs of a main and up to two items, with    *)
(* two pieces of code in main and one in the items.                        *)
(***************************************************************************)
EXTENDS GlobalLoweringSound

End == [op |-> "end"]
block(role, code) == <<[op |-> "block", role |-> role]>> \o code \o <<End>>
fn_of(name, recv, param, code) ==
  <<[op |-> "fn", name |-> name, receiver |-> recv, param |-> param]>> \o code \o <<End>>

Fn(name, recv, param, code) == fn_of(name, recv, param, block("body", code))
Sized(name, code) == fn_of(name, "none", "x", block("size", << >>) \o block("body", code))
Impl(name, code) == <<[op |-> "impl", name |-> name]>> \o code \o <<End>>
Type(kind, name, field) == <<[op |-> "type", kind |-> kind, name |-> name, field |-> field]>>
Named(op, name) == <<[op |-> op, name |-> name]>>
Member(op, of, name) == <<[op |-> op, of |-> of, name |-> name]>>
Ret == <<[op |-> "ret"]>>

Let == Named("let", "x")
Use == Named("use", "x")
Call == Named("call", "f")
Append1 == Named("builtin", "append")
Struct == Type("struct", "S", NoName)

Leaf == {Let, Use, Call, Member("method", "S", "f"), Member("path", "S", "f"), Ret}

Item(code) ==
  {Fn("f", "none", NoName, code), Fn("f", "none", "x", code),
   Impl("S", Fn("f", "self", NoName, code)), Impl("S", Fn("f", "none", NoName, code))}

(* Items and blocks around one leaf, and around pairs of which the first   *)
(* declares something the second may refer to.                             *)
Simple ==
  Leaf \cup {Struct, Named("const", "x"), Type("enum", "S", NoName)}
       \cup UNION {Item(a) : a \in {Use, Call}} \cup {block("stmt", a) : a \in Leaf}

Pairs ==
  {Let \o Use, Let \o Fn("f", "none", NoName, Use), Ret \o Fn("f", "none", NoName, Use),
   Struct \o Impl("S", Fn("f", "none", NoName, Call)), Struct \o Member("path", "S", "f"),
   Fn("f", "none", NoName, << >>) \o Call, Fn("f", "none", NoName, Call) \o Ret,
   Call \o Ret \o Fn("f", "none", NoName, << >>)}

NestedItems == UNION {Item(a) : a \in Pairs}
Pieces == Simple \cup NestedItems \cup {block("stmt", a) : a \in Pairs}
Main(code) == Fn("main", "none", NoName, code)

Tops ==
  {<< >>, Struct, Fn("f", "none", NoName, << >>), Named("const", "x"), Type("enum", "S", NoName),
   Struct \o Impl("S", Fn("f", "self", "x", Use))}

(* What one piece of the families above cannot be. *)
Special ==
  {Fn("f", "none", NoName, << >>),
   Main(<< >>) \o Sized("f", << >>),
   Main(<< >>) \o Fn("print", "none", NoName, << >>),
   Main(Append1) \o Fn("f", "none", NoName, Append1 \o Named("call", "print")),
   Main(<< >>) \o Type("struct", "T", "S"),
   Main(<< >>) \o Type("struct", "T", "S") \o Type("struct", "S", "T"),
   Main(Type("struct", "T", "S")) \o Struct,
   Main(<< >>) \o Type("struct", "Str", NoName)}

(* Functions called from code that does not reach their item. *)
DeadItems == {Main(block("stmt", Call \o a \o Fn("f", "none", NoName, b))) : a, b \in Simple}

MCPrograms ==
  {top \o Main(a \o b) : top \in Tops, a \in Pieces, b \in Simple}
    \cup {Main(a) \o b \o top : top \in Tops, a \in Simple, b \in NestedItems}
    \cup Special \cup DeadItems

(* A function of the program with the name of a method of String. *)
MCClash == {Fn("append", "none", "x", Use) \o Main(a \o Append1) : a \in Simple}
=============================================================================
