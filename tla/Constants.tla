------------------------------ MODULE Constants ------------------------------
(***************************************************************************)
(* What the constants of a program are, whatever the order in which        *)
(* somebody works them out: every constant has the value its expression    *)
(* denotes in exact integers, every size of an array type is a number, and *)
(* a program is accepted when each has one.  Nothing is promised where a   *)
(* result does not fit its type: Overflow.  docs/semantic/consteval.md:20  *)
(* wants it detected, which this specification permits (Refuse) and does   *)
(* not require: calc_result (consteval.cpp:131-147) keeps what wrapped.    *)
(***************************************************************************)
EXTENDS ConstValues

VARIABLES program, value, size, verdict

vars == <<program, value, size, verdict>>

Nothing == [kind |-> "nothing"]
Overflow == [kind |-> "overflow"]

constants(p) == {p.items[i].a : i \in {j \in DOMAIN p.items : p.items[j].k = "const"}}
item_of(p, c) == CHOOSE i \in DOMAIN p.items : p.items[i].k = "const" /\ p.items[i].a = c

(* A name means the value declared in the nearest scope around it; a scope *)
(* is the path to it, and functions are values too.                        *)
meaning(p, use) ==
  LET around == {n \in 0 .. Len(use.scope) :
                   [scope |-> SubSeq(use.scope, 1, n), name |-> use.name] \in constants(p) \cup p.functions}
  IN IF around = {} THEN Nothing ELSE [scope |-> SubSeq(use.scope, 1, Max(around)), name |-> use.name]

-----------------------------------------------------------------------------
(* Denotations.  Untyped integers are exact; typed ones fit or overflow. *)

fitting(kind, n) == IF in_range(kind, n) THEN scalar(kind, n) ELSE Overflow
converted(n, kind) == IF in_range(kind, n) THEN scalar(kind, n) ELSE Nothing

common_kind(a, b) == IF a.kind = "anyint" THEN b.kind ELSE a.kind
alike(a, b) ==
  \/ a.kind = b.kind
  \/ /\ {a.kind, b.kind} \subseteq IntKinds
     /\ "anyint" \in {a.kind, b.kind}
     /\ \A v \in {a, b} : in_range(common_kind(a, b), v.value)

(* Truncated division: the remainder is smaller than the divisor and has the sign of the dividend. *)
exact_quotient(a, b) ==
  CHOOSE q \in -magnitude(a) .. magnitude(a) :
    /\ magnitude(a - b * q) < magnitude(b)
    /\ (a - b * q) * a >= 0

exact(OP, a, b) ==
  CASE OP = "/" -> exact_quotient(a, b)
    [] OP = "%" -> a - b * exact_quotient(a, b)
    [] OTHER -> computed(OP, a, b)

denoted_arithmetic(OP, a, b) ==
  CASE ~alike(a, b) \/ a.kind \notin IntKinds \cup {"bool"} -> Nothing
    [] a.kind = "bool" /\ OP \notin BitOperators -> Nothing
    [] OP \in Divisions /\ b.value = 0 -> Nothing
    [] OP \in BitOperators -> scalar(common_kind(a, b), wrap(common_kind(a, b), computed(OP, a.value, b.value)))
    [] OP \in Divisions /\ ~in_range(common_kind(a, b), exact_quotient(a.value, b.value)) -> Overflow
    [] OTHER -> fitting(common_kind(a, b), exact(OP, a.value, b.value))

denoted_comparison(OP, a, b) ==
  IF alike(a, b) /\ a.kind \in IntKinds \cup {"bool"} THEN truth(compared(OP, a.value, b.value)) ELSE Nothing

denoted_shift(OP, a, b) ==
  CASE ~({a.kind, b.kind} \subseteq IntKinds) \/ b.value < 0 -> Nothing
    [] b.value >= Width -> Overflow
    [] OP = "<<" -> fitting(a.kind, a.value * 2 ^ b.value)
    [] OP = ">>" -> scalar(a.kind, a.value \div 2 ^ b.value)

denoted_binary(OP, a, b) ==
  CASE OP \in Arithmetic -> denoted_arithmetic(OP, a, b)
    [] OP \in Comparisons -> denoted_comparison(OP, a, b)
    [] OP \in Shifts -> denoted_shift(OP, a, b)
    [] OP \in Logical ->
         IF {a.kind, b.kind} # {"bool"} THEN Nothing
         ELSE truth(IF OP = "&&" THEN a.value = 1 /\ b.value = 1 ELSE a.value = 1 \/ b.value = 1)

(* ! of an integer is Rust's, as consteval.cpp:87, typecheck.cpp:451 and   *)
(* IRGen.cpp:591 have it; test_const_eval.cpp:120-130 asserts an error.    *)
denoted_unary(OP, a) ==
  CASE OP = "-" /\ a.kind \in Signed -> fitting(a.kind, -a.value)
    [] OP = "!" /\ a.kind \in Signed -> scalar(a.kind, -1 - a.value)
    [] OP = "!" /\ a.kind \in Unsigned -> scalar(a.kind, highest(a.kind) - a.value)
    [] OP = "!" /\ a.kind = "bool" -> truth(a.value = 0)
    [] OTHER -> Nothing

RECURSIVE Denoted(_, _, _), Fitted(_, _, _, _)

(* The value v as one of the type: of a constant, or of a cast. *)
Fitted(p, v, type, within) ==
  CASE v \in {Nothing, Overflow} -> v
    [] type.k = "unittype" -> IF v = Unit THEN v ELSE Nothing
    [] type.k = "path" /\ type.a \in IntKinds ->
         IF v.kind \in IntKinds \cup {"bool", "char"} THEN converted(v.value, type.a) ELSE Nothing
    [] type.k = "path" -> IF v.kind = type.a THEN v ELSE Nothing
    [] type.k = "arraytype" ->
         LET n == Denoted(p, type.s[2], within)
             e == [i \in DOMAIN v.elements |-> Fitted(p, v.elements[i], type.s[1], within)]
         IN CASE n \in {Nothing, Overflow} -> n
              [] v.kind # "array" \/ ~is_size(n) -> Nothing
              [] Len(v.elements) # n.value -> Nothing
              [] Overflow \in {e[i] : i \in DOMAIN e} -> Overflow
              [] Nothing \in {e[i] : i \in DOMAIN e} -> Nothing
              [] OTHER -> ArrayOf(e)

(* What e denotes inside the constants of within; a constant in terms of itself denotes nothing. *)
Denoted(p, e, within) ==
  LET of == [i \in DOMAIN e.s |-> Denoted(p, e.s[i], within)]
      parts == {of[i] : i \in DOMAIN e.s}
  IN CASE e.k = "literal" -> IF in_range(e.a.kind, e.a.value) \/ e.a.kind = "char" THEN e.a ELSE Nothing
       [] e.k = "unit" -> Unit
       [] e.k = "name" ->
            LET c == meaning(p, e.a)
            IN IF c \notin constants(p) \ within THEN Nothing
               ELSE LET item == p.items[item_of(p, c)]
                    IN Fitted(p, Denoted(p, item.s[2], within \cup {c}), item.s[1], within \cup {c})
       [] e.k = "cast" -> IF e.a.k = "arraytype" THEN Overflow ELSE Fitted(p, of[1], e.a, within)
       [] Overflow \in parts -> Overflow
       [] Nothing \in parts -> Nothing
       [] e.k = "unary" -> denoted_unary(e.a, of[1])
       [] e.k = "binary" -> denoted_binary(e.a, of[1], of[2])
       [] e.k = "array" -> ArrayOf(of)
       [] e.k = "repeat" -> IF is_size(of[2]) THEN ArrayOf([i \in 1 .. of[2].value |-> of[1]]) ELSE Nothing
       [] e.k = "index" ->
            IF of[1].kind = "array" /\ is_size(of[2]) /\ of[2].value \in 0 .. Len(of[1].elements) - 1
            THEN of[1].elements[of[2].value + 1] ELSE Nothing
       [] OTHER -> Nothing

Denotation(p, c) ==
  LET item == p.items[item_of(p, c)] IN Fitted(p, Denoted(p, item.s[2], {c}), item.s[1], {c})

SizeDenotation(p, id) == Denoted(p, p.sizes[id], {})
-----------------------------------------------------------------------------
(* The behaviour: constants and sizes become known one by one.  A cast to  *)
(* an array type is left open, and so are the sizes in one.                *)

sizes_of(p) == DOMAIN p.sizes \ p.cast_sizes

agrees(v, denotation) == denotation \in {Overflow, v}

sized_as(n, denotation) == denotation = Overflow \/ (is_size(denotation) /\ denotation.value = n)

Init == value = <<>> /\ size = <<>> /\ verdict = "open"

extends(f, g, key) ==
  /\ key \notin DOMAIN g
  /\ DOMAIN f = DOMAIN g \cup {key}
  /\ \A k \in DOMAIN g : f[k] = g[k]

Define(c) ==
  /\ verdict = "open"
  /\ extends(value', value, c)
  /\ agrees(value'[c], Denotation(program, c))
  /\ UNCHANGED <<program, size, verdict>>

DefineSize(id) ==
  /\ verdict = "open"
  /\ extends(size', size, id)
  /\ sized_as(size'[id], SizeDenotation(program, id))
  /\ UNCHANGED <<program, value, verdict>>

Accept ==
  /\ verdict = "open"
  /\ DOMAIN value = constants(program)
  /\ DOMAIN size = sizes_of(program)
  /\ verdict' = "accepted"
  /\ UNCHANGED <<program, value, size>>

(* A program may be refused for an expression that has no value, and for a *)
(* constant whose text names one that has none before it.                  *)
RECURSIVE uses(_)
uses(e) == (IF e.k = "name" THEN {e.a} ELSE {}) \cup UNION {uses(e.s[i]) : i \in DOMAIN e.s}

looks_ahead(c) ==
  \E use \in uses(program.items[item_of(program, c)]) :
    LET d == meaning(program, use) IN d \in constants(program) /\ item_of(program, d) >= item_of(program, c)

unspecified ==
  \/ \E c \in constants(program) : Denotation(program, c) = Overflow
  \/ \E id \in DOMAIN program.sizes : SizeDenotation(program, id) = Overflow

refusable ==
  \/ unspecified
  \/ \E c \in constants(program) : Denotation(program, c) = Nothing \/ looks_ahead(c)
  \/ \E id \in DOMAIN program.sizes : ~is_size(SizeDenotation(program, id))

Refuse == verdict = "open" /\ refusable /\ verdict' = "refused" /\ UNCHANGED <<program, value, size>>

(* Where something overflows, the compiler itself may die. *)
Die == verdict = "open" /\ unspecified /\ verdict' = "dead" /\ UNCHANGED <<program, value, size>>

Next ==
  \/ \E c \in constants(program) : Define(c)
  \/ \E id \in sizes_of(program) : DefineSize(id)
  \/ Accept
  \/ Refuse
  \/ Die

Spec == Init /\ [][Next]_vars /\ WF_vars(Next)
=============================================================================
