----------------------------- MODULE ConstValues -----------------------------
(***************************************************************************)
(* The values of constant expressions and the operators on them            *)
(* (semantic/consteval.cpp).  Width stands for the 32 bits of the integer  *)
(* types; an untyped literal is a long long of twice as many bits.  A bool *)
(* is 0 or 1 and a char a number.  Refused is a thrown "CE, ..."; Trapped  *)
(* is the division that kills the compiler itself.                         *)
(***************************************************************************)
EXTENDS Integers, Sequences, FiniteSetsExt

CONSTANT Width
ASSUME WidthAssumption == Width \in Nat \ {0, 1}

Signed == {"anyint", "i32", "isize"}
Unsigned == {"u32", "usize"}
IntKinds == Signed \cup Unsigned

Refused == [kind |-> "refused"]
Trapped == [kind |-> "trapped"]
Unit == [kind |-> "unit"]
ArrayOf(elements) == [kind |-> "array", elements |-> elements]
scalar(kind, n) == [kind |-> kind, value |-> n]

bits(kind) == CASE kind = "anyint" -> 2 * Width [] kind = "bool" -> 1 [] OTHER -> Width
lowest(kind) == IF kind \in Signed THEN -(2 ^ (bits(kind) - 1)) ELSE 0
highest(kind) == IF kind \in Signed THEN 2 ^ (bits(kind) - 1) - 1 ELSE 2 ^ bits(kind) - 1
in_range(kind, n) == lowest(kind) <= n /\ n <= highest(kind)

(* What a register of the kind's width holds after the machine computed n. *)
wrap(kind, n) == lowest(kind) + ((n - lowest(kind)) % 2 ^ bits(kind))

(* A literal is read up to the limit its suffix sets; one that is no number, *)
(* which 456_i32 is to this code, is not modelled.                           *)
safe_stoll(literal) == IF literal.value <= highest(literal.kind) THEN literal ELSE Refused

parse_literal_token_to_const_value(literal) == IF literal.kind \in IntKinds THEN safe_stoll(literal) ELSE literal

cast_anyint_const_to_target_type(n, target) ==
  IF target \in IntKinds /\ in_range(target, n) THEN scalar(target, n) ELSE Refused

calc_const_unary_expr(OP, right) ==
  CASE OP = "-" /\ right.kind \in Signed -> scalar(right.kind, wrap(right.kind, -right.value))
    [] OP = "!" /\ right.kind \in IntKinds -> scalar(right.kind, wrap(right.kind, -right.value - 1))
    [] OP = "!" /\ right.kind = "bool" -> scalar("bool", 1 - right.value)
    [] OTHER -> Refused

-----------------------------------------------------------------------------
(* The binary operators.  Division truncates towards zero. *)

magnitude(n) == IF n < 0 THEN -n ELSE n
quotient(L, R) ==
  LET q == magnitude(L) \div magnitude(R) IN IF (L < 0) = (R < 0) THEN q ELSE -q

bit(n, i) == (n \div 2 ^ i) % 2
with_bits(Holds(_)) == MapThenSumSet(LAMBDA i : IF Holds(i) THEN 2 ^ i ELSE 0, 0 .. 2 * Width - 1)

computed(OP, L, R) ==
  CASE OP = "+" -> L + R
    [] OP = "-" -> L - R
    [] OP = "*" -> L * R
    [] OP = "/" -> quotient(L, R)
    [] OP = "%" -> L - R * quotient(L, R)
    [] OP = "^" -> with_bits(LAMBDA i : bit(L, i) # bit(R, i))
    [] OP = "|" -> with_bits(LAMBDA i : bit(L, i) + bit(R, i) > 0)
    [] OP = "&" -> with_bits(LAMBDA i : bit(L, i) + bit(R, i) = 2)

compared(OP, L, R) ==
  CASE OP = "==" -> L = R [] OP = "!=" -> L # R
    [] OP = "<"  -> L < R [] OP = ">" -> L > R [] OP = "<=" -> L <= R [] OP = ">=" -> L >= R

Comparisons == {"==", "!=", "<", ">", "<=", ">="}
Divisions == {"/", "%"}
BitOperators == {"^", "|", "&"}
Arithmetic == {"+", "-", "*"} \cup Divisions \cup BitOperators
Logical == {"&&", "||"}
Shifts == {"<<", ">>"}

truth(b) == scalar("bool", IF b THEN 1 ELSE 0)

(* An untyped operand takes the kind of the other one. *)
concretized(value, other) ==
  IF value.kind = "anyint" /\ other.kind # "anyint"
  THEN cast_anyint_const_to_target_type(value.value, other.kind) ELSE value

same_kind(left, right) ==
  LET l == concretized(left, right)
      r == concretized(right, left)
  IN IF l.kind = r.kind /\ l.kind \in IntKinds \cup {"bool"} THEN <<l.kind, l.value, r.value>> ELSE <<>>

calc_result(OP, kind, L, R) ==
  CASE kind = "bool" /\ OP \notin BitOperators -> Refused
    [] OP \in Divisions /\ R = 0 -> Refused
    [] OP \in Divisions /\ R = -1 /\ L = lowest(kind) -> Trapped
    [] OTHER -> scalar(kind, wrap(kind, computed(OP, L, R)))

cmp_result(OP, L, R) == truth(compared(OP, L, R))

logical_result(OP, left, right) ==
  IF {left.kind, right.kind} = {"bool"}
  THEN truth(IF OP = "&&" THEN left.value + right.value = 2 ELSE left.value + right.value > 0)
  ELSE Refused

(* The count of << is checked; >> leaves it to the processor, which masks it. *)
shift_result(OP, left, right) ==
  CASE left.kind \notin IntKinds \/ right.kind \notin IntKinds -> Refused
    [] right.value < 0 -> Refused
    [] OP = "<<" /\ right.value >= Width -> Refused
    [] OP = "<<" -> scalar(left.kind, wrap(left.kind, left.value * 2 ^ right.value))
    [] OP = ">>" -> scalar(left.kind, left.value \div 2 ^ (right.value % bits(left.kind)))

calc_const_binary_expr(OP, left, right) ==
  LET both == same_kind(left, right)
  IN CASE OP \in Logical -> logical_result(OP, left, right)
       [] OP \in Shifts -> shift_result(OP, left, right)
       [] both = <<>> -> Refused
       [] OP \in Arithmetic -> calc_result(OP, both[1], both[2], both[3])
       [] OP \in Comparisons -> cmp_result(OP, both[2], both[3])

-----------------------------------------------------------------------------
(* Sizes, and the conversion to the type of a constant or of a cast.  A    *)
(* type is a node: a "path" with its name as attribute, "unittype", or an  *)
(* "arraytype" with the number of its size expression, its element type    *)
(* and that expression.                                                    *)

is_size(value) == value.kind = "usize" \/ (value.kind = "anyint" /\ value.value >= 0)

const_to_number(value, target) ==
  IF value.kind \in IntKinds \cup {"char", "bool"} /\ in_range(target, value.value)
  THEN scalar(target, value.value) ELSE Refused

indexed(base, index) ==
  IF is_size(index) /\ base.kind = "array" /\ index.value < Len(base.elements)
  THEN base.elements[index.value + 1] ELSE Refused

repeated(element, size) ==
  IF is_size(size) THEN ArrayOf([i \in 1 .. size.value |-> element]) ELSE Refused

RECURSIVE const_cast_to_realtype(_, _, _)
cast_with_own_length(value, type, size_of) ==                        \* mutant of const_cast_to_realtype
  CASE type.k = "arraytype" /\ value.kind = "array" ->
         ArrayOf([i \in DOMAIN value.elements |-> const_cast_to_realtype(value.elements[i], type.s[1], size_of)])
    [] type.k = "path" /\ type.a = value.kind -> value
    [] type.k = "path" /\ {type.a, value.kind} \subseteq IntKinds -> const_to_number(value, type.a)
    [] OTHER -> Refused
const_cast_to_realtype(value, type, size_of) ==
  CASE type.k = "unittype" -> IF value.kind = "unit" THEN value ELSE Refused
    [] type.k = "path" /\ type.a \in {"bool", "char"} -> IF value.kind = type.a THEN value ELSE Refused
    [] type.k = "path" /\ type.a \in IntKinds -> const_to_number(value, type.a)
    [] type.k = "arraytype" /\ (value.kind # "array" \/ Len(value.elements) # size_of[type.a]) -> Refused
    [] type.k = "arraytype" ->
         LET elements == [i \in DOMAIN value.elements |->
                            const_cast_to_realtype(value.elements[i], type.s[1], size_of)]
         IN IF \E i \in DOMAIN elements : elements[i] = Refused THEN Refused ELSE ArrayOf(elements)
=============================================================================
