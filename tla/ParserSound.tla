----------------------------- MODULE ParserSound -----------------------------
(***************************************************************************)
(* What the parser owes the passes after it.  The reference is a printer   *)
(* that writes a tree with Rust's precedence levels and only the           *)
(* parentheses these levels ask for.  A block-like operand is always       *)
(* parenthesised, a jump without a value never is an operand, and `&' next *)
(* to a shift is parenthesised: the parser's levels for the two are        *)
(* swapped with respect to Rust's (src/src/parser/parser.cpp:713,722).     *)
(***************************************************************************)
EXTENDS Parser

Shifts == {"<<", ">>"}
BlockLike == {"if", "while", "loop", "block"}

Level(tree) ==
  CASE tree.k \in {"return", "break", "continue"} \cup BlockLike -> 0
    [] tree.k \in {"call", "[]", "."} -> 13
    [] tree.k = "as" -> 11
    [] Len(tree.s) = 1 /\ tree.k \in {"-", "!", "*", "&", "&mut"} -> 12
    [] Len(tree.s) = 2 /\ tree.k \in Binary ->
         (CASE tree.k \in Assignments -> 1
            [] tree.k = "||" -> 2
            [] tree.k = "&&" -> 3
            [] tree.k \in Comparisons -> 4
            [] tree.k = "|" -> 5
            [] tree.k = "^" -> 6
            [] tree.k = "&" -> 7
            [] tree.k \in Shifts -> 8
            [] tree.k \in {"+", "-"} -> 9
            [] tree.k \in {"*", "/", "%"} -> 10)
    [] OTHER -> 14

RightAssociative(kind) == kind \in Assignments
NotAssociative(kind) == kind \in Comparisons
Swapped(outer, inner) == {outer.k, inner.k} \in {{"&", shift} : shift \in Shifts} /\ Len(inner.s) = 2

RECURSIVE Text(_)
Text(tree) ==
  LET k == tree.k
      s == tree.s
      child(i) == Text(s[i])
      optional(i, word) == IF Len(s) < i THEN <<>> ELSE <<word>> \o child(i)
      joined(first, comma) ==
        FlattenSeq([i \in 1..(Len(s) - first + 1) |-> (IF i = 1 THEN <<>> ELSE comma) \o child(first + i - 1)])
      listed(first) == joined(first, <<",">>)
      operand(i, level) ==
        IF Level(s[i]) < level \/ Swapped(tree, s[i]) THEN <<"(">> \o child(i) \o <<")">> ELSE child(i)
      level == Level(tree)
  IN
  CASE k \in {"no self", "no type"} -> <<>>
    [] k = "()" -> <<"(", ")">>
    [] k = "&self" -> <<"&", "self">>
    [] k = "&mut self" -> <<"&", "mut", "self">>
    [] k = "fn" ->
         <<"fn">> \o child(1) \o <<"(">> \o child(2)
           \o (IF child(2) # <<>> /\ s[3].s # <<>> THEN <<",">> ELSE <<>>) \o child(3) \o <<")">>
           \o (IF s[4].k = "no type" THEN <<>> ELSE <<"->">> \o child(4)) \o child(5)
    [] k \in {"param", "field:", "value:"} -> child(1) \o <<":">> \o child(2)
    [] k = "params" -> listed(1)
    [] k \in {"struct", "enum"} -> <<k>> \o child(1) \o <<"{">> \o listed(2) \o <<"}">>
    [] k = "impl" -> <<"impl">> \o child(1) \o <<"{">> \o joined(2, <<>>) \o <<"}">>
    [] k = "const" -> <<"const">> \o child(1) \o <<":">> \o child(2) \o <<"=">> \o child(3) \o <<";">>
    [] k = "let" -> <<"let">> \o child(1) \o <<":">> \o child(2) \o optional(3, "=") \o <<";">>
    [] k \in {"item", "nosemi", "must_return_unit"} -> child(1)
    [] k = "semi" -> child(1) \o <<";">>
    [] k = "block" -> <<"{">> \o joined(1, <<>>) \o <<"}">>
    [] k = "if" -> <<"if", "(">> \o child(1) \o <<")">> \o child(2) \o optional(3, "else")
    [] k = "while" -> <<"while", "(">> \o child(1) \o <<")">> \o child(2)
    [] k = "loop" -> <<"loop">> \o child(1)
    [] k = "array" -> <<"[">> \o listed(1) \o <<"]">>
    [] k = "[;]" -> <<"[">> \o child(1) \o <<";">> \o child(2) \o <<"]">>
    [] k = "::" -> child(1) \o <<"::">> \o child(2)
    [] k = "struct literal" -> child(1) \o <<"{">> \o listed(2) \o <<"}">>
    [] k = "call" -> operand(1, level) \o <<"(">> \o listed(2) \o <<")">>
    [] k = "[]" -> operand(1, level) \o <<"[">> \o child(2) \o <<"]">>
    [] k = "." -> operand(1, level) \o <<".">> \o child(2)
    [] k = "as" -> operand(1, level) \o <<"as">> \o child(2)
    [] k \in {"return", "break"} -> <<k>> \o joined(1, <<>>)
    [] k = "mut" -> <<"mut">> \o child(1)
    [] k = "&mut" -> <<"&", "mut">> \o operand(1, level)
    [] k \in Binary \cup {"!"} /\ Len(s) = 1 -> <<k>> \o operand(1, level)
    [] k \in Binary /\ Len(s) = 2 ->
         operand(1, IF RightAssociative(k) \/ NotAssociative(k) THEN level + 1 ELSE level) \o <<k>>
           \o operand(2, IF RightAssociative(k) THEN level ELSE level + 1)
    [] OTHER -> <<k>>

RECURSIVE Nodes(_)
Nodes(tree) == {tree} \cup UNION {Nodes(tree.s[i]) : i \in DOMAIN tree.s}

-----------------------------------------------------------------------------
(* RoundTrip: a tree printed with the parentheses Rust needs, and no more, *)
(* is parsed back to that tree: precedence, associativity, where a         *)
(* statement ends and which statement is the tail are those of Rust.       *)
RoundTrip ==
  outcome # "parsing" /\ input.trees # <<>> => outcome = "accepted" /\ trees = input.trees

(* NothingDropped: whatever the tokens, a program that is accepted stands, *)
(* token for token, in the tree: no operand, keyword, type or statement is *)
(* skipped or read twice.  Parentheses, commas and semicolons are layout.  *)
Layout == {"(", ")", ",", ";"}
significant(tokens) == SelectSeq(tokens, LAMBDA t : t \notin Layout)
NothingDropped ==
  outcome = "accepted" =>
    significant(FlattenSeq([i \in DOMAIN trees |-> Text(trees[i])])) = significant(input.tokens)

(* UnitMarks: in an accepted program the value of a block-like statement   *)
(* is discarded exactly when it is marked must_return_unit (a while needs  *)
(* no mark), and no other expression without a semicolon precedes another  *)
(* statement: the type checker and control-flow analysis rely on the mark. *)
UnitMarks ==
  outcome = "accepted" =>
    \A i \in DOMAIN trees : \A node \in Nodes(trees[i]) : \A j \in DOMAIN node.s :
      /\ node.s[j].k = "must_return_unit" =>
           node.k = "block" /\ j < Len(node.s) /\ node.s[j].s[1].k \in BlockLike \ {"while"}
      /\ node.s[j].k = "nosemi" => j = Len(node.s) \/ node.s[j].s[1].k = "while"

(* ParserEnds: every program is accepted or refused in the end: no call of *)
(* the parser waits for a token without taking one.                        *)
ParserEnds == <>(outcome # "parsing")
=============================================================================
