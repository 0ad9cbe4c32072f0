-------------------------------- MODULE Parser --------------------------------
(***************************************************************************)
(* The Pratt parser (src/parser/parser.cpp) as a machine: todo is what is  *)
(* left to do of the calls under way, in order, and trees the results they *)
(* hold.  A task is [do, x, n]; a step does the first one, as far as the   *)
(* next call or the next token.  A tree is [k, s] as in Ast; its kind is   *)
(* the token it comes from where there is one.  Tokens are their text.     *)
(***************************************************************************)
EXTENDS Integers, Sequences, SequencesExt

(* Sets of programs: a program is its tokens and, when it was printed from *)
(* trees, these trees.                                                     *)
CONSTANT Families

VARIABLES input, pos, todo, trees, outcome

vars == <<input, pos, todo, trees, outcome>>

Node(k, s) == [k |-> k, s |-> s]
Task(do, x, n) == [do |-> do, x |-> x, n |-> n]

Identifiers == {"x", "y", "S"}
Literals == {"1", "2", "true", "'c'", "\"s\""}
Assignments == {"=", "+=", "-=", "*=", "/=", "%=", "^=", "&=", "|=", "<<=", ">>="}
Comparisons == {"==", "!=", "<", "<=", ">", ">="}
Binary == {"+", "-", "*", "/", "%", "&", "|", "^", "<<", ">>", "&&", "||"} \cup Comparisons \cup Assignments
ItemWords == {"fn", "struct", "enum", "impl", "const"}
BlockWords == {"if", "while", "loop", "{"}

lbp(token) ==
  CASE token \in {"(", ".", "[", "{", "::"} -> 100
    [] token = "as" -> 85
    [] token \in {"*", "/", "%"} -> 80
    [] token \in {"+", "-"} -> 70
    [] token = "&" -> 60
    [] token \in {"<<", ">>"} -> 50
    [] token = "^" -> 45
    [] token = "|" -> 40
    [] token \in Comparisons -> 35
    [] token = "&&" -> 30
    [] token = "||" -> 25
    [] token \in Assignments -> 20
    [] token \in {"}", ")", "]", ",", ";"} -> 0
    [] OTHER -> -1
LeftAssignment(token) == lbp(token)   \* mutant of rbp
rbp(token) == IF token \in Assignments THEN lbp(token) - 1 ELSE lbp(token)
UnaryPower == 90

Init ==
  /\ \E family \in Families : input \in family
  /\ pos = 1 /\ todo = <<Task("items", "", 0)>> /\ trees = <<>> /\ outcome = "parsing"

-----------------------------------------------------------------------------
(* Tasks. *)

Expect(token) == Task("expect", token, 0)
TakeName == Task("name", "", 0)
Make(kind, n) == Task("make", kind, n)
Expr == Task("expr", "", 0)
ExprAbove(power) == Task("expr", "", power)
Type == Task("type", "", 0)
Block == Task("{", "", 0)
Fn == Task("fn", "", 0)
Semicolon == Task("semicolon", "", 0)
Leaf(text) == Task("leaf", text, 0)

(* A list with commas: what one element takes, the closing token and the   *)
(* kind of the tree made of n results.                                     *)
List(element, close, kind, n) == Task("list", [element |-> element, close |-> close, kind |-> kind], n)
Params == List(<<Task("pattern", "", 0), Expect(":"), Type, Make("param", 2)>>, ")", "params", 0)
Fields(n) == List(<<TakeName, Expect(":"), Type, Make("field:", 2)>>, "}", "struct", n)
FieldValues == List(<<TakeName, Expect(":"), Expr, Make("value:", 2)>>, "}", "struct literal", 1)

-----------------------------------------------------------------------------
(* Steps. *)

has_more_tokens == pos <= Len(input.tokens)
token == input.tokens[pos]
next_token == IF pos < Len(input.tokens) THEN input.tokens[pos + 1] ELSE "end of input"
task == Head(todo)

(* The tasks that do not begin by looking at a token. *)
Blind == {"items", "make", "leaf", "settle", "infix"}
doing(what) == outcome = "parsing" /\ task.do = what /\ (what \in Blind \/ has_more_tokens)

(* Takes `consumed` tokens, goes on with the tasks and holds the results new. *)
step(consumed, tasks, new) ==
  /\ pos' = pos + consumed
  /\ todo' = tasks \o Tail(todo)
  /\ trees' = new
  /\ UNCHANGED <<input, outcome>>
go(consumed, tasks) == step(consumed, tasks, trees)
build(consumed, new) == step(consumed, <<>>, new)

end(how) == outcome' = how /\ UNCHANGED <<input, pos, todo, trees>>

made(kind, n) ==
  SubSeq(trees, 1, Len(trees) - n) \o <<Node(kind, SubSeq(trees, Len(trees) - n + 1, Len(trees)))>>

(* peek_token past the end throws. *)
PeekAtEnd == outcome = "parsing" /\ task.do \notin Blind /\ ~has_more_tokens /\ end("refused")

ConsumeExpect ==
  /\ doing("expect")
  /\ IF token = task.x THEN go(1, <<>>) ELSE end("refused")

ConsumeName ==
  /\ doing("name")
  /\ IF token \in Identifiers THEN build(1, Append(trees, Node(token, <<>>))) ELSE end("refused")

MakeTree == doing("make") /\ build(0, made(task.x, task.n))
MakeLeaf == doing("leaf") /\ build(0, Append(trees, Node(task.x, <<>>)))

(* while (peek != close) { element; if (peek == ",") consume; else break; } *)
ParseList ==
  \/ doing("list")
     /\ IF token = task.x.close THEN go(1, <<Make(task.x.kind, task.n)>>)
        ELSE go(0, task.x.element \o <<Task("comma", task.x, task.n + 1)>>)
  \/ doing("comma")
     /\ IF token = "," THEN go(1, <<Task("list", task.x, task.n)>>)
        ELSE go(0, <<Expect(task.x.close), Make(task.x.kind, task.n)>>)

-----------------------------------------------------------------------------
(* Items. *)

Parse ==
  /\ doing("items")
  /\ IF has_more_tokens THEN go(0, <<Task("item", "", 0), task>>) ELSE end("accepted")

item_tasks(word) ==
  CASE word = "fn" -> <<Fn>>
    [] word = "struct" -> <<Expect("struct"), TakeName, Expect("{"), Fields(1)>>
    [] word = "enum" -> <<Expect("enum"), TakeName, Expect("{"), List(<<TakeName>>, "}", "enum", 1)>>
    [] word = "impl" -> <<Expect("impl"), TakeName, Expect("{"), Task("methods", "", 1)>>
    [] word = "const" -> <<Expect("const"), TakeName, Expect(":"), Type, Expect("="), Expr, Expect(";"), Make("const", 3)>>

ParseItem ==
  /\ doing("item")
  /\ IF token \in ItemWords THEN go(0, item_tasks(token)) ELSE end("refused")

ParseImplItem ==
  /\ doing("methods")
  /\ IF token = "}" THEN go(1, <<Make("impl", task.n)>>) ELSE go(0, <<Fn, Task("methods", "", task.n + 1)>>)

ParseFnItem ==
  \/ doing("fn") /\ go(0, <<Expect("fn"), TakeName, Expect("("), Task("receiver", "", 0), Params,
                            Task("return type", "", 0), Block, Make("fn", 5)>>)
  \/ doing("receiver")
     /\ CASE token = "self" -> go(1, <<Leaf("self"), Task("after self", "", 0)>>)
          [] token = "&" /\ next_token = "mut" -> go(2, <<Expect("self"), Leaf("&mut self"), Task("after self", "", 0)>>)
          [] token = "&" /\ next_token # "mut" -> go(1, <<Expect("self"), Leaf("&self"), Task("after self", "", 0)>>)
          [] OTHER -> go(0, <<Leaf("no self")>>)
  \/ doing("after self")
     /\ CASE token = "," -> go(1, <<>>)
          [] token = ")" -> go(0, <<>>)
          [] OTHER -> end("refused")
  \/ doing("return type") /\ IF token = "->" THEN go(1, <<Type>>) ELSE go(0, <<Leaf("no type")>>)

ForgetsReference ==   \* mutant of ParsePattern
  /\ doing("pattern")
  /\ CASE token = "&" /\ next_token = "mut" -> go(2, <<TakeName, Make("mut", 1)>>)
       [] token \in {"&", "mut"} /\ next_token # "mut" -> go(1, <<TakeName, Make(token, 1)>>)
       [] OTHER -> go(0, <<TakeName>>)

ParsePattern ==
  /\ doing("pattern")
  /\ CASE token = "&" /\ next_token = "mut" -> go(2, <<TakeName, Make("&mut", 1)>>)
       [] token \in {"&", "mut"} /\ next_token # "mut" -> go(1, <<TakeName, Make(token, 1)>>)
       [] OTHER -> go(0, <<TakeName>>)

(* The throw of a mut without & is a string literal, which main does not catch. *)
ParseType ==
  \/ doing("type")
     /\ CASE token = "&" /\ next_token = "mut" -> go(2, <<Task("bare type", "", 0), Make("&mut", 1)>>)
          [] token = "&" /\ next_token # "mut" -> go(1, <<Task("bare type", "", 0), Make("&", 1)>>)
          [] token = "mut" -> end("aborted")
          [] OTHER -> go(0, <<Task("bare type", "", 0)>>)
  \/ doing("bare type")
     /\ CASE token = "[" -> go(1, <<Type, Expect(";"), Expr, Expect("]"), Make("[;]", 2)>>)
          [] token = "(" -> go(1, <<Expect(")"), Leaf("()")>>)
          [] token = "Self" -> go(1, <<Leaf("Self")>>)
          [] OTHER -> go(0, <<TakeName>>)

-----------------------------------------------------------------------------
(* Statements and blocks. *)

ParseLet ==
  \/ doing("let") /\ go(1, <<Task("pattern", "", 0), Expect(":"), Type, Task("initializer", "", 0)>>)
  \/ doing("initializer")
     /\ IF token = "=" THEN go(1, <<Expr, Expect(";"), Make("let", 3)>>) ELSE go(0, <<Expect(";"), Make("let", 2)>>)

ParseStatement ==
  \/ doing("statement")
     /\ go(0, CASE token = "let" -> <<Task("let", "", 0)>>
                [] token \in ItemWords -> <<Task("item", "", 0), Make("item", 1)>>
                [] token \in BlockWords -> <<Task(token, "", 0), Semicolon>>
                [] OTHER -> <<Expr, Semicolon>>)
  \/ doing("semicolon")
     /\ IF token = ";" THEN go(1, <<Make("semi", 1)>>) ELSE go(0, <<Make("nosemi", 1)>>)

KeepsExtraSemicolon ==   \* mutant of ParseBlock
  \/ doing("{") /\ IF token = "{" THEN go(1, <<Task("statements", "", 0)>>) ELSE end("refused")
  \/ doing("statements")
     /\ CASE token = "}" -> go(1, <<Make("block", task.n)>>)
          [] token = ";" -> go(0, <<task>>)
          [] OTHER -> go(0, <<Task("statement", "", 0), Task("settle", "", task.n + 1)>>)

ParseBlock ==
  \/ doing("{") /\ IF token = "{" THEN go(1, <<Task("statements", "", 0)>>) ELSE end("refused")
  \/ doing("statements")
     /\ CASE token = "}" -> go(1, <<Make("block", task.n)>>)
          [] token = ";" -> go(1, <<task>>)
          [] OTHER -> go(0, <<Task("statement", "", 0), Task("settle", "", task.n + 1)>>)

MarksNoBlock ==   \* mutant of Settle
  /\ doing("settle")
  /\ LET before == Len(trees) - 1
         more == <<Task("statements", "", task.n)>>
     IN IF task.n = 1 \/ trees[before].k # "nosemi" THEN go(0, more)
        ELSE CASE trees[before].s[1].k \in {"if", "loop"} ->
                    step(0, more, [trees EXCEPT ![before].k = "must_return_unit"])
               [] trees[before].s[1].k \in {"while", "block"} -> go(0, more)
               [] OTHER -> end("refused")

(* Only when the next statement has been read does the one before it turn  *)
(* out not to be the tail: "settle" decides what that means for it.        *)
Settle ==
  /\ doing("settle")
  /\ LET before == Len(trees) - 1
         more == <<Task("statements", "", task.n)>>
     IN IF task.n = 1 \/ trees[before].k # "nosemi" THEN go(0, more)
        ELSE CASE trees[before].s[1].k \in {"if", "loop", "block"} ->
                    step(0, more, [trees EXCEPT ![before].k = "must_return_unit"])
               [] trees[before].s[1].k = "while" -> go(0, more)
               [] OTHER -> end("refused")

ParseIf ==
  \/ doing("if") /\ go(1, <<Expect("("), Expr, Expect(")"), Block, Task("else", "", 0)>>)
  \/ doing("else")
     /\ IF token # "else" THEN go(0, <<Make("if", 2)>>)
        ELSE go(1, <<Task("else branch", "", 0), Make("if", 3)>>)
  \/ doing("else branch") /\ go(0, <<Task(IF token = "if" THEN "if" ELSE "{", "", 0)>>)

ParseLoops ==
  \/ doing("while") /\ go(1, <<Expect("("), Expr, Expect(")"), Block, Make("while", 2)>>)
  \/ doing("loop") /\ go(1, <<Block, Make("loop", 1)>>)

-----------------------------------------------------------------------------
(* Expressions. *)

parse_expression ==
  doing("expr") /\ go(0, <<Task("nud", "", 0), Task("infix", "", task.n)>>)

(* What follows a name, or Self, that starts an expression. *)
AfterName ==
  /\ doing("after name")
  /\ CASE token = "::" -> go(1, <<TakeName, Make("::", 2)>>)
       [] token = "{" -> go(1, <<FieldValues>>)
       [] OTHER -> IF Last(trees).k = "Self" THEN end("refused") ELSE go(0, <<>>)

nud ==
  \/ doing("nud")
     /\ CASE token \in BlockWords -> go(0, <<Task(token, "", 0)>>)
          [] token = "(" -> go(1, <<Task("parenthesised", "", 0)>>)
          [] token = "[" -> go(1, <<Task("elements", "", 0)>>)
          [] token \in Identifiers \cup {"Self"} -> go(1, <<Leaf(token), Task("after name", "", 0)>>)
          [] token \in Literals \cup {"self", "continue"} -> go(1, <<Leaf(token)>>)
          [] token = "&" /\ next_token = "mut" -> go(2, <<ExprAbove(UnaryPower), Make("&mut", 1)>>)
          [] token \in {"-", "!", "&", "*"} /\ ~(token = "&" /\ next_token = "mut") ->
               go(1, <<ExprAbove(UnaryPower), Make(token, 1)>>)
          [] token \in {"break", "return"} -> go(1, <<Task("operand", token, 0)>>)
          [] OTHER -> end("refused")
  \/ doing("parenthesised")
     /\ IF token = ")" THEN go(1, <<Leaf("()")>>) ELSE go(0, <<Expr, Expect(")")>>)
  \/ doing("operand")
     /\ IF token \in {";", "}"} THEN go(0, <<Leaf(task.x)>>) ELSE go(0, <<Expr, Make(task.x, 1)>>)

ParseArray ==
  \/ doing("elements")
     /\ IF token = "]" THEN go(1, <<Leaf("array")>>) ELSE go(0, <<Expr, Task("after first", "", 0)>>)
  \/ doing("after first")
     /\ CASE token = ";" -> go(1, <<Expr, Expect("]"), Make("[;]", 2)>>)
          [] token = "," -> go(1, <<List(<<Expr>>, "]", "array", 1)>>)
          [] OTHER -> go(0, <<Expect("]"), Make("array", 1)>>)

(* led, and the loop of parse_expression around it. *)
led ==
  /\ doing("infix")
  /\ CASE ~has_more_tokens -> go(0, <<>>)
       [] has_more_tokens /\ lbp(token) = -1 -> end("refused")
       [] has_more_tokens /\ lbp(token) \in 0..task.n -> go(0, <<>>)
       [] has_more_tokens /\ lbp(token) > task.n ->
            CASE token \in Binary -> go(1, <<ExprAbove(rbp(token)), Make(token, 2), task>>)
              [] token = "(" -> go(1, <<List(<<Expr>>, ")", "call", 1), task>>)
              [] token = "." -> go(1, <<TakeName, Make(".", 2), task>>)
              [] token = "[" -> go(1, <<Expr, Expect("]"), Make("[]", 2), task>>)
              [] token = "as" -> go(1, <<Type, Make("as", 2), task>>)
              [] OTHER -> end("refused")

-----------------------------------------------------------------------------
Next ==
  \/ PeekAtEnd \/ ConsumeExpect \/ ConsumeName \/ MakeTree \/ MakeLeaf \/ ParseList
  \/ Parse \/ ParseItem \/ ParseImplItem \/ ParseFnItem \/ ParsePattern \/ ParseType
  \/ ParseLet \/ ParseStatement \/ ParseBlock \/ Settle \/ ParseIf \/ ParseLoops
  \/ parse_expression \/ AfterName \/ nud \/ ParseArray \/ led

Spec == Init /\ [][Next]_vars /\ WF_vars(Next)
=============================================================================
