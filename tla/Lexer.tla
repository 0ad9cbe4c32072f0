-------------------------------- MODULE Lexer --------------------------------
(***************************************************************************)
(* The scanner (read_and_get_tokens, src/src/lexer/lexer.cpp) as a machine *)
(* over characters.  The flags for comments and literals, of which at most *)
(* one is set, are mode; is_in_number and is_in_identifier, which stay set *)
(* while a comment is skipped, are word.  A character is a string of one.  *)
(* Symbols and keywords are cut down to those of the characters at hand.   *)
(***************************************************************************)
EXTENDS Integers, Sequences

CONSTANT Texts   \* sets of texts

ASSUME TextsAssumption == \A alphabet \in Texts : alphabet \subseteq Seq(STRING)

VARIABLES text, i, mode, raw_string_level, word, now_str, tokens, outcome

vars == <<text, i, mode, raw_string_level, word, now_str, tokens, outcome>>

Letters == {"a", "n", "r", "s"}
Digits == {"0", "1"}
is_not_symbol == Letters \cup Digits
space == " "
quote == "\""
Blanks == {space, "\n"}
symbol_map ==
  {<<"+">>, <<"+", "=">>, <<"/">>, <<"*">>, <<"=">>, <<"<">>, <<"/", "=">>, <<"*", "=">>, <<"=", "=">>, <<"<", "=">>,
   <<"<", "<">>, <<"<", "<", "=">>}
keywords_map == {<<"a", "s">>}

(* "\0" is the empty string in C++: the NUL is lost. *)
get_escape_character ==
  [c \in {"n", "0", "\\", "'", quote} |-> CASE c = "n" -> <<"\n">> [] c = "0" -> <<>> [] OTHER -> <<c>>]

Token(type, value) == [type |-> type, value |-> value]

(* getline leaves a newline at the end, and blanks follow it. *)
char(j) == IF j <= Len(text) THEN text[j] ELSE space
now_ch == char(i)
next_ch == char(i + 1)
next_next_ch == char(i + 2)

Init ==
  /\ \E alphabet \in Texts : \E s \in alphabet : text = Append(s, "\n")
  /\ i = 1 /\ mode = "code" /\ raw_string_level = 0 /\ word = "none" /\ now_str = <<>>
  /\ tokens = <<>> /\ outcome = "scanning"

-----------------------------------------------------------------------------
reading(what) == outcome = "scanning" /\ i <= Len(text) /\ mode = what
advance(n, next) == i' = i + n /\ mode' = next /\ UNCHANGED <<text, outcome>>
refuse == outcome' = "refused" /\ UNCHANGED <<text, i, mode, raw_string_level, word, now_str, tokens>>
emit(type, value) == tokens' = Append(tokens, Token(type, value))
unchanged_word == UNCHANGED <<word, now_str>>

(* add_number or add_identifier, when one is open. *)
with_word ==
  CASE word = "none" -> tokens
    [] word = "number" -> Append(tokens, Token("number", now_str))
    [] word = "identifier" -> Append(tokens, Token(IF now_str \in keywords_map THEN "keyword" ELSE "identifier", now_str))
add_word == /\ word' = "none" /\ now_str' = IF word = "none" THEN now_str ELSE <<>>

InBlockComment ==
  /\ reading("block_comment")
  /\ IF now_ch = "*" /\ next_ch = "/" THEN advance(2, "code") ELSE advance(1, mode)
  /\ unchanged_word /\ UNCHANGED <<tokens, raw_string_level>>

InLineComment ==
  /\ reading("line_comment")
  /\ advance(1, IF now_ch = "\n" THEN "code" ELSE mode)
  /\ unchanged_word /\ UNCHANGED <<tokens, raw_string_level>>

InChar ==
  /\ reading("char")
  /\ LET length == IF now_ch = "\\" THEN 2 ELSE 1
     IN IF \/ now_ch = "'" \/ char(i + length) # "'"
           \/ now_ch = "\\" /\ next_ch \notin DOMAIN get_escape_character
        THEN refuse
        ELSE /\ emit("char", IF now_ch = "\\" THEN get_escape_character[next_ch] ELSE <<now_ch>>)
             /\ advance(length + 1, "code")
             /\ unchanged_word /\ UNCHANGED raw_string_level

InString ==
  /\ reading("string")
  /\ CASE now_ch = quote ->
            advance(1, "code") /\ emit("string", now_str) /\ now_str' = <<>> /\ UNCHANGED <<word, raw_string_level>>
       [] now_ch = "\\" /\ next_ch \notin DOMAIN get_escape_character -> refuse
       [] now_ch = "\\" /\ next_ch \in DOMAIN get_escape_character ->
            advance(2, mode) /\ now_str' = now_str \o get_escape_character[next_ch] /\ UNCHANGED <<word, tokens, raw_string_level>>
       [] OTHER -> advance(1, mode) /\ now_str' = Append(now_str, now_ch) /\ UNCHANGED <<word, tokens, raw_string_level>>

InRawString ==
  /\ reading("raw_string")
  /\ UNCHANGED <<word, raw_string_level>>
  /\ IF now_ch = quote /\ \A j \in 1..raw_string_level : char(i + j) = "#"
     THEN advance(1 + raw_string_level, "code") /\ emit("string", now_str) /\ now_str' = <<>>
     ELSE advance(1, mode) /\ now_str' = Append(now_str, now_ch) /\ UNCHANGED tokens

-----------------------------------------------------------------------------
comment_opens == now_ch = "/" /\ next_ch \in {"*", "/"}
raw_string_opens == now_ch = "r" /\ next_ch \in {quote, "#"}

OpenComment ==
  /\ reading("code") /\ comment_opens
  /\ advance(2, IF next_ch = "*" THEN "block_comment" ELSE "line_comment")
  /\ unchanged_word /\ UNCHANGED <<tokens, raw_string_level>>

LeavesWordOpen ==   \* mutant of OpenRawString
  /\ reading("code") /\ raw_string_opens
  /\ LET level == CHOOSE n \in 0..Len(text) : (\A j \in 1..n : char(i + j) = "#") /\ char(i + n + 1) # "#"
     IN IF char(i + level + 1) # quote THEN refuse
        ELSE /\ advance(level + 2, "raw_string") /\ raw_string_level' = level
             /\ tokens' = with_word /\ unchanged_word

OpenRawString ==
  /\ reading("code") /\ raw_string_opens
  /\ LET level == CHOOSE n \in 0..Len(text) : (\A j \in 1..n : char(i + j) = "#") /\ char(i + n + 1) # "#"
     IN IF char(i + level + 1) # quote THEN refuse
        ELSE /\ advance(level + 2, "raw_string") /\ raw_string_level' = level
             /\ tokens' = with_word /\ add_word

WordCharacter ==
  /\ reading("code") /\ now_ch \in is_not_symbol /\ ~raw_string_opens
  /\ advance(1, mode)
  /\ word' = IF word # "none" THEN word ELSE IF now_ch \in Digits THEN "number" ELSE "identifier"
  /\ now_str' = IF word # "none" THEN Append(now_str, now_ch) ELSE <<now_ch>>
  /\ UNCHANGED <<tokens, raw_string_level>>

StaysAtBlank ==   \* mutant of Blank
  /\ reading("code") /\ now_ch \in Blanks
  /\ advance(0, mode) /\ tokens' = with_word /\ add_word /\ UNCHANGED raw_string_level

Blank ==
  /\ reading("code") /\ now_ch \in Blanks
  /\ advance(1, mode) /\ tokens' = with_word /\ add_word /\ UNCHANGED raw_string_level

ahead(n) == SubSeq(<<now_ch, next_ch, next_next_ch>>, 1, n)
symbol_lengths == {n \in 1..3 : ahead(n) \in symbol_map}
shortest == CHOOSE n \in symbol_lengths : \A m \in symbol_lengths : m >= n   \* mutant of longest
longest == CHOOSE n \in symbol_lengths : \A m \in symbol_lengths : m <= n

Symbol ==
  /\ reading("code") /\ now_ch \notin is_not_symbol \cup Blanks /\ ~comment_opens
  /\ symbol_lengths # {}
  /\ advance(longest, mode)
  /\ tokens' = Append(with_word, Token("symbol", ahead(longest)))
  /\ add_word /\ UNCHANGED raw_string_level

OpenQuote ==
  /\ reading("code") /\ now_ch \notin is_not_symbol \cup Blanks /\ symbol_lengths = {}
  /\ IF now_ch \notin {quote, "'"} THEN refuse
     ELSE /\ advance(1, IF now_ch = "'" THEN "char" ELSE "string")
          /\ tokens' = with_word /\ add_word /\ UNCHANGED raw_string_level

End ==
  /\ outcome = "scanning" /\ i > Len(text)
  /\ tokens' = IF mode \in {"char", "string", "raw_string"} THEN tokens ELSE with_word
  /\ outcome' = IF mode \in {"code", "line_comment"} THEN "tokens" ELSE "refused"
  /\ UNCHANGED <<text, i, mode, raw_string_level, word, now_str>>

Next ==
  \/ InBlockComment \/ InLineComment \/ InChar \/ InString \/ InRawString \/ OpenComment \/ OpenRawString
  \/ WordCharacter \/ Blank \/ Symbol \/ OpenQuote \/ End

Spec == Init /\ [][Next]_vars /\ WF_vars(Next)

-----------------------------------------------------------------------------
(* BufferOwned: now_str is one buffer for words, numbers and strings: a    *)
(* literal never begins with what is left of a word, and an open word      *)
(* never holds the text of a comment or of a literal.                      *)
BufferOwned ==
  outcome = "scanning" =>
    /\ word = "none" /\ mode \notin {"string", "raw_string"} => now_str = <<>>
    /\ word # "none" => mode \in {"code", "block_comment", "line_comment"} /\ now_str \in Seq(is_not_symbol)
=============================================================================
