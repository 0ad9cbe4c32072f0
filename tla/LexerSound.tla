------------------------------ MODULE LexerSound ------------------------------
(***************************************************************************)
(* What the scanner owes the parser.  The reference says what a lexeme of  *)
(* a text s is and cuts s into the longest ones, with no mode, flag or     *)
(* buffer.                                                                 *)
(***************************************************************************)
EXTENDS Lexer, FiniteSetsExt, SequencesExt

(* A character of a literal is escaped by an odd number of backslashes. *)
backslashes(s, open, p) == {n \in 0..(p - open - 1) : \A j \in (p - n)..(p - 1) : s[j] = "\\"}
escaped(s, open, p) == Max(backslashes(s, open, p)) % 2 = 1

(* What the character at p adds to the content of a literal: the NUL of    *)
(* an escaped 0 is lost.                                                   *)
said(s, open, p) ==
  IF escaped(s, open, p)
  THEN CASE s[p] = "n" -> <<"\n">> [] s[p] = "0" -> <<>> [] OTHER -> <<s[p]>>
  ELSE IF s[p] = "\\" THEN <<>> ELSE <<s[p]>>
content(s, p, q) == FlattenSeq([j \in 1..(q - p - 1) |-> said(s, p, p + j)])

within(s, p, j, mark) == IF escaped(s, p, j) THEN s[j] \in {"n", "0", "\\", "'", quote} ELSE s[j] # mark
quoted(s, p, q, mark) ==
  /\ q > p /\ s[p] = mark /\ s[q] = mark /\ ~escaped(s, p, q)
  /\ \A j \in (p + 1)..(q - 1) : within(s, p, j, mark)

opens_raw(s, p, n) == s[p] = "r" /\ (\A j \in 1..n : s[p + j] = "#") /\ s[p + n + 1] = quote
closes_raw(s, q, n) == s[q - n] = quote /\ \A j \in 1..n : s[q - n + j] = "#"
raw(s, p, q, n) ==
  /\ opens_raw(s, p, n) /\ q - n > p + n + 1 /\ closes_raw(s, q, n)
  /\ \A m \in (p + 2 * n + 2)..(q - 1) : ~closes_raw(s, m, n)

closes_comment(s, q) == s[q - 1] = "*" /\ s[q] = "/"
opens(s, p, second) == p < Len(s) /\ s[p] = "/" /\ s[p + 1] = second

Words == {"identifier", "number", "keyword"}
Lexeme(s, type, p, q) ==
  LET all_word == \A j \in p..q : s[j] \in is_not_symbol
  IN CASE type = "blank" -> p = q /\ s[p] \in Blanks
       [] type = "line_comment" -> opens(s, p, "/") /\ q > p + 1 /\ s[q] = "\n" /\ \A j \in p..(q - 1) : s[j] # "\n"
       [] type = "block_comment" ->
            opens(s, p, "*") /\ q > p + 2 /\ closes_comment(s, q) /\ \A j \in (p + 3)..(q - 1) : ~closes_comment(s, j)
       [] type = "number" -> all_word /\ s[p] \in Digits
       [] type = "keyword" -> SubSeq(s, p, q) \in keywords_map
       [] type = "identifier" -> all_word /\ s[p] \in Letters /\ SubSeq(s, p, q) \notin keywords_map
       [] type = "symbol" -> ~opens(s, p, "*") /\ SubSeq(s, p, q) \in symbol_map
       [] type = "char" -> quoted(s, p, q, "'") /\ q = p + (IF s[p + 1] = "\\" THEN 3 ELSE 2)
       [] type = "string" -> quoted(s, p, q, quote)
       [] type = "raw_string" -> \E n \in 0..(q - p) : p + n + 1 <= Len(s) /\ raw(s, p, q, n)
Comments == {"line_comment", "block_comment"}
Types == Words \cup Comments \cup {"blank", "symbol", "char", "string", "raw_string"}

(* The longest lexeme that starts at p, the rest of the text if none does. *)
lexemes_at(s, p) == {l \in [type : Types, p : {p}, q : p..Len(s)] : Lexeme(s, l.type, l.p, l.q)}
lexeme_at(s, p) ==
  IF lexemes_at(s, p) = {} THEN [type |-> "error", p |-> p, q |-> Len(s)]
  ELSE CHOOSE l \in lexemes_at(s, p) : \A m \in lexemes_at(s, p) : m.q <= l.q

(* Each lexeme starts where the one before it ends. *)
begins(ls) == IF ls = <<>> THEN 1 ELSE Last(ls).q + 1
one_more(s, ls) == IF begins(ls) > Len(s) THEN ls ELSE Append(ls, lexeme_at(s, begins(ls)))
Lexemes(s) ==
  LET first[n \in 0..Len(s)] == IF n = 0 THEN <<>> ELSE one_more(s, first[n - 1])
  IN first[Len(s)]

value(s, l) ==
  CASE l.type \in {"char", "string"} -> content(s, l.p, l.q)
    [] l.type = "raw_string" ->
         LET n == CHOOSE n \in 0..(l.q - l.p) : l.p + n + 1 <= Len(s) /\ opens_raw(s, l.p, n)
         IN SubSeq(s, l.p + n + 2, l.q - n - 1)
    [] OTHER -> SubSeq(s, l.p, l.q)
type_of(l) == IF l.type = "raw_string" THEN "string" ELSE l.type
kept(s, l) == IF l.type \in Comments \cup {"blank"} THEN <<>> ELSE <<Token(type_of(l), value(s, l))>>
reference(s, ls) == FlattenSeq([j \in DOMAIN ls |-> kept(s, ls[j])])

(* The scanner does not end a word at a comment, and it begins a raw       *)
(* string at an r inside a word: in such a text its words are others.      *)
joins_words(ls) ==
  \E a, b \in DOMAIN ls :
    /\ a + 1 < b /\ ls[a].type \in Words /\ ls[b].type \in Words
    /\ \A c \in (a + 1)..(b - 1) : ls[c].type \in Comments
splits_word(s, ls) ==
  \E a \in DOMAIN ls :
    ls[a].type \in Words /\ ls[a].q > ls[a].p /\ s[ls[a].q] = "r" /\ s[ls[a].q + 1] \in {quote, "#"}

-----------------------------------------------------------------------------
(* TokensAreLexemes: the tokens of an accepted text are its longest        *)
(* lexemes without comments and blanks, literals with their contents (but  *)
(* for the NUL of "\0", which is lost), and only a text that cannot be cut *)
(* into lexemes is refused.  Texts in which a comment or a raw string      *)
(* touches a word are left out (see joins_words and splits_word).          *)
TokensAreLexemes ==
  outcome # "scanning" =>
    LET ls == Lexemes(text)
    IN ~joins_words(ls) /\ ~splits_word(text, ls) =>
         IF Last(ls).type = "error" THEN outcome = "refused"
         ELSE outcome = "tokens" /\ tokens = reference(text, ls)

(* ScanEnds: every text is cut into tokens or refused in the end, whatever *)
(* comment or literal it leaves open.                                      *)
ScanEnds == <>(outcome # "scanning")
=============================================================================
