------------------------------- MODULE MCLexer -------------------------------
(***************************************************************************)
(* Lexer for TLC: every text of up to N characters of four alphabets, one  *)
(* for each part of the scanner: comments between words and symbols, the   *)
(* lengths of symbols, quotes and escapes, raw strings.                    *)
(***************************************************************************)
EXTENDS LexerSound

Upto(n, alphabet) == UNION {[1..m -> alphabet] : m \in 0..n}

MCTexts ==
  {Upto(5, {"a", "s", "1", "/", "*", "\n"}),
   Upto(5, {"a", "+", "=", "<", "/", "*"}),
   Upto(5, {"\"", "'", "\\", "n", "0", "/"}),
   Upto(6, {"r", "#", "\"", "a"}),
   Upto(2, {"r", "#", "\"", "a", " ", "'", "1", "/"})}
=============================================================================
