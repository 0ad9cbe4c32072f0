----------------------------- MODULE Lexer_proof -----------------------------
(***************************************************************************)
(* Proofs about Lexer, for any texts.                                      *)
(*                                                                         *)
(* The flags of the scanner do not say whose the buffer is; that they      *)
(* never need to is the first invariant.  The second, ScansLexemes, says   *)
(* where the scanner is among the lexemes that the reference cuts the text *)
(* into: between two of them or within one, of which mode, word, the level *)
(* and the buffer tell what has been read.  The reference chooses the      *)
(* longest lexeme at a place; the lemmas in between say, for each kind of  *)
(* lexeme, by which characters that one is recognised.                     *)
(***************************************************************************)
EXTENDS LexerSound, SequenceTheorems, WellFoundedInduction, TLAPS

-----------------------------------------------------------------------------
(* The buffer *)

(* What every action that opens a token leaves of the word before it. *)
LEMMA WordAdded ==
  ASSUME BufferOwned, reading("code"), add_word
  PROVE  word' = "none" /\ now_str' = <<>>
BY DEF BufferOwned, reading, add_word

LEMMA InComment ==
  ASSUME BufferOwned, InBlockComment \/ InLineComment
  PROVE  BufferOwned'
<1>1. UNCHANGED <<word, now_str, outcome>>
  BY DEF InBlockComment, InLineComment, advance, unchanged_word
<1>2. outcome = "scanning" /\ mode \in {"block_comment", "line_comment"}
  BY DEF InBlockComment, InLineComment, reading
<1>3. mode' \in {"code", "block_comment", "line_comment"}
  BY <1>2 DEF InBlockComment, InLineComment, advance
<1> QED
  BY <1>1, <1>2, <1>3 DEF BufferOwned, is_not_symbol, Letters, Digits

(* No word is open inside a literal, and its end leaves the buffer empty. *)
LEMMA InLiteral ==
  ASSUME BufferOwned, InChar \/ InString \/ InRawString
  PROVE  BufferOwned'
<1>1. CASE InChar
  <2>1. outcome = "scanning" /\ mode = "char"
    BY <1>1 DEF InChar, reading
  <2>2. word = "none" /\ now_str = <<>>
    BY <2>1 DEF BufferOwned
  <2>3. outcome' = "refused" \/ (mode' = "code" /\ UNCHANGED <<word, now_str>>)
    BY <1>1 DEF InChar, refuse, advance, unchanged_word
  <2> QED
    BY <2>2, <2>3 DEF BufferOwned
<1>2. CASE InString
  <2>1. outcome = "scanning" /\ mode = "string"
    BY <1>2 DEF InString, reading
  <2>2. word = "none"
    BY <2>1 DEF BufferOwned
  <2>3. \/ outcome' = "refused"
        \/ word' = word /\ mode' = "code" /\ now_str' = <<>>
        \/ word' = word /\ mode' = "string"
    BY <1>2, <2>1 DEF InString, refuse, advance
  <2> QED
    BY <2>2, <2>3 DEF BufferOwned
<1>3. CASE InRawString
  <2>1. outcome = "scanning" /\ mode = "raw_string"
    BY <1>3 DEF InRawString, reading
  <2>2. word = "none"
    BY <2>1 DEF BufferOwned
  <2>3. \/ word' = word /\ mode' = "code" /\ now_str' = <<>>
        \/ word' = word /\ mode' = "raw_string"
    BY <1>3, <2>1 DEF InRawString, advance
  <2> QED
    BY <2>2, <2>3 DEF BufferOwned
<1> QED
  BY <1>1, <1>2, <1>3

LEMMA InCode ==
  ASSUME BufferOwned,
         OpenComment \/ OpenRawString \/ WordCharacter \/ Blank \/ Symbol \/ OpenQuote
  PROVE  BufferOwned'
<1>1. CASE OpenComment
  <2>1. outcome = "scanning" /\ mode = "code"
    BY <1>1 DEF OpenComment, reading
  <2>2. mode' \in {"block_comment", "line_comment"} /\ UNCHANGED <<word, now_str, outcome>>
    BY <1>1 DEF OpenComment, advance, unchanged_word
  <2> QED
    BY <2>1, <2>2 DEF BufferOwned, is_not_symbol, Letters, Digits
<1>2. CASE WordCharacter
  <2>1. outcome = "scanning" /\ mode = "code" /\ now_ch \in is_not_symbol
    BY <1>2 DEF WordCharacter, reading
  <2>2. mode' = "code" /\ word' # "none"
    BY <1>2, <2>1 DEF WordCharacter, advance
  <2>3. now_str' \in Seq(is_not_symbol)
    <3>1. word # "none" => now_str \in Seq(is_not_symbol)
      BY <2>1 DEF BufferOwned
    <3>2. now_str' = IF word # "none" THEN Append(now_str, now_ch) ELSE <<now_ch>>
      BY <1>2 DEF WordCharacter
    <3>3. CASE word # "none"
      <4> DEFINE S == is_not_symbol
                 c == now_ch
      <4>1. now_str \in Seq(S) /\ c \in S /\ now_str' = Append(now_str, c)
        BY <2>1, <3>1, <3>2, <3>3
      <4> HIDE DEF S, c
      <4>2. Append(now_str, c) \in Seq(S)
        BY <4>1
      <4> QED
        BY <4>1, <4>2 DEF S
    <3>4. CASE word = "none"
      <4> DEFINE S == is_not_symbol
                 c == now_ch
      <4>1. c \in S /\ now_str' = <<c>>
        BY <2>1, <3>2, <3>4
      <4> HIDE DEF S, c
      <4>2. <<c>> \in Seq(S)
        BY <4>1
      <4> QED
        BY <4>1, <4>2 DEF S
    <3> QED
      BY <3>3, <3>4
  <2> QED
    BY <2>2, <2>3 DEF BufferOwned, is_not_symbol, Letters, Digits
<1>3. CASE OpenRawString \/ Blank \/ Symbol \/ OpenQuote
  <2>1. outcome' = "refused" \/ add_word
    BY <1>3 DEF OpenRawString, Blank, Symbol, OpenQuote, refuse
  <2>2. reading("code")
    BY <1>3 DEF OpenRawString, Blank, Symbol, OpenQuote
  <2> QED
    BY <2>1, <2>2, WordAdded DEF BufferOwned
<1> QED
  BY <1>1, <1>2, <1>3

(***************************************************************************)
(* One buffer, now_str, collects words, numbers and strings: however       *)
(* comments and literals follow one another in a text, none of them finds  *)
(* something of another in it (read_and_get_tokens).                       *)
(***************************************************************************)
THEOREM BufferIsOwned == Spec => []BufferOwned
<1>1. Init => BufferOwned
  BY DEF Init, BufferOwned
<1>2. BufferOwned /\ [Next]_vars => BufferOwned'
  <2> SUFFICES ASSUME BufferOwned, [Next]_vars PROVE BufferOwned'
    OBVIOUS
  <2>1. CASE UNCHANGED vars
    BY <2>1 DEF vars, BufferOwned, is_not_symbol, Letters, Digits
  <2>2. CASE End
    BY <2>2 DEF End, BufferOwned
  <2> QED
    BY <2>1, <2>2, InComment, InLiteral, InCode DEF Next
<1> QED
  BY <1>1, <1>2, PTL DEF Spec

-----------------------------------------------------------------------------
(* Numbers and sequences *)

(* The characters of a text and the newline at its end. *)
Characters == STRING \cup {"\n"}

(* A set of naturals that is not empty has a least element. *)
LEMMA Least ==
  ASSUME NEW T \in SUBSET Nat, T # {}
  PROVE  \E n \in T : \A m \in T : n <= m
<1> DEFINE R == OpToRel(<, Nat)
<1>1. \E n \in T : \A m \in T : ~(<<m, n>> \in R)
  BY WFMin, NatLessThanWellFounded
<1>2. \A m, n \in Nat : m < n => <<m, n>> \in R
  BY Zenon DEF OpToRel
<1> HIDE DEF R
<1>3. \A m, n \in T : ~(<<m, n>> \in R) => n <= m
  <2> SUFFICES ASSUME NEW m \in T, NEW n \in T, ~(n <= m) PROVE <<m, n>> \in R
    OBVIOUS
  <2>1. m \in Nat /\ n \in Nat /\ m < n
    OBVIOUS
  <2> QED
    BY <1>2, <2>1
<1> QED
  BY <1>1, <1>3

(* One with a bound has a greatest. *)
LEMMA Greatest ==
  ASSUME NEW k \in Nat, NEW T \in SUBSET (0..k), T # {}
  PROVE  \E n \in T : \A m \in T : m <= n
<1> DEFINE U == {k - n : n \in T}
<1>1. U \in SUBSET Nat /\ U # {}
  <2>1. \A n \in T : n \in 0..k /\ k - n \in Nat
    OBVIOUS
  <2> QED
    BY <2>1
<1>2. PICK u \in U : \A m \in U : u <= m
  BY <1>1, Least
<1>3. PICK n \in T : u = k - n
  BY <1>2
<1>4. ASSUME NEW m \in T PROVE m <= n
  <2>1. k - m \in U
    BY <1>4
  <2>2. k - n <= k - m
    BY <1>2, <1>3, <2>1
  <2> QED
    BY <2>2
<1> QED
  BY <1>4

(* Induction for one set: it has 0, and with a number the next one. *)
LEMMA UpToN ==
  ASSUME NEW n \in Nat, NEW T, 0 \in T, \A k \in 1..n : k - 1 \in T => k \in T
  PROVE  \A k \in 0..n : k \in T
<1> DEFINE out == {k \in 0..n : k \notin T}
<1> SUFFICES ASSUME out # {} PROVE FALSE
  OBVIOUS
<1>1. PICK k \in out : \A m \in out : k <= m
  <2>1. out \in SUBSET Nat
    OBVIOUS
  <2> QED
    BY <2>1, Least
<1>2. k \in 1..n /\ k - 1 \in 0..n /\ ~(k <= k - 1)
  BY <1>1
<1>3. k - 1 \in T
  BY <1>1, <1>2
<1> QED
  BY <1>1, <1>2, <1>3

-----------------------------------------------------------------------------
(* FlattenSeq, piece by piece *)

(* The recursion in FlattenSeq satisfies its equation. *)
LEMMA FlattenEquation ==
  ASSUME NEW ss, Len(ss) \in Nat \ {0}
  PROVE  \E w : /\ w[Len(ss)] = FlattenSeq(ss)
                /\ w[1] = ss[1]
                /\ \A j \in 2..Len(ss) : w[j] = w[j - 1] \o ss[j]
<1> DEFINE len == Len(ss)
           next(m, j) == m \o ss[j]
           step(f, j) == IF j = 1 THEN ss[j] ELSE next(f[j - 1], j)
           solves(f, k) == f = [j \in 1..k |-> step(f, j)]
           T == {k \in 0..len : \E f : solves(f, k)}
           flatten == CHOOSE f : solves(f, len)
<1>1. len \in Nat /\ len > 0
  OBVIOUS
<1>2. FlattenSeq(ss) = flatten[len]
  BY DEF FlattenSeq
<1> HIDE DEF len, next
<1>3. 0 \in T
  <2> DEFINE f == [j \in 1..0 |-> <<>>]
  <2>1. solves(f, 0)
    OBVIOUS
  <2> HIDE DEF f, solves
  <2> QED
    BY <1>1, <2>1
<1>4. ASSUME NEW k \in 1..len, k - 1 \in T PROVE k \in T
  <2>1. PICK f : solves(f, k - 1)
    BY <1>4
  <2> DEFINE g == [j \in 1..k |-> IF j = k THEN step(f, k) ELSE f[j]]
  <2>2. k \in 0..len /\ k \in Nat /\ k # 0
    BY <1>1, <1>4
  <2>3. \A j \in 1..k : g[j] = step(g, j)
    <3> SUFFICES ASSUME NEW j \in 1..k PROVE g[j] = step(g, j)
      OBVIOUS
    <3>1. CASE j = k
      <4>1. g[j] = step(f, k) /\ (k # 1 => g[k - 1] = f[k - 1])
        BY <2>2, <3>1
      <4> QED
        BY <2>2, <3>1, <4>1
    <3>2. CASE j # k
      <4>1. j \in 1..(k - 1) /\ (j # 1 => j - 1 \in 1..(k - 1) /\ j - 1 \in 1..k /\ j - 1 # k)
        BY <2>2, <3>2
      <4>2. g[j] = f[j] /\ f[j] = step(f, j)
        BY <2>1, <3>2, <4>1
      <4>3. j # 1 => g[j - 1] = f[j - 1]
        BY <4>1
      <4> QED
        BY <4>2, <4>3
    <3> QED
      BY <3>1, <3>2
  <2>4. solves(g, k)
    <3>1. g = [j \in 1..k |-> g[j]]
      OBVIOUS
    <3> HIDE DEF g, step
    <3> QED
      BY <2>3, <3>1
  <2> HIDE DEF g, solves
  <2> QED
    BY <2>2, <2>4
<1>5. \E f : solves(f, len)
  <2> HIDE DEF T
  <2>1. \A k \in 0..len : k \in T
    BY <1>1, <1>3, <1>4, UpToN
  <2>2. len \in T
    BY <1>1, <2>1
  <2> QED
    BY <2>2, Zenon DEF T
<1>6. solves(flatten, len)
  <2> HIDE DEF solves
  <2> QED
    BY <1>5
<1>7. \A j \in 1..len : flatten[j] = step(flatten, j)
  BY <1>6
<1> HIDE DEF flatten
<1>8. flatten[1] = ss[1] /\ \A j \in 2..len : flatten[j] = next(flatten[j - 1], j)
  BY <1>1, <1>7
<1> QED
  BY <1>2, <1>8 DEF len, next

LEMMA FlattenInSeq ==
  ASSUME NEW S, NEW ss \in Seq(Seq(S))
  PROVE  FlattenSeq(ss) \in Seq(S)
<1>1. CASE ss = <<>>
  BY <1>1 DEF FlattenSeq
<1>2. CASE ss # <<>>
  <2>1. Len(ss) \in Nat \ {0} /\ \A j \in 1..Len(ss) : ss[j] \in Seq(S)
    BY <1>2
  <2>2. PICK w : /\ w[Len(ss)] = FlattenSeq(ss)
                 /\ w[1] = ss[1]
                 /\ \A j \in 2..Len(ss) : w[j] = w[j - 1] \o ss[j]
    BY <2>1, FlattenEquation
  <2> DEFINE T == {k \in 0..Len(ss) : k = 0 \/ w[k] \in Seq(S)}
  <2>3. ASSUME NEW k \in 1..Len(ss), k - 1 \in T PROVE k \in T
    <3>1. CASE k = 1
      BY <2>1, <2>2, <3>1
    <3>2. CASE k # 1
      <4>0. k \in 2..Len(ss) /\ k - 1 # 0
        BY <2>1, <2>3, <3>2
      <4>1. w[k - 1] \in Seq(S) /\ w[k] = w[k - 1] \o ss[k] /\ ss[k] \in Seq(S)
        BY <2>1, <2>2, <2>3, <4>0
      <4>2. w[k] \in Seq(S)
        BY <4>1, ConcatProperties
      <4> QED
        BY <4>2
    <3> QED
      BY <3>1, <3>2
  <2>4. 0 \in T
    BY <2>1
  <2>5. Len(ss) \in T
    <3> HIDE DEF T
    <3>1. \A k \in 0..Len(ss) : k \in T
      BY <2>1, <2>3, <2>4, UpToN
    <3> QED
      BY <2>1, <3>1
  <2> QED
    BY <2>1, <2>2, <2>5
<1> QED
  BY <1>1, <1>2

LEMMA FlattenAppend ==
  ASSUME NEW S, NEW ss \in Seq(Seq(S)), NEW e \in Seq(S)
  PROVE  FlattenSeq(Append(ss, e)) = FlattenSeq(ss) \o e
<1> DEFINE n == Len(ss)
           tt == Append(ss, e)
<1>1. n \in Nat /\ Len(tt) = n + 1 /\ tt[n + 1] = e /\ \A j \in 1..n : tt[j] = ss[j]
  BY AppendProperties
<1>2. PICK w : /\ w[n + 1] = FlattenSeq(tt)
               /\ w[1] = tt[1]
               /\ \A j \in 2..(n + 1) : w[j] = w[j - 1] \o tt[j]
  <2>1. Len(tt) \in Nat \ {0} /\ Len(tt) = n + 1
    BY <1>1
  <2> HIDE DEF n, tt
  <2>2. \E w : /\ w[Len(tt)] = FlattenSeq(tt)
               /\ w[1] = tt[1]
               /\ \A j \in 2..Len(tt) : w[j] = w[j - 1] \o tt[j]
    BY <2>1, FlattenEquation
  <2> QED
    BY <2>1, <2>2
<1>3. CASE n = 0
  <2>1. ss = <<>> /\ FlattenSeq(ss) = <<>>
    BY <1>3 DEF FlattenSeq
  <2>2. FlattenSeq(tt) = e
    BY <1>1, <1>2, <1>3
  <2>3. <<>> \o e = e
    OBVIOUS
  <2> QED
    BY <2>1, <2>2, <2>3
<1>4. CASE n # 0
  <2>1. PICK u : /\ u[n] = FlattenSeq(ss)
                 /\ u[1] = ss[1]
                 /\ \A j \in 2..n : u[j] = u[j - 1] \o ss[j]
    BY <1>1, <1>4, FlattenEquation
  <2> DEFINE T == {k \in 0..n : k = 0 \/ u[k] = w[k]}
  <2> HIDE DEF n, tt
  <2>2. ASSUME NEW k \in 1..n, k - 1 \in T PROVE k \in T
    <3>1. CASE k = 1
      BY <1>1, <1>2, <2>1, <3>1
    <3>2. CASE k # 1
      <4>1. k \in 2..n /\ k \in 2..(n + 1) /\ k - 1 # 0 /\ k \in 0..n
        BY <1>1, <3>2
      <4>2. u[k - 1] = w[k - 1]
        BY <2>2, <4>1
      <4>3. u[k] = u[k - 1] \o ss[k] /\ w[k] = w[k - 1] \o tt[k] /\ tt[k] = ss[k]
        BY <1>1, <1>2, <2>1, <4>1
      <4> QED
        BY <4>1, <4>2, <4>3
    <3> QED
      BY <3>1, <3>2
  <2>3. 0 \in T
    BY <1>1
  <2>4. n \in T
    <3> HIDE DEF T
    <3>1. \A k \in 0..n : k \in T
      BY <1>1, <2>2, <2>3, UpToN
    <3> QED
      BY <1>1, <3>1
  <2>5. u[n] = w[n] /\ n + 1 \in 2..(n + 1)
    BY <1>1, <1>4, <2>4
  <2>6. w[n + 1] = w[n] \o e
    <3>1. w[n + 1] = w[(n + 1) - 1] \o tt[n + 1]
      BY <1>2, <2>5
    <3>2. (n + 1) - 1 = n /\ tt[n + 1] = e
      BY <1>1
    <3> QED
      BY <3>1, <3>2
  <2> QED
    BY <1>2, <2>1, <2>5, <2>6 DEF tt
<1> QED
  BY <1>3, <1>4

(* The form in which it is used: one more member of a family. *)
LEMMA FlattenNext ==
  ASSUME NEW S, NEW n \in Nat, NEW f, \A j \in 1..(n + 1) : f[j] \in Seq(S)
  PROVE  /\ FlattenSeq([j \in 1..n |-> f[j]]) \in Seq(S)
         /\ FlattenSeq([j \in 1..(n + 1) |-> f[j]]) = FlattenSeq([j \in 1..n |-> f[j]]) \o f[n + 1]
<1> DEFINE a == [j \in 1..n |-> f[j]]
           b == [j \in 1..(n + 1) |-> f[j]]
<1>1. a \in Seq(Seq(S)) /\ f[n + 1] \in Seq(S)
  <2>1. a \in [1..n -> Seq(S)]
    OBVIOUS
  <2> QED
    BY <2>1
<1>2. b = Append(a, f[n + 1])
  OBVIOUS
<1> QED
  BY <1>1, <1>2, FlattenInSeq, FlattenAppend

-----------------------------------------------------------------------------
(* The lexemes of a text *)

LexemeSet == [type : Types \cup {"error"}, p : Nat, q : Nat]

(* Where the lexeme behind the n-th one begins. *)
after(ls, n) == IF n = 0 THEN 1 ELSE ls[n].q + 1

chain(s, ls) ==
  /\ ls \in Seq(LexemeSet)
  /\ \A n \in 1..Len(ls) : after(ls, n - 1) \in 1..Len(s) /\ ls[n] = lexeme_at(s, after(ls, n - 1))

LEMMA LongestIsThere ==
  ASSUME NEW s \in Seq(Characters), NEW p \in 1..Len(s)
  PROVE  /\ lexeme_at(s, p) \in LexemeSet
         /\ lexeme_at(s, p).p = p
         /\ lexeme_at(s, p).q \in p..Len(s)
         /\ lexeme_at(s, p).type = "error" <=> lexemes_at(s, p) = {}
         /\ lexemes_at(s, p) # {} =>
              /\ lexeme_at(s, p) \in lexemes_at(s, p)
              /\ \A m \in lexemes_at(s, p) : m.q <= lexeme_at(s, p).q
<1>1. Len(s) \in Nat /\ p \in Nat
  OBVIOUS
<1>2. CASE lexemes_at(s, p) = {}
  <2>1. lexeme_at(s, p) = [type |-> "error", p |-> p, q |-> Len(s)]
    BY <1>2 DEF lexeme_at
  <2> QED
    BY <1>1, <1>2, <2>1 DEF LexemeSet
<1>3. CASE lexemes_at(s, p) # {}
  <2> DEFINE H == lexemes_at(s, p)
             Q == {l.q : l \in H}
  <2>1. \A l \in H : l \in [type : Types, p : {p}, q : p..Len(s)]
    BY DEF lexemes_at
  <2>2. \A l \in H : l.type \in Types /\ l.p = p /\ l.q \in p..Len(s) /\ l.q \in 0..Len(s)
    BY <1>1, <2>1
  <2> HIDE DEF H
  <2>3. Q \in SUBSET (0..Len(s)) /\ Q # {}
    BY <1>3, <2>2 DEF H
  <2>4. PICK top \in Q : \A m \in Q : m <= top
    <3> HIDE DEF Q
    <3> QED
      BY <1>1, <2>3, Greatest
  <2>5. PICK l \in H : l.q = top
    BY <2>4
  <2>6. \A m \in H : m.q <= l.q
    BY <2>4, <2>5
  <2>7. lexeme_at(s, p) = CHOOSE x \in H : \A m \in H : m.q <= x.q
    BY <1>3 DEF lexeme_at, H
  <2>8. lexeme_at(s, p) \in H /\ \A m \in H : m.q <= lexeme_at(s, p).q
    BY <2>5, <2>6, <2>7
  <2>9. lexeme_at(s, p) \in [type : Types, p : {p}, q : p..Len(s)]
    BY <2>1, <2>8
  <2>10. "error" \notin Types
    BY DEF Types, Words, Comments
  <2> QED
    BY <1>1, <1>3, <2>2, <2>8, <2>9, <2>10 DEF LexemeSet, H
<1> QED
  BY <1>2, <1>3

(* The recursion in Lexemes satisfies its equation. *)
LEMMA LexemesEquation ==
  ASSUME NEW s, Len(s) \in Nat
  PROVE  \E w : /\ w[Len(s)] = Lexemes(s)
                /\ w[0] = <<>>
                /\ \A j \in 1..Len(s) : w[j] = one_more(s, w[j - 1])
<1> DEFINE len == Len(s)
           next(m) == one_more(s, m)
           step(f, j) == IF j = 0 THEN <<>> ELSE next(f[j - 1])
           solves(f, k) == f = [j \in 0..k |-> step(f, j)]
           T == {k \in 0..len : \E f : solves(f, k)}
           first == CHOOSE f : solves(f, len)
<1>1. len \in Nat
  OBVIOUS
<1>2. Lexemes(s) = first[len]
  BY DEF Lexemes
<1> HIDE DEF len, next
<1>3. 0 \in T
  <2> DEFINE f == [j \in 0..0 |-> <<>>]
  <2>1. solves(f, 0)
    OBVIOUS
  <2> HIDE DEF f, solves
  <2> QED
    BY <1>1, <2>1
<1>4. ASSUME NEW k \in 1..len, k - 1 \in T PROVE k \in T
  <2>1. PICK f : solves(f, k - 1)
    BY <1>4
  <2> DEFINE g == [j \in 0..k |-> IF j = k THEN next(f[k - 1]) ELSE f[j]]
  <2>2. k \in 0..len /\ k \in Nat /\ k # 0 /\ k - 1 \in 0..(k - 1)
    BY <1>1, <1>4
  <2>3. \A j \in 0..k : g[j] = step(g, j)
    <3> SUFFICES ASSUME NEW j \in 0..k PROVE g[j] = step(g, j)
      OBVIOUS
    <3>1. CASE j = k
      <4>1. g[j] = next(f[k - 1]) /\ g[k - 1] = f[k - 1]
        BY <2>2, <3>1
      <4> QED
        BY <2>2, <3>1, <4>1
    <3>2. CASE j # k
      <4>1. j \in 0..(k - 1) /\ (j # 0 => j - 1 \in 0..(k - 1) /\ j - 1 \in 0..k /\ j - 1 # k)
        BY <2>2, <3>2
      <4>2. g[j] = f[j] /\ f[j] = step(f, j)
        BY <2>1, <3>2, <4>1
      <4>3. j # 0 => g[j - 1] = f[j - 1]
        BY <4>1
      <4> QED
        BY <4>2, <4>3
    <3> QED
      BY <3>1, <3>2
  <2>4. solves(g, k)
    <3>1. g = [j \in 0..k |-> g[j]]
      OBVIOUS
    <3> HIDE DEF g, step
    <3> QED
      BY <2>3, <3>1
  <2> HIDE DEF g, solves
  <2> QED
    BY <2>2, <2>4
<1>5. \E f : solves(f, len)
  <2> HIDE DEF T
  <2>1. \A k \in 0..len : k \in T
    BY <1>1, <1>3, <1>4, UpToN
  <2>2. len \in T
    BY <1>1, <2>1
  <2> QED
    BY <2>2, Zenon DEF T
<1>6. solves(first, len)
  <2> HIDE DEF solves
  <2> QED
    BY <1>5
<1>7. \A j \in 0..len : first[j] = step(first, j)
  BY <1>6
<1> HIDE DEF first
<1>8. first[0] = <<>> /\ \A j \in 1..len : first[j] = next(first[j - 1])
  BY <1>1, <1>7
<1> QED
  BY <1>2, <1>8 DEF len, next

LEMMA ChainGrows ==
  ASSUME NEW s \in Seq(Characters), NEW ls, chain(s, ls)
  PROVE  /\ chain(s, one_more(s, ls))
         /\ begins(ls) = after(ls, Len(ls))
         /\ begins(ls) \in 1..(Len(s) + 1)
         /\ begins(one_more(s, ls)) \in 1..(Len(s) + 1)
         /\ begins(ls) <= Len(s) => begins(one_more(s, ls)) > begins(ls)
         /\ begins(ls) > Len(s) => one_more(s, ls) = ls
<1>1. Len(s) \in Nat /\ ls \in Seq(LexemeSet) /\ Len(ls) \in Nat
  BY DEF chain
<1>2. begins(ls) = after(ls, Len(ls)) /\ begins(ls) \in 1..(Len(s) + 1)
  <2>1. CASE ls = <<>>
    BY <1>1, <2>1 DEF begins, after
  <2>2. CASE ls # <<>>
    <3>1. Len(ls) \in 1..Len(ls) /\ Len(ls) # 0
      BY <1>1, <2>2
    <3>2. after(ls, Len(ls) - 1) \in 1..Len(s) /\ ls[Len(ls)] = lexeme_at(s, after(ls, Len(ls) - 1))
      BY <3>1 DEF chain
    <3>3. ls[Len(ls)].q \in after(ls, Len(ls) - 1)..Len(s)
      BY <3>2, LongestIsThere
    <3>4. begins(ls) = ls[Len(ls)].q + 1
      BY <2>2 DEF begins, Last
    <3>5. after(ls, Len(ls)) = ls[Len(ls)].q + 1
      BY <3>1 DEF after
    <3> QED
      BY <1>1, <3>2, <3>3, <3>4, <3>5
  <2> QED
    BY <2>1, <2>2
<1>3. CASE begins(ls) > Len(s)
  BY <1>1, <1>2, <1>3 DEF one_more
<1>4. CASE begins(ls) <= Len(s)
  <2> DEFINE b == begins(ls)
             l == lexeme_at(s, b)
             m == Append(ls, l)
  <2>1. b \in 1..Len(s) /\ one_more(s, ls) = m
    BY <1>1, <1>2, <1>4 DEF one_more
  <2>2. l \in LexemeSet /\ l.q \in b..Len(s)
    BY <2>1, LongestIsThere
  <2> HIDE DEF l
  <2>3. m \in Seq(LexemeSet) /\ m # <<>> /\ Len(m) = Len(ls) + 1 /\ m[Len(ls) + 1] = l /\ \A n \in 1..Len(ls) : m[n] = ls[n]
    BY <1>1, <2>2, AppendProperties
  <2> HIDE DEF m, b
  <2>4. begins(m) = l.q + 1
    BY <2>3 DEF begins, Last
  <2>5. ASSUME NEW n \in 1..Len(m)
        PROVE  after(m, n - 1) \in 1..Len(s) /\ m[n] = lexeme_at(s, after(m, n - 1))
    <3>1. after(m, n - 1) = after(ls, n - 1)
      BY <1>1, <2>3 DEF after
    <3>2. CASE n \in 1..Len(ls)
      BY <2>3, <3>1, <3>2 DEF chain
    <3>3. CASE n = Len(ls) + 1
      <4>1. n - 1 = Len(ls)
        BY <1>1, <3>3
      <4>2. after(m, n - 1) = b
        BY <1>2, <3>1, <4>1 DEF b
      <4> QED
        BY <2>1, <2>3, <3>3, <4>2 DEF l
    <3> QED
      BY <1>1, <2>3, <3>2, <3>3
  <2>6. chain(s, m)
    BY <2>3, <2>5 DEF chain
  <2> QED
    BY <1>1, <1>2, <1>4, <2>1, <2>2, <2>4, <2>6 DEF b
<1> QED
  BY <1>1, <1>2, <1>3, <1>4

(* The lexemes follow one another from the first character to the last. *)
LEMMA LexemesAreChain ==
  ASSUME NEW s \in Seq(Characters), s # <<>>
  PROVE  /\ chain(s, Lexemes(s))
         /\ Lexemes(s) # <<>>
         /\ after(Lexemes(s), Len(Lexemes(s))) = Len(s) + 1
<1>1. Len(s) \in Nat /\ Len(s) # 0
  OBVIOUS
<1>2. PICK w : /\ w[Len(s)] = Lexemes(s)
               /\ w[0] = <<>>
               /\ \A j \in 1..Len(s) : w[j] = one_more(s, w[j - 1])
  BY <1>1, LexemesEquation
<1> DEFINE T == {k \in 0..Len(s) : chain(s, w[k]) /\ begins(w[k]) > k}
<1>3. 0 \in T
  <2>1. chain(s, <<>>)
    BY DEF chain
  <2>2. begins(<<>>) = 1
    BY DEF begins
  <2> QED
    BY <1>1, <1>2, <2>1, <2>2
<1>4. ASSUME NEW k \in 1..Len(s), k - 1 \in T PROVE k \in T
  <2>1. chain(s, w[k - 1]) /\ begins(w[k - 1]) > k - 1 /\ w[k] = one_more(s, w[k - 1])
    BY <1>2, <1>4
  <2>2. /\ chain(s, w[k])
        /\ begins(w[k - 1]) \in 1..(Len(s) + 1)
        /\ begins(w[k]) \in 1..(Len(s) + 1)
        /\ begins(w[k - 1]) <= Len(s) => begins(w[k]) > begins(w[k - 1])
        /\ begins(w[k - 1]) > Len(s) => w[k] = w[k - 1]
    BY <2>1, ChainGrows
  <2>3. begins(w[k]) > k
    BY <1>1, <2>1, <2>2
  <2> QED
    BY <1>1, <2>2, <2>3
<1>5. Len(s) \in T
  <2> HIDE DEF T
  <2>1. \A k \in 0..Len(s) : k \in T
    BY <1>1, <1>3, <1>4, UpToN
  <2> QED
    BY <1>1, <2>1
<1>6. chain(s, Lexemes(s)) /\ begins(Lexemes(s)) > Len(s)
  BY <1>2, <1>5
<1>7. begins(Lexemes(s)) = after(Lexemes(s), Len(Lexemes(s))) /\ begins(Lexemes(s)) \in 1..(Len(s) + 1)
  BY <1>6, ChainGrows
<1>8. Lexemes(s) # <<>>
  BY <1>1, <1>6 DEF begins
<1> QED
  BY <1>1, <1>6, <1>7, <1>8

(* The tokens of the first n lexemes. *)
tokens_of(s, n) == FlattenSeq([j \in 1..n |-> kept(s, Lexemes(s)[j])])

LEMMA NextLexeme ==
  ASSUME NEW s \in Seq(Characters), s # <<>>, NEW n \in 0..Len(Lexemes(s))
  PROVE  LET ls == Lexemes(s)
             p == after(ls, n)
             l == lexeme_at(s, p)
         IN  /\ p \in 1..(Len(s) + 1)
             /\ p > Len(s) <=> n = Len(ls)
             /\ p <= Len(s) =>
                  /\ n + 1 \in 1..Len(ls)
                  /\ n + 1 \in 0..Len(ls)
                  /\ ls[n + 1] = l
                  /\ after(ls, n + 1) = l.q + 1
                  /\ tokens_of(s, n + 1) = tokens_of(s, n) \o kept(s, l)
                  /\ l.type = "error" => Last(ls).type = "error"
<1> DEFINE ls == Lexemes(s)
           p == after(ls, n)
           l == lexeme_at(s, p)
<1>1. chain(s, ls) /\ ls # <<>> /\ after(ls, Len(ls)) = Len(s) + 1
  BY LexemesAreChain
<1>2. Len(s) \in Nat /\ Len(ls) \in Nat /\ Len(ls) # 0 /\ n \in Nat
  BY <1>1 DEF chain
<1> HIDE DEF ls, l
<1>3. CASE n = Len(ls)
  <2>1. p = Len(s) + 1
    BY <1>1, <1>3
  <2> QED
    BY <1>2, <1>3, <2>1 DEF ls, l
<1>4. CASE n # Len(ls)
  <2>1. n + 1 \in 1..Len(ls) /\ n < Len(ls) /\ (n + 1) - 1 = n
    BY <1>2, <1>4 DEF ls
  <2>2. p \in 1..Len(s) /\ ls[n + 1] = l
    BY <1>1, <2>1 DEF chain, l
  <2>3. after(ls, n + 1) = l.q + 1
    BY <2>1, <2>2, <1>2 DEF after
  <2>4. tokens_of(s, n + 1) = tokens_of(s, n) \o kept(s, l)
    <3> DEFINE f == [j \in 1..Len(ls) |-> kept(s, ls[j])]
               S == {Token(type_of(ls[j]), value(s, ls[j])) : j \in 1..Len(ls)}
    <3>1. ASSUME NEW j \in 1..(n + 1) PROVE f[j] \in Seq(S)
      <4>0. j \in 1..Len(ls)
        BY <1>2, <2>1, <3>1
      <4> DEFINE t == Token(type_of(ls[j]), value(s, ls[j]))
      <4>1. t \in S
        BY <4>0
      <4>2. f[j] = <<>> \/ f[j] = <<t>>
        BY <4>0 DEF kept
      <4> HIDE DEF t, S, f
      <4>3. <<t>> \in Seq(S) /\ <<>> \in Seq(S)
        BY <4>1
      <4> QED
        BY <4>2, <4>3
    <3>2. /\ tokens_of(s, n) = FlattenSeq([j \in 1..n |-> f[j]])
          /\ tokens_of(s, n + 1) = FlattenSeq([j \in 1..(n + 1) |-> f[j]])
      <4>1. [j \in 1..n |-> f[j]] = [j \in 1..n |-> kept(s, ls[j])]
        BY <1>2, <2>1
      <4>2. [j \in 1..(n + 1) |-> f[j]] = [j \in 1..(n + 1) |-> kept(s, ls[j])]
        BY <1>2, <2>1
      <4> QED
        BY <4>1, <4>2 DEF tokens_of, ls
    <3>3. f[n + 1] = kept(s, l)
      BY <2>1, <2>2
    <3> HIDE DEF f, S
    <3> QED
      BY <1>2, <3>1, <3>2, <3>3, FlattenNext
  <2>5. ASSUME l.type = "error" PROVE Last(ls).type = "error"
    <3>1. l.q = Len(s)
      <4>1. lexemes_at(s, p) = {}
        BY <2>2, <2>5, LongestIsThere DEF l
      <4>2. l = [type |-> "error", p |-> p, q |-> Len(s)]
        BY <4>1 DEF l, lexeme_at
      <4> HIDE DEF p
      <4> QED
        BY <4>2
    <3>2. n + 1 = Len(ls)
      <4>1. SUFFICES ASSUME n + 1 # Len(ls) PROVE FALSE
        OBVIOUS
      <4>2. n + 2 \in 1..Len(ls) /\ (n + 2) - 1 = n + 1
        BY <1>2, <2>1, <4>1
      <4>3. after(ls, n + 1) \in 1..Len(s)
        BY <1>1, <4>2 DEF chain
      <4> QED
        BY <1>2, <2>3, <3>1, <4>3
    <3> QED
      BY <2>2, <2>5, <3>2 DEF Last
  <2> QED
    BY <1>2, <1>4, <2>1, <2>2, <2>3, <2>4, <2>5 DEF ls, l
<1> QED
  BY <1>3, <1>4

LEMMA AllTokens ==
  ASSUME NEW s \in Seq(Characters), s # <<>>
  PROVE  /\ tokens_of(s, 0) = <<>>
         /\ tokens_of(s, Len(Lexemes(s))) = reference(s, Lexemes(s))
         /\ after(Lexemes(s), 0) = 1
         /\ Len(Lexemes(s)) \in Nat
<1>1. Lexemes(s) \in Seq(LexemeSet)
  BY LexemesAreChain DEF chain
<1>2. DOMAIN Lexemes(s) = 1..Len(Lexemes(s))
  BY <1>1
<1>3. tokens_of(s, Len(Lexemes(s))) = reference(s, Lexemes(s))
  BY <1>2 DEF tokens_of, reference
<1>4. tokens_of(s, 0) = FlattenSeq(<<>>)
  <2>1. [j \in 1..0 |-> kept(s, Lexemes(s)[j])] = <<>>
    OBVIOUS
  <2> QED
    BY <2>1 DEF tokens_of
<1>5. FlattenSeq(<<>>) = <<>>
  BY DEF FlattenSeq
<1> QED
  BY <1>1, <1>3, <1>4, <1>5 DEF after

-----------------------------------------------------------------------------
(* Lexemes and their first character *)

LEMMA LexemesAt ==
  ASSUME NEW s \in Seq(Characters), NEW p \in 1..Len(s)
  PROVE  /\ \A l \in lexemes_at(s, p) :
              /\ l.type \in Types /\ l.p = p /\ l.q \in p..Len(s) /\ Lexeme(s, l.type, p, l.q)
              /\ l = [type |-> l.type, p |-> p, q |-> l.q]
         /\ \A type \in Types, q \in p..Len(s) :
              Lexeme(s, type, p, q) => [type |-> type, p |-> p, q |-> q] \in lexemes_at(s, p)
<1>1. ASSUME NEW l \in lexemes_at(s, p)
      PROVE  /\ l.type \in Types /\ l.p = p /\ l.q \in p..Len(s) /\ Lexeme(s, l.type, p, l.q)
             /\ l = [type |-> l.type, p |-> p, q |-> l.q]
  <2>1. l \in [type : Types, p : {p}, q : p..Len(s)] /\ Lexeme(s, l.type, l.p, l.q)
    BY DEF lexemes_at
  <2>2. l.type \in Types /\ l.p = p /\ l.q \in p..Len(s) /\ l = [type |-> l.type, p |-> l.p, q |-> l.q]
    BY <2>1
  <2> QED
    BY <2>1, <2>2
<1>2. ASSUME NEW type \in Types, NEW q \in p..Len(s), Lexeme(s, type, p, q)
      PROVE  [type |-> type, p |-> p, q |-> q] \in lexemes_at(s, p)
  <2> DEFINE l == [type |-> type, p |-> p, q |-> q]
  <2>1. l \in [type : Types, p : {p}, q : p..Len(s)] /\ l.type = type /\ l.p = p /\ l.q = q
    OBVIOUS
  <2> HIDE DEF l
  <2>2. l \in lexemes_at(s, p)
    BY <1>2, <2>1 DEF lexemes_at
  <2> QED
    BY <2>2 DEF l
<1> QED
  BY <1>1, <1>2

(* What is longer than all the others is the longest. *)
LEMMA LongestIs ==
  ASSUME NEW s \in Seq(Characters), NEW p \in 1..Len(s), NEW type \in Types, NEW q \in p..Len(s),
         Lexeme(s, type, p, q),
         \A l \in lexemes_at(s, p) : l.q < q \/ (l.q = q /\ l.type = type)
  PROVE  lexeme_at(s, p) = [type |-> type, p |-> p, q |-> q]
<1> DEFINE top == [type |-> type, p |-> p, q |-> q]
           l == lexeme_at(s, p)
<1>1. top \in lexemes_at(s, p)
  BY LexemesAt
<1>2. l \in lexemes_at(s, p) /\ top.q <= l.q
  BY <1>1, LongestIsThere
<1>3. l.q = q /\ l.type = type
  <2>1. l.q < q \/ (l.q = q /\ l.type = type)
    BY <1>2
  <2>2. l.q \in Nat /\ q \in Nat /\ top.q = q
    BY <1>2, LexemesAt
  <2> QED
    BY <1>2, <2>1, <2>2
<1>4. l = [type |-> l.type, p |-> p, q |-> l.q]
  BY <1>2, LexemesAt
<1> QED
  BY <1>3, <1>4

SymbolBegins == {"+", "/", "*", "=", "<"}

(* A part of a text, character by character. *)
LEMMA Slice ==
  ASSUME NEW s \in Seq(Characters), NEW p \in 1..Len(s), NEW q \in p..Len(s)
  PROVE  /\ SubSeq(s, p, q) \in Seq(Characters)
         /\ Len(SubSeq(s, p, q)) = q - p + 1
         /\ \A j \in 1..(q - p + 1) : SubSeq(s, p, q)[j] = s[p + j - 1]
         /\ SubSeq(s, p, q)[1] = s[p]
<1>1. p \in Int /\ q \in Int /\ p <= q /\ \A j \in p..q : s[j] \in Characters
  OBVIOUS
<1>2. /\ SubSeq(s, p, q) \in Seq(Characters)
      /\ Len(SubSeq(s, p, q)) = IF p <= q THEN q - p + 1 ELSE 0
      /\ \A j \in 1..(q - p + 1) : SubSeq(s, p, q)[j] = s[p + j - 1]
  BY <1>1, SubSeqProperties
<1>3. 1 \in 1..(q - p + 1) /\ p + 1 - 1 = p
  BY <1>1
<1> QED
  BY <1>1, <1>2, <1>3

LEMMA SymbolLexeme ==
  ASSUME NEW s \in Seq(Characters), NEW p \in 1..Len(s), NEW q \in p..Len(s), SubSeq(s, p, q) \in symbol_map
  PROVE  /\ s[p] \in SymbolBegins
         /\ q \in p..(p + 2)
         /\ q > p => s[p + 1] \in {"=", "<"}
<1>1. /\ Len(SubSeq(s, p, q)) = q - p + 1
      /\ \A j \in 1..(q - p + 1) : SubSeq(s, p, q)[j] = s[p + j - 1]
      /\ SubSeq(s, p, q)[1] = s[p]
  BY Slice
<1>2. \A y \in symbol_map : y[1] \in SymbolBegins /\ Len(y) \in 1..3 /\ (Len(y) > 1 => y[2] \in {"=", "<"})
  BY DEF symbol_map, SymbolBegins
<1>3. q > p => SubSeq(s, p, q)[2] = s[p + 1]
  BY <1>1
<1> DEFINE y == SubSeq(s, p, q)
<1>4. y[1] \in SymbolBegins /\ Len(y) \in 1..3 /\ (Len(y) > 1 => y[2] \in {"=", "<"})
  BY <1>2
<1>5. Len(y) = q - p + 1 /\ y[1] = s[p] /\ (q > p => y[2] = s[p + 1])
  BY <1>1, <1>3
<1> HIDE DEF y
<1> QED
  BY <1>4, <1>5

LEMMA KeywordLexeme ==
  ASSUME NEW s \in Seq(Characters), NEW p \in 1..Len(s), NEW q \in p..Len(s), SubSeq(s, p, q) \in keywords_map
  PROVE  s[p] = "a" /\ q = p + 1 /\ s[q] = "s"
<1>1. /\ Len(SubSeq(s, p, q)) = q - p + 1
      /\ \A j \in 1..(q - p + 1) : SubSeq(s, p, q)[j] = s[p + j - 1]
      /\ SubSeq(s, p, q)[1] = s[p]
  BY Slice
<1>2. SubSeq(s, p, q) = <<"a", "s">>
  BY DEF keywords_map
<1> QED
  BY <1>1, <1>2

(* The first character says which lexemes there can be. *)
LEMMA FirstCharacter ==
  ASSUME NEW s \in Seq(Characters), NEW p \in 1..Len(s), NEW l \in lexemes_at(s, p)
  PROVE  /\ l.type = "blank" => s[p] \in Blanks
         /\ l.type \in Comments => s[p] = "/"
         /\ l.type \in Words => s[p] \in is_not_symbol
         /\ l.type = "symbol" => s[p] \in SymbolBegins
         /\ l.type = "char" => s[p] = "'"
         /\ l.type = "string" => s[p] = quote
         /\ l.type = "raw_string" => s[p] = "r"
<1>1. l.type \in Types /\ l.q \in p..Len(s) /\ Lexeme(s, l.type, p, l.q)
  BY LexemesAt
<1>2. l.type = "blank" => s[p] \in Blanks
  BY <1>1 DEF Lexeme
<1>3. l.type \in Comments => s[p] = "/"
  BY <1>1 DEF Lexeme, Comments, opens
<1>4. l.type \in {"number", "identifier"} => s[p] \in is_not_symbol
  BY <1>1 DEF Lexeme, is_not_symbol
<1>5. l.type = "keyword" => s[p] \in is_not_symbol
  <2>1. l.type = "keyword" => SubSeq(s, p, l.q) \in keywords_map
    BY <1>1 DEF Lexeme
  <2> QED
    BY <1>1, <2>1, KeywordLexeme DEF is_not_symbol, Letters
<1>6. l.type = "symbol" => s[p] \in SymbolBegins
  <2>1. l.type = "symbol" => SubSeq(s, p, l.q) \in symbol_map
    BY <1>1 DEF Lexeme
  <2> QED
    BY <1>1, <2>1, SymbolLexeme
<1>7. l.type = "char" => s[p] = "'"
  BY <1>1 DEF Lexeme, quoted
<1>8. l.type = "string" => s[p] = quote
  BY <1>1 DEF Lexeme, quoted
<1>9. l.type = "raw_string" => s[p] = "r"
  BY <1>1 DEF Lexeme, raw, opens_raw
<1> QED
  BY <1>2, <1>3, <1>4, <1>5, <1>6, <1>7, <1>8, <1>9 DEF Words

(* Which types are told apart by the first character. *)
LEMMA TypesApart ==
  /\ Types = {"identifier", "number", "keyword", "line_comment", "block_comment", "blank", "symbol", "char", "string", "raw_string"}
  /\ Words = {"identifier", "number", "keyword"}
  /\ Comments = {"line_comment", "block_comment"}
  /\ is_not_symbol = {"a", "n", "r", "s", "0", "1"}
  /\ Blanks = {space, "\n"}
  /\ SymbolBegins = {"+", "/", "*", "=", "<"}
BY DEF Types, Words, Comments, is_not_symbol, Letters, Digits, Blanks, SymbolBegins

(* Characters that are told apart. *)
LEMMA CharactersApart ==
  /\ quote \notin {"a", "n", "r", "s", "0", "1", "+", "/", "*", "=", "<", "'", "#", "\\", "\n"}
  /\ space \notin {"a", "n", "r", "s", "0", "1", "+", "/", "*", "=", "<", "'", "#", "\\", "\n"}
  /\ quote # space
<1>1. quote # space
  BY Zenon DEF quote, space
<1>2. quote \notin {"a", "n", "r", "s", "0", "1", "+", "/", "*", "=", "<", "'", "#", "\\", "\n"}
  BY Zenon DEF quote
<1>3. space \notin {"a", "n", "r", "s", "0", "1", "+", "/", "*", "=", "<", "'", "#", "\\", "\n"}
  BY Zenon DEF space
<1> QED
  BY <1>1, <1>2, <1>3

LEMMA Bounds ==
  ASSUME NEW s \in Seq(Characters), NEW p \in 1..Len(s)
  PROVE  Len(s) \in Nat /\ p \in Nat /\ 1 <= p /\ p <= Len(s)
OBVIOUS

LEMMA BlankAt ==
  ASSUME NEW s \in Seq(Characters), NEW p \in 1..Len(s), s[p] \in Blanks
  PROVE  lexeme_at(s, p) = [type |-> "blank", p |-> p, q |-> p] /\ kept(s, lexeme_at(s, p)) = <<>>
<1>1. Lexeme(s, "blank", p, p) /\ "blank" \in Types /\ p \in p..Len(s)
  BY DEF Lexeme, Types
<1>2. ASSUME NEW l \in lexemes_at(s, p) PROVE l.q < p \/ (l.q = p /\ l.type = "blank")
  <2>1. l.type = "blank"
    <3>1. l.type \in Types
      BY LexemesAt
    <3> QED
      BY <3>1, FirstCharacter, TypesApart, CharactersApart
  <2>2. Lexeme(s, l.type, p, l.q)
    BY LexemesAt
  <2>3. l.q = p
    BY <2>1, <2>2 DEF Lexeme
  <2> QED
    BY <2>1, <2>3
<1>3. lexeme_at(s, p) = [type |-> "blank", p |-> p, q |-> p]
  BY <1>1, <1>2, LongestIs
<1> QED
  BY <1>3 DEF kept

(* No lexeme begins with another character. *)
LEMMA NothingAt ==
  ASSUME NEW s \in Seq(Characters), NEW p \in 1..Len(s),
         s[p] \notin is_not_symbol \cup Blanks \cup SymbolBegins \cup {"'", quote}
  PROVE  lexeme_at(s, p).type = "error"
<1>1. ASSUME NEW l \in lexemes_at(s, p) PROVE FALSE
  <2>1. l.type \in Types
    BY LexemesAt
  <2> QED
    BY <2>1, FirstCharacter, TypesApart, CharactersApart
<1> QED
  BY <1>1, LongestIsThere

-----------------------------------------------------------------------------
(* Words *)

(* A raw string may begin at p. *)
raw_opens(s, p) == p < Len(s) /\ s[p] = "r" /\ s[p + 1] \in {quote, "#"}

word_type(s, p, q) ==
  IF s[p] \in Digits THEN "number" ELSE IF SubSeq(s, p, q) \in keywords_map THEN "keyword" ELSE "identifier"

LEMMA RawOpens ==
  ASSUME NEW s \in Seq(Characters), NEW p \in 1..Len(s), NEW q \in p..Len(s), Lexeme(s, "raw_string", p, q)
  PROVE  raw_opens(s, p)
<1>0. Len(s) \in Nat /\ p \in Nat /\ q \in Nat /\ p <= q
  BY Bounds
<1>1. PICK n \in 0..(q - p) : p + n + 1 <= Len(s) /\ opens_raw(s, p, n)
  <2>1. \E n \in 0..(q - p) : p + n + 1 <= Len(s) /\ raw(s, p, q, n)
    BY DEF Lexeme
  <2> QED
    BY <2>1 DEF raw
<1>2. p + 1 <= Len(s) /\ s[p] = "r"
  BY <1>0, <1>1 DEF opens_raw
<1>3. s[p + 1] \in {quote, "#"}
  <2>1. CASE n = 0
    BY <1>0, <1>1, <2>1 DEF opens_raw
  <2>2. CASE n # 0
    <3>1. 1 \in 1..n
      BY <1>0, <1>1, <2>2
    <3> QED
      BY <1>0, <1>1, <3>1 DEF opens_raw
  <2> QED
    BY <2>1, <2>2
<1> QED
  BY <1>0, <1>2, <1>3 DEF raw_opens

(* A word of any type consists of word characters. *)
LEMMA WordLexeme ==
  ASSUME NEW s \in Seq(Characters), NEW p \in 1..Len(s), NEW q \in p..Len(s), NEW type \in Words,
         Lexeme(s, type, p, q)
  PROVE  (\A j \in p..q : s[j] \in is_not_symbol) /\ type = word_type(s, p, q)
<1>1. Digits \cap Letters = {} /\ "a" \in Letters /\ "s" \in is_not_symbol /\ "a" \in is_not_symbol
  BY DEF Digits, Letters, is_not_symbol
<1>2. type \in {"number", "keyword", "identifier"}
  BY DEF Words
<1>3. CASE type = "number"
  BY <1>3 DEF Lexeme, word_type
<1>4. CASE type = "identifier"
  BY <1>1, <1>4 DEF Lexeme, word_type
<1>5. CASE type = "keyword"
  <2>1. SubSeq(s, p, q) \in keywords_map
    BY <1>5 DEF Lexeme
  <2>2. s[p] = "a" /\ q = p + 1 /\ s[q] = "s"
    BY <2>1, KeywordLexeme
  <2>3. \A j \in p..q : j = p \/ j = q
    BY <2>2
  <2> QED
    BY <1>1, <1>5, <2>1, <2>2, <2>3 DEF word_type
<1> QED
  BY <1>2, <1>3, <1>4, <1>5

LEMMA WordAt ==
  ASSUME NEW s \in Seq(Characters), NEW p \in 1..Len(s), NEW e \in p..Len(s),
         \A j \in p..e : s[j] \in is_not_symbol,
         e < Len(s) => s[e + 1] \notin is_not_symbol,
         ~raw_opens(s, p) \/ \A q \in p..Len(s) : ~Lexeme(s, "raw_string", p, q)
  PROVE  /\ lexeme_at(s, p) = [type |-> word_type(s, p, e), p |-> p, q |-> e]
         /\ word_type(s, p, e) \in Words
         /\ kept(s, lexeme_at(s, p)) = <<Token(word_type(s, p, e), SubSeq(s, p, e))>>
<1> DEFINE type == word_type(s, p, e)
<1>1. type \in Words /\ type \in Types
  BY DEF word_type, Words, Types
<1>2. Lexeme(s, type, p, e)
  <2>1. s[p] \in is_not_symbol
    OBVIOUS
  <2> QED
    BY <2>1 DEF word_type, Lexeme, is_not_symbol
<1>3. ASSUME NEW l \in lexemes_at(s, p) PROVE l.q < e \/ (l.q = e /\ l.type = type)
  <2>1. l.type \in Types /\ l.q \in p..Len(s) /\ Lexeme(s, l.type, p, l.q)
    BY LexemesAt
  <2>2. s[p] \in is_not_symbol
    OBVIOUS
  <2>3. l.type \in Words \cup {"raw_string"}
    BY <2>1, <2>2, FirstCharacter, TypesApart, CharactersApart
  <2>4. l.type # "raw_string"
    BY <2>1, RawOpens
  <2>5. (\A j \in p..l.q : s[j] \in is_not_symbol) /\ l.type = word_type(s, p, l.q)
    BY <2>1, <2>3, <2>4, WordLexeme
  <2>6. l.q <= e
    <3> SUFFICES ASSUME ~(l.q <= e) PROVE FALSE
      OBVIOUS
    <3>1. e + 1 \in p..l.q /\ e < Len(s)
      BY <2>1
    <3> QED
      BY <2>5, <3>1
  <2> QED
    BY <2>1, <2>5, <2>6
<1>4. lexeme_at(s, p) = [type |-> type, p |-> p, q |-> e]
  <2> HIDE DEF type
  <2> QED
    BY <1>1, <1>2, <1>3, LongestIs
<1>5. type \notin Comments \cup {"blank"} /\ type # "raw_string" /\ type \notin {"char", "string"}
  <2> HIDE DEF type
  <2> QED
    BY <1>1, TypesApart
<1> HIDE DEF type
<1>6. kept(s, [type |-> type, p |-> p, q |-> e]) = <<Token(type, SubSeq(s, p, e))>>
  BY <1>5 DEF kept, type_of, value
<1> QED
  BY <1>1, <1>4, <1>6 DEF type

-----------------------------------------------------------------------------
(* Comments and symbols *)

LEMMA LineCommentAt ==
  ASSUME NEW s \in Seq(Characters), NEW p \in 1..Len(s), NEW q \in (p + 2)..Len(s), opens(s, p, "/"),
         s[q] = "\n", \A j \in (p + 2)..(q - 1) : s[j] # "\n"
  PROVE  lexeme_at(s, p) = [type |-> "line_comment", p |-> p, q |-> q] /\ kept(s, lexeme_at(s, p)) = <<>>
<1>1. "line_comment" \in Types /\ q \in p..Len(s)
  BY DEF Types, Comments
<1>2. Lexeme(s, "line_comment", p, q)
  <2>1. \A j \in p..(q - 1) : j = p \/ j = p + 1 \/ j \in (p + 2)..(q - 1)
    OBVIOUS
  <2>2. s[p] = "/" /\ s[p + 1] = "/"
    BY DEF opens
  <2>3. \A j \in p..(q - 1) : s[j] # "\n"
    BY <2>1, <2>2
  <2>4. q > p + 1
    OBVIOUS
  <2> QED
    BY <2>3, <2>4 DEF Lexeme
<1>3. ASSUME NEW l \in lexemes_at(s, p) PROVE l.q < q \/ (l.q = q /\ l.type = "line_comment")
  <2>1. l.type \in Types /\ l.q \in p..Len(s) /\ Lexeme(s, l.type, p, l.q)
    BY LexemesAt
  <2>2. s[p] = "/" /\ s[p + 1] = "/"
    BY DEF opens
  <2>3. l.type \in {"line_comment", "block_comment", "symbol"}
    BY <2>1, <2>2, FirstCharacter, TypesApart, CharactersApart
  <2>4. CASE l.type = "line_comment"
    <3>1. l.q > p + 1 /\ s[l.q] = "\n" /\ \A j \in p..(l.q - 1) : s[j] # "\n"
      BY <2>1, <2>4 DEF Lexeme
    <3>2. ~(l.q < q)
      BY <2>1, <3>1
    <3>3. ~(l.q > q)
      BY <2>1, <3>1
    <3> QED
      BY <2>1, <2>4, <3>2, <3>3
  <2>5. CASE l.type = "block_comment"
    BY <2>1, <2>2, <2>5 DEF Lexeme, opens
  <2>6. CASE l.type = "symbol"
    <3>1. SubSeq(s, p, l.q) \in symbol_map
      BY <2>1, <2>6 DEF Lexeme
    <3>2. l.q > p => s[p + 1] \in {"=", "<"}
      BY <2>1, <3>1, SymbolLexeme
    <3> QED
      BY <2>1, <2>2, <3>2
  <2> QED
    BY <2>3, <2>4, <2>5, <2>6
<1>4. lexeme_at(s, p) = [type |-> "line_comment", p |-> p, q |-> q]
  BY <1>1, <1>2, <1>3, LongestIs
<1> QED
  BY <1>4 DEF kept, Comments

(* Only block comments begin like one. *)
LEMMA BlockCommentLexeme ==
  ASSUME NEW s \in Seq(Characters), NEW p \in 1..Len(s), opens(s, p, "*"), NEW l \in lexemes_at(s, p)
  PROVE  /\ l.type = "block_comment" /\ l.q \in (p + 3)..Len(s) /\ closes_comment(s, l.q)
         /\ \A j \in (p + 3)..(l.q - 1) : ~closes_comment(s, j)
<1>1. l.type \in Types /\ l.q \in p..Len(s) /\ Lexeme(s, l.type, p, l.q)
  BY LexemesAt
<1>2. s[p] = "/" /\ s[p + 1] = "*"
  BY DEF opens
<1>3. l.type \in {"line_comment", "block_comment", "symbol"}
  BY <1>1, <1>2, FirstCharacter, TypesApart, CharactersApart
<1>4. l.type # "symbol"
  BY <1>1 DEF Lexeme
<1>5. l.type # "line_comment"
  BY <1>1, <1>2 DEF Lexeme, opens
<1>6. l.type = "block_comment"
  BY <1>3, <1>4, <1>5
<1>7. l.q > p + 2 /\ closes_comment(s, l.q) /\ \A j \in (p + 3)..(l.q - 1) : ~closes_comment(s, j)
  BY <1>1, <1>6 DEF Lexeme
<1> QED
  BY <1>1, <1>6, <1>7

LEMMA BlockCommentAt ==
  ASSUME NEW s \in Seq(Characters), NEW p \in 1..Len(s), NEW q \in (p + 3)..Len(s), opens(s, p, "*"),
         closes_comment(s, q), \A j \in (p + 3)..(q - 1) : ~closes_comment(s, j)
  PROVE  lexeme_at(s, p) = [type |-> "block_comment", p |-> p, q |-> q] /\ kept(s, lexeme_at(s, p)) = <<>>
<1>1. "block_comment" \in Types /\ q \in p..Len(s)
  BY DEF Types, Comments
<1>2. Lexeme(s, "block_comment", p, q)
  <2>1. q > p + 2
    OBVIOUS
  <2> QED
    BY <2>1 DEF Lexeme
<1>3. ASSUME NEW l \in lexemes_at(s, p) PROVE l.q < q \/ (l.q = q /\ l.type = "block_comment")
  <2>1. /\ l.type = "block_comment" /\ l.q \in (p + 3)..Len(s) /\ closes_comment(s, l.q)
        /\ \A j \in (p + 3)..(l.q - 1) : ~closes_comment(s, j)
    BY BlockCommentLexeme
  <2>2. ~(l.q > q)
    BY <2>1
  <2> QED
    BY <2>1, <2>2
<1>4. lexeme_at(s, p) = [type |-> "block_comment", p |-> p, q |-> q]
  BY <1>1, <1>2, <1>3, LongestIs
<1> QED
  BY <1>4 DEF kept, Comments

LEMMA OpenBlockComment ==
  ASSUME NEW s \in Seq(Characters), NEW p \in 1..Len(s), opens(s, p, "*"),
         \A j \in (p + 3)..Len(s) : ~closes_comment(s, j)
  PROVE  lexeme_at(s, p).type = "error"
<1>1. lexemes_at(s, p) = {}
  BY BlockCommentLexeme
<1> QED
  BY <1>1, LongestIsThere

LEMMA SymbolAt ==
  ASSUME NEW s \in Seq(Characters), NEW p \in 1..Len(s), NEW e \in p..Len(s),
         ~opens(s, p, "*"), ~opens(s, p, "/"), SubSeq(s, p, e) \in symbol_map,
         \A q \in p..Len(s) : SubSeq(s, p, q) \in symbol_map => q <= e
  PROVE  /\ lexeme_at(s, p) = [type |-> "symbol", p |-> p, q |-> e]
         /\ kept(s, lexeme_at(s, p)) = <<Token("symbol", SubSeq(s, p, e))>>
<1>1. "symbol" \in Types
  BY DEF Types
<1>2. Lexeme(s, "symbol", p, e)
  BY DEF Lexeme
<1>3. ASSUME NEW l \in lexemes_at(s, p) PROVE l.q < e \/ (l.q = e /\ l.type = "symbol")
  <2>1. l.type \in Types /\ l.q \in p..Len(s) /\ Lexeme(s, l.type, p, l.q)
    BY LexemesAt
  <2>2. s[p] \in SymbolBegins
    BY SymbolLexeme
  <2>3. l.type \in {"line_comment", "block_comment", "symbol"}
    BY <2>1, <2>2, FirstCharacter, TypesApart, CharactersApart
  <2>4. l.type # "line_comment"
    BY <2>1 DEF Lexeme
  <2>5. l.type # "block_comment"
    BY <2>1 DEF Lexeme
  <2>6. SubSeq(s, p, l.q) \in symbol_map
    BY <2>1, <2>3, <2>4, <2>5 DEF Lexeme
  <2>7. l.q <= e
    BY <2>1, <2>6
  <2> QED
    BY <2>1, <2>3, <2>4, <2>5, <2>7
<1>4. lexeme_at(s, p) = [type |-> "symbol", p |-> p, q |-> e]
  BY <1>1, <1>2, <1>3, LongestIs
<1> QED
  BY <1>4 DEF kept, Comments, type_of, value

(* A slash is at least a symbol. *)
LEMMA NoSymbolAt ==
  ASSUME NEW s \in Seq(Characters), NEW p \in 1..Len(s),
         \A q \in p..Len(s) : SubSeq(s, p, q) \notin symbol_map
  PROVE  s[p] \notin SymbolBegins
<1>1. p \in p..Len(s)
  OBVIOUS
<1>2. SubSeq(s, p, p) = <<s[p]>>
  <2>1. Len(SubSeq(s, p, p)) = 1 /\ SubSeq(s, p, p)[1] = s[p] /\ SubSeq(s, p, p) \in Seq(Characters)
    BY <1>1, Slice
  <2> DEFINE y == SubSeq(s, p, p)
  <2> HIDE DEF y
  <2>2. Len(y) = 1 /\ y[1] = s[p] /\ y \in Seq(Characters)
    BY <2>1 DEF y
  <2>3. y = <<s[p]>>
    BY <2>2
  <2> QED
    BY <2>3 DEF y
<1>3. \A c \in SymbolBegins : <<c>> \in symbol_map
  BY DEF SymbolBegins, symbol_map
<1> QED
  BY <1>1, <1>2, <1>3

-----------------------------------------------------------------------------
(* Literals *)

(* The number of backslashes before p is a greatest one. *)
LEMMA BackslashesCounted ==
  ASSUME NEW s, NEW open \in Nat, NEW p \in Nat, p > open
  PROVE  /\ backslashes(s, open, p) \in SUBSET (0..(p - open - 1))
         /\ Max(backslashes(s, open, p)) \in backslashes(s, open, p)
         /\ \A n \in backslashes(s, open, p) : n <= Max(backslashes(s, open, p))
<1> DEFINE B == backslashes(s, open, p)
<1>1. p - open - 1 \in Nat
  OBVIOUS
<1>2. B \in SUBSET (0..(p - open - 1))
  BY DEF backslashes
<1>3. 0 \in B
  <2>1. (p - 0)..(p - 1) = {}
    OBVIOUS
  <2> QED
    BY <1>1, <2>1 DEF backslashes
<1> HIDE DEF B
<1>4. \E n \in B : \A m \in B : m <= n
  BY <1>1, <1>2, <1>3, Greatest
<1>5. \E n \in B : \A m \in B : n >= m
  BY <1>2, <1>4
<1>6. Max(B) \in B /\ \A m \in B : Max(B) >= m
  BY <1>5 DEF Max
<1>7. \A m \in B : m <= Max(B)
  BY <1>2, <1>6
<1> QED
  BY <1>2, <1>6, <1>7 DEF B

LEMMA EscapedFirst ==
  ASSUME NEW s, NEW open \in Nat
  PROVE  ~escaped(s, open, open + 1)
<1>1. backslashes(s, open, open + 1) \in SUBSET (0..((open + 1) - open - 1))
  BY BackslashesCounted
<1>2. Max(backslashes(s, open, open + 1)) \in backslashes(s, open, open + 1)
  BY BackslashesCounted
<1>3. Max(backslashes(s, open, open + 1)) = 0
  BY <1>1, <1>2
<1> QED
  BY <1>3 DEF escaped

(* A character is escaped by a backslash that is not escaped itself. *)
LEMMA EscapedNext ==
  ASSUME NEW s, NEW open \in Nat, NEW p \in Nat, p > open
  PROVE  escaped(s, open, p + 1) <=> s[p] = "\\" /\ ~escaped(s, open, p)
<1> DEFINE B == backslashes(s, open, p)
           C == backslashes(s, open, p + 1)
           b == Max(B)
           c == Max(C)
<1>1. B \in SUBSET (0..(p - open - 1)) /\ b \in B /\ \A n \in B : n <= b
  BY BackslashesCounted
<1>2. C \in SUBSET (0..((p + 1) - open - 1)) /\ c \in C /\ \A n \in C : n <= c
  BY BackslashesCounted
<1>3. CASE s[p] = "\\"
  <2>1. ASSUME NEW n \in B PROVE n + 1 \in C
    <3>1. n \in 0..(p - open - 1) /\ \A j \in (p - n)..(p - 1) : s[j] = "\\"
      BY DEF backslashes
    <3>2. n + 1 \in 0..((p + 1) - open - 1)
      BY <3>1
    <3>3. ASSUME NEW j \in ((p + 1) - (n + 1))..((p + 1) - 1) PROVE s[j] = "\\"
      <4>1. j = p \/ j \in (p - n)..(p - 1)
        BY <3>1
      <4> QED
        BY <1>3, <3>1, <4>1
    <3> QED
      BY <3>2, <3>3 DEF backslashes
  <2>2. ASSUME NEW n \in C, n # 0 PROVE n - 1 \in B
    <3>1. n \in 0..((p + 1) - open - 1) /\ \A j \in ((p + 1) - n)..((p + 1) - 1) : s[j] = "\\"
      BY DEF backslashes
    <3>2. n - 1 \in 0..(p - open - 1)
      BY <2>2, <3>1
    <3>3. ASSUME NEW j \in (p - (n - 1))..(p - 1) PROVE s[j] = "\\"
      <4>1. j \in ((p + 1) - n)..((p + 1) - 1)
        BY <3>1
      <4> QED
        BY <3>1, <4>1
    <3> QED
      BY <3>2, <3>3 DEF backslashes
  <2>3. b + 1 \in C
    BY <1>1, <2>1
  <2> HIDE DEF B, C, b, c
  <2>4. b \in Nat /\ c \in Nat /\ b + 1 <= c
    BY <1>1, <1>2, <2>3
  <2>5. c - 1 \in B
    BY <1>2, <2>2, <2>4
  <2>6. c = b + 1
    BY <1>1, <2>4, <2>5
  <2>7. c % 2 = 1 <=> b % 2 # 1
    BY <2>4, <2>6
  <2> QED
    BY <1>3, <2>7 DEF escaped, b, c, B, C
<1>4. CASE s[p] # "\\"
  <2>1. ASSUME NEW n \in C, n # 0 PROVE FALSE
    <3>1. n \in 0..((p + 1) - open - 1) /\ \A j \in ((p + 1) - n)..((p + 1) - 1) : s[j] = "\\"
      BY DEF backslashes
    <3>2. p \in ((p + 1) - n)..((p + 1) - 1)
      BY <2>1, <3>1
    <3> QED
      BY <1>4, <3>1, <3>2
  <2>2. c = 0
    BY <1>2, <2>1
  <2> QED
    BY <1>4, <2>2 DEF escaped
<1> QED
  BY <1>3, <1>4

(* What the content of a literal consists of. *)
characters(s) == {s[j] : j \in 1..Len(s)} \cup {"\n"}

LEMMA SaidInSeq ==
  ASSUME NEW s \in Seq(Characters), NEW open, NEW p \in 1..Len(s)
  PROVE  said(s, open, p) \in Seq(characters(s)) /\ <<s[p]>> \in Seq(characters(s)) /\ s[p] \in characters(s)
<1> DEFINE S == characters(s)
<1>1. s[p] \in S /\ "\n" \in S
  BY DEF characters
<1> HIDE DEF S
<1>2. <<s[p]>> \in Seq(S) /\ <<"\n">> \in Seq(S) /\ <<>> \in Seq(S)
  BY <1>1
<1>3. said(s, open, p) \in Seq(S)
  BY <1>2 DEF said
<1> QED
  BY <1>1, <1>2, <1>3 DEF S

(* The content of a literal, character by character. *)
LEMMA ContentNext ==
  ASSUME NEW s \in Seq(Characters), NEW p \in 1..Len(s), NEW q \in (p + 1)..Len(s)
  PROVE  /\ content(s, p, p + 1) = <<>>
         /\ content(s, p, q + 1) = content(s, p, q) \o said(s, p, q)
         /\ content(s, p, q) \in Seq(characters(s))
<1> DEFINE n == q - p - 1
           f == [j \in 1..(n + 1) |-> said(s, p, p + j)]
<1>0. Len(s) \in Nat /\ p \in Nat /\ q \in Nat /\ n \in Nat
  BY Bounds
<1>1. content(s, p, p + 1) = <<>>
  <2>1. [j \in 1..((p + 1) - p - 1) |-> said(s, p, p + j)] = <<>>
    BY <1>0
  <2>2. FlattenSeq(<<>>) = <<>>
    BY DEF FlattenSeq
  <2> QED
    BY <2>1, <2>2 DEF content
<1>2. ASSUME NEW j \in 1..(n + 1) PROVE f[j] \in Seq(characters(s))
  <2>1. f[j] = said(s, p, p + j)
    OBVIOUS
  <2>2. p + j \in 1..Len(s)
    BY <1>0
  <2> QED
    BY <2>1, <2>2, SaidInSeq
<1>3. content(s, p, q) = FlattenSeq([j \in 1..n |-> f[j]])
  <2>1. [j \in 1..n |-> f[j]] = [j \in 1..n |-> said(s, p, p + j)]
    BY <1>0
  <2> QED
    BY <2>1 DEF content
<1>4. content(s, p, q + 1) = FlattenSeq([j \in 1..(n + 1) |-> f[j]])
  <2>1. (q + 1) - p - 1 = n + 1
    BY <1>0
  <2> QED
    BY <2>1 DEF content
<1>5. f[n + 1] = said(s, p, q)
  BY <1>0
<1> HIDE DEF n, f
<1>6. /\ FlattenSeq([j \in 1..n |-> f[j]]) \in Seq(characters(s))
      /\ FlattenSeq([j \in 1..(n + 1) |-> f[j]]) = FlattenSeq([j \in 1..n |-> f[j]]) \o f[n + 1]
  <2>1. n \in Nat
    BY <1>0
  <2> QED
    BY <1>2, <2>1, FlattenNext
<1> QED
  BY <1>1, <1>3, <1>4, <1>5, <1>6

(* What the scanner has read of a literal that was opened at p. *)
literal_upto(s, p, j, mark) ==
  /\ s[p] = mark /\ j \in (p + 1)..(Len(s) + 1) /\ ~escaped(s, p, j)
  /\ \A m \in (p + 1)..(j - 1) : within(s, p, m, mark)

LEMMA LiteralOpened ==
  ASSUME NEW s \in Seq(Characters), NEW p \in 1..Len(s)
  PROVE  literal_upto(s, p, p + 1, s[p])
<1>0. Len(s) \in Nat /\ p \in Nat /\ p <= Len(s)
  BY Bounds
<1>1. ~escaped(s, p, p + 1)
  BY <1>0, EscapedFirst
<1>2. (p + 1)..((p + 1) - 1) = {}
  BY <1>0
<1> QED
  BY <1>0, <1>1, <1>2 DEF literal_upto

(* A character that is neither the mark nor a backslash. *)
LEMMA LiteralPlain ==
  ASSUME NEW s \in Seq(Characters), NEW p \in 1..Len(s), NEW j \in (p + 1)..Len(s), NEW mark,
         literal_upto(s, p, j, mark), s[j] # mark, s[j] # "\\"
  PROVE  literal_upto(s, p, j + 1, mark) /\ said(s, p, j) = <<s[j]>>
<1>0. Len(s) \in Nat /\ p \in Nat /\ j \in Nat /\ j > p /\ j <= Len(s)
  BY Bounds
<1>1. ~escaped(s, p, j) /\ ~escaped(s, p, j + 1)
  BY <1>0, EscapedNext DEF literal_upto
<1>2. within(s, p, j, mark)
  BY <1>1 DEF within
<1>3. \A m \in (p + 1)..((j + 1) - 1) : m = j \/ m \in (p + 1)..(j - 1)
  BY <1>0
<1>4. \A m \in (p + 1)..((j + 1) - 1) : within(s, p, m, mark)
  BY <1>2, <1>3 DEF literal_upto
<1>5. j + 1 \in (p + 1)..(Len(s) + 1) /\ s[p] = mark
  BY <1>0 DEF literal_upto
<1> QED
  BY <1>1, <1>4, <1>5 DEF literal_upto, said

escapes == {"n", "0", "\\", "'", quote}

(* A backslash and what it escapes. *)
LEMMA LiteralEscape ==
  ASSUME NEW s \in Seq(Characters), NEW p \in 1..Len(s), NEW j \in (p + 1)..Len(s), NEW mark \in {"'", quote},
         literal_upto(s, p, j, mark), s[j] = "\\", j + 1 <= Len(s), s[j + 1] \in escapes
  PROVE  /\ literal_upto(s, p, j + 2, mark)
         /\ said(s, p, j) = <<>>
         /\ said(s, p, j + 1) = get_escape_character[s[j + 1]]
<1>0. Len(s) \in Nat /\ p \in Nat /\ j \in Nat /\ j > p /\ j + 1 <= Len(s) /\ j + 2 = (j + 1) + 1
  BY Bounds
<1>1. ~escaped(s, p, j) /\ escaped(s, p, j + 1)
  BY <1>0, EscapedNext DEF literal_upto
<1>2. ~escaped(s, p, j + 2)
  BY <1>0, <1>1, EscapedNext
<1>3. within(s, p, j, mark)
  BY <1>1, CharactersApart DEF within
<1>4. within(s, p, j + 1, mark)
  BY <1>1 DEF within, escapes
<1>5. \A m \in (p + 1)..((j + 2) - 1) : m = j \/ m = j + 1 \/ m \in (p + 1)..(j - 1)
  BY <1>0
<1>6. \A m \in (p + 1)..((j + 2) - 1) : within(s, p, m, mark)
  BY <1>3, <1>4, <1>5 DEF literal_upto
<1>7. j + 2 \in (p + 1)..(Len(s) + 1) /\ s[p] = mark
  BY <1>0 DEF literal_upto
<1>8. said(s, p, j) = <<>>
  BY <1>1 DEF said
<1>9. said(s, p, j + 1) = get_escape_character[s[j + 1]]
  BY <1>1 DEF said, get_escape_character, escapes
<1> QED
  BY <1>2, <1>6, <1>7, <1>8, <1>9 DEF literal_upto

(* The literal ends at the first mark that is not escaped. *)
LEMMA LiteralEnds ==
  ASSUME NEW s \in Seq(Characters), NEW p \in 1..Len(s), NEW j \in (p + 1)..Len(s), NEW mark,
         literal_upto(s, p, j, mark), s[j] = mark
  PROVE  quoted(s, p, j, mark) /\ \A q \in p..Len(s) : quoted(s, p, q, mark) => q = j
<1>0. Len(s) \in Nat /\ p \in Nat /\ j \in Nat /\ j > p
  BY Bounds
<1>1. quoted(s, p, j, mark)
  BY <1>0 DEF quoted, literal_upto
<1>2. ASSUME NEW q \in p..Len(s), quoted(s, p, q, mark) PROVE q = j
  <2>1. q > p /\ s[q] = mark /\ ~escaped(s, p, q) /\ \A m \in (p + 1)..(q - 1) : within(s, p, m, mark)
    BY <1>2 DEF quoted
  <2>2. ~(q < j)
    <3> SUFFICES ASSUME q < j PROVE FALSE
      OBVIOUS
    <3>1. q \in (p + 1)..(j - 1)
      BY <1>0, <2>1
    <3> QED
      BY <2>1, <3>1 DEF literal_upto, within
  <2>3. ~(q > j)
    <3> SUFFICES ASSUME q > j PROVE FALSE
      OBVIOUS
    <3>1. j \in (p + 1)..(q - 1)
      BY <1>0
    <3> QED
      BY <2>1, <3>1 DEF literal_upto, within
  <2> QED
    BY <1>0, <2>2, <2>3
<1> QED
  BY <1>1, <1>2

(* No literal ends where the text or its escapes give out. *)
LEMMA LiteralBroken ==
  ASSUME NEW s \in Seq(Characters), NEW p \in 1..Len(s), NEW j \in (p + 1)..(Len(s) + 1), NEW mark \in {"'", quote},
         literal_upto(s, p, j, mark),
         j <= Len(s) => s[j] = "\\" /\ (j + 1 <= Len(s) => s[j + 1] \notin escapes)
  PROVE  \A q \in p..Len(s) : ~quoted(s, p, q, mark)
<1>0. Len(s) \in Nat /\ p \in Nat /\ j \in Nat /\ j > p
  BY Bounds
<1> SUFFICES ASSUME NEW q \in p..Len(s), quoted(s, p, q, mark) PROVE FALSE
  OBVIOUS
<1>1. q > p /\ s[q] = mark /\ ~escaped(s, p, q) /\ \A m \in (p + 1)..(q - 1) : within(s, p, m, mark)
  BY DEF quoted
<1>2. ~(q < j)
  <2> SUFFICES ASSUME q < j PROVE FALSE
    OBVIOUS
  <2>1. q \in (p + 1)..(j - 1)
    BY <1>0, <1>1
  <2> QED
    BY <1>1, <2>1 DEF literal_upto, within
<1>3. j <= Len(s) /\ q \in Nat /\ q <= Len(s)
  BY <1>0, <1>2
<1>4. s[j] = "\\" /\ ~escaped(s, p, j)
  BY <1>3 DEF literal_upto
<1>5. q # j
  BY <1>1, <1>4, CharactersApart
<1>6. escaped(s, p, j + 1)
  BY <1>0, <1>4, EscapedNext
<1>7. q # j + 1
  BY <1>1, <1>6
<1>8. j + 1 \in (p + 1)..(q - 1) /\ j + 1 <= Len(s)
  BY <1>0, <1>2, <1>3, <1>5, <1>7
<1>9. s[j + 1] \in escapes
  BY <1>1, <1>6, <1>8 DEF within, escapes
<1> QED
  BY <1>3, <1>8, <1>9

LEMMA StringAt ==
  ASSUME NEW s \in Seq(Characters), NEW p \in 1..Len(s), NEW j \in (p + 1)..Len(s),
         literal_upto(s, p, j, quote), s[j] = quote
  PROVE  /\ lexeme_at(s, p) = [type |-> "string", p |-> p, q |-> j]
         /\ kept(s, lexeme_at(s, p)) = <<Token("string", content(s, p, j))>>
<1>1. "string" \in Types /\ j \in p..Len(s)
  BY TypesApart
<1>2. quoted(s, p, j, quote) /\ \A q \in p..Len(s) : quoted(s, p, q, quote) => q = j
  BY LiteralEnds
<1>3. Lexeme(s, "string", p, j)
  BY <1>2 DEF Lexeme
<1>4. ASSUME NEW l \in lexemes_at(s, p) PROVE l.q < j \/ (l.q = j /\ l.type = "string")
  <2>1. l.type \in Types /\ l.q \in p..Len(s) /\ Lexeme(s, l.type, p, l.q)
    BY LexemesAt
  <2>2. s[p] = quote
    BY DEF literal_upto
  <2>3. l.type = "string"
    BY <2>1, <2>2, FirstCharacter, TypesApart, CharactersApart
  <2>4. quoted(s, p, l.q, quote)
    BY <2>1, <2>3 DEF Lexeme
  <2> QED
    BY <1>2, <2>1, <2>3, <2>4
<1>5. lexeme_at(s, p) = [type |-> "string", p |-> p, q |-> j]
  BY <1>1, <1>3, <1>4, LongestIs
<1> QED
  BY <1>5 DEF kept, Comments, type_of, value

LEMMA BrokenString ==
  ASSUME NEW s \in Seq(Characters), NEW p \in 1..Len(s), s[p] = quote,
         \A q \in p..Len(s) : ~quoted(s, p, q, quote)
  PROVE  lexeme_at(s, p).type = "error"
<1>1. ASSUME NEW l \in lexemes_at(s, p) PROVE FALSE
  <2>1. l.type \in Types /\ l.q \in p..Len(s) /\ Lexeme(s, l.type, p, l.q)
    BY LexemesAt
  <2>2. l.type = "string"
    BY <2>1, FirstCharacter, TypesApart, CharactersApart
  <2> QED
    BY <2>1, <2>2 DEF Lexeme
<1> QED
  BY <1>1, LongestIsThere

(* A character literal has one character, or a backslash and another one. *)
char_end(s, p) == p + (IF s[p + 1] = "\\" THEN 3 ELSE 2)

LEMMA CharAt ==
  ASSUME NEW s \in Seq(Characters), NEW p \in 1..Len(s), s[p] = "'", char_end(s, p) <= Len(s),
         s[p + 1] # "'", s[char_end(s, p)] = "'", s[p + 1] = "\\" => s[p + 2] \in escapes
  PROVE  /\ lexeme_at(s, p) = [type |-> "char", p |-> p, q |-> char_end(s, p)]
         /\ kept(s, lexeme_at(s, p)) =
              <<Token("char", IF s[p + 1] = "\\" THEN get_escape_character[s[p + 2]] ELSE <<s[p + 1]>>)>>
<1> DEFINE e == char_end(s, p)
<1>0. Len(s) \in Nat /\ p \in Nat /\ p <= Len(s)
  BY Bounds
<1>1. e \in (p + 2)..Len(s) /\ e = p + (IF s[p + 1] = "\\" THEN 3 ELSE 2)
  BY <1>0 DEF char_end
<1> HIDE DEF e
<1>2. literal_upto(s, p, p + 1, "'") /\ p + 1 \in (p + 1)..Len(s)
  BY <1>0, <1>1, LiteralOpened
<1>3. /\ literal_upto(s, p, e, "'")
      /\ content(s, p, e) = IF s[p + 1] = "\\" THEN get_escape_character[s[p + 2]] ELSE <<s[p + 1]>>
  <2>1. CASE s[p + 1] = "\\"
    <3>1. e = p + 3 /\ (p + 1) + 2 = e /\ (p + 1) + 1 = p + 2 /\ (p + 2) + 1 = e /\ (p + 1) + 1 <= Len(s)
          /\ p + 2 \in (p + 1)..Len(s)
      BY <1>0, <1>1, <2>1
    <3>2. /\ literal_upto(s, p, (p + 1) + 2, "'")
          /\ said(s, p, p + 1) = <<>>
          /\ said(s, p, (p + 1) + 1) = get_escape_character[s[(p + 1) + 1]]
      BY <1>2, <2>1, <3>1, LiteralEscape
    <3>3. content(s, p, p + 2) = content(s, p, p + 1) \o said(s, p, p + 1) /\ content(s, p, p + 1) = <<>>
      BY <1>2, <3>1, ContentNext
    <3>4. content(s, p, e) = content(s, p, p + 2) \o said(s, p, p + 2)
      BY <3>1, ContentNext
    <3>5. said(s, p, p + 2) = get_escape_character[s[p + 2]]
      BY <3>1, <3>2
    <3>6. content(s, p, p + 2) = <<>>
      BY <3>2, <3>3
    <3>7. said(s, p, p + 2) \in Seq(characters(s))
      <4>1. p + 2 \in 1..Len(s)
        BY <1>0, <3>1
      <4> QED
        BY <4>1, SaidInSeq
    <3>8. content(s, p, e) = said(s, p, p + 2)
      BY <3>4, <3>6, <3>7
    <3> QED
      BY <2>1, <3>1, <3>2, <3>5, <3>8
  <2>2. CASE s[p + 1] # "\\"
    <3>1. e = p + 2 /\ (p + 1) + 1 = e
      BY <1>0, <1>1, <2>2
    <3>2. literal_upto(s, p, e, "'") /\ said(s, p, p + 1) = <<s[p + 1]>>
      BY <1>2, <2>2, <3>1, LiteralPlain
    <3>3. content(s, p, e) = content(s, p, p + 1) \o said(s, p, p + 1) /\ content(s, p, p + 1) = <<>>
      BY <1>2, <3>1, ContentNext
    <3>4. content(s, p, e) = <<s[p + 1]>>
      <4>1. content(s, p, e) = <<>> \o <<s[p + 1]>>
        BY <3>2, <3>3
      <4>2. <<>> \o <<s[p + 1]>> = <<s[p + 1]>>
        OBVIOUS
      <4> QED
        BY <4>1, <4>2
    <3> QED
      BY <2>2, <3>2, <3>4
  <2> QED
    BY <2>1, <2>2
<1>4. "char" \in Types /\ e \in p..Len(s) /\ e \in (p + 1)..Len(s) /\ s[e] = "'"
  BY <1>0, <1>1, TypesApart DEF e
<1>5. quoted(s, p, e, "'")
  BY <1>3, <1>4, LiteralEnds
<1>6. Lexeme(s, "char", p, e)
  BY <1>1, <1>5 DEF Lexeme
<1>7. ASSUME NEW l \in lexemes_at(s, p) PROVE l.q < e \/ (l.q = e /\ l.type = "char")
  <2>1. l.type \in Types /\ l.q \in p..Len(s) /\ Lexeme(s, l.type, p, l.q)
    BY LexemesAt
  <2>2. l.type = "char"
    BY <2>1, FirstCharacter, TypesApart, CharactersApart
  <2> QED
    BY <1>1, <2>1, <2>2 DEF Lexeme
<1>8. lexeme_at(s, p) = [type |-> "char", p |-> p, q |-> e]
  BY <1>4, <1>6, <1>7, LongestIs
<1>9. kept(s, lexeme_at(s, p)) = <<Token("char", content(s, p, e))>>
  BY <1>8 DEF kept, Comments, type_of, value
<1> QED
  BY <1>3, <1>8, <1>9 DEF e

LEMMA BrokenChar ==
  ASSUME NEW s \in Seq(Characters), NEW p \in 1..Len(s), s[p] = "'",
         char_end(s, p) <= Len(s) =>
           \/ s[p + 1] = "'" \/ s[char_end(s, p)] # "'"
           \/ s[p + 1] = "\\" /\ s[p + 2] \notin escapes
  PROVE  lexeme_at(s, p).type = "error"
<1>0. Len(s) \in Nat /\ p \in Nat /\ p <= Len(s)
  BY Bounds
<1>1. ASSUME NEW l \in lexemes_at(s, p) PROVE FALSE
  <2>1. l.type \in Types /\ l.q \in p..Len(s) /\ Lexeme(s, l.type, p, l.q)
    BY LexemesAt
  <2>2. l.type = "char"
    BY <2>1, FirstCharacter, TypesApart, CharactersApart
  <2>3. quoted(s, p, l.q, "'") /\ l.q = char_end(s, p)
    BY <2>1, <2>2 DEF Lexeme, char_end
  <2>4. char_end(s, p) <= Len(s) /\ char_end(s, p) \in {p + 2, p + 3}
    BY <2>1, <2>3 DEF char_end
  <2>5. s[l.q] = "'" /\ \A m \in (p + 1)..(l.q - 1) : within(s, p, m, "'")
    BY <2>3 DEF quoted
  <2>6. ~escaped(s, p, p + 1) /\ p + 1 \in (p + 1)..(l.q - 1)
    BY <1>0, <2>3, <2>4, EscapedFirst
  <2>7. s[p + 1] # "'"
    BY <2>5, <2>6 DEF within
  <2>8. s[p + 1] = "\\" /\ s[p + 2] \notin escapes
    <3>1. s[char_end(s, p)] = "'"
      BY <2>3, <2>5
    <3> QED
      BY <2>4, <2>7, <3>1
  <2>9. escaped(s, p, (p + 1) + 1)
    <3>1. p + 1 \in Nat /\ p + 1 > p
      BY <1>0
    <3> QED
      BY <1>0, <2>6, <2>8, <3>1, EscapedNext
  <2>10. (p + 1) + 1 = p + 2 /\ p + 2 \in (p + 1)..(l.q - 1)
    BY <1>0, <2>3, <2>8 DEF char_end
  <2>11. s[p + 2] \in escapes
    BY <2>5, <2>9, <2>10 DEF within, escapes
  <2> QED
    BY <2>8, <2>11
<1> QED
  BY <1>1, LongestIsThere

-----------------------------------------------------------------------------
(* Raw strings *)

(* The number of hashes is that before the quote. *)
LEMMA LevelIsOne ==
  ASSUME NEW s, NEW p \in Nat, NEW n \in Nat, NEW m \in Nat, opens_raw(s, p, n), opens_raw(s, p, m)
  PROVE  n = m
<1>1. ASSUME NEW a \in Nat, NEW b \in Nat, opens_raw(s, p, a), opens_raw(s, p, b) PROVE ~(a < b)
  <2> SUFFICES ASSUME a < b PROVE FALSE
    OBVIOUS
  <2>1. a + 1 \in 1..b /\ p + (a + 1) = p + a + 1
    OBVIOUS
  <2>2. s[p + (a + 1)] = "#" /\ s[p + a + 1] = quote
    BY <1>1, <2>1 DEF opens_raw
  <2> QED
    BY <2>1, <2>2, CharactersApart
<1>2. ~(n < m) /\ ~(m < n)
  BY <1>1
<1> QED
  BY <1>2

LEMMA RawAt ==
  ASSUME NEW s \in Seq(Characters), NEW p \in 1..Len(s), NEW n \in Nat, opens_raw(s, p, n),
         NEW q \in (p + 2 * n + 2)..Len(s), closes_raw(s, q, n),
         \A m \in (p + 2 * n + 2)..(q - 1) : ~closes_raw(s, m, n)
  PROVE  /\ lexeme_at(s, p) = [type |-> "raw_string", p |-> p, q |-> q]
         /\ kept(s, lexeme_at(s, p)) = <<Token("string", SubSeq(s, p + n + 2, q - n - 1))>>
<1>0. Len(s) \in Nat /\ p \in Nat /\ p <= Len(s) /\ q \in Nat /\ q >= p + 2 * n + 2 /\ q <= Len(s) /\ q \in p..Len(s)
  BY Bounds
<1>1. n \in 0..(q - p) /\ p + n + 1 <= Len(s) /\ q - n > p + n + 1
  BY <1>0
<1>2. raw(s, p, q, n)
  BY <1>1 DEF raw
<1>3. Lexeme(s, "raw_string", p, q)
  <2>1. \E m \in 0..(q - p) : p + m + 1 <= Len(s) /\ raw(s, p, q, m)
    BY <1>1, <1>2
  <2> QED
    BY <2>1 DEF Lexeme
<1>4. s[p] = "r" /\ p < Len(s) /\ s[p + 1] \in {quote, "#"}
  BY <1>0, <1>3, RawOpens DEF raw_opens
<1>5. ASSUME NEW l \in lexemes_at(s, p) PROVE l.q < q \/ (l.q = q /\ l.type = "raw_string")
  <2>1. l.type \in Types /\ l.q \in p..Len(s) /\ Lexeme(s, l.type, p, l.q)
    BY LexemesAt
  <2>2. l.type \in Words \cup {"raw_string"}
    BY <1>4, <2>1, FirstCharacter, TypesApart, CharactersApart
  <2>3. CASE l.type \in Words
    <3>1. \A j \in p..l.q : s[j] \in is_not_symbol
      BY <2>1, <2>3, WordLexeme
    <3>2. s[p + 1] \notin is_not_symbol
      BY <1>4, CharactersApart, TypesApart
    <3>3. p + 1 \notin p..l.q
      BY <3>1, <3>2
    <3> QED
      BY <1>0, <2>1, <3>3
  <2>4. CASE l.type = "raw_string"
    <3>1. PICK m \in 0..(l.q - p) : p + m + 1 <= Len(s) /\ raw(s, p, l.q, m)
      BY <2>1, <2>4 DEF Lexeme
    <3>2. m \in Nat /\ opens_raw(s, p, m)
      BY <3>1 DEF raw
    <3>3. m = n
      BY <1>0, <3>2, LevelIsOne
    <3>4. l.q - n > p + n + 1 /\ closes_raw(s, l.q, n) /\ \A k \in (p + 2 * n + 2)..(l.q - 1) : ~closes_raw(s, k, n)
      BY <3>1, <3>3 DEF raw
    <3>5. ~(l.q > q)
      BY <1>0, <2>1, <3>4
    <3> QED
      BY <1>0, <2>1, <2>4, <3>5
  <2> QED
    BY <2>2, <2>3, <2>4
<1>6. "raw_string" \in Types
  BY TypesApart
<1>7. lexeme_at(s, p) = [type |-> "raw_string", p |-> p, q |-> q]
  BY <1>0, <1>3, <1>5, <1>6, LongestIs
<1> DEFINE level == CHOOSE m \in 0..(q - p) : p + m + 1 <= Len(s) /\ opens_raw(s, p, m)
<1>8. level = n
  <2>1. level \in 0..(q - p) /\ opens_raw(s, p, level)
    BY <1>1
  <2> HIDE DEF level
  <2>2. level \in Nat
    BY <2>1
  <2> QED
    BY <1>0, <2>1, <2>2, LevelIsOne
<1>9. kept(s, [type |-> "raw_string", p |-> p, q |-> q]) = <<Token("string", SubSeq(s, p + level + 2, q - level - 1))>>
  BY DEF kept, Comments, type_of, value
<1> HIDE DEF level
<1> QED
  BY <1>7, <1>8, <1>9

(* If no raw string begins at an r before a hash or a quote, then nothing  *)
(* does behind it.                                                         *)
LEMMA BrokenRaw ==
  ASSUME NEW s \in Seq(Characters), NEW p \in 1..Len(s), raw_opens(s, p),
         \A n \in Nat : p + n + 1 <= Len(s) /\ opens_raw(s, p, n) =>
           \A m \in (p + 2 * n + 2)..Len(s) : ~closes_raw(s, m, n)
  PROVE  /\ lexeme_at(s, p).q = p
         /\ p + 1 \in 1..Len(s)
         /\ lexeme_at(s, p + 1).type = "error"
<1>0. Len(s) \in Nat /\ p \in Nat /\ p + 1 <= Len(s) /\ s[p] = "r" /\ s[p + 1] \in {quote, "#"}
  BY Bounds DEF raw_opens
<1>1. ASSUME NEW q \in p..Len(s), Lexeme(s, "raw_string", p, q) PROVE FALSE
  <2>1. PICK n \in 0..(q - p) : p + n + 1 <= Len(s) /\ raw(s, p, q, n)
    BY <1>1 DEF Lexeme
  <2>2. n \in Nat /\ opens_raw(s, p, n) /\ q - n > p + n + 1 /\ closes_raw(s, q, n)
    BY <2>1 DEF raw
  <2>3. q \in (p + 2 * n + 2)..Len(s)
    BY <1>0, <2>2
  <2> QED
    BY <2>1, <2>2, <2>3
<1>2. lexeme_at(s, p) = [type |-> word_type(s, p, p), p |-> p, q |-> p]
  <2>1. p \in p..Len(s) /\ \A j \in p..p : s[j] \in is_not_symbol
    BY <1>0, TypesApart
  <2>2. s[p + 1] \notin is_not_symbol
    BY <1>0, CharactersApart, TypesApart
  <2> QED
    BY <1>1, <2>1, <2>2, WordAt
<1>3. p + 1 \in 1..Len(s)
  BY <1>0
<1>4. lexeme_at(s, p + 1).type = "error"
  <2>1. CASE s[p + 1] = "#"
    <3>1. s[p + 1] \notin is_not_symbol \cup Blanks \cup SymbolBegins \cup {"'", quote}
      BY <2>1, CharactersApart, TypesApart
    <3> QED
      BY <1>3, <3>1, NothingAt
  <2>2. CASE s[p + 1] = quote
    <3>1. p + 0 + 1 = p + 1 /\ p + 2 * 0 + 2 = p + 2 /\ 1..0 = {} /\ 0 \in Nat
      BY <1>0
    <3>2. opens_raw(s, p, 0)
      BY <1>0, <2>2, <3>1 DEF opens_raw
    <3>3. \A m \in (p + 2)..Len(s) : ~closes_raw(s, m, 0)
      BY <1>0, <3>1, <3>2
    <3>4. ASSUME NEW q \in (p + 1)..Len(s), quoted(s, p + 1, q, quote) PROVE FALSE
      <4>1. s[q] = quote /\ q \in (p + 2)..Len(s)
        BY <1>0, <3>4 DEF quoted
      <4>2. q - 0 = q
        BY <1>0, <4>1
      <4>3. closes_raw(s, q, 0)
        BY <3>1, <4>1, <4>2 DEF closes_raw
      <4> QED
        BY <3>3, <4>1, <4>3
    <3> QED
      BY <1>3, <2>2, <3>4, BrokenString
  <2> QED
    BY <1>0, <2>1, <2>2
<1> QED
  BY <1>2, <1>3, <1>4

-----------------------------------------------------------------------------
(* Tokens and buffers as sequences *)

LEMMA TokensGrow ==
  ASSUME NEW s \in Seq(Characters), s # <<>>, NEW n \in 0..Len(Lexemes(s)), NEW e
  PROVE  /\ Append(tokens_of(s, n), e) = tokens_of(s, n) \o <<e>>
         /\ tokens_of(s, n) \o <<>> = tokens_of(s, n)
<1> DEFINE ls == Lexemes(s)
           f == [j \in 1..n |-> kept(s, ls[j])]
           S == {Token(type_of(ls[j]), value(s, ls[j])) : j \in 1..n} \cup {e}
<1>1. ASSUME NEW j \in 1..n PROVE f[j] \in Seq(S)
  <2> DEFINE t == Token(type_of(ls[j]), value(s, ls[j]))
  <2>1. t \in S
    OBVIOUS
  <2>2. f[j] = <<>> \/ f[j] = <<t>>
    BY DEF kept
  <2> HIDE DEF t, S, f
  <2>3. <<t>> \in Seq(S) /\ <<>> \in Seq(S)
    BY <2>1
  <2> QED
    BY <2>2, <2>3
<1>2. n \in Nat
  <2>1. Len(Lexemes(s)) \in Nat
    BY AllTokens
  <2> QED
    BY <2>1
<1>3. f \in Seq(Seq(S))
  <2>1. f = [j \in 1..n |-> f[j]]
    OBVIOUS
  <2> HIDE DEF f, S
  <2>2. f \in [1..n -> Seq(S)]
    BY <1>1, <2>1
  <2> QED
    BY <1>2, <2>2
<1>4. tokens_of(s, n) = FlattenSeq(f)
  BY DEF tokens_of
<1>5. e \in S
  OBVIOUS
<1> HIDE DEF f, S
<1>6. FlattenSeq(f) \in Seq(S)
  BY <1>3, FlattenInSeq
<1> DEFINE ts == tokens_of(s, n)
<1>7. ts \in Seq(S)
  BY <1>4, <1>6
<1> HIDE DEF ts
<1>8. Append(ts, e) = ts \o <<e>> /\ ts \o <<>> = ts
  BY <1>5, <1>7
<1> QED
  BY <1>8 DEF ts

(* A part of a text that grows by a character. *)
LEMMA SliceGrows ==
  ASSUME NEW s \in Seq(Characters), NEW a \in Nat, a >= 1, NEW j \in a..Len(s)
  PROVE  /\ Append(SubSeq(s, a, j - 1), s[j]) = SubSeq(s, a, j)
         /\ SubSeq(s, a, a - 1) = <<>>
         /\ SubSeq(s, j, j) = <<s[j]>>
<1>0. Len(s) \in Nat /\ j \in Nat /\ a <= j /\ j <= Len(s) /\ s[j] \in Characters
  OBVIOUS
<1>1. SubSeq(s, a, a - 1) = <<>> /\ SubSeq(s, j, j) = <<s[j]>>
  <2> DEFINE y == SubSeq(s, j, j)
             z == SubSeq(s, a, a - 1)
  <2>1. j \in j..Len(s) /\ j \in 1..Len(s)
    BY <1>0
  <2>2. y \in Seq(Characters) /\ Len(y) = 1 /\ y[1] = s[j]
    BY <1>0, <2>1, Slice
  <2>3. z \in Seq(Characters) /\ Len(z) = 0
    BY <1>0, SubSeqProperties
  <2> HIDE DEF y, z
  <2>4. y = <<s[j]>> /\ z = <<>>
    BY <2>2, <2>3
  <2> QED
    BY <2>4 DEF y, z
<1> DEFINE b == SubSeq(s, a, j - 1)
           c == SubSeq(s, a, j)
           k == j - a
<1>2. b \in Seq(Characters) /\ Len(b) = k /\ \A m \in 1..k : b[m] = s[a + m - 1]
  BY <1>0
<1>3. c \in Seq(Characters) /\ Len(c) = k + 1 /\ \A m \in 1..(k + 1) : c[m] = s[a + m - 1]
  BY <1>0
<1>4. k \in Nat /\ a + (k + 1) - 1 = j
  BY <1>0
<1> HIDE DEF b, c, k
<1>5. Append(b, s[j]) \in Seq(Characters) /\ Len(Append(b, s[j])) = k + 1
  BY <1>0, <1>2, <1>4
<1>6. ASSUME NEW m \in 1..(k + 1) PROVE Append(b, s[j])[m] = c[m]
  <2>1. CASE m = k + 1
    BY <1>0, <1>2, <1>3, <1>4, <2>1
  <2>2. CASE m # k + 1
    <3>1. m \in 1..k
      BY <1>4, <2>2
    <3>2. Append(b, s[j])[m] = b[m]
      BY <1>0, <1>2, <1>4, <3>1, AppendProperties
    <3> QED
      BY <1>2, <1>3, <3>1, <3>2
  <2> QED
    BY <2>1, <2>2
<1>7. Append(b, s[j]) = c
  BY <1>3, <1>5, <1>6
<1> QED
  BY <1>1, <1>7 DEF b, c

(* The content of a literal that grows by a character, or by an escape. *)
LEMMA ContentGrows ==
  ASSUME NEW s \in Seq(Characters), NEW p \in 1..Len(s), NEW j \in (p + 1)..Len(s)
  PROVE  /\ said(s, p, j) = <<s[j]>> => Append(content(s, p, j), s[j]) = content(s, p, j + 1)
         /\ said(s, p, j) = <<>> /\ j + 1 <= Len(s) =>
              content(s, p, j) \o said(s, p, j + 1) = content(s, p, j + 2)
<1>0. Len(s) \in Nat /\ p \in Nat /\ j \in Nat /\ j > p /\ j <= Len(s) /\ j \in 1..Len(s) /\ (j + 1) + 1 = j + 2
  BY Bounds
<1>1. content(s, p, j + 1) = content(s, p, j) \o said(s, p, j) /\ content(s, p, j) \in Seq(characters(s))
  BY ContentNext
<1>2. s[j] \in characters(s)
  BY <1>0, SaidInSeq
<1> DEFINE S == characters(s)
           b == content(s, p, j)
<1>3. b \in Seq(S) /\ s[j] \in S
  BY <1>1, <1>2
<1> HIDE DEF S, b
<1>4. Append(b, s[j]) = b \o <<s[j]>> /\ b \o <<>> = b
  BY <1>3
<1>5. j + 1 <= Len(s) => content(s, p, j + 2) = content(s, p, j + 1) \o said(s, p, j + 1)
  <2> SUFFICES ASSUME j + 1 <= Len(s) PROVE content(s, p, j + 2) = content(s, p, j + 1) \o said(s, p, j + 1)
    OBVIOUS
  <2>1. j + 1 \in (p + 1)..Len(s)
    BY <1>0
  <2>2. content(s, p, (j + 1) + 1) = content(s, p, j + 1) \o said(s, p, j + 1)
    BY <2>1, ContentNext
  <2> QED
    BY <1>0, <2>2
<1> QED
  BY <1>1, <1>4, <1>5 DEF b

-----------------------------------------------------------------------------
(* The scanner among the lexemes *)

Text == text \in Seq(Characters) /\ text # <<>> /\ text[Len(text)] = "\n"
lexemes == Lexemes(text)
start(n) == after(lexemes, n)
other_words == joins_words(lexemes) \/ splits_word(text, lexemes)

(* An open word is one of the first m lexemes, and since then there were   *)
(* comments.                                                               *)
follows_word(n, m) ==
  word # "none" =>
    \E a \in 1..m : lexemes[a].type \in Words /\ \A c \in (a + 1)..n : lexemes[c].type \in Comments

(* n lexemes are read, and mode says what has been read of the next one.   *)
code_at(n) ==
  mode = "code" /\ i = start(n) /\ with_word = tokens_of(text, n) /\ follows_word(n, n - 1)
word_at(n) ==
  /\ mode = "code" /\ start(n) < i /\ i <= Len(text) /\ i \in Nat
  /\ \A j \in start(n)..(i - 1) : text[j] \in is_not_symbol
  /\ ~raw_opens(text, start(n))
  /\ now_str = SubSeq(text, start(n), i - 1)
  /\ word = (IF text[start(n)] \in Digits THEN "number" ELSE "identifier")
  /\ tokens = tokens_of(text, n)
line_comment_at(n) ==
  /\ mode = "line_comment" /\ opens(text, start(n), "/") /\ i \in (start(n) + 2)..(Len(text) + 1)
  /\ \A j \in (start(n) + 2)..(i - 1) : text[j] # "\n"
  /\ with_word = tokens_of(text, n) /\ follows_word(n, n)
block_comment_at(n) ==
  /\ mode = "block_comment" /\ opens(text, start(n), "*") /\ i \in (start(n) + 2)..(Len(text) + 1)
  /\ \A j \in (start(n) + 3)..Len(text) : j <= i => ~closes_comment(text, j)
  /\ with_word = tokens_of(text, n) /\ follows_word(n, n)
char_at(n) ==
  /\ mode = "char" /\ start(n) <= Len(text) /\ text[start(n)] = "'" /\ i = start(n) + 1
  /\ word = "none" /\ tokens = tokens_of(text, n)
string_at(n) ==
  /\ mode = "string" /\ start(n) <= Len(text) /\ i \in Nat /\ literal_upto(text, start(n), i, quote)
  /\ now_str = content(text, start(n), i)
  /\ word = "none" /\ tokens = tokens_of(text, n)
raw_string_at(n) ==
  LET level == raw_string_level
  IN  /\ mode = "raw_string" /\ level \in Nat /\ start(n) + level + 1 <= Len(text)
      /\ opens_raw(text, start(n), level)
      /\ i \in (start(n) + level + 2)..(Len(text) + 1)
      /\ \A m \in (start(n) + 2 * level + 2)..Len(text) : m < i + level => ~closes_raw(text, m, level)
      /\ now_str = SubSeq(text, start(n) + level + 2, i - 1)
      /\ word = "none" /\ tokens = tokens_of(text, n)

clean(n) == n = 0 \/ lexemes[n].type # "error"
scanned(n) ==
  /\ clean(n)
  /\ \/ code_at(n) \/ word_at(n) \/ line_comment_at(n) \/ block_comment_at(n)
     \/ char_at(n) \/ string_at(n) \/ raw_string_at(n)

(* What every step owes. *)
Goes == other_words \/ (\E n \in 0..Len(lexemes) : scanned(n))
broken == Last(lexemes).type = "error"

LEMMA Here ==
  ASSUME Text, NEW n \in 0..Len(lexemes)
  PROVE  /\ Len(text) \in Nat /\ Len(text) >= 1 /\ Len(lexemes) \in Nat /\ n \in Nat
         /\ start(n) \in 1..(Len(text) + 1) /\ start(n) \in Nat
         /\ start(n) > Len(text) <=> n = Len(lexemes)
<1>1. text \in Seq(Characters) /\ text # <<>>
  BY DEF Text
<1>2. Len(text) \in Nat /\ Len(text) >= 1
  BY <1>1
<1>3. n \in 0..Len(Lexemes(text))
  BY DEF lexemes
<1>4. Len(Lexemes(text)) \in Nat
  BY <1>1, AllTokens
<1>5. start(n) \in 1..(Len(text) + 1) /\ (start(n) > Len(text) <=> n = Len(Lexemes(text)))
  BY <1>1, <1>3, NextLexeme DEF start, lexemes
<1> QED
  BY <1>2, <1>3, <1>4, <1>5 DEF lexemes

(* One lexeme more. *)
LEMMA LexemeRead ==
  ASSUME Text, NEW n \in 0..Len(lexemes), start(n) <= Len(text), NEW l, lexeme_at(text, start(n)) = l
  PROVE  /\ n + 1 \in 1..Len(lexemes)
         /\ n + 1 \in 0..Len(lexemes)
         /\ lexemes[n + 1] = l
         /\ start(n + 1) = l.q + 1
         /\ tokens_of(text, n + 1) = tokens_of(text, n) \o kept(text, l)
         /\ kept(text, l) = <<>> => tokens_of(text, n + 1) = tokens_of(text, n)
         /\ \A t : kept(text, l) = <<t>> => tokens_of(text, n + 1) = Append(tokens_of(text, n), t)
         /\ l.type # "error" => clean(n + 1)
         /\ l.type = "error" => broken
<1>1. text \in Seq(Characters) /\ text # <<>> /\ n \in 0..Len(Lexemes(text))
  BY DEF Text, lexemes
<1>2. /\ n + 1 \in 1..Len(lexemes)
      /\ n + 1 \in 0..Len(lexemes)
      /\ lexemes[n + 1] = l
      /\ start(n + 1) = l.q + 1
      /\ tokens_of(text, n + 1) = tokens_of(text, n) \o kept(text, l)
      /\ l.type = "error" => broken
  BY <1>1, NextLexeme DEF start, lexemes, broken
<1>3. /\ tokens_of(text, n) \o <<>> = tokens_of(text, n)
      /\ \A t : Append(tokens_of(text, n), t) = tokens_of(text, n) \o <<t>>
  BY <1>1, TokensGrow
<1> QED
  BY <1>2, <1>3 DEF clean

LEMMA CodeNext ==
  ASSUME UNCHANGED text, NEW n \in 0..Len(lexemes), clean(n), mode' = "code", i' = start(n),
         word' = "none", tokens' = tokens_of(text, n)
  PROVE  Goes'
<1>1. clean(n)' /\ (n \in 0..Len(lexemes))'
  BY DEF clean, lexemes
<1>2. code_at(n)'
  BY DEF code_at, start, lexemes, with_word, follows_word
<1> QED
  BY <1>1, <1>2 DEF Goes, scanned

LEMMA RefusedNext ==
  ASSUME UNCHANGED text, broken, outcome' = "refused"
  PROVE  TokensAreLexemes'
BY DEF broken, lexemes, TokensAreLexemes

LEMMA CharInText ==
  ASSUME Text, NEW j \in Nat
  PROVE  /\ j <= Len(text) => char(j) = text[j]
         /\ char(j) # space => j <= Len(text)
         /\ char(j) = space => j > Len(text) \/ text[j] = space
BY DEF char

(* Where no word character follows, the lexemes of the scanner's tokens    *)
(* end.                                                                    *)
LEMMA BehindWord ==
  ASSUME Text, NEW n \in 0..Len(lexemes), word_at(n), text[i] \notin is_not_symbol
  PROVE  /\ n + 1 \in 0..Len(lexemes) /\ clean(n + 1) /\ i = start(n + 1) /\ with_word = tokens_of(text, n + 1)
         /\ n + 1 \in 1..Len(lexemes) /\ lexemes[n + 1].type \in Words
         /\ lexemes[n + 1].p = start(n) /\ lexemes[n + 1].q = i - 1
<1> DEFINE p == start(n)
           e == i - 1
<1>1. Len(text) \in Nat /\ p \in Nat /\ p >= 1 /\ i \in Nat /\ p < i /\ i <= Len(text)
  BY Here DEF word_at
<1>2. p \in 1..Len(text) /\ e \in p..Len(text) /\ e < Len(text) /\ e + 1 = i
  BY <1>1
<1>3. \A j \in p..e : text[j] \in is_not_symbol
  BY DEF word_at
<1>4. ~raw_opens(text, p)
  BY DEF word_at
<1>5. now_str = SubSeq(text, p, e) /\ tokens = tokens_of(text, n)
      /\ word = (IF text[p] \in Digits THEN "number" ELSE "identifier")
  BY DEF word_at
<1> HIDE DEF p, e
<1>6. /\ lexeme_at(text, p) = [type |-> word_type(text, p, e), p |-> p, q |-> e]
      /\ word_type(text, p, e) \in Words
      /\ kept(text, lexeme_at(text, p)) = <<Token(word_type(text, p, e), SubSeq(text, p, e))>>
  BY <1>2, <1>3, <1>4, WordAt DEF Text
<1> DEFINE l == lexeme_at(text, p)
<1>7. l.type \in Words /\ l.q = e /\ l.p = p
  BY <1>6
<1>8. l.type # "error"
  BY <1>7, TypesApart
<1>9. with_word = Append(tokens_of(text, n), Token(word_type(text, p, e), SubSeq(text, p, e)))
  <2>1. CASE text[p] \in Digits
    BY <1>5, <2>1 DEF with_word, word_type
  <2>2. CASE text[p] \notin Digits
    BY <1>5, <2>2 DEF with_word, word_type
  <2> QED
    BY <2>1, <2>2
<1> HIDE DEF l
<1>10. /\ n + 1 \in 1..Len(lexemes)
       /\ n + 1 \in 0..Len(lexemes)
       /\ lexemes[n + 1] = l
       /\ start(n + 1) = l.q + 1
       /\ \A t : kept(text, l) = <<t>> => tokens_of(text, n + 1) = Append(tokens_of(text, n), t)
       /\ l.type # "error" => clean(n + 1)
  BY <1>2, LexemeRead DEF p, l
<1>11. with_word = tokens_of(text, n + 1)
  BY <1>6, <1>9, <1>10 DEF l
<1> QED
  BY <1>2, <1>7, <1>8, <1>10, <1>11 DEF p

(* In code, where no word goes on, the scanner is between two lexemes. *)
LEMMA BetweenLexemes ==
  ASSUME Text, NEW n \in 0..Len(lexemes), scanned(n), mode = "code", text[i] \notin is_not_symbol, i <= Len(text)
  PROVE  \E k \in 0..Len(lexemes) :
           clean(k) /\ i = start(k) /\ with_word = tokens_of(text, k) /\ follows_word(k, k)
<1>1. code_at(n) \/ word_at(n)
  BY DEF scanned, line_comment_at, block_comment_at, char_at, string_at, raw_string_at
<1>2. CASE code_at(n)
  <2>1. n \in Nat
    BY Here
  <2>2. follows_word(n, n - 1) => follows_word(n, n)
    <3>1. \A a \in 1..(n - 1) : a \in 1..n
      BY <2>1
    <3> QED
      BY <3>1 DEF follows_word
  <2> QED
    BY <1>2, <2>2 DEF code_at, scanned
<1>3. CASE word_at(n)
  <2>1. /\ n + 1 \in 0..Len(lexemes) /\ clean(n + 1) /\ i = start(n + 1) /\ with_word = tokens_of(text, n + 1)
        /\ n + 1 \in 1..Len(lexemes) /\ lexemes[n + 1].type \in Words
    BY <1>3, BehindWord
  <2>2. follows_word(n + 1, n + 1)
    <3>1. n + 1 \in 1..(n + 1) /\ ((n + 1) + 1)..(n + 1) = {}
      BY Here
    <3> QED
      BY <2>1, <3>1 DEF follows_word
  <2> QED
    BY <2>1, <2>2
<1> QED
  BY <1>1, <1>2, <1>3

-----------------------------------------------------------------------------
(* Comments *)

LEMMA CommentNext ==
  ASSUME UNCHANGED <<text, word, now_str, tokens>>, NEW n \in Nat, n + 1 \in 0..Len(lexemes), clean(n + 1),
         lexemes[n + 1].type \in Comments, follows_word(n, n), with_word = tokens_of(text, n + 1),
         i' = start(n + 1), mode' = "code"
  PROVE  Goes'
<1>1. follows_word(n + 1, n)
  <2>1. ASSUME NEW a \in 1..n, \A c \in (a + 1)..n : lexemes[c].type \in Comments
        PROVE  \A c \in (a + 1)..(n + 1) : lexemes[c].type \in Comments
    <3>1. \A c \in (a + 1)..(n + 1) : c = n + 1 \/ c \in (a + 1)..n
      OBVIOUS
    <3> QED
      BY <2>1, <3>1
  <2> QED
    BY <2>1 DEF follows_word
<1>2. (n + 1) - 1 = n
  OBVIOUS
<1>3. code_at(n + 1)'
  BY <1>1, <1>2 DEF code_at, start, lexemes, with_word, follows_word
<1>4. clean(n + 1)' /\ (n + 1 \in 0..Len(lexemes))'
  BY DEF clean, lexemes
<1> QED
  BY <1>3, <1>4 DEF Goes, scanned

LEMMA BlockCommentStep ==
  ASSUME Text, NEW n \in 0..Len(lexemes), scanned(n), InBlockComment
  PROVE  Goes'
<1> DEFINE p == start(n)
<1>1. mode = "block_comment" /\ outcome = "scanning" /\ i <= Len(text)
  BY DEF InBlockComment, reading
<1>2. block_comment_at(n)
  BY <1>1 DEF scanned, code_at, word_at, line_comment_at, char_at, string_at, raw_string_at
<1>3. UNCHANGED <<text, word, now_str, tokens>>
  BY DEF InBlockComment, advance, unchanged_word
<1>4. Len(text) \in Nat /\ p \in Nat /\ p >= 1 /\ n \in Nat
  BY Here
<1>5. /\ opens(text, p, "*") /\ i \in (p + 2)..(Len(text) + 1)
      /\ \A j \in (p + 3)..Len(text) : j <= i => ~closes_comment(text, j)
      /\ with_word = tokens_of(text, n) /\ follows_word(n, n)
  BY <1>2 DEF block_comment_at
<1>6. i \in Nat /\ i + 1 \in Nat /\ (i + 1) - 1 = i /\ char(i) = text[i] /\ (i + 1 <= Len(text) => char(i + 1) = text[i + 1])
  BY <1>1, <1>4, <1>5, CharInText
<1>7. p <= Len(text) /\ p \in 1..Len(text)
  BY <1>1, <1>4, <1>5
<1> HIDE DEF p
<1>8. CASE now_ch = "*" /\ next_ch = "/"
  <2>1. i + 1 <= Len(text)
    <3>1. char(i + 1) # space
      BY <1>8, CharactersApart DEF next_ch
    <3> QED
      BY <1>6, <3>1, CharInText
  <2>2. closes_comment(text, i + 1)
    BY <1>6, <1>8, <2>1 DEF closes_comment, now_ch, next_ch
  <2>3. i + 1 \in (p + 3)..Len(text) /\ \A j \in (p + 3)..((i + 1) - 1) : ~closes_comment(text, j)
    BY <1>1, <1>4, <1>5, <1>6, <2>1
  <2> DEFINE l == lexeme_at(text, p)
  <2>4. l = [type |-> "block_comment", p |-> p, q |-> i + 1] /\ kept(text, l) = <<>>
    BY <1>5, <1>7, <2>2, <2>3, BlockCommentAt DEF Text
  <2>5. l.type = "block_comment" /\ l.q = i + 1 /\ l.type # "error"
    BY <2>4
  <2>6. /\ n + 1 \in 0..Len(lexemes) /\ lexemes[n + 1] = l /\ start(n + 1) = l.q + 1
        /\ tokens_of(text, n + 1) = tokens_of(text, n) /\ clean(n + 1)
    BY <1>7, <2>4, <2>5, LexemeRead DEF p
  <2>7. i' = i + 2 /\ mode' = "code"
    BY <1>8 DEF InBlockComment, advance
  <2>8. start(n + 1) = i + 2
    BY <1>6, <2>5, <2>6
  <2>9. lexemes[n + 1].type \in Comments
    BY <2>5, <2>6, TypesApart
  <2> QED
    BY <1>3, <1>4, <1>5, <2>6, <2>7, <2>8, <2>9, CommentNext
<1>9. CASE ~(now_ch = "*" /\ next_ch = "/")
  <2>1. i' = i + 1 /\ mode' = mode
    BY <1>9 DEF InBlockComment, advance
  <2>2. i + 1 \in (p + 2)..(Len(text) + 1)
    BY <1>1, <1>4, <1>5
  <2>3. ASSUME NEW j \in (p + 3)..Len(text), j <= i + 1 PROVE ~closes_comment(text, j)
    <3>1. CASE j <= i
      BY <1>5, <3>1
    <3>2. CASE j = i + 1
      BY <1>6, <1>9, <3>2 DEF closes_comment, now_ch, next_ch
    <3> QED
      BY <1>4, <1>6, <2>3, <3>1, <3>2
  <2>4. block_comment_at(n)'
    BY <1>1, <1>3, <1>5, <2>1, <2>2, <2>3 DEF block_comment_at, p, start, lexemes, with_word, follows_word
  <2>5. clean(n)' /\ (n \in 0..Len(lexemes))'
    BY <1>3 DEF clean, lexemes, scanned
  <2> QED
    BY <2>4, <2>5 DEF Goes, scanned
<1> QED
  BY <1>8, <1>9

LEMMA LineCommentStep ==
  ASSUME Text, NEW n \in 0..Len(lexemes), scanned(n), InLineComment
  PROVE  Goes'
<1> DEFINE p == start(n)
<1>1. mode = "line_comment" /\ outcome = "scanning" /\ i <= Len(text)
  BY DEF InLineComment, reading
<1>2. line_comment_at(n)
  BY <1>1 DEF scanned, code_at, word_at, block_comment_at, char_at, string_at, raw_string_at
<1>3. UNCHANGED <<text, word, now_str, tokens>>
  BY DEF InLineComment, advance, unchanged_word
<1>4. Len(text) \in Nat /\ p \in Nat /\ p >= 1 /\ n \in Nat
  BY Here
<1>5. /\ opens(text, p, "/") /\ i \in (p + 2)..(Len(text) + 1)
      /\ \A j \in (p + 2)..(i - 1) : text[j] # "\n"
      /\ with_word = tokens_of(text, n) /\ follows_word(n, n)
  BY <1>2 DEF line_comment_at
<1>6. i \in Nat /\ char(i) = text[i]
  BY <1>1, <1>4, <1>5, CharInText
<1>7. p <= Len(text) /\ p \in 1..Len(text)
  BY <1>1, <1>4, <1>5
<1> HIDE DEF p
<1>8. CASE now_ch = "\n"
  <2>1. i \in (p + 2)..Len(text) /\ text[i] = "\n"
    BY <1>1, <1>4, <1>5, <1>6, <1>8 DEF now_ch
  <2> DEFINE l == lexeme_at(text, p)
  <2>4. l = [type |-> "line_comment", p |-> p, q |-> i] /\ kept(text, l) = <<>>
    BY <1>5, <1>7, <2>1, LineCommentAt DEF Text
  <2>5. l.type = "line_comment" /\ l.q = i /\ l.type # "error"
    BY <2>4
  <2>6. /\ n + 1 \in 0..Len(lexemes) /\ lexemes[n + 1] = l /\ start(n + 1) = l.q + 1
        /\ tokens_of(text, n + 1) = tokens_of(text, n) /\ clean(n + 1)
    BY <1>7, <2>4, <2>5, LexemeRead DEF p
  <2>7. i' = i + 1 /\ mode' = "code"
    BY <1>8 DEF InLineComment, advance
  <2>8. start(n + 1) = i + 1
    BY <1>6, <2>5, <2>6
  <2>9. lexemes[n + 1].type \in Comments
    BY <2>5, <2>6, TypesApart
  <2> QED
    BY <1>3, <1>4, <1>5, <2>6, <2>7, <2>8, <2>9, CommentNext
<1>9. CASE now_ch # "\n"
  <2>1. i' = i + 1 /\ mode' = mode
    BY <1>9 DEF InLineComment, advance
  <2>2. i + 1 \in (p + 2)..(Len(text) + 1)
    BY <1>1, <1>4, <1>5
  <2>3. ASSUME NEW j \in (p + 2)..((i + 1) - 1) PROVE text[j] # "\n"
    <3>1. j = i \/ j \in (p + 2)..(i - 1)
      BY <1>4, <1>6
    <3> QED
      BY <1>5, <1>6, <1>9, <3>1 DEF now_ch
  <2>4. line_comment_at(n)'
    BY <1>1, <1>3, <1>5, <2>1, <2>2, <2>3 DEF line_comment_at, p, start, lexemes, with_word, follows_word
  <2>5. clean(n)' /\ (n \in 0..Len(lexemes))'
    BY <1>3 DEF clean, lexemes, scanned
  <2> QED
    BY <2>4, <2>5 DEF Goes, scanned
<1> QED
  BY <1>8, <1>9

LEMMA OpenCommentStep ==
  ASSUME Text, NEW n \in 0..Len(lexemes), scanned(n), OpenComment
  PROVE  Goes'
<1>1. mode = "code" /\ outcome = "scanning" /\ i <= Len(text) /\ now_ch = "/" /\ next_ch \in {"*", "/"}
  BY DEF OpenComment, reading, comment_opens
<1>2. UNCHANGED <<text, word, now_str, tokens>> /\ i' = i + 2
      /\ mode' = IF next_ch = "*" THEN "block_comment" ELSE "line_comment"
  BY DEF OpenComment, advance, unchanged_word
<1>3. Len(text) \in Nat /\ i \in Nat
  <2>1. code_at(n) \/ word_at(n)
    BY <1>1 DEF scanned, line_comment_at, block_comment_at, char_at, string_at, raw_string_at
  <2> QED
    BY <2>1, Here DEF code_at, word_at
<1>4. text[i] = "/" /\ i + 1 <= Len(text) /\ text[i + 1] = next_ch
  <2>1. char(i) = text[i]
    BY <1>1, <1>3, CharInText
  <2>2. i + 1 \in Nat /\ char(i + 1) # space
    BY <1>1, <1>3, CharactersApart DEF next_ch
  <2> QED
    BY <1>1, <2>1, <2>2, CharInText DEF now_ch, next_ch
<1>5. text[i] \notin is_not_symbol
  BY <1>4, TypesApart
<1>6. PICK k \in 0..Len(lexemes) : clean(k) /\ i = start(k) /\ with_word = tokens_of(text, k) /\ follows_word(k, k)
  BY <1>1, <1>5, BetweenLexemes
<1>7. opens(text, start(k), next_ch)
  <2>1. i < Len(text)
    BY <1>3, <1>4
  <2> QED
    BY <1>4, <1>6, <2>1 DEF opens
<1>8. clean(k)' /\ (k \in 0..Len(lexemes))'
  BY <1>2, <1>6 DEF clean, lexemes
<1>9. i' \in (start(k) + 2)..(Len(text) + 1)
  BY <1>2, <1>3, <1>4, <1>6
<1>10. with_word' = tokens_of(text', k) /\ follows_word(k, k)' /\ start(k)' = start(k)
  BY <1>2, <1>6 DEF with_word, follows_word, lexemes, start
<1>11. CASE next_ch = "*"
  <2>1. ASSUME NEW j \in (start(k) + 3)..Len(text), j <= i + 2 PROVE ~closes_comment(text, j)
    <3>1. j = i + 3
      BY <1>3, <1>6, <2>1
    <3> QED
      BY <1>3, <2>1, <3>1
  <2>2. block_comment_at(k)'
    BY <1>2, <1>7, <1>9, <1>10, <1>11, <2>1 DEF block_comment_at
  <2> QED
    BY <1>8, <2>2 DEF Goes, scanned
<1>12. CASE next_ch = "/"
  <2>1. (start(k) + 2)..((i + 2) - 1) = {}
    BY <1>3, <1>6
  <2>2. line_comment_at(k)'
    BY <1>2, <1>7, <1>9, <1>10, <1>12, <2>1 DEF line_comment_at
  <2> QED
    BY <1>8, <2>2 DEF Goes, scanned
<1> QED
  BY <1>1, <1>11, <1>12

-----------------------------------------------------------------------------
(* Words, blanks and symbols *)

LEMMA WordBegins ==
  ASSUME NEW s \in Seq(Characters), NEW p \in 1..Len(s), s[p] \in is_not_symbol, ~raw_opens(s, p)
  PROVE  lexeme_at(s, p).type \in Words
<1> DEFINE E == {j \in p..Len(s) : \A m \in p..j : s[m] \in is_not_symbol}
<1>0. Len(s) \in Nat /\ p \in Nat /\ p <= Len(s)
  BY Bounds
<1>1. E \in SUBSET (0..Len(s)) /\ p \in E
  BY <1>0
<1>2. PICK e \in E : \A j \in E : j <= e
  <2> HIDE DEF E
  <2> QED
    BY <1>0, <1>1, Greatest
<1>3. e \in p..Len(s) /\ \A m \in p..e : s[m] \in is_not_symbol
  OBVIOUS
<1>4. e < Len(s) => s[e + 1] \notin is_not_symbol
  <2> SUFFICES ASSUME e < Len(s), s[e + 1] \in is_not_symbol PROVE FALSE
    OBVIOUS
  <2>1. e + 1 \in p..Len(s) /\ \A m \in p..(e + 1) : m = e + 1 \/ m \in p..e
    BY <1>0, <1>3
  <2>2. e + 1 \in E
    BY <1>3, <2>1
  <2> HIDE DEF E
  <2>3. e + 1 <= e
    BY <1>2, <2>2
  <2> QED
    BY <1>0, <1>3, <2>3
<1> HIDE DEF E
<1>5. lexeme_at(s, p) = [type |-> word_type(s, p, e), p |-> p, q |-> e] /\ word_type(s, p, e) \in Words
  BY <1>3, <1>4, WordAt
<1> QED
  BY <1>5

LEMMA LexemesIndexed ==
  ASSUME Text
  PROVE  DOMAIN lexemes = 1..Len(lexemes)
<1>1. chain(text, lexemes)
  BY LexemesAreChain DEF Text, lexemes
<1> QED
  BY <1>1 DEF chain

(* A word after a word and a comment: the scanner joins them. *)
LEMMA WordGoesOn ==
  ASSUME Text, NEW n \in 0..Len(lexemes), follows_word(n, n - 1), word # "none",
         start(n) <= Len(text), text[start(n)] \in is_not_symbol, ~raw_opens(text, start(n))
  PROVE  other_words
<1>1. n \in Nat /\ start(n) \in 1..Len(text) /\ Len(lexemes) \in Nat
  BY Here
<1>2. lexeme_at(text, start(n)).type \in Words
  BY <1>1, WordBegins DEF Text
<1>3. n + 1 \in 1..Len(lexemes) /\ lexemes[n + 1].type \in Words
  BY <1>2, LexemeRead
<1>4. PICK a \in 1..(n - 1) : lexemes[a].type \in Words /\ \A c \in (a + 1)..n : lexemes[c].type \in Comments
  BY DEF follows_word
<1>5. a \in DOMAIN lexemes /\ n + 1 \in DOMAIN lexemes
  BY <1>1, <1>3, LexemesIndexed
<1>6. a + 1 < n + 1 /\ (a + 1)..((n + 1) - 1) = (a + 1)..n
  BY <1>1
<1>7. joins_words(lexemes)
  BY <1>3, <1>4, <1>5, <1>6 DEF joins_words
<1> QED
  BY <1>7 DEF other_words

LEMMA WordCharacterStep ==
  ASSUME Text, NEW n \in 0..Len(lexemes), scanned(n), WordCharacter
  PROVE  Goes'
<1> DEFINE p == start(n)
<1>1. mode = "code" /\ outcome = "scanning" /\ i <= Len(text) /\ now_ch \in is_not_symbol /\ ~raw_string_opens
  BY DEF WordCharacter, reading
<1>2. /\ UNCHANGED <<text, tokens>> /\ i' = i + 1 /\ mode' = "code"
      /\ word' = (IF word # "none" THEN word ELSE IF now_ch \in Digits THEN "number" ELSE "identifier")
      /\ now_str' = IF word # "none" THEN Append(now_str, now_ch) ELSE <<now_ch>>
  BY <1>1 DEF WordCharacter, advance
<1>3. Len(text) \in Nat /\ p \in Nat /\ p >= 1 /\ n \in Nat
  BY Here
<1>4. code_at(n) \/ word_at(n)
  BY <1>1 DEF scanned, line_comment_at, block_comment_at, char_at, string_at, raw_string_at
<1>5. i \in Nat /\ p <= i
  BY <1>3, <1>4 DEF code_at, word_at
<1>6. now_ch = text[i]
  BY <1>1, <1>5, CharInText DEF now_ch
<1>7. i + 1 <= Len(text)
  <2>1. text[Len(text)] \notin is_not_symbol
    BY TypesApart DEF Text
  <2> QED
    BY <1>1, <1>3, <1>5, <1>6, <2>1
<1>8. clean(n)' /\ (n \in 0..Len(lexemes))' /\ start(n)' = p /\ tokens_of(text, n)' = tokens_of(text, n)
  BY <1>2 DEF clean, lexemes, scanned, start
<1> SUFFICES other_words \/ word_at(n)'
  <2>1. other_words => other_words'
    BY <1>2 DEF other_words, lexemes
  <2> QED
    BY <1>8, <2>1 DEF Goes, scanned
<1>9. CASE word_at(n)
  <2>1. /\ p < i
        /\ \A j \in p..(i - 1) : text[j] \in is_not_symbol
        /\ ~raw_opens(text, p)
        /\ now_str = SubSeq(text, p, i - 1)
        /\ word = (IF text[p] \in Digits THEN "number" ELSE "identifier")
        /\ tokens = tokens_of(text, n)
    BY <1>9 DEF word_at
  <2>2. word # "none" /\ word' = word /\ now_str' = Append(now_str, text[i])
    BY <1>2, <1>6, <2>1
  <2>3. now_str' = SubSeq(text, p, i)
    <3>1. i \in p..Len(text)
      BY <1>1, <1>3, <1>5
    <3>2. Append(SubSeq(text, p, i - 1), text[i]) = SubSeq(text, p, i)
      BY <1>3, <3>1, SliceGrows DEF Text
    <3> QED
      BY <2>1, <2>2, <3>2
  <2>4. (i + 1) - 1 = i /\ p < i + 1 /\ i + 1 \in Nat
    BY <1>3, <1>5
  <2>5. ASSUME NEW j \in p..i PROVE text[j] \in is_not_symbol
    <3>1. j = i \/ j \in p..(i - 1)
      BY <1>3, <1>5
    <3> QED
      BY <1>1, <1>6, <2>1, <3>1
  <2> HIDE DEF p
  <2>6. word_at(n)'
    BY <1>2, <1>7, <1>8, <2>1, <2>2, <2>3, <2>4, <2>5 DEF word_at
  <2> QED
    BY <2>6
<1>10. CASE code_at(n)
  <2>1. i = p /\ with_word = tokens_of(text, n) /\ follows_word(n, n - 1)
    BY <1>10 DEF code_at
  <2>2. ~raw_opens(text, p)
    <3>1. i + 1 \in Nat
      BY <1>5
    <3>2. next_ch = text[i + 1]
      BY <1>7, <3>1, CharInText DEF next_ch
    <3> QED
      BY <1>1, <1>6, <2>1, <3>2 DEF raw_opens, raw_string_opens
  <2>3. CASE word # "none"
    <3>1. other_words
      BY <1>1, <1>6, <2>1, <2>2, <2>3, WordGoesOn
    <3> QED
      BY <3>1
  <2>4. CASE word = "none"
    <3>1. tokens = tokens_of(text, n)
      BY <2>1, <2>4 DEF with_word
    <3>2. now_str' = SubSeq(text, p, p)
      <4>1. p \in p..Len(text)
        BY <1>1, <1>3, <2>1
      <4>2. SubSeq(text, p, p) = <<text[p]>>
        BY <1>3, <4>1, SliceGrows DEF Text
      <4> QED
        BY <1>2, <1>6, <2>1, <2>4, <4>2
    <3>3. (i + 1) - 1 = p /\ p < i + 1 /\ i + 1 \in Nat
      BY <1>3, <2>1
    <3>4. \A j \in p..p : text[j] \in is_not_symbol
      BY <1>1, <1>3, <1>6, <2>1
    <3>5. word' = (IF text[p] \in Digits THEN "number" ELSE "identifier")
      BY <1>2, <1>6, <2>1, <2>4
    <3> HIDE DEF p
    <3>6. word_at(n)'
      BY <1>2, <1>7, <1>8, <2>2, <3>1, <3>2, <3>3, <3>4, <3>5 DEF word_at
    <3> QED
      BY <3>6
  <2> QED
    BY <2>3, <2>4
<1> QED
  BY <1>4, <1>9, <1>10

LEMMA BlankStep ==
  ASSUME Text, NEW n \in 0..Len(lexemes), scanned(n), Blank
  PROVE  Goes'
<1>1. mode = "code" /\ outcome = "scanning" /\ i <= Len(text) /\ now_ch \in Blanks
  BY DEF Blank, reading
<1>2. UNCHANGED text /\ i' = i + 1 /\ mode' = "code" /\ tokens' = with_word /\ word' = "none"
  BY <1>1 DEF Blank, advance, add_word
<1>3. i \in Nat /\ i >= 1
  <2>1. code_at(n) \/ word_at(n)
    BY <1>1 DEF scanned, line_comment_at, block_comment_at, char_at, string_at, raw_string_at
  <2> QED
    BY <2>1, Here DEF code_at, word_at
<1>4. text[i] \in Blanks /\ text[i] \notin is_not_symbol
  <2>1. text[i] \in Blanks
    BY <1>1, <1>3, CharInText DEF now_ch
  <2> QED
    BY <2>1, CharactersApart, TypesApart
<1>5. PICK k \in 0..Len(lexemes) : clean(k) /\ i = start(k) /\ with_word = tokens_of(text, k) /\ follows_word(k, k)
  BY <1>1, <1>4, BetweenLexemes
<1>6. Len(text) \in Nat /\ i \in 1..Len(text)
  BY <1>1, <1>3, Here
<1> DEFINE l == lexeme_at(text, i)
<1>7. l = [type |-> "blank", p |-> i, q |-> i] /\ kept(text, l) = <<>>
  BY <1>4, <1>6, BlankAt DEF Text
<1>8. l.type = "blank" /\ l.q = i /\ l.type # "error"
  BY <1>7
<1>9. /\ k + 1 \in 0..Len(lexemes) /\ start(k + 1) = l.q + 1
      /\ tokens_of(text, k + 1) = tokens_of(text, k) /\ clean(k + 1)
  BY <1>1, <1>5, <1>7, <1>8, LexemeRead
<1> QED
  BY <1>2, <1>5, <1>8, <1>9, CodeNext

LEMMA SameSequence ==
  ASSUME NEW A, NEW B, NEW u \in Seq(A), NEW v \in Seq(B), Len(u) = Len(v), \A j \in 1..Len(u) : u[j] = v[j]
  PROVE  u = v
<1>1. u = [j \in 1..Len(u) |-> u[j]] /\ v = [j \in 1..Len(v) |-> v[j]]
  OBVIOUS
<1> QED
  BY <1>1

(* The characters ahead, of which those behind the end are blank. *)
LEMMA Ahead ==
  ASSUME Text, i \in 1..Len(text), NEW n \in 1..3
  PROVE  /\ i + n - 1 <= Len(text) => ahead(n) = SubSeq(text, i, i + n - 1)
         /\ i + n - 1 > Len(text) => ahead(n) \notin symbol_map
<1> DEFINE a == now_ch
           b == next_ch
           c == next_next_ch
           u == <<a, b, c>>
           v == SubSeq(text, i, i + n - 1)
<1>0. Len(text) \in Nat /\ i \in Nat /\ n \in Nat /\ i >= 1 /\ text \in Seq(Characters)
  BY DEF Text
<1>1. u \in Seq({a, b, c}) /\ Len(u) = 3 /\ \A j \in 1..3 : u[j] = char(i + j - 1)
  <2>1. u \in Seq({a, b, c}) /\ Len(u) = 3 /\ u[1] = a /\ u[2] = b /\ u[3] = c
    OBVIOUS
  <2>2. a = char(i) /\ b = char(i + 1) /\ c = char(i + 2)
    BY DEF now_ch, next_ch, next_next_ch
  <2>3. i + 1 - 1 = i /\ i + 2 - 1 = i + 1 /\ i + 3 - 1 = i + 2 /\ \A j \in 1..3 : j = 1 \/ j = 2 \/ j = 3
    BY <1>0
  <2> HIDE DEF u, a, b, c
  <2> QED
    BY <2>1, <2>2, <2>3
<1>2. ahead(n) = SubSeq(u, 1, n)
  BY DEF ahead
<1> DEFINE w == SubSeq(u, 1, n)
<1> HIDE DEF u, a, b, c
<1>3. w \in Seq({a, b, c}) /\ Len(w) = n /\ \A j \in 1..n : w[j] = u[j]
  <2> DEFINE S == {a, b, c}
  <2>1. u \in Seq(S) /\ 1 \in 1..(Len(u) + 1) /\ n \in 0..Len(u)
    BY <1>0, <1>1
  <2> HIDE DEF S
  <2>2. w \in Seq(S) /\ Len(w) = (IF 1 <= n THEN n - 1 + 1 ELSE 0) /\ \A j \in 1..(n - 1 + 1) : w[j] = u[1 + j - 1]
    BY <2>1, SubSeqProperties
  <2>3. n - 1 + 1 = n /\ 1 <= n /\ \A j \in 1..n : 1 + j - 1 = j
    BY <1>0
  <2> HIDE DEF w
  <2> QED
    BY <2>2, <2>3 DEF S
<1>4. \A j \in 1..n : w[j] = char(i + j - 1)
  BY <1>1, <1>3
<1> HIDE DEF w
<1>5. i + n - 1 <= Len(text) => w = v
  <2> SUFFICES ASSUME i + n - 1 <= Len(text) PROVE w = v
    OBVIOUS
  <2>1. i + n - 1 \in i..Len(text)
    BY <1>0
  <2>2. v \in Seq(Characters) /\ Len(v) = (i + n - 1) - i + 1 /\ \A j \in 1..((i + n - 1) - i + 1) : v[j] = text[i + j - 1]
    BY <1>0, <2>1, Slice
  <2>3. (i + n - 1) - i + 1 = n
    BY <1>0
  <2>4. ASSUME NEW j \in 1..n PROVE w[j] = v[j]
    <3>1. i + j - 1 \in Nat /\ i + j - 1 <= Len(text)
      BY <1>0
    <3> QED
      BY <1>4, <2>2, <2>3, <3>1, CharInText
  <2> HIDE DEF v
  <2> QED
    BY <1>3, <2>2, <2>3, <2>4, SameSequence
<1>6. i + n - 1 > Len(text) => w \notin symbol_map
  <2> SUFFICES ASSUME i + n - 1 > Len(text), w \in symbol_map PROVE FALSE
    OBVIOUS
  <2>1. w[n] = space
    <3>1. char(i + n - 1) = space
      BY <1>0 DEF char
    <3> QED
      BY <1>4, <3>1
  <2>2. \A y \in symbol_map : \A j \in 1..Len(y) : y[j] \in SymbolBegins
    BY DEF symbol_map, SymbolBegins
  <2>3. w[n] \in SymbolBegins
    BY <1>3, <2>2
  <2> QED
    BY <2>1, <2>3, CharactersApart, TypesApart
<1> QED
  BY <1>2, <1>5, <1>6 DEF w

(* What the lexeme at the scanner's place is when no word goes on there. *)
LEMMA CodeHere ==
  ASSUME Text, NEW n \in 0..Len(lexemes), scanned(n), mode = "code"
  PROVE  i \in Nat /\ i >= 1 /\ Len(text) \in Nat /\ (code_at(n) \/ word_at(n))
<1>1. code_at(n) \/ word_at(n)
  BY DEF scanned, line_comment_at, block_comment_at, char_at, string_at, raw_string_at
<1> QED
  BY <1>1, Here DEF code_at, word_at

(* A symbol in the text is among the characters ahead. *)
LEMMA SymbolAhead ==
  ASSUME Text, i \in 1..Len(text), NEW q \in i..Len(text), SubSeq(text, i, q) \in symbol_map
  PROVE  q - i + 1 \in 1..3 /\ ahead(q - i + 1) = SubSeq(text, i, q)
<1> DEFINE m == q - i + 1
<1>1. q \in i..(i + 2)
  BY SymbolLexeme DEF Text
<1>2. m \in 1..3 /\ i + m - 1 = q /\ q <= Len(text)
  BY <1>1 DEF Text
<1> HIDE DEF m
<1>3. ahead(m) = SubSeq(text, i, i + m - 1)
  BY <1>2, Ahead
<1> QED
  BY <1>2, <1>3 DEF m

LEMMA SymbolStep ==
  ASSUME Text, NEW n \in 0..Len(lexemes), scanned(n), Symbol
  PROVE  Goes'
<1>1. /\ mode = "code" /\ outcome = "scanning" /\ i <= Len(text) /\ now_ch \notin is_not_symbol \cup Blanks
      /\ ~comment_opens /\ symbol_lengths # {}
  BY DEF Symbol, reading
<1>2. /\ UNCHANGED text /\ i' = i + longest /\ mode' = "code" /\ word' = "none"
      /\ tokens' = Append(with_word, Token("symbol", ahead(longest)))
  BY <1>1 DEF Symbol, advance, add_word
<1>3. i \in Nat /\ i >= 1 /\ Len(text) \in Nat /\ i \in 1..Len(text)
  BY <1>1, CodeHere
<1>4. now_ch = text[i] /\ text[i] \notin is_not_symbol
  BY <1>1, <1>3, CharInText DEF now_ch
<1>5. PICK k \in 0..Len(lexemes) : clean(k) /\ i = start(k) /\ with_word = tokens_of(text, k) /\ follows_word(k, k)
  BY <1>1, <1>4, BetweenLexemes
<1> DEFINE m == longest
           e == i + m - 1
           l == lexeme_at(text, i)
<1>6. m \in 1..3 /\ ahead(m) \in symbol_map /\ \A j \in 1..3 : ahead(j) \in symbol_map => j <= m
  <2> DEFINE H == symbol_lengths
  <2>1. H \in SUBSET (0..3) /\ H # {} /\ m = CHOOSE a \in H : \A b \in H : b <= a
    BY <1>1 DEF symbol_lengths, longest
  <2>2. \A j : j \in H <=> j \in 1..3 /\ ahead(j) \in symbol_map
    BY DEF symbol_lengths
  <2> HIDE DEF H, m
  <2>3. \E a \in H : \A b \in H : b <= a
    BY <2>1, Greatest
  <2>4. m \in H /\ \A b \in H : b <= m
    BY <2>1, <2>3
  <2> QED
    BY <2>2, <2>4
<1> HIDE DEF m
<1>7. e \in i..Len(text) /\ ahead(m) = SubSeq(text, i, e) /\ e + 1 = i + m
  <2>1. ~(i + m - 1 > Len(text))
    BY <1>3, <1>6, Ahead
  <2>2. i + m - 1 <= Len(text)
    BY <1>3, <1>6, <2>1
  <2>3. ahead(m) = SubSeq(text, i, i + m - 1)
    BY <1>3, <1>6, <2>2, Ahead
  <2> QED
    BY <1>3, <1>6, <2>2, <2>3
<1>8. ASSUME NEW q \in i..Len(text), SubSeq(text, i, q) \in symbol_map PROVE q <= e
  <2>1. q - i + 1 \in 1..3 /\ ahead(q - i + 1) = SubSeq(text, i, q)
    BY <1>3, <1>8, SymbolAhead
  <2>2. q - i + 1 <= m
    BY <1>6, <1>8, <2>1
  <2> QED
    BY <1>3, <1>6, <2>2
<1>9. ~opens(text, i, "*") /\ ~opens(text, i, "/")
  <2> SUFFICES ASSUME opens(text, i, "*") \/ opens(text, i, "/") PROVE FALSE
    OBVIOUS
  <2>1. i + 1 <= Len(text) /\ text[i] = "/" /\ text[i + 1] \in {"*", "/"} /\ i + 1 \in Nat
    BY <1>3 DEF opens
  <2>2. next_ch = text[i + 1]
    BY <2>1, CharInText DEF next_ch
  <2> QED
    BY <1>1, <1>4, <2>1, <2>2 DEF comment_opens
<1>10. SubSeq(text, i, e) \in symbol_map
  BY <1>6, <1>7
<1> HIDE DEF e
<1>11. l = [type |-> "symbol", p |-> i, q |-> e] /\ kept(text, l) = <<Token("symbol", SubSeq(text, i, e))>>
  BY <1>3, <1>7, <1>8, <1>9, <1>10, SymbolAt DEF Text
<1>12. l.type = "symbol" /\ l.q = e /\ l.type # "error"
  BY <1>11
<1> HIDE DEF l
<1>13. /\ k + 1 \in 0..Len(lexemes) /\ start(k + 1) = l.q + 1
       /\ tokens_of(text, k + 1) = Append(tokens_of(text, k), Token("symbol", SubSeq(text, i, e)))
       /\ clean(k + 1)
  BY <1>1, <1>5, <1>11, <1>12, LexemeRead DEF l
<1>14. i' = start(k + 1) /\ tokens' = tokens_of(text, k + 1)
  BY <1>2, <1>5, <1>7, <1>12, <1>13 DEF m
<1> QED
  BY <1>2, <1>13, <1>14, CodeNext

-----------------------------------------------------------------------------
(* Where literals begin *)

LEMMA OpenQuoteStep ==
  ASSUME Text, BufferOwned, NEW n \in 0..Len(lexemes), scanned(n), OpenQuote
  PROVE  (outcome' = outcome /\ Goes') \/ (outcome' = "refused" /\ TokensAreLexemes')
<1>1. /\ mode = "code" /\ outcome = "scanning" /\ i <= Len(text) /\ now_ch \notin is_not_symbol \cup Blanks
      /\ symbol_lengths = {}
  BY DEF OpenQuote, reading
<1>2. i \in Nat /\ i >= 1 /\ Len(text) \in Nat /\ i \in 1..Len(text)
  BY <1>1, CodeHere
<1>3. now_ch = text[i] /\ text[i] \notin is_not_symbol
  BY <1>1, <1>2, CharInText DEF now_ch
<1>4. PICK k \in 0..Len(lexemes) : clean(k) /\ i = start(k) /\ with_word = tokens_of(text, k) /\ follows_word(k, k)
  BY <1>1, <1>3, BetweenLexemes
<1>5. CASE now_ch \notin {quote, "'"}
  <2>1. ASSUME NEW q \in i..Len(text), SubSeq(text, i, q) \in symbol_map PROVE FALSE
    <3>1. q - i + 1 \in 1..3 /\ ahead(q - i + 1) = SubSeq(text, i, q)
      BY <1>2, <2>1, SymbolAhead
    <3> QED
      BY <1>1, <2>1, <3>1 DEF symbol_lengths
  <2>2. text[i] \notin SymbolBegins
    BY <1>2, <2>1, NoSymbolAt DEF Text
  <2>3. lexeme_at(text, i).type = "error"
    BY <1>1, <1>2, <1>3, <1>5, <2>2, NothingAt DEF Text
  <2>4. broken
    BY <1>1, <1>4, <2>3, LexemeRead
  <2>5. UNCHANGED text /\ outcome' = "refused"
    BY <1>5 DEF OpenQuote, refuse
  <2> QED
    BY <2>4, <2>5, RefusedNext
<1>6. CASE now_ch \in {quote, "'"}
  <2>1. /\ UNCHANGED <<text, outcome>> /\ i' = i + 1 /\ mode' = (IF now_ch = "'" THEN "char" ELSE "string")
        /\ tokens' = with_word /\ word' = "none" /\ now_str' = IF word = "none" THEN now_str ELSE <<>>
    BY <1>6 DEF OpenQuote, advance, add_word
  <2>2. clean(k)' /\ (k \in 0..Len(lexemes))' /\ start(k)' = i /\ tokens_of(text, k)' = tokens_of(text, k)
    BY <1>4, <2>1 DEF clean, lexemes, start
  <2>3. CASE now_ch = "'"
    <3>1. char_at(k)'
      BY <1>1, <1>3, <1>4, <2>1, <2>2, <2>3 DEF char_at
    <3> QED
      BY <2>1, <2>2, <3>1 DEF Goes, scanned
  <2>4. CASE now_ch = quote
    <3>1. mode' = "string"
      BY <2>1, <2>4, CharactersApart
    <3>2. i # Len(text)
      BY <1>3, <2>4, CharactersApart DEF Text
    <3>3. i + 1 \in (i + 1)..Len(text) /\ i + 1 \in Nat
      BY <1>2, <3>2
    <3>4. content(text, i, i + 1) = <<>> /\ literal_upto(text, i, i + 1, quote)
      <4>1. literal_upto(text, i, i + 1, text[i])
        BY <1>2, LiteralOpened DEF Text
      <4> QED
        BY <1>2, <1>3, <2>4, <3>3, <4>1, ContentNext DEF Text
    <3>5. now_str' = <<>>
      BY <1>1, <2>1 DEF BufferOwned
    <3>6. string_at(k)'
      BY <1>1, <1>4, <2>1, <2>2, <3>1, <3>3, <3>4, <3>5 DEF string_at
    <3> QED
      BY <2>1, <2>2, <3>6 DEF Goes, scanned
  <2> QED
    BY <1>6, <2>3, <2>4
<1> QED
  BY <1>5, <1>6

(* The number of hashes that the scanner counts. *)
hashes == CHOOSE n \in 0..Len(text) : (\A j \in 1..n : char(i + j) = "#") /\ char(i + n + 1) # "#"

LEMMA HashesCounted ==
  ASSUME Text, i \in 1..Len(text)
  PROVE  /\ hashes \in Nat /\ (\A j \in 1..hashes : char(i + j) = "#") /\ char(i + hashes + 1) # "#"
         /\ i + hashes <= Len(text)
         /\ \A n \in Nat : i + n + 1 <= Len(text) /\ opens_raw(text, i, n) => n = hashes
<1>0. Len(text) \in Nat /\ i \in Nat /\ i >= 1 /\ text[Len(text)] = "\n" /\ i <= Len(text)
  BY DEF Text
<1> DEFINE H == {n \in 0..(Len(text) - i) : char(i + n + 1) # "#"}
<1>1. Len(text) - i \in H
  <2>1. i + (Len(text) - i) + 1 = Len(text) + 1 /\ Len(text) - i \in 0..(Len(text) - i)
    BY <1>0
  <2>2. char(Len(text) + 1) = space
    BY <1>0 DEF char
  <2> QED
    BY <2>1, <2>2, CharactersApart
<1>2. PICK h \in H : \A m \in H : h <= m
  <2>1. H \in SUBSET Nat
    BY <1>0
  <2> HIDE DEF H
  <2> QED
    BY <1>1, <2>1, Least
<1>3. h \in 0..(Len(text) - i) /\ char(i + h + 1) # "#"
  OBVIOUS
<1>4. ASSUME NEW j \in 1..h PROVE char(i + j) = "#"
  <2>1. j - 1 \in 0..(Len(text) - i) /\ ~(h <= j - 1) /\ i + (j - 1) + 1 = i + j
    BY <1>0, <1>3
  <2>2. j - 1 \notin H
    BY <1>2, <2>1
  <2> QED
    BY <2>1, <2>2
<1> HIDE DEF H
<1> DEFINE counted(n) == (\A j \in 1..n : char(i + j) = "#") /\ char(i + n + 1) # "#"
<1>5. h \in 0..Len(text) /\ counted(h)
  BY <1>0, <1>3, <1>4
<1>6. hashes \in 0..Len(text) /\ counted(hashes)
  <2>1. hashes = CHOOSE n \in 0..Len(text) : counted(n)
    BY DEF hashes
  <2> HIDE DEF counted
  <2> QED
    BY <1>5, <2>1
<1>7. ASSUME NEW a \in Nat, NEW b \in Nat, counted(a), counted(b) PROVE ~(a < b)
  <2> SUFFICES ASSUME a < b PROVE FALSE
    OBVIOUS
  <2>1. a + 1 \in 1..b /\ i + (a + 1) = i + a + 1
    BY <1>0
  <2> QED
    BY <1>7, <2>1
<1>8. ASSUME NEW a \in Nat, NEW b \in Nat, counted(a), counted(b) PROVE a = b
  <2>1. ~(a < b) /\ ~(b < a)
    BY <1>7, <1>8
  <2> QED
    BY <2>1
<1>9. hashes = h
  <2>1. hashes \in Nat /\ h \in Nat
    BY <1>0, <1>3, <1>6
  <2> HIDE DEF counted
  <2> QED
    BY <1>5, <1>6, <1>8, <2>1
<1>10. ASSUME NEW n \in Nat, i + n + 1 <= Len(text), opens_raw(text, i, n) PROVE n = hashes
  <2>1. (\A j \in 1..n : text[i + j] = "#") /\ text[i + n + 1] = quote
    BY <1>10 DEF opens_raw
  <2>2. \A j \in 1..n : i + j \in Nat /\ i + j <= Len(text)
    BY <1>0, <1>10
  <2>3. i + n + 1 \in Nat
    BY <1>0
  <2>4. char(i + n + 1) = quote /\ \A j \in 1..n : char(i + j) = "#"
    BY <1>10, <2>1, <2>2, <2>3, CharInText
  <2>5. counted(n)
    BY <2>4, CharactersApart
  <2>6. hashes \in Nat
    BY <1>0, <1>6
  <2> HIDE DEF counted
  <2> QED
    BY <1>6, <1>8, <2>5, <2>6
<1> QED
  BY <1>0, <1>3, <1>6, <1>9, <1>10

(* Two lexemes more, of which the second cannot be read. *)
LEMMA RawRefused ==
  ASSUME Text, NEW k \in 0..Len(lexemes), start(k) <= Len(text), raw_opens(text, start(k)),
         \A n \in Nat : start(k) + n + 1 <= Len(text) /\ opens_raw(text, start(k), n) =>
           \A m \in (start(k) + 2 * n + 2)..Len(text) : ~closes_raw(text, m, n)
  PROVE  broken
<1> DEFINE p == start(k)
           l == lexeme_at(text, p)
           r == lexeme_at(text, p + 1)
<1>1. p \in 1..Len(text) /\ Len(text) \in Nat
  BY Here
<1>2. l.q = p /\ p + 1 \in 1..Len(text) /\ r.type = "error"
  BY <1>1, BrokenRaw DEF Text
<1>3. k + 1 \in 0..Len(lexemes) /\ start(k + 1) = l.q + 1
  BY LexemeRead
<1>4. start(k + 1) = p + 1 /\ start(k + 1) <= Len(text)
  BY <1>1, <1>2, <1>3
<1> QED
  BY <1>2, <1>3, <1>4, LexemeRead

LEMMA OpenRawStringStep ==
  ASSUME Text, BufferOwned, NEW n \in 0..Len(lexemes), scanned(n), OpenRawString
  PROVE  (outcome' = outcome /\ Goes') \/ (outcome' = "refused" /\ TokensAreLexemes')
<1>1. mode = "code" /\ outcome = "scanning" /\ i <= Len(text) /\ now_ch = "r" /\ next_ch \in {quote, "#"}
  BY DEF OpenRawString, reading, raw_string_opens
<1>2. i \in Nat /\ i >= 1 /\ Len(text) \in Nat /\ i \in 1..Len(text) /\ (code_at(n) \/ word_at(n))
  BY <1>1, CodeHere
<1>3. text[i] = "r" /\ i + 1 <= Len(text) /\ text[i + 1] = next_ch
  <2>1. char(i) = text[i]
    BY <1>1, <1>2, CharInText
  <2>2. i + 1 \in Nat /\ char(i + 1) # space
    BY <1>1, <1>2, CharactersApart DEF next_ch
  <2> QED
    BY <1>1, <2>1, <2>2, CharInText DEF now_ch, next_ch
<1>4. /\ hashes \in Nat /\ (\A j \in 1..hashes : char(i + j) = "#") /\ char(i + hashes + 1) # "#"
      /\ i + hashes <= Len(text)
      /\ \A m \in Nat : i + m + 1 <= Len(text) /\ opens_raw(text, i, m) => m = hashes
  BY <1>2, HashesCounted
<1> DEFINE h == hashes
<1>5. IF char(i + h + 1) # quote THEN refuse
      ELSE /\ advance(h + 2, "raw_string") /\ raw_string_level' = h
           /\ tokens' = with_word /\ add_word
  BY DEF OpenRawString, hashes
<1> HIDE DEF h
<1>6. text' = text
  BY <1>5 DEF refuse, advance
<1>7. CASE word_at(n)
  <2> DEFINE p == start(n)
  <2>1. p < i /\ p \in Nat /\ p >= 1
    BY <1>7, Here DEF word_at
  <2>2. ~raw_opens(text, p) /\ \A j \in p..(i - 1) : text[j] \in is_not_symbol
    BY <1>7 DEF word_at
  <2>3. p \in 1..Len(text) /\ i \in p..Len(text) /\ \A j \in p..i : j = i \/ j \in p..(i - 1)
    BY <1>1, <1>2, <2>1
  <2>4. text[i] \in is_not_symbol /\ text[i + 1] \notin is_not_symbol
    BY <1>1, <1>3, CharactersApart, TypesApart
  <2>5. \A j \in p..i : text[j] \in is_not_symbol
    BY <2>2, <2>3, <2>4
  <2> DEFINE l == lexeme_at(text, p)
  <2>6. l = [type |-> word_type(text, p, i), p |-> p, q |-> i] /\ word_type(text, p, i) \in Words
    BY <2>2, <2>3, <2>4, <2>5, WordAt DEF Text
  <2>7. l.type \in Words /\ l.p = p /\ l.q = i
    BY <2>6
  <2> HIDE DEF l
  <2>8. n + 1 \in 1..Len(lexemes) /\ lexemes[n + 1] = l
    BY <2>3, LexemeRead DEF l
  <2>9. n + 1 \in DOMAIN lexemes
    BY <2>8, LexemesIndexed
  <2>10. splits_word(text, lexemes)
    BY <1>1, <1>3, <2>1, <2>7, <2>8, <2>9 DEF splits_word
  <2>11. other_words'
    BY <1>6, <2>10 DEF other_words, lexemes
  <2>12. Goes' /\ TokensAreLexemes'
    BY <2>11 DEF Goes, TokensAreLexemes, other_words, lexemes
  <2>13. outcome' = outcome \/ outcome' = "refused"
    BY <1>5 DEF refuse, advance
  <2> QED
    BY <2>12, <2>13
<1>8. CASE code_at(n)
  <2>1. i = start(n) /\ with_word = tokens_of(text, n)
    BY <1>8 DEF code_at
  <2>2. CASE char(i + h + 1) # quote
    <3>1. outcome' = "refused" /\ UNCHANGED text
      BY <1>5, <2>2 DEF refuse
    <3>2. ASSUME NEW m \in Nat, i + m + 1 <= Len(text), opens_raw(text, i, m) PROVE FALSE
      <4>1. text[i + m + 1] = quote /\ m = h
        BY <1>4, <3>2 DEF opens_raw, h
      <4>2. i + m + 1 \in Nat
        BY <1>2
      <4> QED
        BY <2>2, <3>2, <4>1, <4>2, CharInText
    <3>3. raw_opens(text, i)
      <4>1. i < Len(text)
        BY <1>2, <1>3
      <4> QED
        BY <1>1, <1>3, <4>1 DEF raw_opens
    <3>4. broken
      BY <1>1, <2>1, <3>2, <3>3, RawRefused
    <3> QED
      BY <3>1, <3>4, RefusedNext
  <2>3. CASE char(i + h + 1) = quote
    <3>1. /\ UNCHANGED <<text, outcome>> /\ i' = i + (h + 2) /\ mode' = "raw_string" /\ raw_string_level' = h
          /\ tokens' = with_word /\ word' = "none" /\ now_str' = IF word = "none" THEN now_str ELSE <<>>
      BY <1>5, <2>3 DEF advance, add_word
    <3>2. h \in Nat /\ i + h + 1 \in Nat /\ \A j \in 1..h : i + j \in Nat /\ i + j <= Len(text)
      BY <1>2, <1>4 DEF h
    <3>3. i + h + 1 <= Len(text)
      BY <2>3, <3>2, CharactersApart, CharInText
    <3>4. text[i + h + 1] = quote /\ \A j \in 1..h : text[i + j] = "#"
      BY <1>4, <2>3, <3>2, <3>3, CharInText DEF h
    <3>5. opens_raw(text, i, h)
      BY <1>3, <3>4 DEF opens_raw
    <3>6. now_str' = <<>>
      BY <1>1, <3>1 DEF BufferOwned
    <3>7. SubSeq(text, i + h + 2, i' - 1) = <<>>
      <4>1. i + h + 2 \in Int /\ i' - 1 \in Int /\ i' - 1 < i + h + 2
        BY <1>2, <3>1, <3>2
      <4> QED
        BY <4>1, SubSeqEmpty
    <3>8. i' \in (i + h + 2)..(Len(text) + 1)
      BY <1>2, <3>1, <3>2, <3>3
    <3>9. ASSUME NEW m \in (i + 2 * h + 2)..Len(text), m < i' + h PROVE FALSE
      BY <1>2, <3>1, <3>2, <3>9
    <3>10. clean(n)' /\ (n \in 0..Len(lexemes))' /\ start(n)' = i /\ tokens_of(text, n)' = tokens_of(text, n)
      BY <2>1, <3>1 DEF clean, lexemes, start, scanned
    <3>11. raw_string_at(n)'
      BY <2>1, <3>1, <3>2, <3>3, <3>5, <3>6, <3>7, <3>8, <3>9, <3>10 DEF raw_string_at
    <3> QED
      BY <3>1, <3>10, <3>11 DEF Goes, scanned
  <2> QED
    BY <2>2, <2>3
<1> QED
  BY <1>2, <1>7, <1>8

-----------------------------------------------------------------------------
(* Inside literals *)

LEMMA CharStep ==
  ASSUME Text, NEW n \in 0..Len(lexemes), scanned(n), InChar
  PROVE  (outcome' = outcome /\ Goes') \/ (outcome' = "refused" /\ TokensAreLexemes')
<1> DEFINE p == start(n)
           length == IF now_ch = "\\" THEN 2 ELSE 1
<1>1. mode = "char" /\ outcome = "scanning" /\ i <= Len(text)
  BY DEF InChar, reading
<1>2. char_at(n)
  BY <1>1 DEF scanned, code_at, word_at, line_comment_at, block_comment_at, string_at, raw_string_at
<1>3. p <= Len(text) /\ text[p] = "'" /\ i = p + 1 /\ word = "none" /\ tokens = tokens_of(text, n)
  BY <1>2 DEF char_at
<1>4. Len(text) \in Nat /\ p \in Nat /\ p >= 1 /\ p \in 1..Len(text) /\ i \in Nat
  BY <1>3, Here
<1>5. now_ch = text[p + 1]
  BY <1>1, <1>3, <1>4, CharInText DEF now_ch
<1>6. char_end(text, p) = i + length /\ i + length \in Nat /\ length \in {1, 2} /\ i + 1 = p + 2 /\ i + 1 \in Nat
  BY <1>3, <1>4, <1>5 DEF char_end
<1>7. DOMAIN get_escape_character = escapes
  BY DEF get_escape_character, escapes
<1>8. now_ch = "\\" <=> length = 2
  OBVIOUS
<1>9. LET bad == \/ now_ch = "'" \/ char(i + length) # "'"
                 \/ now_ch = "\\" /\ next_ch \notin DOMAIN get_escape_character
      IN  IF bad THEN refuse
          ELSE /\ emit("char", IF now_ch = "\\" THEN get_escape_character[next_ch] ELSE <<now_ch>>)
               /\ advance(length + 1, "code")
               /\ unchanged_word /\ UNCHANGED raw_string_level
  BY DEF InChar
<1> DEFINE bad == \/ now_ch = "'" \/ char(i + length) # "'"
                  \/ now_ch = "\\" /\ next_ch \notin escapes
<1> HIDE DEF length, p
<1>10. CASE bad
  <2>1. outcome' = "refused" /\ UNCHANGED text
    BY <1>7, <1>9, <1>10 DEF refuse
  <2>2. ASSUME char_end(text, p) <= Len(text)
        PROVE  \/ text[p + 1] = "'" \/ text[char_end(text, p)] # "'"
               \/ text[p + 1] = "\\" /\ text[p + 2] \notin escapes
    <3>1. char(i + length) = text[char_end(text, p)]
      BY <1>6, <2>2, CharInText
    <3>2. next_ch = text[p + 2]
      <4>1. i + 1 <= Len(text)
        BY <1>4, <1>6, <2>2
      <4> QED
        BY <1>6, <4>1, CharInText DEF next_ch
    <3> QED
      BY <1>5, <1>10, <3>1, <3>2
  <2>3. lexeme_at(text, p).type = "error"
    BY <1>3, <1>4, <2>2, BrokenChar DEF Text
  <2>4. broken
    BY <1>3, <2>3, LexemeRead DEF p
  <2> QED
    BY <2>1, <2>4, RefusedNext
<1>11. CASE ~bad
  <2> DEFINE said_here == IF now_ch = "\\" THEN get_escape_character[next_ch] ELSE <<now_ch>>
             e == char_end(text, p)
             l == lexeme_at(text, p)
  <2>1. /\ UNCHANGED <<text, word, outcome>> /\ tokens' = Append(tokens, Token("char", said_here))
        /\ i' = i + (length + 1) /\ mode' = "code"
    BY <1>7, <1>9, <1>11 DEF emit, advance, unchanged_word
  <2>2. e <= Len(text) /\ text[e] = "'"
    <3>1. char(i + length) # space
      BY <1>11, CharactersApart
    <3> QED
      BY <1>6, <1>11, <3>1, CharInText
  <2>3. text[p + 1] # "'" /\ next_ch = text[p + 2]
    <3>1. i + 1 <= Len(text)
      BY <1>4, <1>6, <2>2
    <3> QED
      BY <1>5, <1>6, <1>11, <3>1, CharInText DEF next_ch
  <2>4. text[p + 1] = "\\" => text[p + 2] \in escapes
    BY <1>5, <1>11, <2>3
  <2>5. l = [type |-> "char", p |-> p, q |-> e] /\ kept(text, l) = <<Token("char", said_here)>>
    BY <1>3, <1>4, <1>5, <2>2, <2>3, <2>4, CharAt DEF Text
  <2>6. l.type = "char" /\ l.q = e /\ l.type # "error"
    BY <2>5
  <2> HIDE DEF l, said_here
  <2>7. /\ n + 1 \in 0..Len(lexemes) /\ start(n + 1) = l.q + 1
        /\ tokens_of(text, n + 1) = Append(tokens_of(text, n), Token("char", said_here))
        /\ clean(n + 1)
    BY <1>3, <2>5, <2>6, LexemeRead DEF p, l
  <2>8. i' = start(n + 1) /\ tokens' = tokens_of(text, n + 1) /\ word' = "none"
    BY <1>3, <1>4, <1>6, <2>1, <2>6, <2>7
  <2>9. Goes'
    BY <2>1, <2>7, <2>8, CodeNext
  <2> QED
    BY <2>1, <2>9
<1> QED
  BY <1>10, <1>11

LEMMA StringRefused ==
  ASSUME Text, NEW n \in 0..Len(lexemes), string_at(n),
         i <= Len(text) => text[i] = "\\" /\ (i + 1 <= Len(text) => text[i + 1] \notin escapes)
  PROVE  broken
<1> DEFINE p == start(n)
<1>1. p \in 1..Len(text) /\ literal_upto(text, p, i, quote)
  BY Here DEF string_at
<1>2. i \in (p + 1)..(Len(text) + 1) /\ text[p] = quote
  BY <1>1 DEF literal_upto
<1> HIDE DEF p
<1>3. \A q \in p..Len(text) : ~quoted(text, p, q, quote)
  BY <1>1, <1>2, LiteralBroken DEF Text
<1>4. lexeme_at(text, p).type = "error"
  BY <1>1, <1>2, <1>3, BrokenString DEF Text
<1>5. p <= Len(text)
  BY DEF string_at, p
<1> QED
  BY <1>4, <1>5, LexemeRead DEF p

LEMMA StringStep ==
  ASSUME Text, NEW n \in 0..Len(lexemes), scanned(n), InString
  PROVE  (outcome' = outcome /\ Goes') \/ (outcome' = "refused" /\ TokensAreLexemes')
<1> DEFINE p == start(n)
<1>1. mode = "string" /\ outcome = "scanning" /\ i <= Len(text)
  BY DEF InString, reading
<1>2. string_at(n)
  BY <1>1 DEF scanned, code_at, word_at, line_comment_at, block_comment_at, char_at, raw_string_at
<1>3. /\ p <= Len(text) /\ i \in Nat /\ literal_upto(text, p, i, quote)
      /\ now_str = content(text, p, i) /\ word = "none" /\ tokens = tokens_of(text, n)
  BY <1>2 DEF string_at
<1>4. Len(text) \in Nat /\ p \in Nat /\ p >= 1 /\ p \in 1..Len(text)
  BY <1>3, Here
<1>5. i \in (p + 1)..Len(text)
  BY <1>1, <1>3, <1>4 DEF literal_upto
<1>6. now_ch = text[i] /\ (i + 1 <= Len(text) => next_ch = text[i + 1]) /\ (next_ch # space => i + 1 <= Len(text))
  <2>1. i + 1 \in Nat
    BY <1>3
  <2> QED
    BY <1>1, <1>3, <2>1, CharInText DEF now_ch, next_ch
<1>7. DOMAIN get_escape_character = escapes /\ space \notin escapes /\ quote # "\\"
  BY CharactersApart DEF get_escape_character, escapes
<1>8. clean(n)' /\ (n \in 0..Len(lexemes))' /\ start(n)' = p /\ tokens_of(text, n)' = tokens_of(text, n) /\ text' = text
  <2>1. text' = text
    BY DEF InString, advance, refuse
  <2> QED
    BY <2>1 DEF clean, lexemes, start, scanned
<1> HIDE DEF p
<1>9. CASE now_ch = quote
  <2>1. /\ i' = i + 1 /\ mode' = "code" /\ UNCHANGED <<text, outcome, word>>
        /\ tokens' = Append(tokens, Token("string", now_str))
    BY <1>7, <1>9 DEF InString, advance, emit
  <2> DEFINE l == lexeme_at(text, p)
  <2>2. l = [type |-> "string", p |-> p, q |-> i] /\ kept(text, l) = <<Token("string", content(text, p, i))>>
    BY <1>3, <1>4, <1>5, <1>6, <1>9, StringAt DEF Text
  <2>3. l.type = "string" /\ l.q = i /\ l.type # "error"
    BY <2>2
  <2> HIDE DEF l
  <2>4. /\ n + 1 \in 0..Len(lexemes) /\ start(n + 1) = l.q + 1
        /\ tokens_of(text, n + 1) = Append(tokens_of(text, n), Token("string", content(text, p, i)))
        /\ clean(n + 1)
    BY <1>3, <2>2, <2>3, LexemeRead DEF p, l
  <2>5. Goes'
    BY <1>3, <2>1, <2>3, <2>4, CodeNext
  <2> QED
    BY <2>1, <2>5
<1>10. CASE now_ch = "\\" /\ next_ch \notin escapes
  <2>1. outcome' = "refused" /\ UNCHANGED text
    BY <1>7, <1>10 DEF InString, refuse
  <2>2. i + 1 <= Len(text) => text[i + 1] \notin escapes
    BY <1>6, <1>10
  <2>3. broken
    BY <1>2, <1>6, <1>10, <2>2, StringRefused
  <2> QED
    BY <2>1, <2>3, RefusedNext
<1>11. CASE now_ch = "\\" /\ next_ch \in escapes
  <2>1. /\ i' = i + 2 /\ mode' = "string" /\ UNCHANGED <<text, outcome, word, tokens>>
        /\ now_str' = now_str \o get_escape_character[next_ch]
    BY <1>1, <1>7, <1>11 DEF InString, advance
  <2>2. i + 1 <= Len(text) /\ next_ch = text[i + 1]
    BY <1>6, <1>7, <1>11
  <2>3. /\ literal_upto(text, p, i + 2, quote)
        /\ said(text, p, i) = <<>>
        /\ said(text, p, i + 1) = get_escape_character[text[i + 1]]
    BY <1>3, <1>4, <1>5, <1>6, <1>11, <2>2, LiteralEscape DEF Text
  <2>4. content(text, p, i + 2) = content(text, p, i) \o said(text, p, i + 1)
    BY <1>4, <1>5, <2>2, <2>3, ContentGrows DEF Text
  <2>5. i + 2 \in Nat
    BY <1>3
  <2>6. string_at(n)'
    BY <1>3, <1>8, <2>1, <2>2, <2>3, <2>4, <2>5 DEF string_at
  <2> QED
    BY <1>8, <2>1, <2>6 DEF Goes, scanned
<1>12. CASE now_ch # quote /\ now_ch # "\\"
  <2>1. /\ i' = i + 1 /\ mode' = "string" /\ UNCHANGED <<text, outcome, word, tokens>>
        /\ now_str' = Append(now_str, now_ch)
    BY <1>1, <1>12 DEF InString, advance
  <2>2. literal_upto(text, p, i + 1, quote) /\ said(text, p, i) = <<text[i]>>
    BY <1>3, <1>4, <1>5, <1>6, <1>12, LiteralPlain DEF Text
  <2>3. content(text, p, i + 1) = Append(content(text, p, i), text[i])
    BY <1>4, <1>5, <2>2, ContentGrows DEF Text
  <2>4. i + 1 \in Nat
    BY <1>3
  <2>5. string_at(n)'
    BY <1>3, <1>6, <1>8, <2>1, <2>2, <2>3, <2>4 DEF string_at
  <2> QED
    BY <1>8, <2>1, <2>5 DEF Goes, scanned
<1> QED
  BY <1>9, <1>10, <1>11, <1>12

LEMMA RawStringStep ==
  ASSUME Text, NEW n \in 0..Len(lexemes), scanned(n), InRawString
  PROVE  outcome' = outcome /\ Goes'
<1> DEFINE p == start(n)
           h == raw_string_level
<1>1. mode = "raw_string" /\ outcome = "scanning" /\ i <= Len(text)
  BY DEF InRawString, reading
<1>2. raw_string_at(n)
  BY <1>1 DEF scanned, code_at, word_at, line_comment_at, block_comment_at, char_at, string_at
<1>3. /\ h \in Nat /\ p + h + 1 <= Len(text) /\ opens_raw(text, p, h)
      /\ i \in (p + h + 2)..(Len(text) + 1)
      /\ \A m \in (p + 2 * h + 2)..Len(text) : m < i + h => ~closes_raw(text, m, h)
      /\ now_str = SubSeq(text, p + h + 2, i - 1) /\ word = "none" /\ tokens = tokens_of(text, n)
  BY <1>2 DEF raw_string_at
<1>4. Len(text) \in Nat /\ p \in Nat /\ p >= 1 /\ p \in 1..Len(text) /\ i \in Nat /\ i >= p + h + 2
  BY <1>3, Here
<1>5. now_ch = text[i]
  BY <1>1, <1>4, CharInText DEF now_ch
<1>6. text' = text /\ outcome' = outcome /\ word' = word /\ raw_string_level' = h
  BY DEF InRawString, advance
<1>7. clean(n)' /\ (n \in 0..Len(lexemes))' /\ start(n)' = p /\ tokens_of(text, n)' = tokens_of(text, n)
  BY <1>6 DEF clean, lexemes, start, scanned
<1> DEFINE ends == now_ch = quote /\ \A j \in 1..h : char(i + j) = "#"
<1>8. IF ends THEN advance(1 + h, "code") /\ emit("string", now_str) /\ now_str' = <<>>
      ELSE advance(1, mode) /\ now_str' = Append(now_str, now_ch) /\ UNCHANGED tokens
  BY DEF InRawString
<1>9. ends <=> i + h <= Len(text) /\ closes_raw(text, i + h, h)
  <2>1. (i + h) - h = i /\ i + h \in Nat /\ \A j \in 1..h : i + j \in Nat /\ i + j <= i + h /\ (i + h) - h + j = i + j
    BY <1>3, <1>4
  <2>2. ASSUME i + h <= Len(text) PROVE ends <=> closes_raw(text, i + h, h)
    <3>1. \A j \in 1..h : i + j <= Len(text)
      BY <1>4, <2>1, <2>2
    <3>2. \A j \in 1..h : char(i + j) = text[i + j]
      BY <2>1, <3>1, CharInText
    <3> QED
      BY <1>5, <2>1, <3>2 DEF closes_raw
  <2>3. ASSUME ends PROVE i + h <= Len(text)
    <3>1. CASE h = 0
      BY <1>1, <1>4, <3>1
    <3>2. CASE h # 0
      <4>1. h \in 1..h
        BY <1>3, <3>2
      <4>2. char(i + h) # space
        BY <2>3, <4>1, CharactersApart
      <4> QED
        BY <2>1, <4>2, CharInText
    <3> QED
      BY <3>1, <3>2
  <2> QED
    BY <2>2, <2>3
<1> HIDE DEF p, h, ends
<1>10. CASE ends
  <2>1. i' = i + (1 + h) /\ mode' = "code" /\ tokens' = Append(tokens, Token("string", now_str))
    BY <1>8, <1>10 DEF advance, emit
  <2> DEFINE l == lexeme_at(text, p)
             q == i + h
  <2>2. q \in (p + 2 * h + 2)..Len(text) /\ closes_raw(text, q, h)
    BY <1>3, <1>4, <1>9, <1>10
  <2>3. \A m \in (p + 2 * h + 2)..(q - 1) : ~closes_raw(text, m, h)
    BY <1>3, <1>4, <2>2
  <2>4. q - h - 1 = i - 1 /\ q + 1 = i + (1 + h)
    BY <1>3, <1>4
  <2> HIDE DEF q
  <2>5. l = [type |-> "raw_string", p |-> p, q |-> q] /\ kept(text, l) = <<Token("string", SubSeq(text, p + h + 2, q - h - 1))>>
    BY <1>3, <1>4, <2>2, <2>3, RawAt DEF Text
  <2>6. l.type = "raw_string" /\ l.q = q /\ l.type # "error"
    BY <2>5
  <2>7. kept(text, l) = <<Token("string", now_str)>>
    BY <1>3, <2>4, <2>5
  <2> HIDE DEF l
  <2>8. /\ n + 1 \in 0..Len(lexemes) /\ start(n + 1) = l.q + 1
        /\ tokens_of(text, n + 1) = Append(tokens_of(text, n), Token("string", now_str))
        /\ clean(n + 1)
    <3>1. start(n) <= Len(text) /\ lexeme_at(text, start(n)) = l
      BY <1>4 DEF p, l
    <3> QED
      BY <2>6, <2>7, <3>1, LexemeRead
  <2>9. Goes'
    BY <1>3, <1>6, <2>1, <2>4, <2>6, <2>8, CodeNext
  <2> QED
    BY <1>6, <2>9
<1>11. CASE ~ends
  <2>1. i' = i + 1 /\ mode' = mode /\ now_str' = Append(now_str, now_ch) /\ tokens' = tokens
    BY <1>8, <1>11 DEF advance
  <2>2. now_str' = SubSeq(text, p + h + 2, (i + 1) - 1)
    <3> DEFINE a == p + h + 2
    <3>1. a \in Nat /\ a >= 1 /\ i \in a..Len(text) /\ (i + 1) - 1 = i
      BY <1>1, <1>3, <1>4
    <3> HIDE DEF a
    <3>2. Append(SubSeq(text, a, i - 1), text[i]) = SubSeq(text, a, i)
      BY <3>1, SliceGrows DEF Text
    <3> QED
      BY <1>3, <1>5, <2>1, <3>1, <3>2 DEF a
  <2>3. i + 1 \in (p + h + 2)..(Len(text) + 1)
    BY <1>1, <1>3, <1>4
  <2>4. ASSUME NEW m \in (p + 2 * h + 2)..Len(text), m < (i + 1) + h PROVE ~closes_raw(text, m, h)
    <3>1. CASE m < i + h
      BY <1>3, <3>1
    <3>2. CASE m = i + h
      <4>1. i + h <= Len(text)
        BY <1>4, <3>2
      <4> QED
        BY <1>9, <1>11, <3>2, <4>1
    <3> QED
      BY <1>3, <1>4, <2>4, <3>1, <3>2
  <2>5. raw_string_at(n)'
    BY <1>1, <1>3, <1>6, <1>7, <2>1, <2>2, <2>3, <2>4 DEF raw_string_at
  <2> QED
    BY <1>6, <1>7, <2>5 DEF Goes, scanned
<1> QED
  BY <1>10, <1>11

-----------------------------------------------------------------------------
(* The end of the text *)

LEMMA EndStep ==
  ASSUME Text, NEW n \in 0..Len(lexemes), scanned(n), End
  PROVE  TokensAreLexemes'
<1> DEFINE p == start(n)
<1>1. /\ i > Len(text) /\ text' = text
      /\ tokens' = IF mode \in {"char", "string", "raw_string"} THEN tokens ELSE with_word
      /\ outcome' = IF mode \in {"code", "line_comment"} THEN "tokens" ELSE "refused"
  BY DEF End
<1>2. /\ Len(text) \in Nat /\ Len(text) >= 1 /\ p \in Nat /\ p >= 1 /\ n \in Nat
      /\ p > Len(text) <=> n = Len(lexemes)
  BY Here
<1>3. text[Len(text)] = "\n" /\ text \in Seq(Characters) /\ text # <<>>
  BY DEF Text
<1>4. broken /\ outcome' = "refused" => TokensAreLexemes'
  BY <1>1, RefusedNext
<1>5. CASE code_at(n)
  <2>1. i = p /\ with_word = tokens_of(text, n) /\ mode = "code"
    BY <1>5 DEF code_at
  <2>2. n = Len(lexemes) /\ n # 0
    <3>1. start(0) = 1
      BY DEF start, after
    <3> QED
      BY <1>1, <1>2, <2>1, <3>1
  <2>3. Last(lexemes).type # "error"
    <3>1. clean(n)
      BY DEF scanned
    <3> QED
      BY <2>2, <3>1 DEF clean, Last
  <2>4. tokens' = reference(text, lexemes) /\ outcome' = "tokens"
    <3>1. tokens_of(text, Len(Lexemes(text))) = reference(text, Lexemes(text))
      BY <1>3, AllTokens
    <3> QED
      BY <1>1, <2>1, <2>2, <3>1 DEF lexemes
  <2> QED
    BY <1>1, <2>3, <2>4 DEF TokensAreLexemes, lexemes
<1>6. CASE word_at(n)
  BY <1>1, <1>2, <1>6 DEF word_at
<1>7. CASE line_comment_at(n)
  <2>1. /\ opens(text, p, "/") /\ i \in (p + 2)..(Len(text) + 1)
        /\ \A j \in (p + 2)..(i - 1) : text[j] # "\n"
    BY <1>7 DEF line_comment_at
  <2>2. p < Len(text) /\ text[p + 1] = "/"
    BY <2>1 DEF opens
  <2>3. p + 1 # Len(text)
    BY <1>3, <2>2
  <2>4. Len(text) \in (p + 2)..(i - 1)
    BY <1>1, <1>2, <2>1, <2>2, <2>3
  <2> QED
    BY <1>3, <2>1, <2>4
<1>8. CASE block_comment_at(n)
  <2>1. /\ mode = "block_comment" /\ opens(text, p, "*") /\ i \in (p + 2)..(Len(text) + 1)
        /\ \A j \in (p + 3)..Len(text) : j <= i => ~closes_comment(text, j)
    BY <1>8 DEF block_comment_at
  <2>2. \A j \in (p + 3)..Len(text) : ~closes_comment(text, j)
    BY <1>1, <1>2, <2>1
  <2>3. p \in 1..Len(text)
    BY <1>2, <2>1 DEF opens
  <2>4. lexeme_at(text, p).type = "error"
    BY <1>3, <2>1, <2>2, <2>3, OpenBlockComment
  <2>5. broken
    BY <2>3, <2>4, LexemeRead
  <2> QED
    BY <1>1, <1>4, <2>1, <2>5
<1>9. CASE char_at(n)
  <2>1. p <= Len(text) /\ text[p] = "'" /\ i = p + 1
    BY <1>9 DEF char_at
  <2>2. p # Len(text)
    BY <1>3, <2>1
  <2> QED
    BY <1>1, <1>2, <2>1, <2>2
<1>10. CASE string_at(n)
  <2>1. mode = "string" /\ ~(i <= Len(text))
    BY <1>1, <1>2, <1>10 DEF string_at
  <2>2. broken
    BY <1>10, <2>1, StringRefused
  <2> QED
    BY <1>1, <1>4, <2>1, <2>2
<1>11. CASE raw_string_at(n)
  <2> DEFINE h == raw_string_level
  <2>1. /\ mode = "raw_string" /\ h \in Nat /\ p + h + 1 <= Len(text) /\ opens_raw(text, p, h)
        /\ i \in (p + h + 2)..(Len(text) + 1)
        /\ \A m \in (p + 2 * h + 2)..Len(text) : m < i + h => ~closes_raw(text, m, h)
    BY <1>11 DEF raw_string_at
  <2>2. \A m \in (p + 2 * h + 2)..Len(text) : ~closes_raw(text, m, h)
    BY <1>1, <1>2, <2>1
  <2>3. \A k \in Nat : opens_raw(text, p, k) => k = h
    BY <1>2, <2>1, LevelIsOne
  <2>4. raw_opens(text, p)
    <3>1. p < Len(text) /\ text[p] = "r"
      BY <1>2, <2>1 DEF opens_raw
    <3>2. text[p + 1] \in {quote, "#"}
      <4>1. CASE h = 0
        <5>1. p + h + 1 = p + 1
          BY <1>2, <4>1
        <5> QED
          BY <2>1, <5>1 DEF opens_raw
      <4>2. CASE h # 0
        <5>1. 1 \in 1..h
          BY <2>1, <4>2
        <5> QED
          BY <2>1, <5>1 DEF opens_raw
      <4> QED
        BY <4>1, <4>2
    <3> QED
      BY <3>1, <3>2 DEF raw_opens
  <2>5. p <= Len(text)
    BY <1>2, <2>1
  <2> HIDE DEF h
  <2>6. broken
    BY <2>2, <2>3, <2>4, <2>5, RawRefused
  <2> QED
    BY <1>1, <1>4, <2>1, <2>6
<1> QED
  BY <1>5, <1>6, <1>7, <1>8, <1>9, <1>10, <1>11 DEF scanned

-----------------------------------------------------------------------------
(* The invariant *)

ScansLexemes == Text /\ TokensAreLexemes /\ (outcome = "scanning" => Goes)

LEMMA ScanBegins == Init => ScansLexemes
<1> SUFFICES ASSUME Init PROVE ScansLexemes
  OBVIOUS
<1>0. PICK alphabet \in Texts : \E s \in alphabet : text = Append(s, "\n")
  BY DEF Init
<1>1. PICK s \in alphabet : text = Append(s, "\n")
  BY <1>0
<1>2. s \in Seq(STRING)
  BY TextsAssumption
<1>3. Text
  <2> DEFINE S == Characters
  <2>1. \A j \in 1..Len(s) : s[j] \in S
    BY <1>2 DEF Characters
  <2>2. "\n" \in S
    BY DEF Characters
  <2> HIDE DEF S
  <2>3. s \in Seq(S)
    <3>1. Len(s) \in Nat /\ s = [j \in 1..Len(s) |-> s[j]]
      BY <1>2
    <3>2. s \in [1..Len(s) -> S]
      BY <2>1, <3>1
    <3> QED
      BY <3>1, <3>2
  <2>4. Append(s, "\n") \in Seq(S) /\ Len(Append(s, "\n")) = Len(s) + 1 /\ Append(s, "\n")[Len(s) + 1] = "\n"
    BY <2>2, <2>3, AppendProperties
  <2>5. Append(s, "\n") # <<>>
    BY <2>3, <2>4
  <2> QED
    BY <1>1, <2>4, <2>5 DEF Text, S
<1>4. i = 1 /\ mode = "code" /\ word = "none" /\ tokens = <<>> /\ outcome = "scanning"
  BY DEF Init
<1>5. tokens_of(text, 0) = <<>> /\ after(Lexemes(text), 0) = 1 /\ Len(Lexemes(text)) \in Nat
  BY <1>3, AllTokens DEF Text
<1>6. code_at(0) /\ clean(0)
  BY <1>4, <1>5 DEF code_at, clean, with_word, follows_word, start, lexemes
<1>7. 0 \in 0..Len(lexemes)
  BY <1>5 DEF lexemes
<1>8. Goes
  BY <1>6, <1>7 DEF Goes, scanned
<1> QED
  BY <1>3, <1>4, <1>8 DEF ScansLexemes, TokensAreLexemes

LEMMA ScanStep == ScansLexemes /\ BufferOwned /\ [Next]_vars => ScansLexemes'
<1> SUFFICES ASSUME ScansLexemes, BufferOwned, [Next]_vars PROVE ScansLexemes'
  OBVIOUS
<1>1. Text /\ TokensAreLexemes /\ (outcome = "scanning" => Goes)
  BY DEF ScansLexemes
<1>2. text' = text
  BY DEF vars, Next, InBlockComment, InLineComment, InChar, InString, InRawString, OpenComment, OpenRawString,
         WordCharacter, Blank, Symbol, OpenQuote, End, advance, refuse
<1>3. Text'
  BY <1>1, <1>2 DEF Text
<1>4. CASE UNCHANGED vars
  <2>1. TokensAreLexemes'
    BY <1>1, <1>4 DEF vars, TokensAreLexemes
  <2>2. Goes => Goes'
    <3>1. \A n : scanned(n) => scanned(n)'
      BY <1>4 DEF vars, scanned, clean, lexemes, start, code_at, word_at, line_comment_at, block_comment_at, char_at,
                  string_at, raw_string_at, with_word, follows_word
    <3> QED
      BY <1>2, <3>1 DEF Goes, other_words, lexemes
  <2> QED
    BY <1>1, <1>3, <1>4, <2>1, <2>2 DEF vars, ScansLexemes
<1>5. CASE Next
  <2>1. outcome = "scanning"
    BY <1>5 DEF Next, InBlockComment, InLineComment, InChar, InString, InRawString, OpenComment, OpenRawString,
                WordCharacter, Blank, Symbol, OpenQuote, End, reading
  <2>2. CASE other_words
    <3>1. other_words'
      BY <1>2, <2>2 DEF other_words, lexemes
    <3>2. TokensAreLexemes'
      BY <3>1 DEF TokensAreLexemes, other_words, lexemes
    <3> QED
      BY <1>3, <3>1, <3>2 DEF ScansLexemes, Goes
  <2>3. CASE ~other_words
    <3>1. PICK n \in 0..Len(lexemes) : scanned(n)
      BY <1>1, <2>1, <2>3 DEF Goes
    <3>2. CASE InBlockComment \/ InLineComment \/ OpenComment \/ WordCharacter \/ Blank \/ Symbol
      <4>1. outcome' = outcome
        BY <3>2 DEF InBlockComment, InLineComment, OpenComment, WordCharacter, Blank, Symbol, advance
      <4>2. Goes'
        BY <1>1, <3>1, <3>2, BlockCommentStep, LineCommentStep, OpenCommentStep, WordCharacterStep, BlankStep, SymbolStep
      <4> QED
        BY <1>3, <2>1, <4>1, <4>2 DEF ScansLexemes, TokensAreLexemes
    <3>3. CASE InChar \/ InString \/ InRawString \/ OpenRawString \/ OpenQuote
      <4>1. (outcome' = outcome /\ Goes') \/ (outcome' = "refused" /\ TokensAreLexemes')
        BY <1>1, <3>1, <3>3, CharStep, StringStep, RawStringStep, OpenRawStringStep, OpenQuoteStep
      <4> QED
        BY <1>3, <2>1, <4>1 DEF ScansLexemes, TokensAreLexemes
    <3>4. CASE End
      <4>1. TokensAreLexemes'
        BY <1>1, <3>1, <3>4, EndStep
      <4>2. outcome' # "scanning"
        BY <3>4 DEF End
      <4> QED
        BY <1>3, <4>1, <4>2 DEF ScansLexemes
    <3> QED
      BY <1>5, <3>2, <3>3, <3>4 DEF Next
  <2> QED
    BY <2>2, <2>3
<1> QED
  BY <1>4, <1>5

(***************************************************************************)
(* Whatever its texts are, read_and_get_tokens gives the parser the        *)
(* longest lexemes of a text, in their order and with the contents of its  *)
(* literals, and refuses exactly the texts that cannot be cut into         *)
(* lexemes, where no comment or raw string touches a word.                 *)
(***************************************************************************)
THEOREM ScannerIsSound == Spec => []TokensAreLexemes
<1>1. Init => ScansLexemes
  BY ScanBegins
<1>2. ScansLexemes /\ BufferOwned /\ [Next]_vars => ScansLexemes'
  BY ScanStep
<1>3. Spec => []BufferOwned
  BY BufferIsOwned
<1>4. ScansLexemes => TokensAreLexemes
  BY DEF ScansLexemes
<1> QED
  BY <1>1, <1>2, <1>3, <1>4, PTL DEF Spec
=============================================================================
