----------------------------- MODULE LexerProofs -----------------------------
(***************************************************************************)
(* Proofs about Lexer, for every set of sources and every bound on hashes  *)
(* and values.                                                             *)
(*                                                                         *)
(* The properties speak of a token and the source only, so they hold for   *)
(* good once they hold for the token that is pushed.  For a token of one   *)
(* step that follows from where eat_while stops; for a literal or a        *)
(* comment from what the loop it is read by keeps true of the characters   *)
(* between its beginning and the cursor.                                   *)
(***************************************************************************)
EXTENDS Lexer, SequenceTheorems, FiniteSetTheorems, WellFoundedInduction, TLAPS

----------------------------------------------------------------------------
(* What the loops keep true                                                *)

(* Each loop is stated of where it began and where the cursor is, and the   *)
(* invariant states it of the variables.                                   *)

\* A block comment from b on, with the cursor at p: it is not within a
\* delimiter, d is the nesting of what is eaten, and the comment was not over
\* before.
BlockLoop(b, p, d) ==
    /\ b + 2 <= p /\ Pair(b) = <<"/", "*">>
    /\ ~IsDelimiter(b, p - 1)
    /\ d = Nesting(b, p - 1)
    /\ \A i \in b .. (p - 1) : IsDelimiter(b, i) => Nesting(b, i) # 0

\* A string opened at o: no quote eaten closes it, and the cursor is behind an
\* escaping backslash only at a character that a backslash does not take with
\* it.
StringLoop(o, p) ==
    /\ o < p /\ At(o) = Quote
    /\ Escaped(o, p) => At(p) \notin Escapes
    /\ \A q \in 0 .. (p - 1) : ~Closes(o, q)

\* A character opened at o.
SymbolLoop(o, p) == At(o) = "'" /\ p = o + 1

CharLoop(o, p) ==
    /\ o < p /\ At(o) = "'"
    /\ Escaped(o, p) => p = Len(source)
    /\ \A i \in (o + 1) .. (p - 1) :
          ~Escaped(o, i) => /\ At(i) \notin {"'", "/"}
                            /\ At(i) = "\n" => i = p - 1 /\ At(p) = "'"

\* A raw string whose first hash is at f: n hashes are eaten.
HashesLoop(f, p, n) == f > 0 /\ At(f - 1) = "r" /\ p = f + n /\ Hashes(f, n)

\* n hashes and a quote opened it, and no quote before p ends it.
RawLoop(f, p, n) ==
    /\ HashesLoop(f, f + n, n)
    /\ f + n < p /\ At(f + n) = Quote
    /\ \A q \in (f + n + 1) .. (p - 1) : ~(At(q) = Quote /\ Hashes(q + 1, n))

\* m hashes are eaten behind the last quote.
ClosingLoop(f, p, n, m) ==
    /\ RawLoop(f, p - m - 1, n)
    /\ At(p - m - 1) = Quote /\ Hashes(p - m, m)

BlockInv ==
    mode = "block" =>
        /\ literal = "comment"
        /\ \A b \in {begin}, p \in {pos}, d \in {depth} : BlockLoop(b, p, d)

\* The first quote of the literal being read.
Opened == IF literal \in {"byte_str", "byte"} THEN begin + 1 ELSE begin

StringInv ==
    mode = "string" =>
        /\ literal \in {"str", "byte_str"}
        /\ \A o \in {Opened}, p \in {pos} : StringLoop(o, p)

CharInv ==
    mode \in {"symbol", "char"} =>
        /\ literal \in {"char", "byte"}
        /\ \A o \in {Opened}, p \in {pos} :
              IF mode = "symbol" THEN SymbolLoop(o, p) ELSE CharLoop(o, p)

\* The first hash of the raw string being read.
HashesFrom == IF literal = "raw_str" THEN begin + 1 ELSE begin + 2

RawInv ==
    mode \in {"hashes", "raw", "closing"} =>
        /\ literal \in Raw
        /\ \A f \in {HashesFrom}, p \in {pos}, n \in {opening}, m \in {closing} :
              /\ mode = "hashes" => HashesLoop(f, p, n)
              /\ mode = "raw" => RawLoop(f, p, n)
              /\ mode = "closing" => ClosingLoop(f, p, n, m)

\* The first digit of an integer, if it has one.
DigitsFrom(t) == IF HasBase(t) THEN t.begin + 2 ELSE t.begin

\* An integer has all the digits there are, and is ok if there is one.
IntRead(t) ==
    /\ DigitsFrom(t) <= t.suffix
    /\ At(t.suffix) \notin DigitsBelow(RadixOf(t))
    /\ (\E q \in DigitsFrom(t) .. (t.suffix - 1) : At(q) \in DigitsBelow(RadixOf(t))) => t.ok

NumberGood(t) == NumberWhole(t) /\ (t.kind = "int" => IntRead(t))

\* What is right about a token.
TokenGood(t) ==
    /\ t \in TokenType /\ t.begin < t.suffix /\ t.suffix <= t.end
    /\ t.kind \in {"str", "byte_str"} => StringExact(t)
    /\ t.kind \in {"char", "byte"} => CharExact(t)
    /\ t.kind \in Raw => RawStringExact(t)
    /\ t.kind = "comment" => CommentNests(t)
    /\ t.kind \in {"int", "float"} => NumberGood(t)
    /\ t.kind \in {"str", "char", "raw_str"} /\ t.ok => SliceIsContent(t)

TokensGood == \A k \in DOMAIN tokens : TokenGood(tokens[k])

LoopInv == BlockInv /\ StringInv /\ CharInv /\ RawInv
LexInv  == TypeOK /\ LoopInv /\ TokensGood

----------------------------------------------------------------------------
(* The least of a set of numbers                                           *)

LEMMA LeastNatural ==
    ASSUME NEW T \in SUBSET Nat, T # {}
    PROVE  \E x \in T : \A y \in T : x <= y
<1>1. PICK x \in T : \A y \in T : <<y, x>> \notin OpToRel(<, Nat)
  BY NatLessThanWellFounded, WFMin
<1>2. \A y \in T : ~(y < x)
  BY <1>1 DEF OpToRel
<1> QED
  BY <1>2

----------------------------------------------------------------------------
(* The cursor                                                              *)

\* The characters that literals are made of are different ones.
LEMMA CharactersDiffer ==
    /\ Quote \notin {Eof, Backslash, "'", "#", "/", "r", "\n"}
    /\ Backslash \notin {Eof, "'", "#", "/", "r", "\n"}
    /\ "'" \notin {Eof, "#", "/", "\n"}
    /\ Eof \notin {"#", "/", "r", "\n", "'"}
BY DEF Quote, Backslash, Eof

LEMMA AtType ==
    ASSUME source \in Seq(Char), NEW i \in Nat
    PROVE  /\ Len(source) \in Nat
           /\ At(i) \in Char \cup {Eof}
           /\ At(i) = Eof <=> i >= Len(source)
<1>1. Eof \notin Char
  BY CharactersDiffer DEF Eof, Char, IdContinue, IdStart, HexLetters, Digits, White, Punctuation
<1>2. Len(source) \in Nat /\ \A k \in 1 .. Len(source) : source[k] \in Char
  OBVIOUS
<1>3. CASE i < Len(source)
  <2>1. At(i) \in Char
    BY <1>2, <1>3 DEF At
  <2> QED
    BY <1>1, <1>2, <1>3, <2>1
<1>4. CASE ~(i < Len(source))
  BY <1>2, <1>4 DEF At
<1> QED
  BY <1>3, <1>4

\* eat_while stops at the first character that is not in S.
LEMMA EatWhileStops ==
    ASSUME source \in Seq(Char), NEW S, Eof \notin S, NEW i \in 0 .. Len(source)
    PROVE  /\ EatWhile(i, S) \in Nat
           /\ i <= EatWhile(i, S) /\ EatWhile(i, S) <= Len(source)
           /\ At(EatWhile(i, S)) \notin S
           /\ \A j \in i .. (EatWhile(i, S) - 1) : At(j) \in S
<1>1. Len(source) \in Nat /\ i \in Nat
  OBVIOUS
<1> DEFINE T == {q \in i .. Len(source) : At(q) \notin S}
<1>2. Len(source) \in T
  <2>1. At(Len(source)) = Eof
    BY <1>1, AtType
  <2> QED
    BY <1>1, <2>1
<1>3. PICK q \in T : \A y \in T : q <= y
  <2>1. T \in SUBSET Nat /\ T # {}
    BY <1>1, <1>2
  <2> QED
    BY <2>1, LeastNatural
<1>4. q \in i .. Len(source) /\ At(q) \notin S
  OBVIOUS
<1>5. \A j \in i .. (q - 1) : At(j) \in S
  <2> SUFFICES ASSUME NEW j \in i .. (q - 1) PROVE At(j) \in S
    OBVIOUS
  <2>1. j \in i .. Len(source) /\ ~(q <= j)
    BY <1>1, <1>4
  <2> QED
    BY <1>3, <2>1
<1> HIDE DEF T
<1> DEFINE R(p) == /\ At(p) \notin S
                   /\ \A j \in i .. (p - 1) : At(j) \in S
<1>6. EatWhile(i, S) = CHOOSE p \in i .. Len(source) : R(p)
  BY DEF EatWhile
<1>7. R(q)
  BY <1>4, <1>5
<1> HIDE DEF R
<1>8. EatWhile(i, S) \in i .. Len(source) /\ R(EatWhile(i, S))
  BY <1>4, <1>6, <1>7
<1> QED
  BY <1>1, <1>8 DEF R

\* Where eat_while stops, if this is known.
LEMMA EatWhileIs ==
    ASSUME source \in Seq(Char), NEW S, Eof \notin S, NEW i \in 0 .. Len(source),
           NEW q \in i .. Len(source), At(q) \notin S,
           \A j \in i .. (q - 1) : At(j) \in S
    PROVE  EatWhile(i, S) = q
<1> DEFINE e == EatWhile(i, S)
<1>1. /\ e \in Nat /\ i <= e /\ At(e) \notin S
      /\ \A j \in i .. (e - 1) : At(j) \in S
  BY EatWhileStops
<1> HIDE DEF e
<1>2. q \in Nat /\ i \in Nat /\ i <= q
  OBVIOUS
<1>3. ~(e < q)
  BY <1>1, <1>2
<1>4. ~(q < e)
  BY <1>1, <1>2
<1>5. e = q
  BY <1>1, <1>2, <1>3, <1>4
<1> QED
  BY <1>5 DEF e

\* The sets of characters that the lexer eats.
LEMMA EofNowhere ==
    /\ Eof \notin IdContinue /\ Eof \notin IdStart /\ Eof \notin Digits
    /\ Eof \notin IdContinue \cup {"emoji", "joiner"}
    /\ Eof \notin Digits \cup {"_"} /\ Eof \notin Digits \cup HexLetters \cup {"_"}
    /\ Eof \notin {"#"} /\ Eof \notin Char
    /\ \A c : Eof \notin Char \ {c}
BY CharactersDiffer
   DEF Eof, Char, IdContinue, IdStart, HexLetters, Digits, White, Punctuation

\* What is there is before the end.
LEMMA Before ==
    ASSUME source \in Seq(Char), NEW i \in Nat, At(i) # Eof
    PROVE  i < Len(source) /\ i + 1 \in 0 .. Len(source) /\ Len(source) \in Nat
BY AtType

----------------------------------------------------------------------------
(* Every other one of a run                                                *)

\* i is one of the first, third, fifth .. of a run of members of P, where runs
\* do not reach behind b.
Alternate(P, b, i) ==
    /\ i \in P
    /\ \E s \in b .. i : /\ (i - s) % 2 = 0
                        /\ \A j \in s .. i : j \in P
                        /\ (s = b \/ s - 1 \notin P)

\* A run begins somewhere.
LEMMA RunBegins ==
    ASSUME NEW P, NEW b \in Nat, NEW i \in Nat, b <= i, i \in P
    PROVE  \E s \in b .. i : (\A j \in s .. i : j \in P) /\ (s = b \/ s - 1 \notin P)
<1> DEFINE T == {s \in b .. i : \A j \in s .. i : j \in P}
<1>1. i \in T /\ T \in SUBSET Nat
  OBVIOUS
<1>2. PICK s \in T : \A y \in T : s <= y
  BY <1>1, LeastNatural
<1>3. s \in b .. i /\ \A j \in s .. i : j \in P
  OBVIOUS
<1>4. ASSUME s # b, s - 1 \in P PROVE FALSE
  <2>1. s - 1 \in b .. i /\ \A j \in (s - 1) .. i : j \in P
    <3>1. s - 1 \in b .. i
      BY <1>3, <1>4
    <3>2. \A j \in (s - 1) .. i : j = s - 1 \/ j \in s .. i
      BY <1>3
    <3> QED
      BY <1>3, <1>4, <3>1, <3>2
  <2>2. s - 1 \in T
    BY <2>1
  <2> QED
    BY <1>2, <1>3, <2>2
<1> QED
  BY <1>3, <1>4

LEMMA AlternateStep ==
    ASSUME NEW P, NEW b \in Nat, NEW i \in Nat, b <= i
    PROVE  Alternate(P, b, i) <=> i \in P /\ (i = b \/ ~Alternate(P, b, i - 1))
<1>1. ASSUME Alternate(P, b, i), i # b, Alternate(P, b, i - 1) PROVE FALSE
  <2>1. PICK s \in b .. i : /\ (i - s) % 2 = 0
                            /\ \A j \in s .. i : j \in P
                            /\ (s = b \/ s - 1 \notin P)
    BY <1>1 DEF Alternate
  <2>2. i - 1 \in P
    BY <1>1 DEF Alternate
  <2>3. PICK u \in b .. (i - 1) : /\ (i - 1 - u) % 2 = 0
                                  /\ \A j \in u .. (i - 1) : j \in P
                                  /\ (u = b \/ u - 1 \notin P)
    BY <1>1 DEF Alternate
  <2>4. s \in Nat /\ u \in Nat /\ b <= s /\ s <= i /\ b <= u /\ u <= i - 1
    BY <2>1, <2>3
  <2>5. s # i
    BY <1>1, <2>1, <2>2
  <2>6. ~(s < u)
    BY <2>1, <2>3, <2>4
  <2>7. ~(u < s)
    BY <2>1, <2>3, <2>4, <2>5
  <2>8. s = u
    BY <2>4, <2>6, <2>7
  <2> QED
    BY <2>1, <2>3, <2>4, <2>8
<1>2. ASSUME i \in P, i = b PROVE Alternate(P, b, i)
  <2>1. (i - i) % 2 = 0 /\ i \in b .. i /\ \A j \in i .. i : j \in P
    BY <1>2
  <2> QED
    BY <1>2, <2>1 DEF Alternate
<1>3. ASSUME i \in P, i # b, ~Alternate(P, b, i - 1) PROVE Alternate(P, b, i)
  <2>1. CASE i - 1 \notin P
    <3>1. (i - i) % 2 = 0 /\ i \in b .. i /\ \A j \in i .. i : j \in P
      BY <1>3
    <3> QED
      BY <1>3, <2>1, <3>1 DEF Alternate
  <2>2. CASE i - 1 \in P
    <3>1. PICK s \in b .. (i - 1) : /\ \A j \in s .. (i - 1) : j \in P
                                    /\ (s = b \/ s - 1 \notin P)
      BY <1>3, <2>2, RunBegins
    <3>2. (i - 1 - s) % 2 # 0
      BY <1>3, <2>2, <3>1 DEF Alternate
    <3>3. s \in Nat /\ b <= s /\ s <= i - 1 /\ s \in b .. i
      BY <3>1
    <3>4. (i - s) % 2 = 0
      BY <3>2, <3>3
    <3>5. \A j \in s .. i : j \in P
      <4>1. \A j \in s .. i : j = i \/ j \in s .. (i - 1)
        BY <3>3
      <4> QED
        BY <1>3, <3>1, <4>1
    <3> QED
      BY <1>3, <3>1, <3>3, <3>4, <3>5 DEF Alternate
  <2> QED
    BY <2>1, <2>2
<1> QED
  BY <1>1, <1>2, <1>3 DEF Alternate

LEMMA DelimiterStep ==
    ASSUME NEW b \in Nat, NEW i \in Nat, b <= i
    PROVE  IsDelimiter(b, i)
              <=> Pair(i) \in Delimiters /\ (i = b \/ ~IsDelimiter(b, i - 1))
<1> DEFINE P == {j \in Nat : Pair(j) \in Delimiters}
<1>1. \A k \in Nat : b <= k => (IsDelimiter(b, k) <=> Alternate(P, b, k))
  <2> SUFFICES ASSUME NEW k \in Nat, b <= k
               PROVE  IsDelimiter(b, k) <=> Alternate(P, b, k)
    OBVIOUS
  <2>1. k \in P <=> Pair(k) \in Delimiters
    OBVIOUS
  <2>2. ASSUME NEW s \in b .. k
        PROVE  /\ (\A j \in s .. k : j \in P)
                     <=> \A j \in s .. k : Pair(j) \in Delimiters
               /\ s # b => (s - 1 \notin P <=> Pair(s - 1) \notin Delimiters)
    <3>1. \A j \in s .. k : j \in Nat
      OBVIOUS
    <3>2. s # b => s - 1 \in Nat
      OBVIOUS
    <3> QED
      BY <3>1, <3>2
  <2> HIDE DEF P
  <2> QED
    BY <2>1, <2>2 DEF IsDelimiter, Alternate
<1> HIDE DEF P
<1>2. Alternate(P, b, i) <=> i \in P /\ (i = b \/ ~Alternate(P, b, i - 1))
  BY AlternateStep
<1>3. i # b => i - 1 \in Nat /\ b <= i - 1
  OBVIOUS
<1>4. i \in P <=> Pair(i) \in Delimiters
  BY DEF P
<1> QED
  BY <1>1, <1>2, <1>3, <1>4

LEMMA EscapedStep ==
    ASSUME NEW o \in Nat, NEW i \in Nat, o < i
    PROVE  Escaped(o, i) <=> i # o + 1 /\ At(i - 1) = Backslash /\ ~Escaped(o, i - 1)
<1> DEFINE P == {j \in Nat : At(j) = Backslash}
<1>1. ~Escaped(o, o + 1)
  <2>1. 0 .. (o + 1 - o - 2) = {}
    OBVIOUS
  <2> QED
    BY <2>1 DEF Escaped
<1>2. ASSUME NEW k \in Nat, o + 1 < k
      PROVE  Escaped(o, k) <=> Alternate(P, o + 1, k - 1)
  <2>1. ASSUME Escaped(o, k) PROVE Alternate(P, o + 1, k - 1)
    <3>1. PICK n \in 0 .. (k - o - 2) :
              /\ n % 2 = 0
              /\ \A j \in (k - 1 - n) .. (k - 1) : At(j) = Backslash
              /\ (k - 2 - n = o \/ At(k - 2 - n) # Backslash)
      BY <2>1 DEF Escaped
    <3> DEFINE s == k - 1 - n
    <3>2. s \in (o + 1) .. (k - 1) /\ n = k - 1 - s /\ s \in Nat /\ n \in Nat
      BY <3>1
    <3>3. (k - 1 - s) % 2 = 0 /\ \A j \in s .. (k - 1) : j \in P
      BY <3>1, <3>2
    <3>4. s = o + 1 \/ s - 1 \notin P
      BY <3>1, <3>2
    <3>5. k - 1 \in P
      BY <3>2, <3>3
    <3> HIDE DEF s, P
    <3> QED
      BY <3>2, <3>3, <3>4, <3>5 DEF Alternate
  <2>2. ASSUME Alternate(P, o + 1, k - 1) PROVE Escaped(o, k)
    <3>1. PICK s \in (o + 1) .. (k - 1) :
              /\ (k - 1 - s) % 2 = 0
              /\ \A j \in s .. (k - 1) : j \in P
              /\ (s = o + 1 \/ s - 1 \notin P)
      BY <2>2 DEF Alternate
    <3> DEFINE n == k - 1 - s
    <3>2. n \in 0 .. (k - o - 2) /\ k - 1 - n = s /\ k - 2 - n = s - 1
      BY <3>1
    <3>3. n % 2 = 0 /\ \A j \in (k - 1 - n) .. (k - 1) : At(j) = Backslash
      BY <3>1, <3>2
    <3>4. k - 2 - n = o \/ At(k - 2 - n) # Backslash
      <4>1. s - 1 \in Nat
        BY <3>1
      <4> QED
        BY <3>1, <3>2, <4>1
    <3> HIDE DEF n
    <3> QED
      BY <3>2, <3>3, <3>4 DEF Escaped
  <2> QED
    BY <2>1, <2>2
<1> HIDE DEF P
<1>3. CASE i = o + 1
  BY <1>1, <1>3
<1>4. CASE i # o + 1
  <2>1. o + 1 < i /\ i - 1 \in Nat /\ o + 1 <= i - 1 /\ o + 1 \in Nat
    BY <1>4
  <2>2. Alternate(P, o + 1, i - 1)
           <=> i - 1 \in P /\ (i - 1 = o + 1 \/ ~Alternate(P, o + 1, i - 1 - 1))
    BY <2>1, AlternateStep
  <2>3. i - 1 \in P <=> At(i - 1) = Backslash
    BY <2>1 DEF P
  <2>4. CASE i - 1 = o + 1
    BY <1>1, <1>2, <1>4, <2>1, <2>2, <2>3, <2>4
  <2>5. CASE i - 1 # o + 1
    <3>1. o + 1 < i - 1
      BY <2>1, <2>5
    <3>2. Escaped(o, i - 1) <=> Alternate(P, o + 1, i - 1 - 1)
      BY <1>2, <2>1, <3>1
    <3> QED
      BY <1>2, <1>4, <2>1, <2>2, <2>3, <2>5, <3>2
  <2> QED
    BY <2>4, <2>5
<1> QED
  BY <1>3, <1>4

----------------------------------------------------------------------------
(* How many delimiters                                                     *)

Count(P, b, i) == Cardinality({j \in b .. i : j \in P})

LEMMA CountStep ==
    ASSUME NEW P, NEW b \in Nat, NEW i \in Int, b - 1 <= i
    PROVE  /\ Count(P, b, i) \in Nat
           /\ i = b - 1 => Count(P, b, i) = 0
           /\ b <= i => Count(P, b, i) = Count(P, b, i - 1) + IF i \in P THEN 1 ELSE 0
<1> DEFINE C(k) == {j \in b .. k : j \in P}
<1>1. ASSUME NEW k \in Int
      PROVE  IsFiniteSet(C(k)) /\ Cardinality(C(k)) \in Nat
                /\ Count(P, b, k) = Cardinality(C(k))
  <2>1. IsFiniteSet(b .. k)
    BY FS_Interval
  <2>2. C(k) \subseteq b .. k
    OBVIOUS
  <2> QED
    BY <2>1, <2>2, FS_Subset, FS_CardinalityType DEF Count
<1>2. i = b - 1 => C(i) = {}
  OBVIOUS
<1>3. \A j : b <= i => (j \in b .. i <=> j \in b .. (i - 1) \/ j = i)
  OBVIOUS
<1>4. b <= i /\ i \in P => C(i) = C(i - 1) \cup {i} /\ i \notin C(i - 1)
  BY <1>3
<1>5. b <= i /\ i \notin P => C(i) = C(i - 1)
  BY <1>3
<1>6. i - 1 \in Int
  OBVIOUS
<1> HIDE DEF C
<1>7. ASSUME i = b - 1 PROVE Count(P, b, i) = 0
  BY <1>1, <1>2, <1>7, FS_EmptySet
<1>8. CASE b <= i /\ i \in P
  <2>1. Cardinality(C(i)) = Cardinality(C(i - 1)) + 1
    BY <1>1, <1>4, <1>6, <1>8, FS_AddElement
  <2> QED
    BY <1>1, <1>6, <1>7, <1>8, <2>1
<1>9. CASE ~(b <= i /\ i \in P)
  <2>1. b <= i => Count(P, b, i) = Count(P, b, i - 1) + 0
    BY <1>1, <1>5, <1>6, <1>9
  <2> QED
    BY <1>1, <1>7, <1>9, <2>1
<1> QED
  BY <1>8, <1>9

\* A delimiter opens or closes.
LEMMA NestingStep ==
    ASSUME NEW b \in Nat, NEW i \in Int, b - 1 <= i
    PROVE  /\ Nesting(b, i) \in Int
           /\ i = b - 1 => Nesting(b, i) = 0
           /\ b <= i => Nesting(b, i) = Nesting(b, i - 1)
                           + IF IsDelimiter(b, i) THEN IF At(i) = "/" THEN 1 ELSE -1
                                                  ELSE 0
<1> DEFINE O == {j \in Int : IsDelimiter(b, j) /\ At(j) = "/"}
           C == {j \in Int : IsDelimiter(b, j) /\ At(j) = "*"}
<1>1. \A k \in Int : Nesting(b, k) = Count(O, b, k) - Count(C, b, k)
  <2> TAKE k \in Int
  <2>1. {j \in b .. k : IsDelimiter(b, j) /\ At(j) = "/"} = {j \in b .. k : j \in O}
    OBVIOUS
  <2>2. {j \in b .. k : IsDelimiter(b, j) /\ At(j) = "*"} = {j \in b .. k : j \in C}
    OBVIOUS
  <2> HIDE DEF O, C
  <2> QED
    BY <2>1, <2>2 DEF Nesting, Count
<1>2. IsDelimiter(b, i) => At(i) \in {"/", "*"}
  BY DEF IsDelimiter, Pair, Delimiters
<1>3. /\ i \in O <=> IsDelimiter(b, i) /\ At(i) = "/"
      /\ i \in C <=> IsDelimiter(b, i) /\ At(i) = "*"
  OBVIOUS
<1> HIDE DEF O, C
<1>4. /\ Count(O, b, i) \in Nat
      /\ i = b - 1 => Count(O, b, i) = 0
      /\ b <= i => Count(O, b, i) = Count(O, b, i - 1) + IF i \in O THEN 1 ELSE 0
  BY CountStep
<1>5. /\ Count(C, b, i) \in Nat
      /\ i = b - 1 => Count(C, b, i) = 0
      /\ b <= i => Count(C, b, i) = Count(C, b, i - 1) + IF i \in C THEN 1 ELSE 0
  BY CountStep
<1>6. ASSUME b <= i
      PROVE  Count(O, b, i - 1) \in Nat /\ Count(C, b, i - 1) \in Nat
  <2>1. i - 1 \in Int /\ b - 1 <= i - 1
    BY <1>6
  <2> QED
    BY <2>1, CountStep
<1>7. Nesting(b, i) = Count(O, b, i) - Count(C, b, i)
      /\ Nesting(b, i - 1) = Count(O, b, i - 1) - Count(C, b, i - 1)
  BY <1>1
<1> QED
  BY <1>2, <1>3, <1>4, <1>5, <1>6, <1>7

----------------------------------------------------------------------------
(* What is pushed stays right                                              *)

\* The helpers depend on the source only.
LEMMA HelpersKept ==
    ASSUME source' = source
    PROVE  /\ \A i : At(i)' = At(i)
           /\ \A i, S : EatWhile(i, S)' = EatWhile(i, S)
           /\ \A o, i : Escaped(o, i)' <=> Escaped(o, i)
           /\ \A o, q : Closes(o, q)' <=> Closes(o, q)
           /\ \A i, n : Hashes(i, n)' <=> Hashes(i, n)
           /\ \A i : Pair(i)' = Pair(i)
           /\ \A b, i : IsDelimiter(b, i)' <=> IsDelimiter(b, i)
           /\ \A b, i : Nesting(b, i)' = Nesting(b, i)
<1>1. \A i : At(i)' = At(i)
  BY DEF At
<1>2. \A i, S : EatWhile(i, S)' = EatWhile(i, S)
  BY <1>1 DEF EatWhile
<1>3. \A o, i : Escaped(o, i)' <=> Escaped(o, i)
  BY <1>1 DEF Escaped
<1>4. \A o, q : Closes(o, q)' <=> Closes(o, q)
  BY <1>1, <1>3 DEF Closes
<1>5. \A i, n : Hashes(i, n)' <=> Hashes(i, n)
  BY <1>1 DEF Hashes
<1>6. \A i : Pair(i)' = Pair(i)
  BY <1>1 DEF Pair
<1>7. \A b, i : IsDelimiter(b, i)' <=> IsDelimiter(b, i)
  BY <1>6 DEF IsDelimiter
<1>8. \A b, i : Nesting(b, i)' = Nesting(b, i)
  <2> TAKE b, i
  <2>1. {j \in b .. i : IsDelimiter(b, j)' /\ At(j)' = "/"}
          = {j \in b .. i : IsDelimiter(b, j) /\ At(j) = "/"}
    BY <1>1, <1>7
  <2>2. {j \in b .. i : IsDelimiter(b, j)' /\ At(j)' = "*"}
          = {j \in b .. i : IsDelimiter(b, j) /\ At(j) = "*"}
    BY <1>1, <1>7
  <2> QED
    BY <2>1, <2>2 DEF Nesting
<1> QED
  BY <1>1, <1>2, <1>3, <1>4, <1>5, <1>6, <1>7, <1>8

LEMMA GoodKept ==
    ASSUME source' = source, NEW t
    PROVE  TokenGood(t)' <=> TokenGood(t)
<1>1. StringExact(t)' <=> StringExact(t)
  BY HelpersKept DEF StringExact, Opening
<1>2. CharExact(t)' <=> CharExact(t)
  BY HelpersKept DEF CharExact, Opening
<1>3. RawStringExact(t)' <=> RawStringExact(t)
  BY HelpersKept DEF RawStringExact
<1>4. CommentNests(t)' <=> CommentNests(t)
  BY HelpersKept DEF CommentNests
<1>5. NumberGood(t)' <=> NumberGood(t)
  <2>1. NumberWhole(t)' <=> NumberWhole(t)
    BY HelpersKept DEF NumberWhole
  <2>2. HasBase(t)' <=> HasBase(t)
    BY HelpersKept DEF HasBase
  <2>3. RadixOf(t)' = RadixOf(t) /\ DigitsFrom(t)' = DigitsFrom(t)
    BY <2>2, HelpersKept DEF RadixOf, DigitsFrom
  <2>4. IntRead(t)' <=> IntRead(t)
    BY <2>3, HelpersKept DEF IntRead
  <2> QED
    BY <2>1, <2>4 DEF NumberGood
<1>6. SliceIsContent(t)' <=> SliceIsContent(t)
  BY HelpersKept DEF SliceIsContent, SliceFrom, SliceTo
<1> QED
  BY <1>1, <1>2, <1>3, <1>4, <1>5, <1>6 DEF TokenGood

\* What TypeOK says, a piece at a time.
LEMMA InTypes ==
    ASSUME LexInv
    PROVE  /\ source \in Seq(Char) /\ Len(source) \in Nat
           /\ pos \in Nat /\ pos <= Len(source)
           /\ begin \in Nat /\ begin <= pos
           /\ literal \in Kinds /\ depth \in Nat /\ depth # 0
           /\ opening \in Nat /\ closing \in Nat /\ closing <= opening
           /\ tokens \in Seq(TokenType)
           /\ Len(tokens) \in Nat /\ DOMAIN tokens = 1 .. Len(tokens)
<1>1. /\ source \in Seq(Char) /\ pos \in 0 .. Len(source) /\ begin \in 0 .. pos
      /\ literal \in Kinds /\ depth \in Nat \ {0}
      /\ opening \in Nat /\ closing \in 0 .. opening
      /\ tokens \in Seq(TokenType)
  BY DEF LexInv, TypeOK
<1>2. Len(source) \in Nat
  BY <1>1
<1>3. Len(tokens) \in Nat /\ DOMAIN tokens = 1 .. Len(tokens)
  BY <1>1
<1> QED
  BY <1>1, <1>2, <1>3

\* A good token that is pushed, and whose characters are there.
LEMMA GoodPushed ==
    ASSUME LexInv, NEW t, TokenGood(t), Push(t),
           pos <= t.end, t.end <= Len(source), begin' \in 0 .. t.end
    PROVE  LexInv'
<1>1. /\ tokens' = Append(tokens, t) /\ pos' = t.end /\ mode' = "token"
      /\ source' = source
      /\ literal' = literal /\ depth' = depth
      /\ opening' = opening /\ closing' = closing
  BY DEF Push, loopVars
<1>2. t \in TokenType /\ t.end \in Nat /\ t.begin < t.suffix /\ t.suffix <= t.end
  BY DEF TokenGood, TokenType
<1>3. /\ tokens' \in Seq(TokenType)
      /\ DOMAIN tokens' = 1 .. (Len(tokens) + 1)
      /\ \A k \in 1 .. Len(tokens) : tokens'[k] = tokens[k]
      /\ tokens'[Len(tokens) + 1] = t
  BY <1>1, <1>2, InTypes
<1>4. \A k \in DOMAIN tokens' : k \in 1 .. Len(tokens) \/ k = Len(tokens) + 1
  BY <1>3, InTypes
<1>5. \A k \in DOMAIN tokens' :
         /\ tokens'[k].begin < tokens'[k].suffix
         /\ tokens'[k].suffix <= tokens'[k].end
         /\ tokens'[k].end <= pos'
  <2> SUFFICES ASSUME NEW k \in 1 .. Len(tokens)
               PROVE  /\ tokens[k].begin < tokens[k].suffix
                      /\ tokens[k].suffix <= tokens[k].end
                      /\ tokens[k].end <= t.end
    BY <1>1, <1>2, <1>3, <1>4
  <2>1. /\ tokens[k].begin < tokens[k].suffix
        /\ tokens[k].suffix <= tokens[k].end
        /\ tokens[k].end <= pos
    BY InTypes DEF LexInv, TypeOK
  <2>2. tokens[k].end \in Nat
    <3>1. tokens[k] \in TokenType
      BY InTypes
    <3> QED
      BY <3>1 DEF TokenType
  <2> QED
    BY <1>2, <2>1, <2>2, InTypes
<1>6. TypeOK'
  <2>1. /\ source' \in Seq(Char) /\ pos' \in 0 .. Len(source')
        /\ begin' \in 0 .. pos'
    BY <1>1, <1>2, InTypes
  <2>2. /\ literal' \in Kinds /\ depth' \in Nat \ {0}
        /\ opening' \in Nat /\ closing' \in 0 .. opening'
    BY <1>1, InTypes
  <2> QED
    BY <1>1, <1>3, <1>5, <2>1, <2>2 DEF TypeOK
<1>7. LoopInv'
  BY <1>1 DEF LoopInv, BlockInv, StringInv, CharInv, RawInv
<1>8. TokensGood'
  <2>1. \A k \in 1 .. Len(tokens) : TokenGood(tokens[k])
    BY InTypes DEF LexInv, TokensGood
  <2>2. \A f : TokenGood(f)' <=> TokenGood(f)
    BY <1>1, GoodKept
  <2>3. \A k \in DOMAIN tokens' : TokenGood(tokens'[k])
    BY <1>3, <1>4, <2>1
  <2> QED
    BY <2>2, <2>3 DEF TokensGood
<1> QED
  BY <1>6, <1>7, <1>8 DEF LexInv

\* The kinds that no property but the type invariant speaks of.
PlainKinds == Kinds \ (Literals \cup {"comment"})

LEMMA PlainStep ==
    ASSUME LexInv, NEW kind \in PlainKinds \cup {"comment"}, NEW end \in Nat,
           pos < end, end <= Len(source), Plain(kind, end),
           kind = "comment" => Second # "*"
    PROVE  LexInv'
<1> DEFINE tt == [kind |-> kind, begin |-> pos, end |-> end, suffix |-> end,
                  ok |-> TRUE, hashes |-> 0]
<1>1. begin' = pos /\ Push(tt)
  BY DEF Plain, Token
<1>2. PICK t : t = tt
  OBVIOUS
<1>3. /\ t.kind = kind /\ t.begin = pos /\ t.end = end /\ t.suffix = end
      /\ t.ok = TRUE /\ t.hashes = 0
  BY <1>2
<1>4. kind \in Kinds
  BY DEF PlainKinds, Kinds
<1>5. t \in TokenType
  BY <1>2, <1>4, InTypes, LexerAssumption DEF TokenType
<1>6. /\ kind \notin {"str", "byte_str", "char", "byte", "int", "float"}
      /\ kind \notin Raw
  BY DEF PlainKinds, Literals, Quoted, Raw
<1>7. kind = "comment" => CommentNests(t)
  <2>1. kind = "comment" => At(t.begin + 1) # "*"
    BY <1>3 DEF Second
  <2> QED
    BY <2>1 DEF CommentNests
<1>8. TokenGood(t)
  BY <1>3, <1>5, <1>6, <1>7, InTypes DEF TokenGood, Raw
<1>9. begin' = pos /\ Push(t)
  BY <1>1, <1>2
<1> HIDE DEF tt
<1>10. begin' \in 0 .. t.end /\ pos <= t.end /\ t.end <= Len(source)
  BY <1>3, <1>9, InTypes
<1> QED
  BY <1>8, <1>9, <1>10, GoodPushed

----------------------------------------------------------------------------
(* Tokens of a single step                                                 *)

\* The characters at the cursor that are there.
LEMMA There ==
    ASSUME LexInv, Starting
    PROVE  /\ pos \in Nat /\ pos + 1 <= Len(source) /\ Len(source) \in Nat
           /\ First # Eof
           /\ Second # Eof => pos + 2 <= Len(source)
           /\ Third # Eof => pos + 3 <= Len(source)
<1>1. source \in Seq(Char) /\ pos \in Nat /\ pos < Len(source) /\ Len(source) \in Nat
  BY InTypes DEF Starting
<1>2. pos + 1 \in Nat /\ pos + 2 \in Nat
  BY <1>1
<1> QED
  BY <1>1, <1>2, AtType DEF First, Second, Third

LEMMA IdentifierEndIs ==
    ASSUME source \in Seq(Char), NEW i \in 0 .. Len(source)
    PROVE  /\ IdentifierEnd(i) \in Nat
           /\ i <= IdentifierEnd(i) /\ IdentifierEnd(i) <= Len(source)
           /\ At(i) \in IdStart => i < IdentifierEnd(i)
           /\ \A j \in i .. (IdentifierEnd(i) - 1) : At(j) \in IdContinue
<1>1. i \in Nat /\ Len(source) \in Nat
  OBVIOUS
<1>2. CASE At(i) \in IdStart
  <2>1. i + 1 \in 0 .. Len(source)
    BY <1>1, <1>2, Before, EofNowhere
  <2>2. /\ EatWhile(i + 1, IdContinue) \in Nat
        /\ i + 1 <= EatWhile(i + 1, IdContinue)
        /\ EatWhile(i + 1, IdContinue) <= Len(source)
        /\ \A j \in (i + 1) .. (EatWhile(i + 1, IdContinue) - 1) : At(j) \in IdContinue
    BY <2>1, EatWhileStops, EofNowhere
  <2>3. At(i) \in IdContinue
    BY <1>2 DEF IdContinue
  <2>4. IdentifierEnd(i) = EatWhile(i + 1, IdContinue)
    BY <1>2 DEF IdentifierEnd
  <2>5. \A j \in i .. (IdentifierEnd(i) - 1) : At(j) \in IdContinue
    <3> TAKE j \in i .. (IdentifierEnd(i) - 1)
    <3>1. j = i \/ j \in (i + 1) .. (EatWhile(i + 1, IdContinue) - 1)
      BY <1>1, <2>4
    <3> QED
      BY <2>2, <2>3, <3>1
  <2> QED
    BY <1>1, <2>2, <2>4, <2>5
<1>3. CASE At(i) \notin IdStart
  <2>1. IdentifierEnd(i) = i
    BY <1>3 DEF IdentifierEnd
  <2> QED
    BY <1>1, <1>3, <2>1
<1> QED
  BY <1>2, <1>3

LEMMA InvalidEndIs ==
    ASSUME source \in Seq(Char), NEW i \in 0 .. Len(source)
    PROVE  InvalidEnd(i) \in Nat /\ i <= InvalidEnd(i) /\ InvalidEnd(i) <= Len(source)
BY EatWhileStops, EofNowhere DEF InvalidEnd

\* The longest special character at i.
LEMMA SpecialEndIs ==
    ASSUME source \in Seq(Char), NEW i \in Nat, IsSpecial(i)
    PROVE  SpecialEnd(i) \in Nat /\ i < SpecialEnd(i) /\ SpecialEnd(i) <= Len(source)
<1>1. \A s \in SpecialChars : Len(s) \in {1, 2}
  BY DEF SpecialChars
<1> DEFINE T == {s \in SpecialChars : StartsWith(i, s)}
<1>2. T # {} /\ T \subseteq SpecialChars
  BY DEF IsSpecial
<1>3. \E s \in T : \A t \in T : Len(t) <= Len(s)
  <2>1. CASE \E s \in T : Len(s) = 2
    BY <1>1, <2>1
  <2>2. CASE ~\E s \in T : Len(s) = 2
    BY <1>1, <1>2, <2>2
  <2> QED
    BY <2>1, <2>2
<1> DEFINE R(s) == StartsWith(i, s)
                     /\ \A t \in SpecialChars : StartsWith(i, t) => Len(t) <= Len(s)
<1>4. PICK s \in SpecialChars : R(s)
  BY <1>3
<1> DEFINE longest == CHOOSE x \in SpecialChars : R(x)
<1>5. longest \in SpecialChars /\ R(longest)
  <2> HIDE DEF R
  <2> QED
    BY <1>4
<1>6. SpecialEnd(i) = i + Len(longest)
  BY DEF SpecialEnd
<1>7. Len(longest) \in {1, 2} /\ i + Len(longest) <= Len(source)
  BY <1>1, <1>5 DEF StartsWith
<1> HIDE DEF longest
<1> QED
  BY <1>6, <1>7

LEMMA PlainKindsAre ==
    /\ "white" \in PlainKinds /\ "raw_identifier" \in PlainKinds
    /\ "unknown_prefix" \in PlainKinds /\ "invalid_identifier" \in PlainKinds
    /\ "identifier" \in PlainKinds /\ "guarded" \in PlainKinds
    /\ "special" \in PlainKinds /\ "unknown" \in PlainKinds
BY DEF PlainKinds, Kinds, Literals, Quoted, Raw

LEMMA WordStep ==
    ASSUME LexInv, WhiteSpace \/ LineComment \/ RawIdentifier \/ Identifier
                     \/ GuardedStrPrefix \/ InvalidIdentifier \/ Unknown
    PROVE  LexInv'
<1>1. source \in Seq(Char) /\ Starting
  BY InTypes DEF WhiteSpace, LineComment, RawIdentifier, Identifier,
                 GuardedStrPrefix, InvalidIdentifier, Unknown
<1>2. /\ pos \in Nat /\ Len(source) \in Nat /\ pos + 1 \in 0 .. Len(source)
      /\ Second # Eof => pos + 2 \in 0 .. Len(source)
  BY <1>1, There
<1>3. CASE WhiteSpace \/ Unknown
  BY <1>2, <1>3, PlainStep, PlainKindsAre DEF WhiteSpace, Unknown
<1>4. CASE LineComment
  <2>1. Second = "/" /\ pos + 2 \in 0 .. Len(source)
    BY <1>2, <1>4 DEF LineComment, Eof
  <2>2. /\ EatUntil(pos + 2, "\n") \in Nat /\ pos + 2 <= EatUntil(pos + 2, "\n")
        /\ EatUntil(pos + 2, "\n") <= Len(source)
    BY <1>1, <2>1, EatWhileStops, EofNowhere DEF EatUntil
  <2> QED
    BY <1>2, <1>4, <2>1, <2>2, PlainStep DEF LineComment
<1>5. CASE RawIdentifier
  <2>1. Second # Eof /\ pos + 2 \in 0 .. Len(source)
    BY <1>2, <1>5 DEF RawIdentifier, Eof
  <2>2. /\ IdentifierEnd(pos + 2) \in Nat /\ pos + 2 <= IdentifierEnd(pos + 2)
        /\ IdentifierEnd(pos + 2) <= Len(source)
    BY <1>1, <2>1, IdentifierEndIs
  <2> QED
    BY <1>2, <1>5, <2>1, <2>2, PlainStep, PlainKindsAre DEF RawIdentifier
<1>6. CASE Identifier
  <2> DEFINE i == EatWhile(pos + 1, IdContinue)
  <2>1. i \in Nat /\ pos + 1 <= i /\ i <= Len(source)
    BY <1>1, <1>2, EatWhileStops, EofNowhere
  <2>2. IdentifierToken(i)
    BY <1>6 DEF Identifier
  <2> HIDE DEF i
  <2>3. i \in 0 .. Len(source)
    BY <2>1, <1>2
  <2>4. InvalidEnd(i) \in Nat /\ i <= InvalidEnd(i) /\ InvalidEnd(i) <= Len(source)
    BY <1>1, <2>3, InvalidEndIs
  <2>5. \/ \E kind \in {"unknown_prefix", "identifier"} : Plain(kind, i)
        \/ Plain("invalid_identifier", InvalidEnd(i))
    BY <2>2 DEF IdentifierToken
  <2> QED
    BY <1>2, <2>1, <2>4, <2>5, PlainStep, PlainKindsAre
<1>7. CASE GuardedStrPrefix
  <2>1. Second # Eof
    BY <1>7, CharactersDiffer DEF GuardedStrPrefix
  <2>2. pos + 2 \in Nat /\ pos < pos + 2 /\ pos + 2 <= Len(source)
    BY <1>2, <2>1
  <2>3. Plain("guarded", pos + 2)
    BY <1>7 DEF GuardedStrPrefix
  <2> QED
    BY <2>2, <2>3, PlainStep, PlainKindsAre
<1>8. CASE InvalidIdentifier
  <2>1. /\ InvalidEnd(pos + 1) \in Nat /\ pos + 1 <= InvalidEnd(pos + 1)
        /\ InvalidEnd(pos + 1) <= Len(source)
    BY <1>1, <1>2, InvalidEndIs
  <2> QED
    BY <1>2, <1>8, <2>1, PlainStep, PlainKindsAre DEF InvalidIdentifier
<1> QED
  BY <1>3, <1>4, <1>5, <1>6, <1>7, <1>8

LEMMA SpecialStep ==
    ASSUME LexInv, Special
    PROVE  LexInv'
<1>1. /\ source \in Seq(Char) /\ Starting /\ IsSpecial(pos)
      /\ Plain("special", IF First = "/" THEN pos + 1 ELSE SpecialEnd(pos))
  BY InTypes DEF Special
<1>2. pos \in Nat /\ Len(source) \in Nat /\ pos + 1 <= Len(source)
  BY <1>1, There
<1>3. SpecialEnd(pos) \in Nat /\ pos < SpecialEnd(pos) /\ SpecialEnd(pos) <= Len(source)
  BY <1>1, <1>2, SpecialEndIs
<1>4. PICK end \in Nat : /\ end = IF First = "/" THEN pos + 1 ELSE SpecialEnd(pos)
                         /\ pos < end /\ end <= Len(source)
  BY <1>2, <1>3
<1>5. Plain("special", end)
  BY <1>1, <1>4
<1> QED
  BY <1>4, <1>5, PlainStep, PlainKindsAre

----------------------------------------------------------------------------
(* Numbers                                                                 *)

\* No dot from i on and before j is one of a range or a member access.
DotsRight(i, j) ==
    \A q \in i .. (j - 1) : At(q) = "." => At(q + 1) # "." /\ At(q + 1) \notin IdStart

LEMMA NoDots ==
    ASSUME NEW i, NEW j, NEW S, "." \notin S, \A q \in i .. (j - 1) : At(q) \in S
    PROVE  DotsRight(i, j)
BY DEF DotsRight

LEMMA DotsJoin ==
    ASSUME NEW i \in Nat, NEW j \in Nat, NEW k \in Nat,
           DotsRight(i, j), DotsRight(j, k)
    PROVE  DotsRight(i, k)
<1>1. \A q \in i .. (k - 1) : q \in i .. (j - 1) \/ q \in j .. (k - 1)
  OBVIOUS
<1> QED
  BY <1>1 DEF DotsRight

\* What is eaten of a number from i up to e.
Part(i, e) == e \in Nat /\ i <= e /\ e <= Len(source) /\ DotsRight(i, e)

LEMMA DigitsPart ==
    ASSUME source \in Seq(Char), NEW i \in 0 .. Len(source)
    PROVE  /\ Part(i, DecimalEnd(i)) /\ At(DecimalEnd(i)) \notin Digits
           /\ Part(i, HexEnd(i)) /\ At(HexEnd(i)) \notin Digits
<1>1. "." \notin Digits \cup {"_"} /\ "." \notin Digits \cup HexLetters \cup {"_"}
  BY DEF Digits, HexLetters
<1>2. Part(i, DecimalEnd(i)) /\ At(DecimalEnd(i)) \notin Digits
  <2> DEFINE S == Digits \cup {"_"}
             e == EatWhile(i, S)
  <2>1. /\ e \in Nat /\ i <= e /\ e <= Len(source) /\ At(e) \notin S
        /\ \A j \in i .. (e - 1) : At(j) \in S
    BY EatWhileStops, EofNowhere
  <2>2. At(e) \notin Digits
    BY <2>1
  <2>3. DecimalEnd(i) = e
    BY DEF DecimalEnd
  <2> HIDE DEF S, e
  <2>4. "." \notin S
    BY <1>1 DEF S
  <2> QED
    BY <2>1, <2>2, <2>3, <2>4, NoDots DEF Part
<1>3. Part(i, HexEnd(i)) /\ At(HexEnd(i)) \notin Digits
  <2> DEFINE S == Digits \cup HexLetters \cup {"_"}
             e == EatWhile(i, S)
  <2>1. /\ e \in Nat /\ i <= e /\ e <= Len(source) /\ At(e) \notin S
        /\ \A j \in i .. (e - 1) : At(j) \in S
    BY EatWhileStops, EofNowhere
  <2>2. At(e) \notin Digits
    BY <2>1
  <2>3. HexEnd(i) = e
    BY DEF HexEnd
  <2> HIDE DEF S, e
  <2>4. "." \notin S
    BY <1>1 DEF S
  <2> QED
    BY <2>1, <2>2, <2>3, <2>4, NoDots DEF Part
<1> QED
  BY <1>2, <1>3

LEMMA PartJoin ==
    ASSUME source \in Seq(Char), NEW i \in Nat, NEW j \in Nat, NEW k,
           Part(i, j), Part(j, k)
    PROVE  Part(i, k)
BY DotsJoin DEF Part

\* One character that is no dot, or whose next one is right.
LEMMA PartOne ==
    ASSUME source \in Seq(Char), NEW i \in Nat, At(i) # Eof,
           At(i) = "." => At(i + 1) # "." /\ At(i + 1) \notin IdStart
    PROVE  Part(i, i + 1) /\ i + 1 \in 0 .. Len(source)
<1>1. \A q \in i .. (i + 1 - 1) : q = i
  OBVIOUS
<1>2. DotsRight(i, i + 1)
  BY <1>1 DEF DotsRight
<1> QED
  BY <1>2, Before DEF Part

LEMMA PartNone ==
    ASSUME source \in Seq(Char), NEW i \in 0 .. Len(source)
    PROVE  Part(i, i)
BY DEF Part, DotsRight

LEMMA ExponentPart ==
    ASSUME source \in Seq(Char), NEW i \in 0 .. Len(source)
    PROVE  Part(i, ExponentEnd(i)) /\ At(ExponentEnd(i)) \notin Digits
<1>1. CASE At(i) \in {"+", "-"}
  <2>1. Part(i, i + 1) /\ i + 1 \in 0 .. Len(source)
    BY <1>1, PartOne DEF Eof
  <2>2. Part(i + 1, DecimalEnd(i + 1)) /\ At(DecimalEnd(i + 1)) \notin Digits
    BY <2>1, DigitsPart
  <2> QED
    BY <1>1, <2>1, <2>2, PartJoin DEF ExponentEnd, SignEnd
<1>2. CASE At(i) \notin {"+", "-"}
  BY <1>2, DigitsPart DEF ExponentEnd, SignEnd
<1> QED
  BY <1>1, <1>2

\* A number whose part from i on is right.
WholeFrom(i, n) ==
    /\ n.kind \in {"int", "float"} /\ n.ok \in BOOLEAN
    /\ Part(i, n.end) /\ At(n.end) \notin Digits

LEMMA WithExponentWhole ==
    ASSUME source \in Seq(Char), NEW i \in 0 .. Len(source)
    PROVE  WholeFrom(i, WithExponent(i))
<1>1. HasDigit(i, ExponentEnd(i), Digits) \in BOOLEAN
  BY DEF HasDigit
<1>2. /\ WithExponent(i).kind = "float"
      /\ WithExponent(i).ok = HasDigit(i, ExponentEnd(i), Digits)
      /\ WithExponent(i).end = ExponentEnd(i)
  BY DEF WithExponent, Number
<1>3. WithExponent(i).ok \in BOOLEAN
  BY <1>1, <1>2, Zenon
<1> QED
  BY <1>2, <1>3, ExponentPart DEF WholeFrom

LEMMA NumberTailWhole ==
    ASSUME source \in Seq(Char), NEW i \in 0 .. Len(source), At(i) \notin Digits
    PROVE  WholeFrom(i, NumberTail(i))
<1>1. CASE StartsFraction(i)
  <2>1. At(i) = "." /\ At(i + 1) # "." /\ At(i + 1) \notin IdStart
    BY <1>1 DEF StartsFraction
  <2>2. Part(i, i + 1) /\ i + 1 \in 0 .. Len(source)
    BY <2>1, PartOne DEF Eof
  <2> DEFINE f == FractionEnd(i + 1)
  <2>3. Part(i + 1, f) /\ At(f) \notin Digits
    BY <2>2, DigitsPart, PartNone DEF FractionEnd
  <2>4. Part(i, f) /\ f \in 0 .. Len(source)
    BY <2>2, <2>3, PartJoin DEF Part
  <2> HIDE DEF f
  <2>5. CASE f > i + 1 /\ At(f) = "e"
    <3>1. NumberTail(i) = WithExponent(f + 1)
      BY <1>1, <2>5 DEF NumberTail, f
    <3>2. Part(f, f + 1) /\ f + 1 \in 0 .. Len(source)
      BY <2>4, <2>5, PartOne DEF Eof
    <3>3. Part(i, f + 1)
      BY <2>4, <3>2, PartJoin
    <3>4. WholeFrom(f + 1, WithExponent(f + 1))
      BY <3>2, WithExponentWhole
    <3> QED
      BY <3>1, <3>2, <3>3, <3>4, PartJoin DEF WholeFrom
  <2>6. CASE ~(f > i + 1 /\ At(f) = "e")
    <3>1. NumberTail(i) = Number("float", f, TRUE)
      BY <1>1, <2>6 DEF NumberTail, f
    <3> QED
      BY <2>3, <2>4, <3>1 DEF WholeFrom, Number
  <2> QED
    BY <2>5, <2>6
<1>2. CASE ~StartsFraction(i) /\ At(i) = "e"
  <2>1. NumberTail(i) = WithExponent(i + 1)
    BY <1>2 DEF NumberTail
  <2>2. Part(i, i + 1) /\ i + 1 \in 0 .. Len(source)
    BY <1>2, PartOne DEF Eof
  <2>3. WholeFrom(i + 1, WithExponent(i + 1))
    BY <2>2, WithExponentWhole
  <2> QED
    BY <2>1, <2>2, <2>3, PartJoin DEF WholeFrom
<1>3. CASE ~StartsFraction(i) /\ At(i) # "e"
  <2>1. NumberTail(i) = Number("int", i, TRUE)
    BY <1>3 DEF NumberTail
  <2> QED
    BY <2>1, PartNone DEF WholeFrom, Number
<1> QED
  BY <1>1, <1>2, <1>3

LEMMA NumberAtWhole ==
    ASSUME source \in Seq(Char), NEW i \in 0 .. Len(source)
    PROVE  WholeFrom(i, NumberAt(i))
<1> DEFINE prefixed == At(i - 1) = "0" /\ At(i) \in {"b", "o", "x"}
           end == IF At(i) = "x" THEN HexEnd(i + 1) ELSE DecimalEnd(i + 1)
           digits == IF At(i) = "x" THEN Digits \cup HexLetters ELSE Digits
<1>1. CASE ~prefixed
  <2>1. NumberAt(i) = NumberTail(DecimalEnd(i))
    BY <1>1 DEF NumberAt
  <2>2. Part(i, DecimalEnd(i)) /\ At(DecimalEnd(i)) \notin Digits
    BY DigitsPart
  <2>3. WholeFrom(DecimalEnd(i), NumberTail(DecimalEnd(i)))
    BY <2>2, NumberTailWhole DEF Part
  <2> QED
    BY <2>1, <2>2, <2>3, PartJoin DEF WholeFrom, Part
<1>2. CASE prefixed
  <2>1. Part(i, i + 1) /\ i + 1 \in 0 .. Len(source)
    BY <1>2, PartOne DEF Eof
  <2>2. Part(i + 1, end) /\ At(end) \notin Digits
    BY <2>1, DigitsPart
  <2>3. Part(i, end) /\ end \in 0 .. Len(source)
    BY <2>1, <2>2, PartJoin DEF Part
  <2>4. \/ NumberAt(i) = NumberTail(end)
        \/ NumberAt(i) = Number("int", end, FALSE)
    BY <1>2 DEF NumberAt
  <2> HIDE DEF end
  <2>5. WholeFrom(end, NumberTail(end))
    BY <2>2, <2>3, NumberTailWhole
  <2>6. WholeFrom(i, NumberTail(end))
    BY <2>3, <2>5, PartJoin DEF WholeFrom
  <2>7. WholeFrom(i, Number("int", end, FALSE))
    BY <2>2, <2>3 DEF WholeFrom, Number
  <2> QED
    BY <2>4, <2>6, <2>7
<1> QED
  BY <1>1, <1>2

\* Which digits the bases have.
LEMMA DigitsOf ==
    /\ \A r : DigitsBelow(r) \subseteq Digits \cup HexLetters
    /\ \A r \in {2, 8, 10} : DigitsBelow(r) \subseteq Digits
    /\ Eof \notin Digits \cup HexLetters
    /\ \A c \in Digits \cup HexLetters : DigitValue[c] \in Nat
<1>1. \A c \in Digits \cup HexLetters : c \in {"0", "7", "a", "b", "e"}
  BY DEF Digits, HexLetters
<1>2. /\ DigitValue["0"] = 0 /\ DigitValue["7"] = 7 /\ DigitValue["a"] = 10
      /\ DigitValue["b"] = 11 /\ DigitValue["e"] = 14
  BY DEF DigitValue, Digits, HexLetters
<1>3. \A r \in {2, 8, 10} : \A c \in DigitsBelow(r) : c \in {"0", "7"}
  BY <1>1, <1>2 DEF DigitsBelow
<1>4. Eof \notin Digits \cup HexLetters
  BY DEF Eof, Digits, HexLetters
<1>5. \A c \in Digits \cup HexLetters : DigitValue[c] \in Nat
  BY <1>1, <1>2
<1> QED
  BY <1>3, <1>4, <1>5 DEF DigitsBelow, Digits

LEMMA RadixIs ==
    ASSUME NEW t
    PROVE  /\ HasBase(t) <=> At(t.begin) = "0" /\ At(t.begin + 1) \in {"b", "o", "x"}
           /\ RadixOf(t) \in {2, 8, 10, 16}
           /\ ~HasBase(t) => RadixOf(t) = 10
           /\ HasBase(t) /\ At(t.begin + 1) # "x" => RadixOf(t) \in {2, 8}
<1>1. DOMAIN Radix = {"b", "o", "x"} /\ Radix["b"] = 2 /\ Radix["o"] = 8 /\ Radix["x"] = 16
  BY DEF Radix
<1> QED
  BY <1>1 DEF HasBase, RadixOf

LEMMA TailIs ==
    ASSUME NEW i, NumberTail(i).kind = "int"
    PROVE  NumberTail(i).end = i /\ NumberTail(i).ok = TRUE
<1>1. CASE StartsFraction(i)
  <2>1. NumberTail(i).kind = "float"
    BY <1>1 DEF NumberTail, WithExponent, Number
  <2> QED
    BY <2>1
<1>2. CASE ~StartsFraction(i) /\ At(i) = "e"
  <2>1. NumberTail(i).kind = "float"
    BY <1>2 DEF NumberTail, WithExponent, Number
  <2> QED
    BY <2>1
<1>3. CASE ~StartsFraction(i) /\ At(i) # "e"
  BY <1>3 DEF NumberTail, Number
<1> QED
  BY <1>1, <1>2, <1>3

\* The digits of an integer are read to the last one.
LEMMA IntegerAt ==
    ASSUME source \in Seq(Char), NEW i \in 1 .. Len(source), NEW n, n = NumberAt(i),
           n.kind = "int", NEW t, t.begin = i - 1, t.suffix = n.end, t.ok = n.ok
    PROVE  IntRead(t)
<1> DEFINE end == IF At(i) = "x" THEN HexEnd(i + 1) ELSE DecimalEnd(i + 1)
           digits == IF At(i) = "x" THEN Digits \cup HexLetters ELSE Digits
           B == DigitsBelow(RadixOf(t))
<1>1. i - 1 + 1 = i /\ i - 1 + 2 = i + 1 /\ i \in 0 .. Len(source) /\ i \in Nat
  OBVIOUS
<1>2. CASE ~HasBase(t)
  <2>1. ~(At(i - 1) = "0" /\ At(i) \in {"b", "o", "x"})
    BY <1>1, <1>2, RadixIs
  <2>2. NumberAt(i) = NumberTail(DecimalEnd(i))
    BY <2>1 DEF NumberAt
  <2>3. n.end = DecimalEnd(i) /\ n.ok = TRUE
    BY <2>2, TailIs
  <2>4. Part(i, DecimalEnd(i)) /\ At(DecimalEnd(i)) \notin Digits
    BY <1>1, DigitsPart
  <2>5. B \subseteq Digits
    <3>1. RadixOf(t) = 10
      BY <1>2, RadixIs
    <3> QED
      BY <3>1, DigitsOf
  <2>6. DigitsFrom(t) = i - 1 /\ i - 1 <= DecimalEnd(i)
    BY <1>1, <1>2, <2>4 DEF DigitsFrom, Part
  <2> QED
    BY <2>3, <2>4, <2>5, <2>6 DEF IntRead
<1>3. CASE HasBase(t)
  <2>1. At(i - 1) = "0" /\ At(i) \in {"b", "o", "x"}
    BY <1>1, <1>3, RadixIs
  <2>2. NumberAt(i) = IF HasDigit(i + 1, end, digits) THEN NumberTail(end)
                      ELSE Number("int", end, FALSE)
    BY <2>1 DEF NumberAt
  <2>3. Part(i, i + 1) /\ i + 1 \in 0 .. Len(source)
    BY <1>1, <2>1, PartOne DEF Eof
  <2>4. Part(i + 1, end) /\ At(end) \notin digits
    <3>1. CASE At(i) = "x"
      <4>1. Part(i + 1, HexEnd(i + 1))
        BY <2>3, DigitsPart
      <4>2. At(HexEnd(i + 1)) \notin Digits \cup HexLetters \cup {"_"}
        <5>1. HexEnd(i + 1) = EatWhile(i + 1, Digits \cup HexLetters \cup {"_"})
          BY DEF HexEnd
        <5> QED
          BY <2>3, <5>1, EatWhileStops, EofNowhere
      <4> QED
        BY <3>1, <4>1, <4>2
    <3>2. CASE At(i) # "x"
      BY <2>3, <3>2, DigitsPart
    <3> QED
      BY <3>1, <3>2
  <2>5. B \subseteq digits
    <3>1. CASE At(i) = "x"
      BY <3>1, DigitsOf
    <3>2. CASE At(i) # "x"
      <4>1. RadixOf(t) \in {2, 8}
        BY <1>1, <1>3, <3>2, RadixIs
      <4> QED
        BY <3>2, <4>1, DigitsOf
    <3> QED
      BY <3>1, <3>2
  <2>6. DigitsFrom(t) = i + 1
    BY <1>1, <1>3 DEF DigitsFrom
  <2> HIDE DEF end, digits, B
  <2>7. n.end = end /\ (HasDigit(i + 1, end, digits) => n.ok = TRUE)
    <3>1. CASE HasDigit(i + 1, end, digits)
      BY <2>2, <3>1, TailIs
    <3>2. CASE ~HasDigit(i + 1, end, digits)
      BY <2>2, <3>2 DEF Number
    <3> QED
      BY <3>1, <3>2
  <2>8. i + 1 <= end
    BY <2>4 DEF Part
  <2>9. (\E q \in (i + 1) .. (end - 1) : At(q) \in B) => n.ok = TRUE
    BY <2>5, <2>7 DEF HasDigit
  <2> QED
    BY <2>4, <2>5, <2>6, <2>7, <2>8, <2>9 DEF IntRead, B
<1> QED
  BY <1>2, <1>3

\* A suffix has no dots.
LEMMA SuffixPart ==
    ASSUME source \in Seq(Char), NEW i \in 0 .. Len(source)
    PROVE  Part(i, SuffixEnd(i))
<1>1. "." \notin IdContinue
  BY DEF IdContinue, IdStart, HexLetters, Digits
<1>2. SuffixEnd(i) = IdentifierEnd(i)
  BY DEF SuffixEnd
<1>3. /\ IdentifierEnd(i) \in Nat /\ i <= IdentifierEnd(i)
      /\ IdentifierEnd(i) <= Len(source)
      /\ \A j \in i .. (IdentifierEnd(i) - 1) : At(j) \in IdContinue
  BY IdentifierEndIs
<1>4. DotsRight(i, IdentifierEnd(i))
  BY <1>1, <1>3, NoDots
<1> QED
  BY <1>2, <1>3, <1>4 DEF Part

LEMMA TokenTyped ==
    \A kind \in Kinds, b \in Nat, e \in Nat, suffix \in Nat, ok \in BOOLEAN,
       hashes \in 0 .. MaxHashes :
        [kind |-> kind, begin |-> b, end |-> e, suffix |-> suffix, ok |-> ok,
         hashes |-> hashes] \in TokenType
BY DEF TokenType

LEMMA NumberStep ==
    ASSUME LexInv, NumberToken
    PROVE  LexInv'
<1>1. /\ source \in Seq(Char) /\ Starting /\ First \in Digits /\ begin' = pos
      /\ LET n == NumberAt(pos + 1) IN
         Push(Token(n.kind, SuffixEnd(n.end), n.end, n.ok, 0))
  BY InTypes DEF NumberToken
<1>2. pos \in Nat /\ Len(source) \in Nat /\ pos + 1 <= Len(source)
      /\ pos + 1 \in 0 .. Len(source)
  BY <1>1, There
<1> DEFINE n == NumberAt(pos + 1)
<1>3. WholeFrom(pos + 1, n)
  BY <1>1, <1>2, NumberAtWhole
<1>4. Push([kind |-> n.kind, begin |-> pos, end |-> SuffixEnd(n.end),
            suffix |-> n.end, ok |-> n.ok, hashes |-> 0])
  BY <1>1 DEF Token
<1> HIDE DEF n
<1>5. /\ n.kind \in {"int", "float"} /\ Part(pos + 1, n.end)
      /\ At(n.end) \notin Digits /\ n.ok \in BOOLEAN
      /\ n.end \in 0 .. Len(source)
  BY <1>2, <1>3 DEF WholeFrom, Part
<1>6. PICK t : t = [kind |-> n.kind, begin |-> pos, end |-> SuffixEnd(n.end),
                    suffix |-> n.end, ok |-> n.ok, hashes |-> 0]
  OBVIOUS
<1>7. Part(n.end, SuffixEnd(n.end))
  BY <1>1, <1>5, SuffixPart
<1>8. Part(pos, pos + 1)
  <2>1. At(pos) # "." /\ At(pos) # Eof
    BY <1>1, There DEF First, Digits
  <2> QED
    BY <1>1, <1>2, <2>1, PartOne
<1>9. Part(pos, SuffixEnd(n.end))
  <2>1. Part(pos, n.end)
    BY <1>1, <1>2, <1>5, <1>8, PartJoin
  <2> QED
    BY <1>1, <1>2, <1>5, <1>7, <2>1, PartJoin
<1>10. /\ t.kind = n.kind /\ t.begin = pos /\ t.suffix = n.end
       /\ t.end = SuffixEnd(n.end) /\ t.hashes = 0
  BY <1>6
<1>11. t \in TokenType
  <2>1. n.kind \in Kinds
    BY <1>5 DEF Kinds, Literals
  <2>2. SuffixEnd(n.end) \in Nat /\ n.end \in Nat /\ 0 \in 0 .. MaxHashes
    BY <1>5, <1>7, LexerAssumption DEF Part
  <2>3. [kind |-> n.kind, begin |-> pos, end |-> SuffixEnd(n.end),
         suffix |-> n.end, ok |-> n.ok, hashes |-> 0] \in TokenType
    BY <1>2, <1>5, <2>1, <2>2, TokenTyped, Zenon
  <2> QED
    BY <1>6, <2>3, Zenon
<1>12. NumberGood(t)
  <2>1. NumberWhole(t)
    BY <1>5, <1>9, <1>10 DEF NumberWhole, Part, DotsRight
  <2>2. ASSUME t.kind = "int" PROVE IntRead(t)
    <3>1. PICK i : i = pos + 1
      OBVIOUS
    <3>2. /\ i \in 1 .. Len(source) /\ n = NumberAt(i) /\ t.begin = i - 1
          /\ t.suffix = n.end /\ t.ok = n.ok /\ n.kind = "int"
      BY <1>2, <1>6, <1>10, <2>2, <3>1 DEF n
    <3> QED
      BY <1>1, <3>2, IntegerAt
  <2> QED
    BY <2>1, <2>2 DEF NumberGood
<1>13. t.begin < t.suffix /\ t.suffix <= t.end /\ t.end <= Len(source) /\ t.end \in Nat
  BY <1>2, <1>5, <1>7, <1>10 DEF Part
<1>14. t.kind \notin {"str", "byte_str", "char", "byte", "comment", "raw_str"}
         /\ t.kind \notin Raw
  BY <1>5, <1>10 DEF Raw
<1>15. TokenGood(t)
  BY <1>11, <1>12, <1>13, <1>14 DEF TokenGood
<1>16. Push(t) /\ begin' \in 0 .. t.end /\ pos <= t.end
  <2>1. Push(t)
    BY <1>4, <1>6
  <2>2. begin' = pos
    BY <1>1
  <2>3. pos <= t.end
    BY <1>2, <1>9, <1>10 DEF Part
  <2> QED
    BY <1>2, <1>13, <2>1, <2>2, <2>3
<1> QED
  BY <1>13, <1>15, <1>16, GoodPushed

----------------------------------------------------------------------------
(* Entering a loop and going on with it                                    *)

LEMMA LoopsKept ==
    ASSUME source' = source
    PROVE  /\ \A b, p, d : BlockLoop(b, p, d)' <=> BlockLoop(b, p, d)
           /\ \A o, p : StringLoop(o, p)' <=> StringLoop(o, p)
           /\ \A o, p : SymbolLoop(o, p)' <=> SymbolLoop(o, p)
           /\ \A o, p : CharLoop(o, p)' <=> CharLoop(o, p)
           /\ \A f, p, n : HashesLoop(f, p, n)' <=> HashesLoop(f, p, n)
           /\ \A f, p, n : RawLoop(f, p, n)' <=> RawLoop(f, p, n)
           /\ \A f, p, n, m : ClosingLoop(f, p, n, m)' <=> ClosingLoop(f, p, n, m)
<1>1. \A b, p, d : BlockLoop(b, p, d)' <=> BlockLoop(b, p, d)
  BY HelpersKept DEF BlockLoop
<1>2. \A o, p : StringLoop(o, p)' <=> StringLoop(o, p)
  BY HelpersKept DEF StringLoop
<1>3. \A o, p : SymbolLoop(o, p)' <=> SymbolLoop(o, p)
  BY HelpersKept DEF SymbolLoop
<1>4. \A o, p : CharLoop(o, p)' <=> CharLoop(o, p)
  BY HelpersKept DEF CharLoop
<1>5. \A f, p, n : HashesLoop(f, p, n)' <=> HashesLoop(f, p, n)
  BY HelpersKept DEF HashesLoop
<1>6. \A f, p, n : RawLoop(f, p, n)' <=> RawLoop(f, p, n)
  BY <1>5, HelpersKept DEF RawLoop
<1>7. \A f, p, n, m : ClosingLoop(f, p, n, m)' <=> ClosingLoop(f, p, n, m)
  BY <1>6, HelpersKept DEF ClosingLoop
<1> QED
  BY <1>1, <1>2, <1>3, <1>4, <1>5, <1>6, <1>7

Loops == {"block", "string", "symbol", "char", "hashes", "raw", "closing"}

\* A step that pushes no token and ends in a loop.
LEMMA InLoop ==
    ASSUME LexInv, source' = source, tokens' = tokens, mode' \in Loops,
           literal' \in Kinds, pos' \in Nat, pos <= pos', pos' <= Len(source),
           begin' \in Nat, begin' <= pos', depth' \in Nat, depth' # 0,
           opening' \in Nat, closing' \in Nat, closing' <= opening', LoopInv'
    PROVE  LexInv'
<1>1. /\ source' \in Seq(Char) /\ pos' \in 0 .. Len(source') /\ begin' \in 0 .. pos'
      /\ depth' \in Nat \ {0} /\ closing' \in 0 .. opening'
  BY InTypes
<1>2. /\ mode' \in {"token", "block", "string", "symbol", "char", "hashes", "raw",
                  "closing", "done"}
      /\ tokens' \in Seq(TokenType)
  BY InTypes DEF Loops
<1>3. \A k \in DOMAIN tokens' :
         /\ tokens'[k].begin < tokens'[k].suffix
         /\ tokens'[k].suffix <= tokens'[k].end
         /\ tokens'[k].end <= pos'
  <2> SUFFICES ASSUME NEW k \in DOMAIN tokens
               PROVE  /\ tokens[k].begin < tokens[k].suffix
                      /\ tokens[k].suffix <= tokens[k].end
                      /\ tokens[k].end <= pos'
    OBVIOUS
  <2>1. /\ tokens[k].begin < tokens[k].suffix
        /\ tokens[k].suffix <= tokens[k].end
        /\ tokens[k].end <= pos
    BY DEF LexInv, TypeOK
  <2>2. tokens[k].end \in Nat
    <3>1. tokens[k] \in TokenType
      BY InTypes
    <3> QED
      BY <3>1 DEF TokenType
  <2> QED
    BY <2>1, <2>2, InTypes
<1>4. TypeOK'
  BY <1>1, <1>2, <1>3 DEF TypeOK
<1>5. TokensGood'
  <2>1. \A k \in DOMAIN tokens : TokenGood(tokens[k])
    BY DEF LexInv, TokensGood
  <2>2. \A f : TokenGood(f)' <=> TokenGood(f)
    BY GoodKept
  <2> QED
    BY <2>1, <2>2 DEF TokensGood
<1> QED
  BY <1>4, <1>5 DEF LexInv

\* The next position, mode and beginning in rigid variables.
LEMMA EnterStep ==
    ASSUME LexInv, Starting, NEW loop \in Loops, NEW kind \in Kinds, NEW end \in Nat,
           pos < end, end <= Len(source), Enter(loop, kind, end), LoopInv'
    PROVE  LexInv'
<1>1. /\ source' = source /\ tokens' = tokens /\ mode' = loop /\ literal' = kind
      /\ pos' = end /\ begin' = pos /\ depth' = 1 /\ opening' = 0 /\ closing' = 0
  BY DEF Enter
<1>2. pos \in Nat
  BY InTypes
<1> QED
  BY <1>1, <1>2, InLoop

LEMMA StayStep ==
    ASSUME LexInv, NEW loop \in Loops, NEW end \in Nat,
           pos <= end, end <= Len(source), Stay(loop, end),
           depth' \in Nat, depth' # 0,
           opening' \in Nat, closing' \in Nat, closing' <= opening', LoopInv'
    PROVE  LexInv'
<1>1. /\ source' = source /\ tokens' = tokens /\ mode' = loop /\ literal' = literal
      /\ pos' = end /\ begin' = begin
  BY DEF Stay
<1>2. pos \in Nat /\ begin \in Nat /\ begin <= pos /\ literal \in Kinds
  BY InTypes
<1> QED
  BY <1>1, <1>2, InLoop

----------------------------------------------------------------------------
(* Block comments                                                          *)

LEMMA BlockNext ==
    ASSUME NEW b \in Nat, NEW p \in Nat, NEW d, BlockLoop(b, p, d)
    PROVE  /\ d \in Int /\ b <= p
           /\ IsDelimiter(b, p) <=> Pair(p) \in Delimiters
           /\ Pair(p) \in Delimiters => ~IsDelimiter(b, p + 1)
           /\ Nesting(b, p) = d + IF Pair(p) \in Delimiters
                                  THEN IF At(p) = "/" THEN 1 ELSE -1 ELSE 0
           /\ Pair(p) \in Delimiters => Nesting(b, p + 1) = Nesting(b, p)
           /\ Nesting(b, p) \in Int
<1>1. b + 2 <= p /\ ~IsDelimiter(b, p - 1) /\ d = Nesting(b, p - 1)
  BY DEF BlockLoop
<1>2. IsDelimiter(b, p) <=> Pair(p) \in Delimiters
  BY <1>1, DelimiterStep
<1>3. p + 1 \in Nat /\ b <= p + 1 /\ p + 1 # b /\ p + 1 - 1 = p
  BY <1>1
<1>4. Pair(p) \in Delimiters => ~IsDelimiter(b, p + 1)
  BY <1>2, <1>3, DelimiterStep
<1>5. /\ Nesting(b, p) \in Int
      /\ Nesting(b, p) = d + IF IsDelimiter(b, p)
                             THEN IF At(p) = "/" THEN 1 ELSE -1 ELSE 0
  BY <1>1, NestingStep
<1>6. Nesting(b, p + 1) = Nesting(b, p) + IF IsDelimiter(b, p + 1)
                             THEN IF At(p + 1) = "/" THEN 1 ELSE -1 ELSE 0
  BY <1>3, NestingStep
<1>7. d \in Int
  <2>1. p - 1 \in Int /\ b - 1 <= p - 1
    BY <1>1
  <2> QED
    BY <1>1, <2>1, NestingStep
<1>8. Pair(p) \in Delimiters => Nesting(b, p + 1) = Nesting(b, p)
  BY <1>4, <1>5, <1>6
<1>9. Nesting(b, p) = d + IF Pair(p) \in Delimiters
                          THEN IF At(p) = "/" THEN 1 ELSE -1 ELSE 0
  BY <1>2, <1>5
<1> QED
  BY <1>1, <1>2, <1>4, <1>5, <1>7, <1>8, <1>9

\* A delimiter is eaten whole.
LEMMA BlockDelimiter ==
    ASSUME NEW b \in Nat, NEW p \in Nat, NEW d, BlockLoop(b, p, d),
           Pair(p) \in Delimiters, Nesting(b, p) # 0
    PROVE  BlockLoop(b, p + 2, Nesting(b, p))
<1>1. /\ ~IsDelimiter(b, p + 1) /\ Nesting(b, p + 1) = Nesting(b, p) /\ b <= p
  BY BlockNext
<1>2. p + 2 - 1 = p + 1 /\ b + 2 <= p + 2
  BY <1>1
<1>3. \A i \in b .. (p + 1) : i \in b .. (p - 1) \/ i = p \/ i = p + 1
  OBVIOUS
<1>4. /\ \A i \in b .. (p - 1) : IsDelimiter(b, i) => Nesting(b, i) # 0
      /\ Pair(b) = <<"/", "*">>
  BY DEF BlockLoop
<1>5. \A i \in b .. (p + 1) : IsDelimiter(b, i) => Nesting(b, i) # 0
  BY <1>1, <1>3, <1>4
<1> QED
  BY <1>1, <1>2, <1>4, <1>5 DEF BlockLoop

LEMMA BlockOther ==
    ASSUME NEW b \in Nat, NEW p \in Nat, NEW d, BlockLoop(b, p, d),
           Pair(p) \notin Delimiters
    PROVE  BlockLoop(b, p + 1, d)
<1>1. ~IsDelimiter(b, p) /\ Nesting(b, p) = d /\ b + 2 <= p /\ p + 1 - 1 = p
  BY BlockNext DEF BlockLoop
<1>2. \A i \in b .. p : i \in b .. (p - 1) \/ i = p
  OBVIOUS
<1>3. \A i \in b .. p : IsDelimiter(b, i) => Nesting(b, i) # 0
  BY <1>1, <1>2 DEF BlockLoop
<1> QED
  BY <1>1, <1>3 DEF BlockLoop

\* The two characters that open it.
LEMMA BlockBegins ==
    ASSUME NEW b \in Nat, Pair(b) = <<"/", "*">>
    PROVE  BlockLoop(b, b + 2, 1)
<1>1. Pair(b) \in Delimiters /\ At(b) = "/"
  BY DEF Delimiters, Pair
<1>2. IsDelimiter(b, b)
  BY <1>1, DelimiterStep
<1>3. ~IsDelimiter(b, b + 1)
  <2>1. b + 1 \in Nat /\ b <= b + 1 /\ b + 1 # b /\ b + 1 - 1 = b
    OBVIOUS
  <2> QED
    BY <1>2, <2>1, DelimiterStep
<1>4. Nesting(b, b - 1) = 0
  BY NestingStep
<1>5. Nesting(b, b) = 1
  BY <1>1, <1>2, <1>4, NestingStep
<1>6. Nesting(b, b + 1) = 1
  <2>1. b + 1 \in Int /\ b - 1 <= b + 1 /\ b <= b + 1 /\ b + 1 - 1 = b
    OBVIOUS
  <2>2. Nesting(b, b + 1) = Nesting(b, b)
                               + IF IsDelimiter(b, b + 1)
                                 THEN IF At(b + 1) = "/" THEN 1 ELSE -1 ELSE 0
    BY <2>1, NestingStep
  <2> QED
    BY <1>3, <1>5, <2>2
<1>7. \A i \in b .. (b + 1) : i = b \/ i = b + 1
  OBVIOUS
<1>8. b + 2 - 1 = b + 1 /\ b + 2 <= b + 2
  OBVIOUS
<1> QED
  BY <1>3, <1>5, <1>6, <1>7, <1>8 DEF BlockLoop

LEMMA BlockLoopInv ==
    ASSUME source' = source, mode' = "block", literal' = "comment",
           NEW b, NEW p, NEW d, begin' = b, pos' = p, depth' = d, BlockLoop(b, p, d)
    PROVE  LoopInv'
<1>1. BlockLoop(b, p, d)'
  BY LoopsKept
<1>2. BlockInv'
  BY <1>1 DEF BlockInv
<1> QED
  BY <1>2 DEF LoopInv, StringInv, CharInv, RawInv

LEMMA LoopsAre ==
    /\ "block" \in Loops /\ "string" \in Loops /\ "symbol" \in Loops
    /\ "char" \in Loops /\ "hashes" \in Loops /\ "raw" \in Loops
    /\ "closing" \in Loops
    /\ "comment" \in Kinds /\ Quoted \subseteq Kinds /\ Raw \subseteq Kinds
    /\ {"str", "byte_str", "char", "byte"} \subseteq Kinds
    /\ "raw_str" \in Raw /\ "raw_byte_str" \in Raw
BY DEF Loops, Kinds, Literals, Quoted, Raw

LEMMA BeginBlockStep ==
    ASSUME LexInv, BeginBlock
    PROVE  LexInv'
<1>1. /\ Starting /\ First = "/" /\ Second = "*"
      /\ Enter("block", "comment", pos + 2)
  BY DEF BeginBlock
<1>2. pos \in Nat /\ pos + 2 <= Len(source) /\ pos + 2 \in Nat /\ pos < pos + 2
  BY <1>1, There DEF Eof
<1>3. Pair(pos) = <<"/", "*">>
  BY <1>1 DEF Pair, First, Second
<1>4. BlockLoop(pos, pos + 2, 1)
  BY <1>2, <1>3, BlockBegins
<1>5. /\ source' = source /\ mode' = "block" /\ literal' = "comment"
      /\ begin' = pos /\ pos' = pos + 2 /\ depth' = 1
  BY <1>1 DEF Enter
<1>6. LoopInv'
  BY <1>4, <1>5, BlockLoopInv
<1> QED
  BY <1>1, <1>2, <1>6, EnterStep, LoopsAre

\* What the invariant says in the loop.
LEMMA InBlock ==
    ASSUME LexInv, mode = "block"
    PROVE  /\ literal = "comment" /\ BlockLoop(begin, pos, depth)
           /\ begin \in Nat /\ pos \in Nat /\ pos + 1 \in Nat /\ begin + 2 <= pos
           /\ Pair(pos) = <<First, Second>>
           /\ pos <= Len(source)
           /\ source \in Seq(Char) /\ Len(source) \in Nat
           /\ First # Eof => pos + 1 <= Len(source)
           /\ Second # Eof => pos + 2 <= Len(source)
<1>1. literal = "comment" /\ BlockLoop(begin, pos, depth)
  BY DEF LexInv, LoopInv, BlockInv
<1>2. begin + 2 <= pos
  BY <1>1 DEF BlockLoop
<1>3. pos \in Nat /\ pos + 1 \in Nat /\ source \in Seq(Char) /\ Len(source) \in Nat
      /\ begin \in Nat /\ pos <= Len(source)
  BY InTypes
<1>4. /\ First # Eof => pos + 1 <= Len(source)
      /\ Second # Eof => pos + 2 <= Len(source)
  BY <1>3, AtType DEF First, Second
<1>5. Pair(pos) = <<First, Second>>
  BY DEF Pair, First, Second
<1> QED
  BY <1>1, <1>2, <1>3, <1>4, <1>5

LEMMA BlockStep ==
    ASSUME LexInv, OpenComment \/ CloseComment \/ SkipInComment
    PROVE  LexInv'
<1>1. mode = "block"
  BY DEF OpenComment, CloseComment, SkipInComment
<1>2. depth \in Nat /\ depth # 0 /\ opening \in Nat /\ closing \in Nat
      /\ closing <= opening
  BY InTypes
<1>3. CASE OpenComment
  <2>1. /\ First = "/" /\ Second = "*" /\ depth' = depth + 1
        /\ Stay("block", pos + 2) /\ opening' = opening /\ closing' = closing
    BY <1>3 DEF OpenComment, OpenerEnd
  <2>2. Pair(pos) \in Delimiters /\ At(pos) = "/" /\ pos + 2 <= Len(source)
    BY <1>1, <2>1, InBlock DEF Delimiters, First, Eof
  <2>3. Nesting(begin, pos) = depth + 1
    BY <1>1, <2>2, InBlock, BlockNext
  <2>4. BlockLoop(begin, pos + 2, depth + 1)
    BY <1>1, <1>2, <2>2, <2>3, InBlock, BlockDelimiter
  <2>5. /\ source' = source /\ mode' = "block" /\ literal' = "comment"
        /\ begin' = begin /\ pos' = pos + 2
    BY <1>1, <2>1, InBlock DEF Stay
  <2>6. LoopInv'
    BY <2>1, <2>4, <2>5, BlockLoopInv
  <2>7. pos + 2 \in Nat /\ pos <= pos + 2 /\ depth + 1 \in Nat /\ depth + 1 # 0
    BY <1>1, <1>2, InBlock
  <2> QED
    BY <1>2, <2>1, <2>2, <2>6, <2>7, StayStep, LoopsAre
<1>4. CASE CloseComment
  <2>1. /\ First = "*" /\ Second = "/" /\ depth' = depth - 1 /\ depth > 1
        /\ Stay("block", pos + 2) /\ opening' = opening /\ closing' = closing
    BY <1>4 DEF CloseComment
  <2>2. Pair(pos) \in Delimiters /\ At(pos) # "/" /\ pos + 2 <= Len(source)
    BY <1>1, <2>1, InBlock DEF Delimiters, First, Eof
  <2>3. Nesting(begin, pos) = depth - 1 /\ depth - 1 # 0
    BY <1>1, <1>2, <2>1, <2>2, InBlock, BlockNext
  <2>4. BlockLoop(begin, pos + 2, depth - 1)
    BY <1>1, <1>2, <2>2, <2>3, InBlock, BlockDelimiter
  <2>5. /\ source' = source /\ mode' = "block" /\ literal' = "comment"
        /\ begin' = begin /\ pos' = pos + 2
    BY <1>1, <2>1, InBlock DEF Stay
  <2>6. LoopInv'
    BY <2>1, <2>4, <2>5, BlockLoopInv
  <2>7. pos + 2 \in Nat /\ pos <= pos + 2 /\ depth - 1 \in Nat
    BY <1>1, <1>2, <2>1, InBlock
  <2> QED
    BY <1>2, <2>1, <2>2, <2>3, <2>6, <2>7, StayStep, LoopsAre
<1>5. CASE SkipInComment
  <2>1. /\ First # Eof /\ <<First, Second>> \notin Delimiters /\ depth' = depth
        /\ Stay("block", pos + 1) /\ opening' = opening /\ closing' = closing
    BY <1>5 DEF SkipInComment, Delimiters
  <2>2. pos + 1 <= Len(source) /\ pos + 1 \in Nat /\ pos <= pos + 1
    BY <1>1, <2>1, InBlock
  <2>3. BlockLoop(begin, pos + 1, depth)
    BY <1>1, <2>1, InBlock, BlockOther
  <2>4. /\ source' = source /\ mode' = "block" /\ literal' = "comment"
        /\ begin' = begin /\ pos' = pos + 1
    BY <1>1, <2>1, InBlock DEF Stay
  <2>5. LoopInv'
    BY <2>1, <2>3, <2>4, BlockLoopInv
  <2> QED
    BY <1>2, <2>1, <2>2, <2>5, StayStep, LoopsAre
<1> QED
  BY <1>3, <1>4, <1>5

\* The token of a loop that ends with the cursor at end.
TokenAs(t, end, suffix, hashes) ==
    /\ t \in TokenType /\ t.kind = literal /\ t.begin = begin
    /\ t.end = end /\ t.suffix = suffix /\ t.hashes = hashes
    /\ begin < suffix /\ suffix <= end
ClosedAs(t, end) == TokenAs(t, end, end, 0) /\ t.ok
BrokenAs(t, end) == TokenAs(t, end, end, 0) /\ ~t.ok
CompleteAs(t, end, hashes) == TokenAs(t, SuffixEnd(end), end, hashes) /\ t.ok

\* A comment that is closed.
LEMMA ClosedStep ==
    ASSUME LexInv, NEW end \in Nat, begin' = begin, Push(Token(literal, end, end, TRUE, 0)),
           begin < end, pos <= end, end <= Len(source),
           \A t : ClosedAs(t, end) => TokenGood(t)
    PROVE  LexInv'
<1> DEFINE tt == [kind |-> literal, begin |-> begin, end |-> end,
                  suffix |-> end, ok |-> TRUE, hashes |-> 0]
<1>1. PICK t : t = tt
  OBVIOUS
<1>2. /\ literal \in Kinds /\ begin \in Nat /\ TRUE \in BOOLEAN
      /\ 0 \in 0 .. MaxHashes
  BY InTypes, LexerAssumption
<1>3. end \in Nat /\ end <= end /\ end <= Len(source)
  OBVIOUS
<1>4. t \in TokenType
  <2>1. tt \in TokenType
    BY <1>2, <1>3, TokenTyped, Zenon
  <2> QED
    BY <1>1, <2>1, Zenon
<1>5. /\ t.kind = literal /\ t.begin = begin /\ t.end = end
      /\ t.suffix = end /\ t.hashes = 0
  BY <1>1
<1>6. t.ok = TRUE
  BY <1>1
<1>7. TokenGood(t)
  <2>1. ClosedAs(t, end)
    BY <1>3, <1>4, <1>5, <1>6 DEF ClosedAs, TokenAs
  <2> QED
    BY <2>1
<1>8. Push(t) /\ begin' = begin
  BY <1>1 DEF Token
<1> HIDE DEF tt
<1>9. begin' \in 0 .. t.end /\ pos <= t.end /\ t.end <= Len(source)
  BY <1>2, <1>3, <1>5, <1>8, InTypes
<1> QED
  BY <1>7, <1>8, <1>9, GoodPushed

\* A literal or comment that breaks off.
LEMMA BrokenStep ==
    ASSUME LexInv, NEW end \in Nat, Broken(end),
           begin < end, pos <= end, end <= Len(source),
           \A t : BrokenAs(t, end) => TokenGood(t)
    PROVE  LexInv'
<1> DEFINE tt == [kind |-> literal, begin |-> begin, end |-> end,
                  suffix |-> end, ok |-> FALSE, hashes |-> 0]
<1>1. PICK t : t = tt
  OBVIOUS
<1>2. /\ literal \in Kinds /\ begin \in Nat /\ FALSE \in BOOLEAN
      /\ 0 \in 0 .. MaxHashes
  BY InTypes, LexerAssumption
<1>3. end \in Nat /\ end <= end /\ end <= Len(source)
  OBVIOUS
<1>4. t \in TokenType
  <2>1. tt \in TokenType
    BY <1>2, <1>3, TokenTyped, Zenon
  <2> QED
    BY <1>1, <2>1, Zenon
<1>5. /\ t.kind = literal /\ t.begin = begin /\ t.end = end
      /\ t.suffix = end /\ t.hashes = 0
  BY <1>1
<1>6. t.ok = FALSE
  BY <1>1
<1>7. TokenGood(t)
  <2>1. BrokenAs(t, end)
    BY <1>3, <1>4, <1>5, <1>6 DEF BrokenAs, TokenAs
  <2> QED
    BY <2>1
<1>8. Push(t) /\ begin' = begin
  BY <1>1 DEF Token, Broken
<1> HIDE DEF tt
<1>9. begin' \in 0 .. t.end /\ pos <= t.end /\ t.end <= Len(source)
  BY <1>2, <1>3, <1>5, <1>8, InTypes
<1> QED
  BY <1>7, <1>8, <1>9, GoodPushed

\* A literal that is complete, with its suffix.
LEMMA CompleteStep ==
    ASSUME LexInv, NEW end \in Nat, NEW hashes \in 0 .. MaxHashes, Complete(end, hashes),
           begin < end, pos <= end, end <= Len(source),
           \A t : CompleteAs(t, end, hashes) => TokenGood(t)
    PROVE  LexInv'
<1> DEFINE tt == [kind |-> literal, begin |-> begin, end |-> SuffixEnd(end),
                  suffix |-> end, ok |-> TRUE, hashes |-> hashes]
<1>1. PICK t : t = tt
  OBVIOUS
<1>2. /\ literal \in Kinds /\ begin \in Nat /\ TRUE \in BOOLEAN
      /\ hashes \in 0 .. MaxHashes
  BY InTypes, LexerAssumption
<1>3. SuffixEnd(end) \in Nat /\ end <= SuffixEnd(end) /\ SuffixEnd(end) <= Len(source)
  BY SuffixPart, InTypes DEF Part
<1>4. t \in TokenType
  <2>1. tt \in TokenType
    BY <1>2, <1>3, TokenTyped, Zenon
  <2> QED
    BY <1>1, <2>1, Zenon
<1>5. /\ t.kind = literal /\ t.begin = begin /\ t.end = SuffixEnd(end)
      /\ t.suffix = end /\ t.hashes = hashes
  BY <1>1
<1>6. t.ok = TRUE
  BY <1>1
<1>7. TokenGood(t)
  <2>1. CompleteAs(t, end, hashes)
    BY <1>3, <1>4, <1>5, <1>6 DEF CompleteAs, TokenAs
  <2> QED
    BY <2>1
<1>8. Push(t) /\ begin' = begin
  BY <1>1 DEF Token, Complete
<1> HIDE DEF tt
<1>9. begin' \in 0 .. t.end /\ pos <= t.end /\ t.end <= Len(source)
  BY <1>2, <1>3, <1>5, <1>8, InTypes
<1> QED
  BY <1>7, <1>8, <1>9, GoodPushed

LEMMA GoodComment ==
    ASSUME NEW t, t \in TokenType, t.begin < t.suffix, t.suffix <= t.end,
           t.kind = "comment", CommentNests(t)
    PROVE  TokenGood(t)
<1>1. /\ t.kind \notin {"str", "byte_str", "char", "byte", "int", "float", "raw_str"}
      /\ t.kind \notin Raw
  BY DEF Raw
<1> QED
  BY <1>1 DEF TokenGood

LEMMA EndCommentStep ==
    ASSUME LexInv, EndComment
    PROVE  LexInv'
<1>1. mode = "block"
  BY DEF EndComment
<1>2. /\ literal = "comment" /\ BlockLoop(begin, pos, depth)
      /\ begin \in Nat /\ pos \in Nat /\ begin + 2 <= pos /\ pos <= Len(source)
      /\ Len(source) \in Nat /\ 0 \in 0 .. MaxHashes
  BY <1>1, InBlock, LexerAssumption
<1>3. \A i \in begin .. (pos - 1) : IsDelimiter(begin, i) => Nesting(begin, i) # 0
  BY <1>2 DEF BlockLoop
<1>4. CASE /\ First = "*" /\ Second = "/" /\ depth = 1 /\ begin' = begin
           /\ Push(Token(literal, pos + 2, pos + 2, TRUE, 0))
  <2>1. Pair(pos) \in Delimiters /\ At(pos) # "/" /\ pos + 2 <= Len(source)
    BY <1>1, <1>4, InBlock DEF Delimiters, First, Eof
  <2>2. IsDelimiter(begin, pos) /\ Nesting(begin, pos) = 0
    BY <1>2, <1>4, <2>1, BlockNext
  <2>3. ASSUME NEW t, ClosedAs(t, pos + 2)
        PROVE  TokenGood(t)
    <3>0. /\ t \in TokenType /\ t.kind = literal /\ t.begin = begin
          /\ t.end = pos + 2 /\ t.suffix = pos + 2 /\ t.ok
      BY <2>3 DEF ClosedAs, TokenAs
    <3>1. t.end - 2 = pos /\ pos \in begin .. (Len(source) - 1)
      BY <1>2, <2>1, <3>0
    <3>2. \A i \in begin .. (Len(source) - 1) :
             IsDelimiter(begin, i) /\ Nesting(begin, i) = 0 => pos <= i
      <4> SUFFICES ASSUME NEW i \in begin .. (Len(source) - 1), i < pos,
                          IsDelimiter(begin, i), Nesting(begin, i) = 0
                   PROVE  FALSE
        BY <1>2
      <4>1. i \in begin .. (pos - 1)
        BY <1>2
      <4> QED
        BY <1>3, <4>1
    <3>3. CommentNests(t)
      BY <2>2, <3>0, <3>1, <3>2 DEF CommentNests
    <3>4. t.begin < t.suffix /\ t.suffix <= t.end
      BY <1>2, <3>0
    <3> QED
      BY <1>2, <3>0, <3>3, <3>4, GoodComment
  <2>4. pos + 2 \in Nat /\ begin < pos + 2 /\ pos + 2 <= pos + 2 /\ pos <= pos + 2
    BY <1>2
  <2> QED
    BY <1>2, <1>4, <2>1, <2>3, <2>4, ClosedStep
<1>5. CASE First = Eof /\ Broken(pos)
  <2>1. pos = Len(source)
    BY <1>1, <1>2, <1>5, InBlock, AtType DEF First
  <2>2. ASSUME NEW t, BrokenAs(t, pos)
        PROVE  TokenGood(t)
    <3>0. /\ t \in TokenType /\ t.kind = literal /\ t.begin = begin
          /\ t.end = pos /\ t.suffix = pos /\ ~t.ok
      BY <2>2 DEF BrokenAs, TokenAs
    <3>1. \A i \in begin .. (Len(source) - 1) :
             ~(IsDelimiter(begin, i) /\ Nesting(begin, i) = 0)
      BY <1>3, <2>1
    <3>2. t.begin < t.suffix /\ t.suffix <= t.end
      BY <1>2, <3>0
    <3>3. {i \in t.begin .. (Len(source) - 1) :
              IsDelimiter(t.begin, i) /\ Nesting(t.begin, i) = 0} = {}
      BY <3>0, <3>1
    <3>4. CommentNests(t)
      BY <2>1, <3>0, <3>3 DEF CommentNests
    <3> QED
      BY <1>2, <3>0, <3>2, <3>4, GoodComment
  <2>3. begin < pos /\ pos <= pos
    BY <1>2
  <2> QED
    BY <1>2, <1>5, <2>2, <2>3, BrokenStep
<1> QED
  BY <1>4, <1>5 DEF EndComment

----------------------------------------------------------------------------
(* Strings                                                                 *)

LEMMA StringLoopInv ==
    ASSUME source' = source, mode' = "string", literal' \in {"str", "byte_str"},
           NEW o, NEW p, Opened' = o, pos' = p, StringLoop(o, p)
    PROVE  LoopInv'
<1>1. StringLoop(o, p)'
  BY LoopsKept
<1>2. StringInv'
  BY <1>1 DEF StringInv
<1> QED
  BY <1>2 DEF LoopInv, BlockInv, CharInv, RawInv

\* What the opening quote leaves behind.
LEMMA StringBegins ==
    ASSUME NEW o \in Nat, At(o) = Quote
    PROVE  StringLoop(o, o + 1)
<1>1. ~Escaped(o, o + 1)
  BY EscapedStep
<1>2. \A q \in 0 .. (o + 1 - 1) : ~(q > o)
  OBVIOUS
<1> QED
  BY <1>1, <1>2 DEF StringLoop, Closes

\* A character that is no quote, and what a backslash takes with it.
LEMMA StringEats ==
    ASSUME NEW o \in Nat, NEW p \in Nat, StringLoop(o, p), At(p) # Quote
    PROVE  IF At(p) = Backslash /\ At(p + 1) \in Escapes
           THEN StringLoop(o, p + 2) ELSE StringLoop(o, p + 1)
<1>1. /\ o < p /\ At(o) = Quote
      /\ Escaped(o, p) => At(p) \notin Escapes
      /\ \A q \in 0 .. (p - 1) : ~Closes(o, q)
  BY DEF StringLoop
<1>2. Escaped(o, p + 1) <=> At(p) = Backslash /\ ~Escaped(o, p)
  <2>1. p + 1 \in Nat /\ o < p + 1 /\ p + 1 # o + 1 /\ p + 1 - 1 = p
    BY <1>1
  <2> QED
    BY <2>1, EscapedStep
<1>3. \A q \in 0 .. p : ~Closes(o, q)
  <2>1. \A q \in 0 .. p : q \in 0 .. (p - 1) \/ q = p
    OBVIOUS
  <2> QED
    BY <1>1, <2>1 DEF Closes
<1>4. p + 1 - 1 = p /\ p + 2 - 1 = p + 1 /\ o < p + 1 /\ o < p + 2
  BY <1>1
<1>5. CASE At(p) = Backslash /\ At(p + 1) \in Escapes
  <2>1. ~Escaped(o, p) /\ Escaped(o, p + 1)
    BY <1>1, <1>2, <1>5 DEF Escapes
  <2>2. ~Escaped(o, p + 2)
    <3>1. p + 2 \in Nat /\ o < p + 2 /\ p + 2 - 1 = p + 1
      BY <1>1
    <3> QED
      BY <2>1, <3>1, EscapedStep
  <2>3. \A q \in 0 .. (p + 1) : q \in 0 .. p \/ q = p + 1
    OBVIOUS
  <2>4. \A q \in 0 .. (p + 1) : ~Closes(o, q)
    BY <1>3, <2>1, <2>3 DEF Closes
  <2> QED
    BY <1>1, <1>4, <1>5, <2>2, <2>4 DEF StringLoop
<1>6. CASE ~(At(p) = Backslash /\ At(p + 1) \in Escapes)
  <2>1. Escaped(o, p + 1) => At(p + 1) \notin Escapes
    BY <1>2, <1>6
  <2> QED
    BY <1>1, <1>3, <1>4, <1>6, <2>1 DEF StringLoop
<1> QED
  BY <1>5, <1>6

LEMMA OpeningIs ==
    ASSUME NEW t, t.kind = literal, t.begin = begin
    PROVE  Opening(t) = Opened
BY DEF Opening, Opened

\* The values of strings and characters are between their quotes.
LEMMA SliceQuoted ==
    ASSUME NEW t, t.begin \in Nat, t.suffix \in Nat, t.kind \in {"str", "char"},
           t.hashes = 0, t.begin + 2 <= t.suffix, At(t.begin) \in {Quote, "'"},
           At(t.suffix - 1) = At(t.begin)
    PROVE  SliceIsContent(t)
<1>1. SliceFrom(t) = t.begin + 1 /\ SliceTo(t) = t.suffix - 1
  BY DEF SliceFrom, SliceTo, Raw
<1>2. SliceFrom(t) - 1 = t.begin /\ SliceFrom(t) <= SliceTo(t)
  BY <1>1
<1>3. t.begin .. (SliceFrom(t) - 2) = {}
  BY <1>1
<1>4. Hashes(SliceTo(t) + 1, t.suffix - 1 - SliceTo(t))
  BY <1>1 DEF Hashes
<1> QED
  BY <1>1, <1>2, <1>3, <1>4 DEF SliceIsContent

LEMMA GoodString ==
    ASSUME NEW t, t \in TokenType, t.begin < t.suffix, t.suffix <= t.end,
           t.kind \in {"str", "byte_str"}, StringExact(t),
           t.kind = "str" /\ t.ok => SliceIsContent(t)
    PROVE  TokenGood(t)
<1>1. /\ t.kind \notin {"char", "byte", "int", "float", "raw_str", "comment"}
      /\ t.kind \notin Raw
  BY DEF Raw
<1> QED
  BY <1>1 DEF TokenGood

LEMMA BeginStringStep ==
    ASSUME LexInv, BeginString
    PROVE  LexInv'
<1>1. Starting
  BY DEF BeginString
<1>2. pos \in Nat /\ pos + 1 <= Len(source) /\ Len(source) \in Nat
      /\ (Second # Eof => pos + 2 <= Len(source))
  BY <1>1, There
<1>3. PICK kind \in {"str", "byte_str"}, o \in Nat :
         /\ o = (IF kind = "byte_str" THEN pos + 1 ELSE pos)
         /\ At(o) = Quote /\ o + 1 <= Len(source) /\ Enter("string", kind, o + 1)
  <2>1. CASE First = Quote /\ Enter("string", "str", pos + 1)
    BY <1>2, <2>1 DEF First
  <2>2. CASE Second = Quote /\ Enter("string", "byte_str", pos + 2)
    <3>1. pos + 1 + 1 = pos + 2 /\ Second # Eof
      BY <1>2, <2>2, CharactersDiffer
    <3> QED
      BY <1>2, <2>2, <3>1 DEF Second
  <2> QED
    BY <2>1, <2>2 DEF BeginString
<1>4. /\ source' = source /\ mode' = "string" /\ literal' = kind
      /\ begin' = pos /\ pos' = o + 1
  BY <1>3 DEF Enter
<1>5. Opened' = o
  BY <1>3, <1>4 DEF Opened
<1>6. LoopInv'
  BY <1>3, <1>4, <1>5, StringBegins, StringLoopInv
<1>7. kind \in Kinds /\ o + 1 \in Nat /\ pos < o + 1
  BY <1>2, <1>3, LoopsAre
<1> QED
  BY <1>1, <1>3, <1>6, <1>7, EnterStep, LoopsAre

\* What the invariant says in the loop.
LEMMA InString ==
    ASSUME LexInv, mode = "string"
    PROVE  /\ literal \in {"str", "byte_str"} /\ StringLoop(Opened, pos)
           /\ Opened \in Nat /\ begin \in Nat /\ begin <= Opened /\ Opened < pos
           /\ pos \in Nat /\ pos <= Len(source) /\ Len(source) \in Nat
           /\ source \in Seq(Char)
           /\ First # Eof => pos + 1 <= Len(source)
           /\ Second # Eof => pos + 2 <= Len(source)
           /\ First = Eof => pos = Len(source)
<1>1. literal \in {"str", "byte_str"} /\ StringLoop(Opened, pos)
  BY DEF LexInv, LoopInv, StringInv
<1>2. Opened < pos
  BY <1>1 DEF StringLoop
<1>3. /\ begin \in Nat /\ pos \in Nat /\ pos <= Len(source) /\ Len(source) \in Nat
      /\ source \in Seq(Char) /\ pos + 1 \in Nat
  BY InTypes
<1>4. Opened \in Nat /\ begin <= Opened
  BY <1>3 DEF Opened
<1>5. /\ First # Eof => pos + 1 <= Len(source)
      /\ Second # Eof => pos + 2 <= Len(source)
      /\ First = Eof => pos = Len(source)
  BY <1>3, AtType DEF First, Second
<1> QED
  BY <1>1, <1>2, <1>3, <1>4, <1>5

LEMMA StringEndStep ==
    ASSUME LexInv, mode = "string",
           \/ First = Quote /\ Complete(pos + 1, 0)
           \/ First = Eof /\ Broken(pos)
    PROVE  LexInv'
<1> DEFINE o == Opened
<1>1. /\ literal \in {"str", "byte_str"} /\ StringLoop(o, pos)
      /\ o \in Nat /\ begin \in Nat /\ begin <= o /\ o < pos
      /\ pos \in Nat /\ pos <= Len(source) /\ Len(source) \in Nat
      /\ source \in Seq(Char) /\ 0 \in 0 .. MaxHashes
  BY InString, LexerAssumption
<1>2. /\ At(o) = Quote
      /\ Escaped(o, pos) => First \notin Escapes
      /\ \A q \in 0 .. (pos - 1) : ~Closes(o, q)
  BY <1>1 DEF StringLoop, First
<1>3. \A t : t.kind = literal /\ t.begin = begin => Opening(t) = o
  BY OpeningIs
<1> HIDE DEF o
<1>4. CASE First = Quote /\ Complete(pos + 1, 0)
  <2>1. Closes(o, pos) /\ pos + 1 <= Len(source)
    BY <1>1, <1>2, <1>4, InString, CharactersDiffer DEF Closes, First, Escapes
  <2>2. ASSUME NEW t, CompleteAs(t, pos + 1, 0)
        PROVE  TokenGood(t)
    <3>1. /\ t \in TokenType /\ t.kind = literal /\ t.begin = begin
          /\ t.suffix = pos + 1 /\ t.ok /\ t.hashes = 0
          /\ t.begin < t.suffix /\ t.suffix <= t.end
      BY <2>2 DEF CompleteAs, TokenAs
    <3>2. Opening(t) = o /\ t.suffix - 1 = pos
      BY <1>1, <1>3, <3>1
    <3>3. pos \in 0 .. (Len(source) - 1)
      BY <1>1, <2>1
    <3>4. \A q \in 0 .. (Len(source) - 1) : Closes(o, q) => pos <= q
      <4>1. \A q \in 0 .. (Len(source) - 1) : q \in 0 .. (pos - 1) \/ pos <= q
        BY <1>1
      <4> QED
        BY <1>2, <4>1
    <3>5. StringExact(t)
      BY <2>1, <3>1, <3>2, <3>3, <3>4 DEF StringExact
    <3>6. t.kind = "str" => SliceIsContent(t)
      <4> SUFFICES ASSUME t.kind = "str" PROVE SliceIsContent(t)
        OBVIOUS
      <4>1. o = begin
        BY <3>1 DEF o, Opened
      <4>2. At(t.begin) = Quote /\ At(t.suffix - 1) = Quote
        BY <1>2, <2>1, <3>1, <3>2, <4>1 DEF Closes
      <4>3. t.begin + 2 <= t.suffix /\ t.begin \in Nat /\ t.suffix \in Nat
        BY <1>1, <3>1, <4>1
      <4> QED
        BY <3>1, <4>2, <4>3, SliceQuoted
    <3> QED
      BY <1>1, <3>1, <3>5, <3>6, GoodString
  <2>3. pos + 1 \in Nat /\ begin < pos + 1 /\ pos <= pos + 1
    BY <1>1
  <2> QED
    BY <1>1, <1>4, <2>1, <2>2, <2>3, CompleteStep
<1>5. CASE First = Eof /\ Broken(pos)
  <2>1. pos = Len(source)
    BY <1>5, InString
  <2>2. ASSUME NEW t, BrokenAs(t, pos)
        PROVE  TokenGood(t)
    <3>1. /\ t \in TokenType /\ t.kind = literal /\ t.begin = begin
          /\ t.end = pos /\ ~t.ok /\ t.begin < t.suffix /\ t.suffix <= t.end
      BY <2>2 DEF BrokenAs, TokenAs
    <3>2. Opening(t) = o
      BY <1>3, <3>1
    <3>3. {q \in 0 .. (Len(source) - 1) : Closes(Opening(t), q)} = {}
      BY <1>2, <2>1, <3>2
    <3>4. StringExact(t)
      BY <2>1, <3>1, <3>3 DEF StringExact
    <3> QED
      BY <1>1, <3>1, <3>4, GoodString
  <2>3. begin < pos /\ pos <= pos
    BY <1>1
  <2> QED
    BY <1>1, <1>5, <2>2, <2>3, BrokenStep
<1> QED
  BY <1>4, <1>5

LEMMA StringStepInv ==
    ASSUME LexInv, StringStep
    PROVE  LexInv'
<1>1. mode = "string"
  BY DEF StringStep
<1>2. CASE \/ First = Quote /\ Complete(pos + 1, 0)
           \/ First = Eof /\ Broken(pos)
  BY <1>1, <1>2, StringEndStep
<1>3. CASE /\ First \notin {Quote, Eof}
           /\ Stay("string", IF First = Backslash /\ Second \in Escapes THEN pos + 2
                                                                 ELSE pos + 1)
           /\ UNCHANGED <<depth, opening, closing>>
  <2>1. PICK end : end = IF First = Backslash /\ Second \in Escapes THEN pos + 2 ELSE pos + 1
    OBVIOUS
  <2>2. /\ First \notin {Quote, Eof} /\ Stay("string", end)
        /\ depth' = depth /\ opening' = opening /\ closing' = closing
    BY <1>3, <2>1
  <2>3. StringLoop(Opened, end)
    BY <1>1, <2>1, <2>2, InString, StringEats DEF First, Second
  <2>4. Second \in Escapes => Second # Eof
    BY CharactersDiffer DEF Escapes
  <2>5. end \in Nat /\ pos <= end /\ end <= Len(source)
    BY <1>1, <2>1, <2>2, <2>4, InString
  <2>6. /\ source' = source /\ mode' = "string" /\ literal' = literal
        /\ begin' = begin /\ pos' = end
    BY <2>2 DEF Stay
  <2>7. Opened' = Opened
    BY <2>6 DEF Opened
  <2>8. LoopInv'
    BY <1>1, <2>3, <2>6, <2>7, InString, StringLoopInv
  <2>9. /\ depth \in Nat /\ depth # 0 /\ opening \in Nat /\ closing \in Nat
        /\ closing <= opening
    BY InTypes
  <2> QED
    BY <2>2, <2>5, <2>8, <2>9, StayStep, LoopsAre
<1> QED
  BY <1>2, <1>3 DEF StringStep

----------------------------------------------------------------------------
(* Characters                                                              *)

LEMMA CharLoopInv ==
    ASSUME source' = source, literal' \in {"char", "byte"}, NEW o, NEW p,
           Opened' = o, pos' = p,
           \/ mode' = "symbol" /\ SymbolLoop(o, p)
           \/ mode' = "char" /\ CharLoop(o, p)
    PROVE  LoopInv'
<1>1. /\ SymbolLoop(o, p)' <=> SymbolLoop(o, p)
      /\ CharLoop(o, p)' <=> CharLoop(o, p)
  BY LoopsKept
<1>2. CharInv'
  BY <1>1 DEF CharInv
<1> QED
  BY <1>2 DEF LoopInv, BlockInv, StringInv, RawInv

\* The quote that opens it does not escape anything.
LEMMA CharBegins ==
    ASSUME NEW o \in Nat, At(o) = "'"
    PROVE  CharLoop(o, o + 1)
<1>1. ~Escaped(o, o + 1)
  BY EscapedStep
<1>2. (o + 1) .. (o + 1 - 1) = {}
  OBVIOUS
<1> QED
  BY <1>1, <1>2 DEF CharLoop

\* A character that the loop does not stop at, and what a backslash takes with
\* it.
LEMMA CharEats ==
    ASSUME source \in Seq(Char), NEW o \in Nat, NEW p \in Nat, CharLoop(o, p),
           At(p) \notin {"'", "/", Eof}, At(p) = "\n" => At(p + 1) = "'"
    PROVE  CharLoop(o, IF At(p) = Backslash THEN AtMost(p + 2) ELSE p + 1)
<1>1. o < p /\ At(o) = "'" /\ p < Len(source) /\ Len(source) \in Nat
  BY Before DEF CharLoop
<1>2. ~Escaped(o, p)
  BY <1>1 DEF CharLoop
<1>3. Escaped(o, p + 1) <=> At(p) = Backslash
  <2>1. p + 1 \in Nat /\ o < p + 1 /\ p + 1 # o + 1 /\ p + 1 - 1 = p
    BY <1>1
  <2> QED
    BY <1>2, <2>1, EscapedStep
<1>4. \A i \in (o + 1) .. (p - 1) :
         ~Escaped(o, i) => At(i) \notin {"'", "/"} /\ At(i) # "\n"
  BY DEF CharLoop
<1>5. \A i \in (o + 1) .. p : i \in (o + 1) .. (p - 1) \/ i = p
  OBVIOUS
<1>6. Backslash \notin {"'", "/", "\n"}
  BY CharactersDiffer
<1>7. CASE At(p) = Backslash /\ p + 1 < Len(source)
  <2>1. AtMost(p + 2) = p + 2
    BY <1>1, <1>7 DEF AtMost
  <2>2. ~Escaped(o, p + 2)
    <3>1. p + 2 \in Nat /\ o < p + 2 /\ p + 2 - 1 = p + 1
      BY <1>1
    <3>2. At(p + 1) = Backslash => Escaped(o, p + 1)
      BY <1>3, <1>7
    <3> QED
      BY <1>3, <1>7, <3>1, EscapedStep
  <2>3. \A i \in (o + 1) .. (p + 1) : i \in (o + 1) .. (p - 1) \/ i = p \/ i = p + 1
    OBVIOUS
  <2>4. \A i \in (o + 1) .. (p + 1) :
           ~Escaped(o, i) => At(i) \notin {"'", "/"} /\ At(i) # "\n"
    BY <1>3, <1>4, <1>6, <1>7, <2>3
  <2>5. p + 2 - 1 = p + 1 /\ o < p + 2
    BY <1>1
  <2>6. CharLoop(o, p + 2)
    BY <1>1, <2>2, <2>4, <2>5 DEF CharLoop
  <2> QED
    BY <1>7, <2>1, <2>6
<1>8. CASE At(p) = Backslash /\ ~(p + 1 < Len(source))
  <2>1. AtMost(p + 2) = p + 1 /\ p + 1 = Len(source)
    BY <1>1, <1>8 DEF AtMost
  <2>2. \A i \in (o + 1) .. p :
           ~Escaped(o, i) => At(i) \notin {"'", "/"} /\ At(i) # "\n"
    BY <1>4, <1>5, <1>6, <1>8
  <2>3. p + 1 - 1 = p /\ o < p + 1
    BY <1>1
  <2>4. CharLoop(o, p + 1)
    BY <1>1, <2>1, <2>2, <2>3 DEF CharLoop
  <2> QED
    BY <1>8, <2>1, <2>4
<1>9. CASE At(p) # Backslash
  <2>1. p + 1 - 1 = p /\ o < p + 1 /\ ~Escaped(o, p + 1)
    BY <1>1, <1>3, <1>9
  <2>2. \A i \in (o + 1) .. p :
           ~Escaped(o, i) => /\ At(i) \notin {"'", "/"}
                             /\ At(i) = "\n" => i = p /\ At(p + 1) = "'"
    BY <1>4, <1>5
  <2>3. CharLoop(o, p + 1)
    BY <1>1, <2>1, <2>2 DEF CharLoop
  <2> QED
    BY <1>9, <2>3
<1> QED
  BY <1>7, <1>8, <1>9

LEMMA GoodChar ==
    ASSUME NEW t, t \in TokenType, t.begin < t.suffix, t.suffix <= t.end,
           t.kind \in {"char", "byte"}, CharExact(t),
           t.kind = "char" /\ t.ok => SliceIsContent(t)
    PROVE  TokenGood(t)
<1>1. /\ t.kind \notin {"str", "byte_str", "int", "float", "raw_str", "comment"}
      /\ t.kind \notin Raw
  BY DEF Raw
<1> QED
  BY <1>1 DEF TokenGood

LEMMA BeginCharStep ==
    ASSUME LexInv, BeginChar
    PROVE  LexInv'
<1>1. Starting
  BY DEF BeginChar
<1>2. pos \in Nat /\ pos + 1 <= Len(source) /\ Len(source) \in Nat
      /\ (Second # Eof => pos + 2 <= Len(source))
  BY <1>1, There
<1>3. PICK kind \in {"char", "byte"}, o \in Nat :
         /\ o = (IF kind = "byte" THEN pos + 1 ELSE pos)
         /\ At(o) = "'" /\ o + 1 <= Len(source) /\ Enter("symbol", kind, o + 1)
  <2>1. CASE First = "'" /\ Enter("symbol", "char", pos + 1)
    BY <1>2, <2>1 DEF First
  <2>2. CASE Second = "'" /\ Enter("symbol", "byte", pos + 2)
    <3>1. pos + 1 + 1 = pos + 2 /\ Second # Eof
      BY <1>2, <2>2, CharactersDiffer
    <3> QED
      BY <1>2, <2>2, <3>1 DEF Second
  <2> QED
    BY <2>1, <2>2 DEF BeginChar
<1>4. /\ source' = source /\ mode' = "symbol" /\ literal' = kind
      /\ begin' = pos /\ pos' = o + 1
  BY <1>3 DEF Enter
<1>5. Opened' = o
  BY <1>3, <1>4 DEF Opened
<1>6. SymbolLoop(o, o + 1)
  BY <1>3 DEF SymbolLoop
<1>7. LoopInv'
  BY <1>3, <1>4, <1>5, <1>6, CharLoopInv
<1>8. kind \in Kinds /\ o + 1 \in Nat /\ pos < o + 1
  BY <1>2, <1>3, LoopsAre
<1> QED
  BY <1>1, <1>3, <1>7, <1>8, EnterStep, LoopsAre

\* What the invariant says in the loop.
LEMMA InChar ==
    ASSUME LexInv, mode \in {"symbol", "char"}
    PROVE  /\ literal \in {"char", "byte"}
           /\ mode = "symbol" => SymbolLoop(Opened, pos)
           /\ mode = "char" => CharLoop(Opened, pos)
           /\ At(Opened) = "'"
           /\ Opened \in Nat /\ begin \in Nat /\ begin <= Opened /\ Opened < pos
           /\ pos \in Nat /\ pos <= Len(source) /\ Len(source) \in Nat
           /\ source \in Seq(Char)
           /\ First # Eof => pos + 1 <= Len(source)
           /\ Second # Eof => pos + 2 <= Len(source)
<1>1. /\ literal \in {"char", "byte"}
      /\ IF mode = "symbol" THEN SymbolLoop(Opened, pos) ELSE CharLoop(Opened, pos)
  BY DEF LexInv, LoopInv, CharInv
<1>2. /\ begin \in Nat /\ pos \in Nat /\ pos <= Len(source) /\ Len(source) \in Nat
      /\ source \in Seq(Char) /\ pos + 1 \in Nat
  BY InTypes
<1>3. Opened \in Nat /\ begin <= Opened
  BY <1>2 DEF Opened
<1>4. Opened < pos /\ At(Opened) = "'"
  BY <1>1, <1>2, <1>3 DEF SymbolLoop, CharLoop
<1>5. /\ First # Eof => pos + 1 <= Len(source)
      /\ Second # Eof => pos + 2 <= Len(source)
  BY <1>2, AtType DEF First, Second
<1> QED
  BY <1>1, <1>2, <1>3, <1>4, <1>5

\* A character that is complete, with its last quote at q.
LEMMA CharCompleteStep ==
    ASSUME LexInv, mode \in {"symbol", "char"}, NEW q \in Nat,
           pos <= q, q + 1 <= Len(source), At(q) = "'", Complete(q + 1, 0),
           ~Escaped(Opened, q),
           \/ q = Opened + 2
           \/ \A i \in (Opened + 1) .. (q - 1) :
                 ~Escaped(Opened, i) => /\ At(i) \notin {"'", "/"}
                                        /\ At(i) = "\n" => i = q - 1
    PROVE  LexInv'
<1> DEFINE o == Opened
<1>1. /\ literal \in {"char", "byte"} /\ At(o) = "'"
      /\ o \in Nat /\ begin \in Nat /\ begin <= o /\ o < pos
      /\ pos \in Nat /\ 0 \in 0 .. MaxHashes
  BY InChar, LexerAssumption
<1>2. ASSUME NEW t, CompleteAs(t, q + 1, 0)
      PROVE  TokenGood(t)
  <2>1. /\ t \in TokenType /\ t.kind = literal /\ t.begin = begin
        /\ t.suffix = q + 1 /\ t.ok /\ t.hashes = 0
        /\ t.begin < t.suffix /\ t.suffix <= t.end
    BY <1>2 DEF CompleteAs, TokenAs
  <2>2. Opening(t) = Opened /\ t.suffix - 1 = q
    BY <2>1, OpeningIs
  <2>3. q > Opened
    BY <1>1
  <2>4. CharExact(t)
    BY <2>2, <2>3 DEF CharExact
  <2>5. t.kind = "char" => SliceIsContent(t)
    <3> SUFFICES ASSUME t.kind = "char" PROVE SliceIsContent(t)
      OBVIOUS
    <3>1. o = begin
      BY <2>1 DEF Opened
    <3>2. At(t.begin) = "'" /\ At(t.suffix - 1) = "'"
      BY <1>1, <2>1, <2>2, <3>1
    <3>3. t.begin + 2 <= t.suffix /\ t.begin \in Nat /\ t.suffix \in Nat
      BY <1>1, <2>1, <3>1
    <3> QED
      BY <2>1, <3>2, <3>3, SliceQuoted
  <2> QED
    BY <1>1, <2>1, <2>4, <2>5, GoodChar
<1> HIDE DEF o
<1>3. q + 1 \in Nat /\ begin < q + 1 /\ pos <= q + 1
  BY <1>1
<1> QED
  BY <1>1, <1>2, <1>3, CompleteStep

LEMMA SymbolStep ==
    ASSUME LexInv, Symbol
    PROVE  LexInv'
<1>1. mode = "symbol"
  BY DEF Symbol
<1>2. /\ SymbolLoop(Opened, pos) /\ At(Opened) = "'" /\ Opened \in Nat
      /\ pos \in Nat /\ pos <= Len(source) /\ pos = Opened + 1
      /\ literal \in {"char", "byte"}
  BY <1>1, InChar DEF SymbolLoop
<1>3. CASE OneSymbol
  <2>1. /\ At(pos) # Backslash /\ At(pos + 1) = "'" /\ pos + 2 <= Len(source)
        /\ Complete(pos + 2, 0)
    BY <1>1, <1>3, InChar, CharactersDiffer DEF OneSymbol, Symbol, First, Second
  <2>2. /\ pos + 1 \in Nat /\ pos + 1 + 1 = pos + 2 /\ pos <= pos + 1
        /\ pos + 1 = Opened + 2
    BY <1>2
  <2>3. ~Escaped(Opened, pos + 1)
    <3>1. Opened < pos + 1 /\ pos + 1 - 1 = pos
      BY <1>2
    <3> QED
      BY <1>2, <2>1, <2>2, <3>1, EscapedStep
  <2> QED
    BY <1>1, <2>1, <2>2, <2>3, CharCompleteStep
<1>4. CASE ~OneSymbol
  <2>1. Stay("char", pos) /\ depth' = depth /\ opening' = opening /\ closing' = closing
    BY <1>4 DEF Symbol
  <2>2. /\ source' = source /\ mode' = "char" /\ literal' = literal
        /\ begin' = begin /\ pos' = pos
    BY <2>1 DEF Stay
  <2>3. Opened' = Opened
    BY <2>2 DEF Opened
  <2>4. CharLoop(Opened, pos)
    BY <1>2, CharBegins
  <2>5. LoopInv'
    BY <1>2, <2>2, <2>3, <2>4, CharLoopInv
  <2>6. /\ depth \in Nat /\ depth # 0 /\ opening \in Nat /\ closing \in Nat
        /\ closing <= opening /\ pos <= pos
    BY <1>2, InTypes
  <2> QED
    BY <1>2, <2>1, <2>5, <2>6, StayStep, LoopsAre
<1> QED
  BY <1>3, <1>4

LEMMA CharStepInv ==
    ASSUME LexInv, CharStep
    PROVE  LexInv'
<1>1. mode = "char"
  BY DEF CharStep
<1>2. /\ literal \in {"char", "byte"} /\ CharLoop(Opened, pos)
      /\ Opened \in Nat /\ begin \in Nat /\ begin < pos
      /\ pos \in Nat /\ pos <= Len(source) /\ Len(source) \in Nat
      /\ source \in Seq(Char)
  BY <1>1, InChar
<1>3. CASE First = "'" /\ Complete(pos + 1, 0)
  <2>1. At(pos) = "'" /\ pos + 1 <= Len(source) /\ pos <= pos /\ pos # Len(source)
    BY <1>1, <1>2, <1>3, InChar, CharactersDiffer DEF First
  <2>2. /\ ~Escaped(Opened, pos)
        /\ \A i \in (Opened + 1) .. (pos - 1) :
              ~Escaped(Opened, i) => /\ At(i) \notin {"'", "/"}
                                     /\ At(i) = "\n" => i = pos - 1
    BY <1>2, <2>1 DEF CharLoop
  <2> QED
    BY <1>1, <1>2, <1>3, <2>1, <2>2, CharCompleteStep
<1>4. CASE StopsChar /\ Broken(pos)
  <2>1. ASSUME NEW t, BrokenAs(t, pos)
        PROVE  TokenGood(t)
    <3>1. /\ t \in TokenType /\ t.kind = literal
          /\ ~t.ok /\ t.begin < t.suffix /\ t.suffix <= t.end
      BY <2>1 DEF BrokenAs, TokenAs
    <3>2. CharExact(t)
      BY <3>1 DEF CharExact
    <3> QED
      BY <1>2, <3>1, <3>2, GoodChar
  <2> QED
    BY <1>2, <1>4, <2>1, BrokenStep
<1>5. CASE /\ First # "'" /\ ~StopsChar
           /\ Stay("char", IF First = Backslash THEN BumpTwice(pos) ELSE pos + 1)
           /\ UNCHANGED <<depth, opening, closing>>
  <2>1. PICK end : end = IF At(pos) = Backslash THEN AtMost(pos + 2) ELSE pos + 1
    OBVIOUS
  <2>2. /\ First # "'" /\ ~StopsChar /\ Stay("char", end)
        /\ depth' = depth /\ opening' = opening /\ closing' = closing
    BY <1>5, <2>1 DEF First, BumpTwice
  <2>3. At(pos) \notin {"'", "/", Eof} /\ (At(pos) = "\n" => At(pos + 1) = "'")
    BY <2>2 DEF StopsChar, First, Second
  <2>4. CharLoop(Opened, end)
    BY <1>2, <2>1, <2>3, CharEats
  <2>5. end \in Nat /\ pos <= end /\ end <= Len(source)
    <3>1. pos + 1 <= Len(source)
      BY <1>1, <2>3, InChar DEF First
    <3> QED
      BY <1>2, <2>1, <3>1 DEF AtMost
  <2>6. /\ source' = source /\ mode' = "char" /\ literal' = literal
        /\ begin' = begin /\ pos' = end
    BY <2>2 DEF Stay
  <2>7. Opened' = Opened
    BY <2>6 DEF Opened
  <2>8. LoopInv'
    BY <1>2, <2>4, <2>6, <2>7, CharLoopInv
  <2>9. /\ depth \in Nat /\ depth # 0 /\ opening \in Nat /\ closing \in Nat
        /\ closing <= opening
    BY InTypes
  <2> QED
    BY <2>2, <2>5, <2>8, <2>9, StayStep, LoopsAre
<1> QED
  BY <1>3, <1>4, <1>5 DEF CharStep

----------------------------------------------------------------------------
(* Raw strings                                                             *)

LEMMA RawLoopInv ==
    ASSUME source' = source, literal' \in Raw, NEW f, NEW p, NEW n, NEW m,
           HashesFrom' = f, pos' = p, opening' = n, closing' = m,
           \/ mode' = "hashes" /\ HashesLoop(f, p, n)
           \/ mode' = "raw" /\ RawLoop(f, p, n)
           \/ mode' = "closing" /\ ClosingLoop(f, p, n, m)
    PROVE  LoopInv'
<1>1. /\ HashesLoop(f, p, n)' <=> HashesLoop(f, p, n)
      /\ RawLoop(f, p, n)' <=> RawLoop(f, p, n)
      /\ ClosingLoop(f, p, n, m)' <=> ClosingLoop(f, p, n, m)
  BY LoopsKept
<1>2. RawInv'
  BY <1>1 DEF RawInv
<1> QED
  BY <1>2 DEF LoopInv, BlockInv, StringInv, CharInv

LEMMA OneMoreHash ==
    ASSUME NEW i \in Nat, NEW n \in Nat, Hashes(i, n), At(i + n) = "#"
    PROVE  Hashes(i, n + 1)
<1>1. \A j \in i .. (i + (n + 1) - 1) : j \in i .. (i + n - 1) \/ j = i + n
  OBVIOUS
<1> QED
  BY <1>1 DEF Hashes

\* Where the opening hashes stop.
LEMMA HashesEnd ==
    ASSUME source \in Seq(Char), NEW f \in Nat, NEW n \in Nat, Hashes(f, n),
           f + n <= Len(source), At(f + n) # "#"
    PROVE  EatWhile(f, {"#"}) = f + n
<1>1. PICK q : q = f + n
  OBVIOUS
<1>2. Len(source) \in Nat /\ f \in 0 .. Len(source) /\ q \in f .. Len(source)
  BY <1>1
<1>3. At(q) \notin {"#"} /\ \A j \in f .. (q - 1) : At(j) \in {"#"}
  BY <1>1 DEF Hashes
<1>4. Eof \notin {"#"}
  BY CharactersDiffer
<1> QED
  BY <1>1, <1>2, <1>3, <1>4, EatWhileIs

\* The search passes what is no quote.
LEMMA RawPasses ==
    ASSUME NEW f \in Nat, NEW n \in Nat, NEW p \in Nat, NEW q \in Nat,
           RawLoop(f, p, n), p <= q, \A j \in p .. (q - 1) : At(j) # Quote
    PROVE  RawLoop(f, q, n)
<1>1. \A j \in (f + n + 1) .. (q - 1) : j \in (f + n + 1) .. (p - 1) \/ j \in p .. (q - 1)
  OBVIOUS
<1>2. f + n < q
  BY DEF RawLoop
<1> QED
  BY <1>1, <1>2 DEF RawLoop

\* A quote that too few hashes follow ends nothing.
LEMMA RawGoesOn ==
    ASSUME NEW f \in Nat, NEW p \in Nat, NEW n \in Nat, NEW m \in Nat,
           ClosingLoop(f, p, n, m), m < n, At(p) # "#"
    PROVE  RawLoop(f, p, n)
<1> DEFINE q == p - m - 1
<1>1. RawLoop(f, q, n) /\ At(q) = Quote /\ Hashes(q + 1, m)
  <2>1. q + 1 = p - m
    OBVIOUS
  <2> QED
    BY <2>1 DEF ClosingLoop
<1>2. /\ f + n < q /\ HashesLoop(f, f + n, n) /\ At(f + n) = Quote
      /\ \A j \in (f + n + 1) .. (q - 1) : ~(At(j) = Quote /\ Hashes(j + 1, n))
  BY <1>1 DEF RawLoop
<1>3. ~Hashes(q + 1, n)
  <2>1. p \in (q + 1) .. (q + 1 + n - 1)
    OBVIOUS
  <2> QED
    BY <2>1 DEF Hashes
<1>4. \A j \in (q + 1) .. (p - 1) : At(j) # Quote
  <2>1. \A j \in (q + 1) .. (p - 1) : j \in (q + 1) .. (q + 1 + m - 1)
    OBVIOUS
  <2> QED
    BY <1>1, <2>1, CharactersDiffer DEF Hashes
<1>5. \A j \in (f + n + 1) .. (p - 1) :
         j \in (f + n + 1) .. (q - 1) \/ j = q \/ j \in (q + 1) .. (p - 1)
  OBVIOUS
<1>6. f + n < p
  BY <1>2
<1> HIDE DEF q
<1>7. \A j \in (f + n + 1) .. (p - 1) : ~(At(j) = Quote /\ Hashes(j + 1, n))
  BY <1>2, <1>3, <1>4, <1>5
<1> QED
  BY <1>2, <1>6, <1>7 DEF RawLoop

\* The quotes that end a raw string whose first quote, behind n hashes, is at o.
RawEnds(o, n) ==
    {q \in (o + 1) .. (Len(source) - 1) : At(q) = Quote /\ Hashes(q + 1, n)}

\* What is right about a raw string, once it is known where its hashes end.
RawExact(t, o, n) ==
    /\ t.ok <=> At(o) = Quote /\ RawEnds(o, n) # {} /\ n <= MaxHashes
    /\ t.ok => /\ t.hashes = n
               /\ t.suffix - 1 - n \in RawEnds(o, n)
               /\ \A q \in RawEnds(o, n) : t.suffix - 1 - n <= q

LEMMA RawExactIs ==
    ASSUME NEW t, NEW f \in Nat, NEW n \in Nat,
           f = IF t.kind = "raw_str" THEN t.begin + 1 ELSE t.begin + 2,
           EatWhile(f, {"#"}) = f + n
    PROVE  RawStringExact(t) <=> RawExact(t, f + n, n)
<1>1. RawStringExact(t) <=> RawExact(t, EatWhile(f, {"#"}), EatWhile(f, {"#"}) - f)
  BY DEF RawStringExact, RawExact, RawEnds
<1>2. f + n - f = n
  OBVIOUS
<1> QED
  BY <1>1, <1>2

LEMMA GoodRaw ==
    ASSUME NEW t, t \in TokenType, t.begin < t.suffix, t.suffix <= t.end,
           t.kind \in Raw, RawStringExact(t),
           t.kind = "raw_str" /\ t.ok => SliceIsContent(t)
    PROVE  TokenGood(t)
<1>1. t.kind \notin {"str", "byte_str", "char", "byte", "int", "float", "comment"}
  BY DEF Raw
<1> QED
  BY <1>1 DEF TokenGood

\* A raw string that breaks off at end: it has no opening quote, or nothing
\* ends it, or it has too many hashes.
LEMMA RawBrokenStep ==
    ASSUME LexInv, literal \in Raw, NEW n \in Nat, Hashes(HashesFrom, n),
           HashesFrom + n <= Len(source), At(HashesFrom + n) # "#",
           NEW end \in Nat, Broken(end), begin < end, pos <= end, end <= Len(source),
           \/ At(HashesFrom + n) # Quote
           \/ \A q \in (HashesFrom + n + 1) .. (Len(source) - 1) :
                 ~(At(q) = Quote /\ Hashes(q + 1, n))
           \/ ~(n <= MaxHashes)
    PROVE  LexInv'
<1> DEFINE f == HashesFrom
<1>1. f \in Nat /\ source \in Seq(Char)
  BY InTypes DEF HashesFrom
<1>2. EatWhile(f, {"#"}) = f + n
  BY <1>1, HashesEnd
<1>3. ~(At(f + n) = Quote /\ RawEnds(f + n, n) # {} /\ n <= MaxHashes)
  BY DEF RawEnds
<1>4. ASSUME NEW t, BrokenAs(t, end)
      PROVE  TokenGood(t)
  <2>1. /\ t \in TokenType /\ t.kind = literal /\ t.begin = begin
        /\ ~t.ok /\ t.begin < t.suffix /\ t.suffix <= t.end
    BY <1>4 DEF BrokenAs, TokenAs
  <2>2. f = IF t.kind = "raw_str" THEN t.begin + 1 ELSE t.begin + 2
    BY <2>1 DEF HashesFrom
  <2> HIDE DEF f
  <2>3. RawExact(t, f + n, n)
    BY <1>3, <2>1 DEF RawExact
  <2>4. RawStringExact(t)
    BY <1>1, <1>2, <2>2, <2>3, RawExactIs
  <2> QED
    BY <2>1, <2>4, GoodRaw
<1> HIDE DEF f
<1> QED
  BY <1>4, BrokenStep

LEMMA BeginRawStep ==
    ASSUME LexInv, BeginRaw \/ BeginRawBytes
    PROVE  LexInv'
<1>1. Starting
  BY DEF BeginRaw, BeginRawBytes
<1>2. pos \in Nat /\ pos + 1 <= Len(source) /\ Len(source) \in Nat
      /\ (Second # Eof => pos + 2 <= Len(source))
  BY <1>1, There
<1>3. PICK kind \in Raw, f \in Nat :
         /\ f = (IF kind = "raw_str" THEN pos + 1 ELSE pos + 2)
         /\ At(f - 1) = "r" /\ f <= Len(source) /\ Enter("hashes", kind, f)
  <2>1. CASE BeginRaw
    <3>1. First = "r" /\ Enter("hashes", "raw_str", pos + 1) /\ pos + 1 - 1 = pos
      BY <1>2, <2>1 DEF BeginRaw
    <3> QED
      BY <1>2, <3>1, LoopsAre DEF First
  <2>2. CASE BeginRawBytes
    <3>1. /\ Second = "r" /\ Enter("hashes", "raw_byte_str", pos + 2)
          /\ pos + 2 - 1 = pos + 1 /\ Second # Eof
      BY <1>2, <2>2, CharactersDiffer DEF BeginRawBytes
    <3> QED
      BY <1>2, <3>1, LoopsAre DEF Second
  <2> QED
    BY <2>1, <2>2
<1>4. /\ source' = source /\ mode' = "hashes" /\ literal' = kind
      /\ begin' = pos /\ pos' = f /\ opening' = 0 /\ closing' = 0
  BY <1>3 DEF Enter
<1>5. HashesFrom' = f
  BY <1>3, <1>4 DEF HashesFrom
<1>6. HashesLoop(f, f, 0)
  BY <1>2, <1>3 DEF HashesLoop, Hashes
<1>7. LoopInv'
  BY <1>3, <1>4, <1>5, <1>6, RawLoopInv
<1>8. kind \in Kinds /\ pos < f
  BY <1>2, <1>3, LoopsAre
<1> QED
  BY <1>1, <1>3, <1>7, <1>8, EnterStep, LoopsAre

\* What the invariant says in the loop.
LEMMA InRaw ==
    ASSUME LexInv, mode \in {"hashes", "raw", "closing"}
    PROVE  /\ literal \in Raw
           /\ mode = "hashes" => HashesLoop(HashesFrom, pos, opening)
           /\ mode = "raw" => RawLoop(HashesFrom, pos, opening)
           /\ mode = "closing" => ClosingLoop(HashesFrom, pos, opening, closing)
           /\ HashesFrom \in Nat /\ begin \in Nat /\ begin < HashesFrom
           /\ pos \in Nat /\ pos <= Len(source) /\ Len(source) \in Nat
           /\ source \in Seq(Char)
           /\ depth \in Nat /\ depth # 0
           /\ opening \in Nat /\ closing \in Nat /\ closing <= opening
           /\ First # Eof => pos + 1 <= Len(source)
<1>1. /\ literal \in Raw
      /\ mode = "hashes" => HashesLoop(HashesFrom, pos, opening)
      /\ mode = "raw" => RawLoop(HashesFrom, pos, opening)
      /\ mode = "closing" => ClosingLoop(HashesFrom, pos, opening, closing)
  BY DEF LexInv, LoopInv, RawInv
<1>2. /\ begin \in Nat /\ pos \in Nat /\ pos <= Len(source) /\ Len(source) \in Nat
      /\ source \in Seq(Char) /\ depth \in Nat /\ depth # 0
      /\ opening \in Nat /\ closing \in Nat /\ closing <= opening
  BY InTypes
<1>3. HashesFrom \in Nat /\ begin < HashesFrom
  BY <1>2 DEF HashesFrom
<1>4. First # Eof => pos + 1 <= Len(source)
  BY <1>2, AtType DEF First
<1> QED
  BY <1>1, <1>2, <1>3, <1>4

LEMMA OpeningHashStep ==
    ASSUME LexInv, OpeningHash
    PROVE  LexInv'
<1>1. mode = "hashes" /\ First = "#" /\ opening' = opening + 1
      /\ Stay("hashes", pos + 1) /\ depth' = depth /\ closing' = closing
  BY DEF OpeningHash
<1>2. /\ literal \in Raw /\ HashesLoop(HashesFrom, pos, opening)
      /\ HashesFrom \in Nat /\ pos \in Nat /\ pos + 1 <= Len(source)
      /\ depth \in Nat /\ depth # 0
      /\ opening \in Nat /\ closing \in Nat /\ closing <= opening
  BY <1>1, InRaw, CharactersDiffer
<1>3. HashesLoop(HashesFrom, pos + 1, opening + 1)
  <2>1. pos = HashesFrom + opening /\ At(pos) = "#" /\ Hashes(HashesFrom, opening)
    BY <1>1, <1>2 DEF HashesLoop, First
  <2>2. Hashes(HashesFrom, opening + 1)
    BY <1>2, <2>1, OneMoreHash
  <2>3. pos + 1 = HashesFrom + (opening + 1)
    BY <1>2, <2>1
  <2> QED
    BY <1>2, <2>2, <2>3 DEF HashesLoop
<1>4. /\ source' = source /\ mode' = "hashes" /\ literal' = literal
      /\ begin' = begin /\ pos' = pos + 1
  BY <1>1 DEF Stay
<1>5. HashesFrom' = HashesFrom
  BY <1>4 DEF HashesFrom
<1>6. LoopInv'
  BY <1>1, <1>2, <1>3, <1>4, <1>5, RawLoopInv
<1>7. /\ pos + 1 \in Nat /\ pos <= pos + 1
      /\ opening + 1 \in Nat /\ closing <= opening + 1
  BY <1>2
<1> QED
  BY <1>1, <1>2, <1>6, <1>7, StayStep, LoopsAre

LEMMA OpenRawStep ==
    ASSUME LexInv, OpenRaw
    PROVE  LexInv'
<1>1. mode = "hashes" /\ First # "#"
  BY DEF OpenRaw
<1>2. /\ literal \in Raw /\ HashesLoop(HashesFrom, pos, opening)
      /\ HashesFrom \in Nat /\ begin \in Nat /\ begin < HashesFrom
      /\ pos \in Nat /\ pos <= Len(source) /\ Len(source) \in Nat
      /\ source \in Seq(Char) /\ depth \in Nat /\ depth # 0
      /\ opening \in Nat /\ closing \in Nat /\ closing <= opening
  BY <1>1, InRaw
<1>3. /\ pos = HashesFrom + opening /\ Hashes(HashesFrom, opening)
      /\ At(pos) # "#" /\ HashesLoop(HashesFrom, HashesFrom + opening, opening)
  BY <1>1, <1>2 DEF HashesLoop, First
<1>4. CASE First = Quote
  <2>1. Stay("raw", pos + 1) /\ depth' = depth /\ opening' = opening /\ closing' = closing
    BY <1>4 DEF OpenRaw
  <2>2. pos + 1 <= Len(source)
    BY <1>1, <1>4, InRaw, CharactersDiffer
  <2>3. RawLoop(HashesFrom, pos + 1, opening)
    <3>1. HashesFrom + opening < pos + 1 /\ At(HashesFrom + opening) = Quote
      BY <1>2, <1>3, <1>4 DEF First
    <3>2. (HashesFrom + opening + 1) .. (pos + 1 - 1) = {}
      BY <1>2, <1>3
    <3> QED
      BY <1>3, <3>1, <3>2 DEF RawLoop
  <2>4. /\ source' = source /\ mode' = "raw" /\ literal' = literal
        /\ begin' = begin /\ pos' = pos + 1
    BY <2>1 DEF Stay
  <2>5. HashesFrom' = HashesFrom
    BY <2>4 DEF HashesFrom
  <2>6. LoopInv'
    BY <1>2, <2>1, <2>3, <2>4, <2>5, RawLoopInv
  <2>7. pos + 1 \in Nat /\ pos <= pos + 1
    BY <1>2
  <2> QED
    BY <1>2, <2>1, <2>2, <2>6, <2>7, StayStep, LoopsAre
<1>5. CASE First # Quote
  <2>1. Broken(AtMost(pos + 1))
    BY <1>5 DEF OpenRaw
  <2>2. /\ AtMost(pos + 1) \in Nat /\ pos <= AtMost(pos + 1)
        /\ AtMost(pos + 1) <= Len(source)
    BY <1>2 DEF AtMost
  <2>3. begin < AtMost(pos + 1)
    BY <1>2, <1>3, <2>2
  <2>4. At(HashesFrom + opening) # Quote /\ At(HashesFrom + opening) # "#"
        /\ HashesFrom + opening <= Len(source)
    BY <1>2, <1>3, <1>5 DEF First
  <2> QED
    BY <1>2, <1>3, <2>1, <2>2, <2>3, <2>4, RawBrokenStep
<1> QED
  BY <1>4, <1>5

\* Where the search for a quote stops.
LEMMA UntilQuote ==
    ASSUME source \in Seq(Char), NEW p \in 0 .. Len(source)
    PROVE  /\ EatUntil(p, Quote) \in Nat
           /\ p <= EatUntil(p, Quote) /\ EatUntil(p, Quote) <= Len(source)
           /\ \A j \in p .. (EatUntil(p, Quote) - 1) : At(j) # Quote
           /\ EatUntil(p, Quote) # Len(source) => At(EatUntil(p, Quote)) = Quote
<1> DEFINE S == Char \ {Quote}
           q == EatUntil(p, Quote)
<1>1. Eof \notin S
  BY EofNowhere
<1>2. q = EatWhile(p, S)
  BY DEF EatUntil
<1>3. Quote \notin S
  OBVIOUS
<1>4. \A c \in Char : c \in S \/ c = Quote
  OBVIOUS
<1> HIDE DEF S, q
<1>5. /\ q \in Nat /\ p <= q /\ q <= Len(source) /\ At(q) \notin S
      /\ \A j \in p .. (q - 1) : At(j) \in S
  BY <1>1, <1>2, EatWhileStops
<1>6. q # Len(source) => At(q) = Quote
  BY <1>4, <1>5, AtType
<1>7. \A j \in p .. (q - 1) : At(j) # Quote
  BY <1>3, <1>5
<1> QED
  BY <1>5, <1>6, <1>7 DEF q

LEMMA ToQuoteStep ==
    ASSUME LexInv, ToQuote
    PROVE  LexInv'
<1>1. mode = "raw"
  BY DEF ToQuote
<1>2. /\ literal \in Raw /\ RawLoop(HashesFrom, pos, opening)
      /\ HashesFrom \in Nat /\ begin \in Nat /\ begin < HashesFrom
      /\ pos \in Nat /\ pos <= Len(source) /\ Len(source) \in Nat
      /\ source \in Seq(Char) /\ depth \in Nat /\ depth # 0
      /\ opening \in Nat
  BY <1>1, InRaw
<1>3. PICK q \in Nat : /\ q = EatUntil(pos, Quote) /\ pos <= q /\ q <= Len(source)
                       /\ \A j \in pos .. (q - 1) : At(j) # Quote
                       /\ q # Len(source) => At(q) = Quote
  <2>1. pos \in 0 .. Len(source)
    BY <1>2
  <2> QED
    BY <1>2, <2>1, UntilQuote
<1>4. RawLoop(HashesFrom, q, opening)
  BY <1>2, <1>3, RawPasses
<1>5. CASE q = Len(source)
  <2>1. Broken(q)
    BY <1>3, <1>5 DEF ToQuote
  <2>2. /\ HashesLoop(HashesFrom, HashesFrom + opening, opening)
        /\ HashesFrom + opening < q /\ At(HashesFrom + opening) = Quote
        /\ \A j \in (HashesFrom + opening + 1) .. (q - 1) :
              ~(At(j) = Quote /\ Hashes(j + 1, opening))
    BY <1>4 DEF RawLoop
  <2>3. Hashes(HashesFrom, opening) /\ At(HashesFrom + opening) # "#"
    BY <2>2, CharactersDiffer DEF HashesLoop
  <2>4. begin < q /\ HashesFrom + opening <= Len(source)
    BY <1>2, <1>3, <2>2
  <2> QED
    BY <1>2, <1>3, <1>5, <2>1, <2>2, <2>3, <2>4, RawBrokenStep
<1>6. CASE q # Len(source)
  <2>1. closing' = 0 /\ Stay("closing", q + 1) /\ depth' = depth /\ opening' = opening
    BY <1>3, <1>6 DEF ToQuote
  <2>2. ClosingLoop(HashesFrom, q + 1, opening, 0)
    <3>1. q + 1 - 0 - 1 = q /\ At(q) = Quote /\ q + 1 - 0 = q + 1
      BY <1>3, <1>6
    <3>2. Hashes(q + 1, 0)
      BY DEF Hashes
    <3> QED
      BY <1>4, <3>1, <3>2 DEF ClosingLoop
  <2>3. /\ source' = source /\ mode' = "closing" /\ literal' = literal
        /\ begin' = begin /\ pos' = q + 1
    BY <2>1 DEF Stay
  <2>4. HashesFrom' = HashesFrom
    BY <2>3 DEF HashesFrom
  <2>5. LoopInv'
    BY <1>2, <2>1, <2>2, <2>3, <2>4, RawLoopInv
  <2>6. q + 1 \in Nat /\ pos <= q + 1 /\ q + 1 <= Len(source) /\ 0 <= opening
    BY <1>2, <1>3, <1>6
  <2> QED
    BY <1>2, <2>1, <2>5, <2>6, StayStep, LoopsAre
<1> QED
  BY <1>5, <1>6

LEMMA ClosingHashStep ==
    ASSUME LexInv, ClosingHash
    PROVE  LexInv'
<1>1. mode = "closing" /\ First = "#" /\ closing < opening /\ closing' = closing + 1
      /\ Stay("closing", pos + 1) /\ depth' = depth /\ opening' = opening
  BY DEF ClosingHash
<1>2. /\ literal \in Raw /\ ClosingLoop(HashesFrom, pos, opening, closing)
      /\ HashesFrom \in Nat /\ pos \in Nat /\ pos + 1 <= Len(source)
      /\ depth \in Nat /\ depth # 0
      /\ opening \in Nat /\ closing \in Nat
  BY <1>1, InRaw, CharactersDiffer
<1>3. ClosingLoop(HashesFrom, pos + 1, opening, closing + 1)
  <2>1. /\ RawLoop(HashesFrom, pos - closing - 1, opening)
        /\ At(pos - closing - 1) = Quote /\ Hashes(pos - closing, closing)
    BY <1>2 DEF ClosingLoop
  <2>2. pos - closing - 1 > HashesFrom + opening
    BY <2>1 DEF RawLoop
  <2>3. PICK i : i = pos - closing
    OBVIOUS
  <2>4. Hashes(pos - closing, closing + 1)
    <3>1. i \in Nat /\ i + closing = pos /\ Hashes(i, closing)
      BY <1>2, <2>1, <2>2, <2>3
    <3>2. At(i + closing) = "#"
      BY <1>1, <3>1 DEF First
    <3> QED
      BY <1>2, <2>3, <3>1, <3>2, OneMoreHash
  <2>5. PICK p, m : p = pos + 1 /\ m = closing + 1
    OBVIOUS
  <2>6. p - m = pos - closing /\ p - m - 1 = pos - closing - 1
    BY <1>2, <2>5
  <2>7. Hashes(p - m, m)
    BY <2>4, <2>5, <2>6
  <2>8. RawLoop(HashesFrom, p - m - 1, opening) /\ At(p - m - 1) = Quote
    BY <2>1, <2>6
  <2>9. ClosingLoop(HashesFrom, p, opening, m)
    BY <2>7, <2>8 DEF ClosingLoop
  <2> QED
    BY <2>5, <2>9
<1>4. /\ source' = source /\ mode' = "closing" /\ literal' = literal
      /\ begin' = begin /\ pos' = pos + 1
  BY <1>1 DEF Stay
<1>5. HashesFrom' = HashesFrom
  BY <1>4 DEF HashesFrom
<1>6. LoopInv'
  BY <1>1, <1>2, <1>3, <1>4, <1>5, RawLoopInv
<1>7. /\ pos + 1 \in Nat /\ pos <= pos + 1
      /\ closing + 1 \in Nat /\ closing + 1 <= opening
  BY <1>1, <1>2
<1> QED
  BY <1>1, <1>2, <1>6, <1>7, StayStep, LoopsAre

\* A raw string that is complete, its last quote at q.
LEMMA RawCompleteStep ==
    ASSUME LexInv, literal \in Raw, NEW n \in Nat, NEW q \in Nat, n <= MaxHashes,
           RawLoop(HashesFrom, q, n), At(q) = Quote, Hashes(q + 1, n),
           Complete(q + 1 + n, n), pos = q + 1 + n
    PROVE  LexInv'
<1> DEFINE f == HashesFrom
<1>1. /\ f \in Nat /\ source \in Seq(Char) /\ Len(source) \in Nat /\ begin \in Nat
      /\ begin < f /\ q + 1 + n <= Len(source)
  BY InTypes DEF HashesFrom
<1>2. /\ Hashes(f, n) /\ At(f - 1) = "r" /\ f + n < q /\ At(f + n) = Quote
      /\ \A j \in (f + n + 1) .. (q - 1) : ~(At(j) = Quote /\ Hashes(j + 1, n))
  BY DEF RawLoop, HashesLoop
<1>3. EatWhile(f, {"#"}) = f + n
  <2>1. At(f + n) # "#" /\ f + n <= Len(source)
    BY <1>1, <1>2, CharactersDiffer
  <2> QED
    BY <1>1, <1>2, <2>1, HashesEnd
<1>4. q \in RawEnds(f + n, n) /\ \A j \in RawEnds(f + n, n) : q <= j
  <2>1. q \in (f + n + 1) .. (Len(source) - 1)
    BY <1>1, <1>2
  <2>2. \A j \in (f + n + 1) .. (Len(source) - 1) :
           j \in (f + n + 1) .. (q - 1) \/ q <= j
    BY <1>1
  <2> QED
    BY <1>2, <2>1, <2>2 DEF RawEnds
<1>5. ASSUME NEW t, CompleteAs(t, q + 1 + n, n)
      PROVE  TokenGood(t)
  <2>1. /\ t \in TokenType /\ t.kind = literal /\ t.begin = begin
        /\ t.suffix = q + 1 + n /\ t.ok /\ t.hashes = n
        /\ t.begin < t.suffix /\ t.suffix <= t.end
    BY <1>5 DEF CompleteAs, TokenAs
  <2>2. f = IF t.kind = "raw_str" THEN t.begin + 1 ELSE t.begin + 2
    BY <2>1 DEF HashesFrom
  <2>3. t.kind = "raw_str" => begin = f - 1
    BY <1>1, <2>1, <2>2
  <2> HIDE DEF f
  <2>4. t.suffix - 1 - n = q
    BY <2>1
  <2>5. RawExact(t, f + n, n)
    BY <1>2, <1>4, <2>1, <2>4 DEF RawExact
  <2>6. RawStringExact(t)
    BY <1>1, <1>3, <2>2, <2>5, RawExactIs
  <2>7. t.kind = "raw_str" => SliceIsContent(t)
    <3> SUFFICES ASSUME t.kind = "raw_str" PROVE SliceIsContent(t)
      OBVIOUS
    <3>1. begin = f - 1
      BY <2>3
    <3>2. SliceFrom(t) = f + n + 1 /\ SliceTo(t) = q
      BY <1>1, <2>1, <2>2, LoopsAre DEF SliceFrom, SliceTo
    <3>3. SliceFrom(t) <= SliceTo(t) /\ SliceFrom(t) - 1 = f + n
      BY <1>1, <1>2, <3>2
    <3>4. At(SliceFrom(t) - 1) = Quote /\ At(SliceTo(t)) = Quote
      BY <1>2, <3>2, <3>3
    <3>5. \A i \in t.begin .. (SliceFrom(t) - 2) : At(i) \notin {Quote, "'"}
      <4>1. \A i \in (f - 1) .. (f + n - 1) : i = f - 1 \/ i \in f .. (f + n - 1)
        BY <1>1
      <4>2. \A i \in (f - 1) .. (f + n - 1) : At(i) \in {"r", "#"}
        BY <1>2, <4>1 DEF Hashes
      <4>3. t.begin = f - 1 /\ SliceFrom(t) - 2 = f + n - 1
        BY <1>1, <2>1, <3>1, <3>2
      <4> QED
        BY <4>2, <4>3, CharactersDiffer
    <3>6. Hashes(SliceTo(t) + 1, t.suffix - 1 - SliceTo(t))
      <4>1. t.suffix - 1 - SliceTo(t) = n
        BY <2>1, <3>2
      <4> QED
        BY <3>2, <4>1
    <3> QED
      BY <3>3, <3>4, <3>5, <3>6 DEF SliceIsContent
  <2> QED
    BY <2>1, <2>6, <2>7, GoodRaw
<1>6. /\ q + 1 + n \in Nat /\ begin < q + 1 + n /\ pos <= q + 1 + n
      /\ n \in 0 .. MaxHashes
  BY <1>1, <1>2, LexerAssumption
<1> HIDE DEF f
<1> QED
  BY <1>1, <1>5, <1>6, CompleteStep

LEMMA EndRawStep ==
    ASSUME LexInv, EndRaw
    PROVE  LexInv'
<1>1. mode = "closing" /\ (First # "#" \/ closing = opening)
  BY DEF EndRaw
<1>2. /\ literal \in Raw /\ ClosingLoop(HashesFrom, pos, opening, closing)
      /\ HashesFrom \in Nat /\ begin \in Nat /\ begin < HashesFrom
      /\ pos \in Nat /\ pos <= Len(source) /\ Len(source) \in Nat
      /\ depth \in Nat /\ depth # 0
      /\ opening \in Nat /\ closing \in Nat /\ closing <= opening
  BY <1>1, InRaw
<1>3. CASE closing # opening
  <2>1. Stay("raw", pos) /\ depth' = depth /\ opening' = opening /\ closing' = closing
    BY <1>3 DEF EndRaw, QuoteCloses, ResumeAt
  <2>2. RawLoop(HashesFrom, pos, opening)
    <3>1. closing < opening /\ At(pos) # "#"
      BY <1>1, <1>2, <1>3 DEF First
    <3> QED
      BY <1>2, <3>1, RawGoesOn
  <2>3. /\ source' = source /\ mode' = "raw" /\ literal' = literal
        /\ begin' = begin /\ pos' = pos
    BY <2>1 DEF Stay
  <2>4. HashesFrom' = HashesFrom
    BY <2>3 DEF HashesFrom
  <2>5. LoopInv'
    BY <1>2, <2>1, <2>2, <2>3, <2>4, RawLoopInv
  <2>6. pos <= pos
    BY <1>2
  <2> QED
    BY <1>2, <2>1, <2>5, <2>6, StayStep, LoopsAre
<1>4. CASE closing = opening
  <2>1. PICK q : q = pos - opening - 1
    OBVIOUS
  <2>2. /\ RawLoop(HashesFrom, q, opening) /\ At(q) = Quote
        /\ Hashes(pos - opening, opening)
    BY <1>2, <1>4, <2>1 DEF ClosingLoop
  <2>3. /\ HashesLoop(HashesFrom, HashesFrom + opening, opening)
        /\ HashesFrom + opening < q /\ At(HashesFrom + opening) = Quote
    BY <2>2 DEF RawLoop
  <2>4. q \in Nat /\ pos = q + 1 + opening /\ pos - opening = q + 1
    BY <1>2, <2>1, <2>3
  <2>5. CASE opening <= MaxHashes
    <3>1. Complete(pos, opening)
      BY <1>4, <2>5 DEF EndRaw, QuoteCloses
    <3> QED
      BY <1>2, <2>2, <2>4, <2>5, <3>1, RawCompleteStep
  <2>6. CASE ~(opening <= MaxHashes)
    <3>1. Broken(pos)
      BY <1>4, <2>6 DEF EndRaw, QuoteCloses
    <3>2. Hashes(HashesFrom, opening) /\ At(HashesFrom + opening) # "#"
      BY <2>3, CharactersDiffer DEF HashesLoop
    <3>3. HashesFrom + opening <= Len(source) /\ begin < pos /\ pos <= pos
      BY <1>2, <2>3, <2>4
    <3> QED
      BY <1>2, <2>6, <3>1, <3>2, <3>3, RawBrokenStep
  <2> QED
    BY <2>5, <2>6
<1> QED
  BY <1>3, <1>4

----------------------------------------------------------------------------
(* The invariant                                                           *)

LEMMA InitInv == ASSUME Init PROVE LexInv
<1>1. /\ source \in Seq(Char) /\ pos = 0 /\ mode = "token" /\ begin = 0
      /\ literal = "str" /\ depth = 1 /\ opening = 0 /\ closing = 0 /\ tokens = <<>>
  BY LexerAssumption DEF Init
<1>2. Len(source) \in Nat /\ tokens \in Seq(TokenType) /\ DOMAIN tokens = {}
  BY <1>1
<1>3. "str" \in Kinds
  BY LoopsAre
<1>4. TypeOK
  BY <1>1, <1>2, <1>3 DEF TypeOK
<1>5. LoopInv
  BY <1>1 DEF LoopInv, BlockInv, StringInv, CharInv, RawInv
<1>6. TokensGood
  BY <1>2 DEF TokensGood
<1> QED
  BY <1>4, <1>5, <1>6 DEF LexInv

\* A step that reads nothing.
LEMMA IdleStep ==
    ASSUME LexInv, EndOfSource \/ UNCHANGED vars
    PROVE  LexInv'
<1>1. /\ source' = source /\ pos' = pos /\ begin' = begin /\ literal' = literal
      /\ depth' = depth /\ opening' = opening /\ closing' = closing
      /\ tokens' = tokens
      /\ mode' = mode \/ mode' = "done"
  BY DEF EndOfSource, loopVars, vars
<1>2. TypeOK'
  BY <1>1 DEF LexInv, TypeOK
<1>3. Opened' = Opened /\ HashesFrom' = HashesFrom
  BY <1>1 DEF Opened, HashesFrom
<1>4. LoopInv /\ TokensGood
  BY DEF LexInv
<1>5. BlockInv'
  BY <1>1, <1>4, LoopsKept DEF LoopInv, BlockInv
<1>6. StringInv'
  BY <1>1, <1>3, <1>4, LoopsKept DEF LoopInv, StringInv
<1>7. CharInv'
  BY <1>1, <1>3, <1>4, LoopsKept DEF LoopInv, CharInv
<1>8. RawInv'
  BY <1>1, <1>3, <1>4, LoopsKept DEF LoopInv, RawInv
<1>9. TokensGood'
  <2>1. \A f : TokenGood(f)' <=> TokenGood(f)
    BY <1>1, GoodKept
  <2> QED
    BY <1>1, <1>4, <2>1 DEF TokensGood
<1> QED
  BY <1>2, <1>5, <1>6, <1>7, <1>8, <1>9 DEF LexInv, LoopInv

LEMMA BeginStep ==
    ASSUME LexInv, Begin
    PROVE  LexInv'
<1>1. CASE WhiteSpace \/ LineComment \/ RawIdentifier \/ Identifier
             \/ GuardedStrPrefix \/ InvalidIdentifier \/ Unknown
  BY <1>1, WordStep
<1>2. CASE BeginBlock
  BY <1>2, BeginBlockStep
<1>3. CASE BeginRaw \/ BeginRawBytes
  BY <1>3, BeginRawStep
<1>4. CASE BeginString
  BY <1>4, BeginStringStep
<1>5. CASE BeginChar
  BY <1>5, BeginCharStep
<1>6. CASE NumberToken
  BY <1>6, NumberStep
<1>7. CASE Special
  BY <1>7, SpecialStep
<1>8. CASE EndOfSource
  BY <1>8, IdleStep
<1> QED
  BY <1>1, <1>2, <1>3, <1>4, <1>5, <1>6, <1>7, <1>8 DEF Begin

LEMMA LoopStep ==
    ASSUME LexInv, Loop
    PROVE  LexInv'
<1>1. CASE OpenComment \/ CloseComment \/ SkipInComment
  BY <1>1, BlockStep
<1>2. CASE EndComment
  BY <1>2, EndCommentStep
<1>3. CASE StringStep
  BY <1>3, StringStepInv
<1>4. CASE Symbol
  BY <1>4, SymbolStep
<1>5. CASE CharStep
  BY <1>5, CharStepInv
<1>6. CASE OpeningHash
  BY <1>6, OpeningHashStep
<1>7. CASE OpenRaw
  BY <1>7, OpenRawStep
<1>8. CASE ToQuote
  BY <1>8, ToQuoteStep
<1>9. CASE ClosingHash
  BY <1>9, ClosingHashStep
<1>10. CASE EndRaw
  BY <1>10, EndRawStep
<1> QED
  BY <1>1, <1>2, <1>3, <1>4, <1>5, <1>6, <1>7, <1>8, <1>9, <1>10 DEF Loop

LEMMA InvStep == LexInv /\ [Next]_vars => LexInv'
<1> SUFFICES ASSUME LexInv, [Next]_vars PROVE LexInv'
  OBVIOUS
<1>1. CASE Begin
  BY <1>1, BeginStep
<1>2. CASE Loop
  BY <1>2, LoopStep
<1>3. CASE Terminated \/ UNCHANGED vars
  <2>1. UNCHANGED vars
    BY <1>3 DEF Terminated
  <2> QED
    BY <2>1, IdleStep
<1> QED
  BY <1>1, <1>2, <1>3 DEF Next

LEMMA Invariance == Spec => []LexInv
<1>1. Init => LexInv
  BY InitInv
<1> QED
  BY <1>1, InvStep, PTL DEF Spec

\* The variables have their types; nothing eats past the end of the source, and
\* a token is not empty and lies within what was eaten (parse.rs:9-79).
THEOREM TypeCorrect == Spec => []TypeOK
<1>1. LexInv => TypeOK
  BY DEF LexInv
<1> QED
  BY <1>1, Invariance, PTL

\* A string ends at its first quote that is not escaped, and is unterminated
\* exactly when it has none (parse.rs:265-279).
THEOREM StringsEnd == Spec => []StringsExact
<1>1. LexInv => StringsExact
  BY DEF LexInv, TokensGood, TokenGood, StringsExact, OfKind
<1> QED
  BY <1>1, Invariance, PTL

\* A terminated character ends at a quote that is not escaped, and holds one
\* character or none of those that the loop stops at (parse.rs:217-256).
THEOREM CharsEnd == Spec => []CharsExact
<1>1. LexInv => CharsExact
  BY DEF LexInv, TokensGood, TokenGood, CharsExact, OfKind
<1> QED
  BY <1>1, Invariance, PTL

\* A raw string ends at the first quote that its hashes follow, and carries
\* their number exactly when it has an opening quote, such an end, and no more
\* of them than a u8 holds (parse.rs:391-471).
THEOREM RawStringsEnd == Spec => []RawStringsExact
<1>1. LexInv => RawStringsExact
  BY DEF LexInv, TokensGood, TokenGood, RawStringsExact, OfKind
<1> QED
  BY <1>1, Invariance, PTL

\* A block comment ends at the delimiter that closes its first one, however
\* deep it nests, and is unterminated exactly when there is none
\* (parse.rs:102-137).
THEOREM CommentsEnd == Spec => []CommentsNest
<1>1. LexInv => CommentsNest
  BY DEF LexInv, TokensGood, TokenGood, CommentsNest, OfKind
<1> QED
  BY <1>1, Invariance, PTL

\* A number takes no dot of a range or of a member access, and leaves no digit
\* behind (parse.rs:520-615).
THEOREM NumbersEnd == Spec => []NumbersWhole
<1>1. LexInv => NumbersWhole
  BY DEF LexInv, TokensGood, TokenGood, NumberGood, NumbersWhole, OfKind
<1> QED
  BY <1>1, Invariance, PTL

----------------------------------------------------------------------------
(* The values of integers                                                  *)

\* What holds of 0 and is passed on from a number to the next holds up to L.
LEMMA Upwards ==
    ASSUME NEW L \in Nat, NEW G, 0 \in G, \A n \in 1 .. L : n - 1 \in G => n \in G
    PROVE  \A n \in 0 .. L : n \in G
<1> SUFFICES ASSUME NEW m \in 0 .. L, m \notin G PROVE FALSE
  OBVIOUS
<1> DEFINE T == {k \in 0 .. L : k \notin G}
<1>0. T \in SUBSET Nat /\ T # {}
  OBVIOUS
<1>1. PICK n \in T : \A k \in T : n <= k
  <2> HIDE DEF T
  <2> QED
    BY <1>0, LeastNatural
<1>2. n # 0 /\ n \in 1 .. L /\ n - 1 \in 0 .. L /\ n - 1 < n
  OBVIOUS
<1>3. n - 1 \in G
  BY <1>1, <1>2
<1> QED
  BY <1>2, <1>3

\* f begins with first, and step says how it goes on.
Follows(f, L, first, step) ==
    /\ f \in [0 .. L -> Int] /\ f[0] = first
    /\ \A n \in 1 .. L : f[n] = step[n][f[n - 1]]

\* A function over the numbers up to L may be defined by recursion.
LEMMA Recursion ==
    ASSUME NEW L \in Nat, NEW first \in Int, NEW step \in [1 .. L -> [Int -> Int]]
    PROVE  \E f : Follows(f, L, first, step)
<1> DEFINE G == {n \in 0 .. L : \E f : Follows(f, n, first, step)}
<1>1. 0 \in G
  <2>1. PICK f : f = [n \in 0 .. 0 |-> first]
    OBVIOUS
  <2>2. f \in [0 .. 0 -> Int] /\ f[0] = first /\ 1 .. 0 = {}
    BY <2>1
  <2>3. Follows(f, 0, first, step)
    BY <2>2 DEF Follows
  <2> QED
    BY <2>3
<1>2. ASSUME NEW n \in 1 .. L, n - 1 \in G PROVE n \in G
  <2>1. PICK f : Follows(f, n - 1, first, step)
    BY <1>2
  <2>2. /\ f \in [0 .. (n - 1) -> Int] /\ f[0] = first
        /\ \A k \in 1 .. (n - 1) : f[k] = step[k][f[k - 1]]
    BY <2>1 DEF Follows
  <2>3. PICK g : g = [k \in 0 .. n |-> IF k = n THEN step[n][f[n - 1]] ELSE f[k]]
    OBVIOUS
  <2>4. step[n] \in [Int -> Int] /\ f[n - 1] \in Int
    BY <2>2
  <2>5. \A k \in 0 .. n : k = n \/ k \in 0 .. (n - 1)
    OBVIOUS
  <2>6. g \in [0 .. n -> Int]
    BY <2>2, <2>3, <2>4, <2>5
  <2>7. \A k \in 0 .. (n - 1) : g[k] = f[k]
    BY <2>3
  <2>8. g[n] = step[n][f[n - 1]]
    BY <2>3
  <2>9. \A k \in 1 .. n : g[k] = step[k][g[k - 1]]
    <3> SUFFICES ASSUME NEW k \in 1 .. n PROVE g[k] = step[k][g[k - 1]]
      OBVIOUS
    <3>1. g[k - 1] = f[k - 1]
      <4>1. k - 1 \in 0 .. (n - 1)
        OBVIOUS
      <4> QED
        BY <2>7, <4>1
    <3>2. CASE k = n
      BY <2>8, <3>1, <3>2
    <3>3. CASE k # n
      <4>1. k \in 1 .. (n - 1) /\ k \in 0 .. (n - 1)
        BY <3>3
      <4>2. g[k] = f[k] /\ f[k] = step[k][f[k - 1]]
        BY <2>2, <2>7, <4>1
      <4> QED
        BY <3>1, <4>2
    <3> QED
      BY <3>2, <3>3
  <2>10. g[0] = first
    <3>1. 0 \in 0 .. (n - 1)
      OBVIOUS
    <3> QED
      BY <2>2, <2>7, <3>1
  <2>11. Follows(g, n, first, step)
    BY <2>6, <2>9, <2>10 DEF Follows
  <2> QED
    BY <2>11
<1> HIDE DEF G
<1>3. L \in G
  <2>1. \A n \in 0 .. L : n \in G
    BY <1>1, <1>2, Upwards
  <2> QED
    BY <2>1
<1> QED
  BY <1>3 DEF G

LEMMA FollowsIs ==
    ASSUME NEW f, NEW L \in Nat, NEW first, NEW step, Follows(f, L, first, step)
    PROVE  /\ f \in [0 .. L -> Int] /\ f[0] = first
           /\ \A n \in 1 .. L : f[n - 1] \in Int /\ f[n] = step[n][f[n - 1]]
<1>1. f \in [0 .. L -> Int]
  BY DEF Follows
<1>2. \A n \in 1 .. L : f[n - 1] \in Int
  BY <1>1
<1> QED
  BY <1>1, <1>2 DEF Follows

\* A function whose values are integers one after the other.
LEMMA Integral ==
    ASSUME NEW L \in Nat, NEW v, v = [n \in 0 .. L |-> v[n]], v[0] \in Int,
           \A n \in 1 .. L : v[n - 1] \in Int => v[n] \in Int
    PROVE  v \in [0 .. L -> Int]
<1> DEFINE G == {n \in 0 .. L : v[n] \in Int}
<1>1. 0 \in G
  OBVIOUS
<1>2. \A n \in 1 .. L : n - 1 \in G => n \in G
  OBVIOUS
<1>3. \A n \in 0 .. L : n \in G
  <2> HIDE DEF G
  <2> QED
    BY <1>1, <1>2, Upwards
<1>4. \A n \in 0 .. L : v[n] \in Int
  BY <1>3
<1> QED
  BY <1>4

\* v are the values of the loop of from_str_radix.
Reads(v, L, radix, D) ==
    /\ v \in [0 .. L -> Int] /\ v[0] = 0
    /\ \A n \in 1 .. L : v[n] = v[n - 1] * radix + D[n]

\* The values of the digits of s, in order.
ValuesOf(s, L, D) ==
    /\ Len(s) = L /\ D \in [1 .. L -> Int]
    /\ \A n \in 1 .. L : D[n] = DigitValue[s[n]]

LEMMA DigitsValueIs ==
    ASSUME NEW L \in Nat, NEW radix \in Int, NEW s, NEW D, ValuesOf(s, L, D)
    PROVE  \E v : Reads(v, L, radix, D) /\ DigitsValue(s, radix) = v[L]
<1> /\ Len(s) = L /\ D \in [1 .. L -> Int]
    /\ \A n \in 1 .. L : D[n] = DigitValue[s[n]]
  BY DEF ValuesOf
<1>1. PICK step : step = [n \in 1 .. L |-> [a \in Int |-> a * radix + D[n]]]
  OBVIOUS
<1>2. step \in [1 .. L -> [Int -> Int]]
  BY <1>1
<1>3. \A n \in 1 .. L, a \in Int : step[n][a] = a * radix + D[n]
  BY <1>1
<1> DEFINE Def(v) == v = [n \in 0 .. Len(s) |->
                            IF n = 0 THEN 0 ELSE v[n - 1] * radix + DigitValue[s[n]]]
<1>4. \E v : Def(v)
  <2>1. PICK f : Follows(f, L, 0, step)
    <3>1. 0 \in Int
      OBVIOUS
    <3> QED
      BY <1>2, <3>1, Recursion, Zenon
  <2>2. /\ f \in [0 .. L -> Int] /\ f[0] = 0
        /\ \A n \in 1 .. L : f[n - 1] \in Int /\ f[n] = step[n][f[n - 1]]
    BY <2>1, FollowsIs
  <2>3. \A n \in 1 .. L : f[n] = f[n - 1] * radix + DigitValue[s[n]]
    <3> SUFFICES ASSUME NEW n \in 1 .. L
                 PROVE  f[n] = f[n - 1] * radix + DigitValue[s[n]]
      OBVIOUS
    <3>1. f[n] = f[n - 1] * radix + D[n] /\ D[n] = DigitValue[s[n]]
      BY <1>3, <2>2
    <3> QED
      BY <3>1
  <2>4. \A n \in 0 .. L : f[n] = IF n = 0 THEN 0 ELSE f[n - 1] * radix + DigitValue[s[n]]
    <3> SUFFICES ASSUME NEW n \in 0 .. L
                 PROVE  f[n] = IF n = 0 THEN 0 ELSE f[n - 1] * radix + DigitValue[s[n]]
      OBVIOUS
    <3>1. CASE n = 0
      BY <2>2, <3>1
    <3>2. CASE n # 0
      BY <2>3, <3>2
    <3> QED
      BY <3>1, <3>2
  <2>5. f = [n \in 0 .. L |-> f[n]]
    BY <2>2
  <2>6. Def(f)
    BY <2>4, <2>5
  <2> QED
    BY <2>6
<1>5. PICK v : Def(v) /\ DigitsValue(s, radix) = v[Len(s)]
  BY <1>4 DEF DigitsValue
<1>6. v[0] = 0 /\ \A n \in 1 .. L : v[n] = v[n - 1] * radix + D[n]
  BY <1>5
<1>7. v = [n \in 0 .. L |-> v[n]]
  BY <1>5
<1> HIDE DEF Def
<1>8. \A n \in 1 .. L : v[n - 1] \in Int => v[n] \in Int
  BY <1>6
<1>9. v \in [0 .. L -> Int]
  <2>1. v[0] \in Int
    BY <1>6
  <2> QED
    BY <1>7, <1>8, <2>1, Integral, Zenon
<1> QED
  BY <1>5, <1>6, <1>9 DEF Reads

LEMMA PowerIs ==
    ASSUME NEW radix \in Int, NEW n \in Nat
    PROVE  \E w : /\ w \in [0 .. n -> Int] /\ w[0] = 1
                  /\ \A k \in 1 .. n : w[k] = radix * w[k - 1]
                  /\ Power(radix, n) = w[n]
<1>1. PICK step : step = [k \in 1 .. n |-> [a \in Int |-> radix * a]]
  OBVIOUS
<1>2. step \in [1 .. n -> [Int -> Int]]
  BY <1>1
<1>3. \A k \in 1 .. n, a \in Int : step[k][a] = radix * a
  BY <1>1
<1> DEFINE Def(w) == w = [k \in 0 .. n |-> IF k = 0 THEN 1 ELSE radix * w[k - 1]]
<1>4. \E w : Def(w)
  <2>1. PICK f : Follows(f, n, 1, step)
    <3>1. 1 \in Int
      OBVIOUS
    <3> QED
      BY <1>2, <3>1, Recursion, Zenon
  <2>2. /\ f \in [0 .. n -> Int] /\ f[0] = 1
        /\ \A k \in 1 .. n : f[k] = radix * f[k - 1]
    <3>1. /\ f \in [0 .. n -> Int] /\ f[0] = 1
          /\ \A k \in 1 .. n : f[k - 1] \in Int /\ f[k] = step[k][f[k - 1]]
      BY <2>1, FollowsIs
    <3> QED
      BY <1>3, <3>1
  <2>3. \A k \in 0 .. n : f[k] = IF k = 0 THEN 1 ELSE radix * f[k - 1]
    BY <2>2
  <2>4. Def(f)
    BY <2>2, <2>3
  <2> QED
    BY <2>4
<1>5. PICK w : Def(w) /\ Power(radix, n) = w[n]
  BY <1>4 DEF Power
<1>6. w[0] = 1 /\ \A k \in 1 .. n : w[k] = radix * w[k - 1]
  BY <1>5
<1>7. w = [k \in 0 .. n |-> w[k]]
  BY <1>5
<1> HIDE DEF Def
<1>8. \A k \in 1 .. n : w[k - 1] \in Int => w[k] \in Int
  BY <1>6
<1>9. w \in [0 .. n -> Int]
  <2>1. w[0] \in Int
    BY <1>6
  <2> QED
    BY <1>7, <1>8, <2>1, Integral, Zenon
<1> QED
  BY <1>5, <1>6, <1>9

\* The law of exponents that the sum needs.
LEMMA PowerLaw ==
    ASSUME NEW radix \in Int, NEW n \in Nat
    PROVE  /\ Power(radix, n) \in Int
           /\ n = 0 => Power(radix, n) = 1
           /\ n # 0 => Power(radix, n) = radix * Power(radix, n - 1)
<1>1. PICK w : /\ w \in [0 .. n -> Int] /\ w[0] = 1
               /\ \A k \in 1 .. n : w[k] = radix * w[k - 1]
               /\ Power(radix, n) = w[n]
  BY PowerIs
<1>2. ASSUME n # 0 PROVE Power(radix, n) = radix * Power(radix, n - 1)
  <2>1. n - 1 \in Nat
    BY <1>2
  <2>2. PICK u : /\ u \in [0 .. (n - 1) -> Int] /\ u[0] = 1
                 /\ \A k \in 1 .. (n - 1) : u[k] = radix * u[k - 1]
                 /\ Power(radix, n - 1) = u[n - 1]
    BY <2>1, PowerIs
  <2> DEFINE G == {k \in 0 .. (n - 1) : u[k] = w[k]}
  <2>3. 0 \in G
    BY <1>1, <2>1, <2>2
  <2>4. \A k \in 1 .. (n - 1) : k - 1 \in G => k \in G
    <3> SUFFICES ASSUME NEW k \in 1 .. (n - 1), u[k - 1] = w[k - 1] PROVE u[k] = w[k]
      OBVIOUS
    <3>1. k \in 1 .. n
      OBVIOUS
    <3> QED
      BY <1>1, <2>2, <3>1
  <2> HIDE DEF G
  <2>5. n - 1 \in G
    <3>1. \A k \in 0 .. (n - 1) : k \in G
      BY <2>1, <2>3, <2>4, Upwards
    <3> QED
      BY <2>1, <3>1
  <2>6. u[n - 1] = w[n - 1]
    BY <2>5 DEF G
  <2>7. n \in 1 .. n
    BY <1>2
  <2> QED
    BY <1>1, <2>2, <2>6, <2>7
<1>3. w[n] \in Int
  BY <1>1
<1> QED
  BY <1>1, <1>2, <1>3

\* m are the sums of more and more of the last digits.
Sums(m, L, radix, D) ==
    /\ m \in [0 .. L -> Int] /\ m[0] = 0
    /\ \A n \in 1 .. L : m[n] = m[n - 1] + D[L + 1 - n] * Power(radix, n - 1)

\* The values of the L digits from character i on, in order.
ValuesAt(i, L, D) ==
    /\ D \in [1 .. L -> Int]
    /\ \A n \in 1 .. L : D[n] = DigitValue[At(i + n - 1)]

LEMMA WrittenIs ==
    ASSUME NEW i \in Nat, NEW L \in Nat, NEW radix \in Int, NEW D, ValuesAt(i, L, D)
    PROVE  \E m : Sums(m, L, radix, D) /\ Written(i, i + L, radix) = m[L]
<1> /\ D \in [1 .. L -> Int]
    /\ \A n \in 1 .. L : D[n] = DigitValue[At(i + n - 1)]
  BY DEF ValuesAt
<1>1. PICK j : j = i + L /\ j - i = L
  OBVIOUS
<1>2. PICK step : step = [n \in 1 .. L |->
                            [a \in Int |-> a + D[L + 1 - n] * Power(radix, n - 1)]]
  OBVIOUS
<1>3. \A n \in 1 .. L : /\ D[L + 1 - n] = DigitValue[At(j - n)]
                        /\ D[L + 1 - n] \in Int /\ Power(radix, n - 1) \in Int
                        /\ D[L + 1 - n] * Power(radix, n - 1) \in Int
  <2> SUFFICES ASSUME NEW n \in 1 .. L
               PROVE  /\ D[L + 1 - n] = DigitValue[At(j - n)]
                      /\ D[L + 1 - n] \in Int /\ Power(radix, n - 1) \in Int
                      /\ D[L + 1 - n] * Power(radix, n - 1) \in Int
    OBVIOUS
  <2>1. L + 1 - n \in 1 .. L /\ i + (L + 1 - n) - 1 = j - n /\ n - 1 \in Nat
    BY <1>1
  <2>2. D[L + 1 - n] = DigitValue[At(j - n)] /\ D[L + 1 - n] \in Int
    BY <2>1
  <2>3. Power(radix, n - 1) \in Int
    BY <2>1, PowerLaw
  <2> QED
    BY <2>2, <2>3
<1>4. step \in [1 .. L -> [Int -> Int]]
  <2>1. ASSUME NEW n \in 1 .. L
        PROVE  [a \in Int |-> a + D[L + 1 - n] * Power(radix, n - 1)] \in [Int -> Int]
    <3>1. PICK p : p = D[L + 1 - n] * Power(radix, n - 1)
      OBVIOUS
    <3>2. p \in Int
      BY <1>3, <3>1
    <3>3. [a \in Int |-> a + p] \in [Int -> Int]
      BY <3>2
    <3> QED
      BY <3>1, <3>3
  <2> QED
    BY <1>2, <2>1
<1>5. \A n \in 1 .. L, a \in Int : step[n][a] = a + D[L + 1 - n] * Power(radix, n - 1)
  BY <1>2
<1> DEFINE Def(m) == m = [n \in 0 .. (j - i) |->
                            IF n = 0 THEN 0
                            ELSE m[n - 1] + DigitValue[At(j - n)] * Power(radix, n - 1)]
<1>6. \E m : Def(m)
  <2>1. PICK f : Follows(f, L, 0, step)
    <3>1. 0 \in Int
      OBVIOUS
    <3> QED
      BY <1>4, <3>1, Recursion, Zenon
  <2>2. Sums(f, L, radix, D)
    <3>1. /\ f \in [0 .. L -> Int] /\ f[0] = 0
          /\ \A n \in 1 .. L : f[n - 1] \in Int /\ f[n] = step[n][f[n - 1]]
      <4>1. /\ f \in [0 .. L -> Int] /\ f[0] = 0
            /\ \A n \in 1 .. L : f[n] = step[n][f[n - 1]]
        BY <2>1 DEF Follows
      <4>2. \A n \in 1 .. L : f[n - 1] \in Int
        BY <4>1
      <4> QED
        BY <4>1, <4>2
    <3>2. \A n \in 1 .. L : f[n] = f[n - 1] + D[L + 1 - n] * Power(radix, n - 1)
      BY <1>5, <3>1
    <3> QED
      BY <3>1, <3>2 DEF Sums
  <2>3. \A n \in 0 .. L :
           f[n] = IF n = 0 THEN 0
                  ELSE f[n - 1] + DigitValue[At(j - n)] * Power(radix, n - 1)
    BY <1>3, <2>2 DEF Sums
  <2>4. Def(f)
    BY <1>1, <2>2, <2>3 DEF Sums
  <2> QED
    BY <2>4
<1>7. PICK m : Def(m) /\ Written(i, j, radix) = m[j - i]
  BY <1>6 DEF Written
<1>8. /\ m[0] = 0
      /\ \A n \in 1 .. L : m[n] = m[n - 1] + D[L + 1 - n] * Power(radix, n - 1)
  <2>1. m = [n \in 0 .. L |-> IF n = 0 THEN 0
                 ELSE m[n - 1] + DigitValue[At(j - n)] * Power(radix, n - 1)]
    BY <1>1, <1>7
  <2>2. m[0] = 0
    BY <2>1
  <2>3. \A n \in 1 .. L : m[n] = m[n - 1] + DigitValue[At(j - n)] * Power(radix, n - 1)
    BY <2>1
  <2> QED
    BY <1>3, <2>2, <2>3
<1>9. m = [n \in 0 .. L |-> m[n]]
  BY <1>1, <1>7
<1>10. Written(i, j, radix) = m[L]
  BY <1>1, <1>7
<1> HIDE DEF Def
<1>11. \A n \in 1 .. L : m[n - 1] \in Int => m[n] \in Int
  <2> SUFFICES ASSUME NEW n \in 1 .. L, m[n - 1] \in Int PROVE m[n] \in Int
    OBVIOUS
  <2>1. PICK p : p = D[L + 1 - n] * Power(radix, n - 1)
    OBVIOUS
  <2>2. p \in Int
    BY <1>3, <2>1, Zenon
  <2>3. m[n] = m[n - 1] + p
    BY <1>8, <2>1, Zenon
  <2> QED
    BY <2>2, <2>3
<1>12. m \in [0 .. L -> Int]
  <2>1. m[0] \in Int
    BY <1>8
  <2> QED
    BY <1>9, <1>11, <2>1, Integral, Zenon
<1> QED
  BY <1>1, <1>8, <1>10, <1>12 DEF Sums

LEMMA Place ==
    ASSUME NEW h \in Int, NEW a \in Int, NEW d \in Int, NEW r \in Int, NEW w \in Int, NEW m \in Int,
           NEW b, b = a * r + d, h = b * w + m
    PROVE  h = a * (r * w) + (m + d * w)
OBVIOUS

\* Reading digits from the first to the last gives the number they write.
\* s holds the L digits written from character i on.
DigitsAt(s, i, L) ==
    /\ Len(s) = L
    /\ \A n \in 1 .. L : s[n] = At(i + n - 1) /\ DigitValue[s[n]] \in Int

LEMMA ReadAsWritten ==
    ASSUME NEW i \in Nat, NEW L \in Nat, NEW radix \in Int, NEW s, DigitsAt(s, i, L)
    PROVE  DigitsValue(s, radix) = Written(i, i + L, radix)
<1> /\ Len(s) = L
    /\ \A n \in 1 .. L : s[n] = At(i + n - 1) /\ DigitValue[s[n]] \in Int
  BY DEF DigitsAt
<1>1. PICK D : D = [n \in 1 .. L |-> DigitValue[s[n]]]
  OBVIOUS
<1>2. /\ D \in [1 .. L -> Int] /\ \A n \in 1 .. L : D[n] = DigitValue[s[n]]
      /\ \A n \in 1 .. L : D[n] = DigitValue[At(i + n - 1)]
  BY <1>1
<1>3. PICK v : Reads(v, L, radix, D) /\ DigitsValue(s, radix) = v[L]
  <2>1. ValuesOf(s, L, D)
    BY <1>2 DEF ValuesOf
  <2> QED
    BY <2>1, DigitsValueIs
<1>4. PICK m : Sums(m, L, radix, D) /\ Written(i, i + L, radix) = m[L]
  <2>1. ValuesAt(i, L, D)
    BY <1>2 DEF ValuesAt
  <2> QED
    BY <2>1, WrittenIs
<1>5. /\ v \in [0 .. L -> Int] /\ v[0] = 0
      /\ \A n \in 1 .. L : v[n] = v[n - 1] * radix + D[n]
  BY <1>3 DEF Reads
<1>6. /\ m \in [0 .. L -> Int] /\ m[0] = 0
      /\ \A n \in 1 .. L : m[n] = m[n - 1] + D[L + 1 - n] * Power(radix, n - 1)
  BY <1>4 DEF Sums
<1> DEFINE G == {n \in 0 .. L : v[L] = v[L - n] * Power(radix, n) + m[n]}
<1>7. 0 \in G
  <2>1. v[L] \in Int /\ L - 0 = L /\ 0 \in Nat
    BY <1>5
  <2>2. Power(radix, 0) = 1
    BY <2>1, PowerLaw
  <2>3. v[L] = v[L] * 1 + 0
    BY <2>1
  <2> QED
    BY <1>6, <2>1, <2>2, <2>3
<1>8. ASSUME NEW n \in 1 .. L, n - 1 \in G PROVE n \in G
  <2>1. PICK k : k = L + 1 - n
    OBVIOUS
  <2>2. k \in 1 .. L /\ L - (n - 1) = k /\ L - n = k - 1 /\ n \in Nat /\ n - 1 \in Nat
    BY <2>1
  <2>3. PICK h, a, d, w, w1, m1, b :
          /\ h = v[L] /\ a = v[k - 1] /\ d = D[k] /\ w1 = Power(radix, n - 1)
          /\ m1 = m[n - 1] /\ b = v[k] /\ w = Power(radix, n)
    OBVIOUS
  <2>4. b = a * radix + d
    BY <1>5, <2>2, <2>3
  <2>5. h = b * w1 + m1
    BY <1>8, <2>2, <2>3
  <2>6. w = radix * w1
    BY <2>2, <2>3, PowerLaw
  <2>7. m[n] = m1 + d * w1
    BY <1>6, <2>1, <2>3
  <2>8. h \in Int /\ a \in Int /\ d \in Int /\ w1 \in Int /\ m1 \in Int
    <3>1. w1 \in Int
      BY <2>2, <2>3, PowerLaw
    <3> QED
      BY <1>2, <1>5, <1>6, <2>2, <2>3, <3>1
  <2>9. h = a * (radix * w1) + (m1 + d * w1)
    BY <2>4, <2>5, <2>8, Place
  <2>10. v[L] = v[L - n] * Power(radix, n) + m[n]
    BY <2>2, <2>3, <2>6, <2>7, <2>9
  <2> QED
    BY <2>10
<1>9. L \in G
  <2> HIDE DEF G
  <2>1. \A n \in 0 .. L : n \in G
    BY <1>7, <1>8, Upwards
  <2> QED
    BY <2>1
<1>10. v[L] = v[0] * Power(radix, L) + m[L]
  <2>1. v[L] = v[L - L] * Power(radix, L) + m[L] /\ L - L = 0
    BY <1>9
  <2> QED
    BY <2>1
<1>11. Power(radix, L) \in Int /\ m[L] \in Int
  <2>1. Power(radix, L) \in Int
    BY PowerLaw
  <2> QED
    BY <1>6, <2>1
<1>12. v[L] = m[L]
  BY <1>5, <1>10, <1>11
<1> QED
  BY <1>3, <1>4, <1>12

\* The value of an integer is what is written between its base and its suffix.
LEMMA IntegerRead ==
    ASSUME LexInv, NEW k \in DOMAIN tokens, tokens[k].kind = "int"
    PROVE  IntegerIsContent(tokens[k])
<1>1. PICK t : t = tokens[k]
  OBVIOUS
<1>2. /\ t.begin \in Nat /\ t.suffix \in Nat /\ t.suffix <= Len(source) /\ IntRead(t)
      /\ source \in Seq(Char) /\ Len(source) \in Nat
  <2>1. TokenGood(t)
    BY <1>1 DEF LexInv, TokensGood
  <2>2. t.begin \in Nat /\ t.suffix \in Nat /\ t.end \in Nat /\ t.suffix <= t.end
    BY <2>1 DEF TokenGood, TokenType
  <2>3. t.end <= pos /\ pos <= Len(source) /\ pos \in Nat /\ Len(source) \in Nat
    BY <1>1, InTypes DEF LexInv, TypeOK
  <2>4. IntRead(t)
    BY <1>1, <2>1 DEF TokenGood, NumberGood
  <2> QED
    BY <2>2, <2>3, <2>4, InTypes
<1>3. PICK f, R, B, L : /\ f = DigitsFrom(t) /\ R = RadixOf(t) /\ B = DigitsBelow(R)
                        /\ L = t.suffix - f
  OBVIOUS
<1>4. /\ f \in Nat /\ L \in Nat /\ f + L = t.suffix /\ f \in 0 .. Len(source)
      /\ t.suffix \in f .. Len(source)
      /\ At(t.suffix) \notin B
      /\ (\E q \in f .. (t.suffix - 1) : At(q) \in B) => t.ok
  <2>1. f \in Nat
    BY <1>2, <1>3 DEF DigitsFrom
  <2>2. f <= t.suffix
    BY <1>2, <1>3 DEF IntRead
  <2>3. /\ At(t.suffix) \notin B
        /\ (\E q \in f .. (t.suffix - 1) : At(q) \in B) => t.ok
    BY <1>2, <1>3 DEF IntRead
  <2> QED
    BY <1>2, <1>3, <2>1, <2>2, <2>3
<1>5. R \in Int
  BY <1>3, RadixIs
<1>6. PICK s : s = IntegerDigits(t)
  OBVIOUS
<1>7. Len(s) = L /\ DOMAIN s = 1 .. L /\ \A n \in 1 .. L : s[n] = At(f + n - 1)
  <2>1. s = SubSeq(source, f + 1, t.suffix)
    <3>1. f + 1 = t.begin + (IF HasBase(t) THEN 3 ELSE 1)
      BY <1>2, <1>3 DEF DigitsFrom
    <3> QED
      BY <1>6, <3>1 DEF IntegerDigits
  <2>2. /\ Len(s) = L /\ DOMAIN s = 1 .. L
        /\ \A n \in 1 .. L : s[n] = source[f + n]
    <3>1. PICK a, b : a = f + 1 /\ b = t.suffix
      OBVIOUS
    <3>2. s = SubSeq(source, a, b) /\ b \in Nat /\ b <= Len(source)
      BY <1>2, <2>1, <3>1
    <3>3. f \in Nat /\ L \in Nat /\ f + L = b
      BY <1>4, <3>1
    <3>4. a \in Nat /\ 1 <= a /\ a <= b + 1 /\ b + 1 - a = L
      BY <3>1, <3>3
    <3>5. /\ s \in Seq(Char) /\ Len(s) = L
          /\ \A n \in 1 .. L : s[n] = source[a + n - 1]
      BY <1>2, <3>2, <3>4, SMT
    <3>6. \A n \in 1 .. L : a + n - 1 = f + n
      BY <1>4, <3>1
    <3>7. DOMAIN s = 1 .. L
      BY <3>5
    <3> QED
      BY <3>5, <3>6, <3>7
  <2>3. \A n \in 1 .. L : f + n - 1 < Len(source) /\ f + n - 1 + 1 = f + n
    BY <1>2, <1>4
  <2> QED
    BY <2>2, <2>3 DEF At
<1>8. PICK to : to = EatWhile(f, B)
  OBVIOUS
<1>9. Eof \notin B
  BY <1>3, DigitsOf
<1>10. /\ to \in Nat /\ f <= to /\ \A j \in f .. (to - 1) : At(j) \in B
  BY <1>2, <1>4, <1>8, <1>9, EatWhileStops
<1> DEFINE valid == t.ok /\ s # <<>> /\ \A n \in DOMAIN s : s[n] \in B
<1>11. ASSUME valid PROVE f < to /\ to = t.suffix
  <2>1. L # 0
    <3>1. L = 0 => s = <<>>
      BY <1>7
    <3> QED
      BY <1>11, <3>1
  <2>2. \A j \in f .. (t.suffix - 1) : At(j) \in B
    <3> SUFFICES ASSUME NEW j \in f .. (t.suffix - 1) PROVE At(j) \in B
      OBVIOUS
    <3>1. j - f + 1 \in 1 .. L /\ f + (j - f + 1) - 1 = j
      BY <1>2, <1>4
    <3> QED
      BY <1>7, <1>11, <3>1
  <2>3. to = t.suffix
    BY <1>2, <1>4, <1>8, <1>9, <2>2, EatWhileIs
  <2> QED
    BY <1>4, <2>1, <2>3
<1>12. ASSUME f < to, to = t.suffix PROVE valid
  <2>1. \A n \in 1 .. L : s[n] \in B
    <3> SUFFICES ASSUME NEW n \in 1 .. L PROVE s[n] \in B
      OBVIOUS
    <3>1. f + n - 1 \in f .. (to - 1)
      BY <1>4, <1>12
    <3> QED
      BY <1>7, <1>10, <3>1
  <2>2. 1 \in 1 .. L /\ f \in f .. (t.suffix - 1)
    BY <1>4, <1>12
  <2>3. s # <<>>
    BY <1>7, <2>2
  <2>4. t.ok
    BY <1>4, <1>10, <1>12, <2>2
  <2> QED
    BY <1>7, <2>1, <2>3, <2>4
<1>13. ASSUME valid PROVE DigitsValue(s, R) = Written(f, to, R)
  <2>1. \A n \in 1 .. L : s[n] = At(f + n - 1) /\ DigitValue[s[n]] \in Int
    <3> SUFFICES ASSUME NEW n \in 1 .. L
                 PROVE  s[n] = At(f + n - 1) /\ DigitValue[s[n]] \in Int
      OBVIOUS
    <3>1. s[n] \in Digits \cup HexLetters
      BY <1>3, <1>7, <1>13, DigitsOf
    <3>2. DigitValue[s[n]] \in Nat
      BY <3>1, DigitsOf
    <3> QED
      BY <1>7, <3>2
  <2>2. DigitsValue(s, R) = Written(f, f + L, R)
    <3>1. DigitsAt(s, f, L)
      BY <1>7, <2>1 DEF DigitsAt
    <3>2. f \in Nat /\ L \in Nat /\ R \in Int
      BY <1>4, <1>5
    <3> QED
      BY <3>1, <3>2, ReadAsWritten, Zenon
  <2> QED
    BY <1>4, <1>11, <1>13, <2>2
<1>14. IntegerValue(t) = IF valid /\ DigitsValue(s, R) <= MaxValue
                         THEN DigitsValue(s, R) ELSE None
  BY <1>3, <1>6 DEF IntegerValue
<1> HIDE DEF valid
<1>15. valid <=> f < to /\ to = t.suffix
  BY <1>11, <1>12
<1>16. IntegerValue(t) =
          IF f < to /\ to = t.suffix /\ Written(f, to, R) <= MaxValue
          THEN Written(f, to, R) ELSE None
  BY <1>13, <1>14, <1>15
<1> QED
  BY <1>1, <1>3, <1>8, <1>16 DEF IntegerIsContent, DigitsFrom

\* What a string, a character and a raw string give to the parsers is what is
\* written between their quotes, and an integer gives the number its digits
\* write, or none (token_aliases.rs:147-194, 250-281).
THEOREM ValuesRead == Spec => []ValuesAreContents
<1>1. LexInv => SlicesAreContents
  BY DEF LexInv, TokensGood, TokenGood, SlicesAreContents, OfKind
<1>2. LexInv => IntegersAreContents
  BY IntegerRead DEF IntegersAreContents, OfKind
<1> QED
  BY <1>1, <1>2, Invariance, PTL DEF ValuesAreContents
==============================================================================
