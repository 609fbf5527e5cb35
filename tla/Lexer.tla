------------------------------- MODULE Lexer -------------------------------
(***************************************************************************)
(* The lexer: `parse` of crates/token cuts a token off the front of the    *)
(* source, the cursor that drives it repeats this until the end, and the   *)
(* parsers read values back out of the tokens by slicing the source.       *)
(*                                                                         *)
(* A source is a sequence of characters, each standing for the class the   *)
(* code compares it with.  A loop whose state is more than a position      *)
(* (comments, strings, raw strings) runs a step at a time; the `eat_while` *)
(* of a set of characters is one jump.  Positions count characters, and    *)
(* the doc style of comments, the hints for a missing terminator and the   *)
(* keywords among the identifiers are left out: no token boundary depends  *)
(* on them.                                                                *)
(***************************************************************************)
EXTENDS Integers, Sequences, FiniteSets

CONSTANTS
    Sources,    \* the sources to be cut up
    MaxHashes,  \* u8::MAX
    MaxValue,   \* u64::MAX
    None        \* Rust's None

Eof       == "eof"  \* EOF_CHAR
Quote     == "\""
Backslash == "\\"

Digits     == {"0", "7"}
HexLetters == {"a", "b", "e"}
IdStart    == HexLetters \cup {"o", "r", "x", "z", "_"}
IdContinue == IdStart \cup Digits
White      == {" ", "\n"}

Punctuation == {"(", ")", "[", "]", "{", "}", "<", ">", ":", ";", "=", "_", ",",
                ".", "!", "@", "?", "&", "+", "-", "~", "^", "*", "/", "%", "|", "#"}

\* The strings of `SpecialChar`.
SpecialChars ==
    {<<c>> : c \in Punctuation}
      \cup {<<c, c>> : c \in {":", "+", "-", ".", "=", "&", "|"}}
      \cup {<<"=", ">">>, <<"-", ">">>}

\* "joiner" is the zero-width joiner, "other" what no token starts with.
Char == IdContinue \cup White \cup Punctuation
          \cup {Quote, "'", Backslash, "emoji", "joiner", "other"}

ASSUME LexerAssumption == Sources \subseteq Seq(Char) /\ MaxHashes \in Nat
                           /\ MaxValue \in Nat /\ None \notin Nat

VARIABLES
    source,
    pos,      \* characters eaten
    mode,     \* the loop the lexer is in
    begin,    \* where the current token begins
    literal,  \* the kind of the current literal
    depth,    \* of the block comment
    opening,  \* `n_start_hashes`
    closing,  \* `n_end_hashes`
    tokens

vars == <<source, pos, mode, begin, literal, depth, opening, closing, tokens>>

loopVars == <<literal, depth, opening, closing>>

----------------------------------------------------------------------------
(* The cursor                                                              *)

\* The character after the first i ones; `first` is At(pos).
At(i) == IF i < Len(source) THEN source[i + 1] ELSE Eof

\* `eat_while`: the first position at or after i whose character is not in S.
EatWhile(i, S) ==
    CHOOSE q \in i .. Len(source) :
        /\ At(q) \notin S
        /\ \A j \in i .. (q - 1) : At(j) \in S

\* `eat_until(c)`
EatUntil(i, c) == EatWhile(i, Char \ {c})

AtMost(i) == IF i < Len(source) THEN i ELSE Len(source)

----------------------------------------------------------------------------
(* Identifiers and suffixes                                                *)

IdentifierEnd(i) == IF At(i) \in IdStart THEN EatWhile(i + 1, IdContinue) ELSE i

SuffixEnd(i) == IdentifierEnd(i)

InvalidEnd(i) == EatWhile(i, IdContinue \cup {"emoji", "joiner"})

----------------------------------------------------------------------------
(* Numbers                                                                 *)

DecimalEnd(i) == EatWhile(i, Digits \cup {"_"})
HexEnd(i)     == EatWhile(i, Digits \cup HexLetters \cup {"_"})

HasDigit(i, j, S) == \E q \in i .. (j - 1) : At(q) \in S

SignEnd(i) == IF At(i) \in {"+", "-"} THEN i + 1 ELSE i

\* eat_float_exponent, i after the `e`.
ExponentEnd(i) == DecimalEnd(SignEnd(i))

StartsFractionGreedy(i) == At(i) = "."

\* The dot of `0..2` and of `12.foo()` is not the number's.
StartsFraction(i) == At(i) = "." /\ At(i + 1) # "." /\ At(i + 1) \notin IdStart

FractionEnd(i) == IF At(i) \in Digits THEN DecimalEnd(i) ELSE i

Number(kind, end, ok) == [kind |-> kind, end |-> end, ok |-> ok]

WithExponent(i) ==
    Number("float", ExponentEnd(i), HasDigit(i, ExponentEnd(i), Digits))

\* What follows the digits, i after them.
NumberTail(i) ==
    IF StartsFraction(i)
    THEN LET f == FractionEnd(i + 1) IN
         IF f > i + 1 /\ At(f) = "e" THEN WithExponent(f + 1)
                                     ELSE Number("float", f, TRUE)
    ELSE IF At(i) = "e" THEN WithExponent(i + 1) ELSE Number("int", i, TRUE)

\* `number`, its first digit at i - 1.
NumberAt(i) ==
    LET prefixed == At(i - 1) = "0" /\ At(i) \in {"b", "o", "x"}
        hex      == At(i) = "x"
        end      == IF hex THEN HexEnd(i + 1) ELSE DecimalEnd(i + 1)
        digits   == IF hex THEN Digits \cup HexLetters ELSE Digits
    IN IF ~prefixed THEN NumberTail(DecimalEnd(i))
       ELSE IF HasDigit(i + 1, end, digits) THEN NumberTail(end)
       ELSE Number("int", end, FALSE)

----------------------------------------------------------------------------
(* Special characters                                                      *)

StartsWith(i, s) ==
    i + Len(s) <= Len(source) /\ \A k \in DOMAIN s : source[i + k] = s[k]

IsSpecial(i) == \E s \in SpecialChars : StartsWith(i, s)

\* parse_prefix: the table is searched from its last string, so that a string
\* comes before its prefixes.
SpecialEnd(i) ==
    i + Len(CHOOSE s \in SpecialChars :
                /\ StartsWith(i, s)
                /\ \A t \in SpecialChars : StartsWith(i, t) => Len(t) <= Len(s))

----------------------------------------------------------------------------
(* Tokens                                                                  *)

Quoted == {"str", "byte_str", "char", "byte"}
Raw    == {"raw_str", "raw_byte_str"}
Literals == Quoted \cup Raw \cup {"int", "float"}
Kinds  == Literals \cup {"comment", "white", "special", "guarded", "unknown",
             "identifier", "raw_identifier", "invalid_identifier",
             "unknown_prefix"}

\* suffix is where the suffix of a literal starts, ok whether it is
\* terminated, has digits, or, if raw, carries its number of hashes at all.
Token(kind, end, suffix, ok, hashes) ==
    [kind |-> kind, begin |-> begin', end |-> end, suffix |-> suffix,
     ok |-> ok, hashes |-> hashes]

Push(token) == /\ tokens' = Append(tokens, token)
               /\ pos' = token.end
               /\ mode' = "token"
               /\ UNCHANGED <<source, loopVars>>


\* A literal takes a suffix only when it is complete.
Complete(end, hashes) ==
    /\ UNCHANGED begin
    /\ Push(Token(literal, SuffixEnd(end), end, TRUE, hashes))

Broken(end) == UNCHANGED begin /\ Push(Token(literal, end, end, FALSE, 0))

\* A token of a single step: what `first_char` is there for.
Plain(kind, end) == begin' = pos /\ Push(Token(kind, end, end, TRUE, 0))

\* A token with a loop, entered with pos at end.
Enter(loop, kind, end) ==
    /\ begin' = pos /\ pos' = end /\ mode' = loop /\ literal' = kind
    /\ depth' = 1 /\ opening' = 0 /\ closing' = 0
    /\ UNCHANGED <<source, tokens>>

\* The loop goes on.
Stay(loop, end) == /\ pos' = end /\ mode' = loop
                   /\ UNCHANGED <<source, begin, literal, tokens>>

----------------------------------------------------------------------------
(* `parse`: the first character and the two after it                       *)

Starting == mode = "token" /\ pos < Len(source)
First    == At(pos)
Second   == At(pos + 1)
Third    == At(pos + 2)

Init == /\ source \in Sources
        /\ pos = 0 /\ mode = "token" /\ begin = 0
        /\ literal = "str" /\ depth = 1 /\ opening = 0 /\ closing = 0
        /\ tokens = <<>>

WhiteSpace == Starting /\ First \in White /\ Plain("white", pos + 1)

LineComment ==
    /\ Starting /\ First = "/" /\ Second = "/"
    /\ Plain("comment", EatUntil(pos + 2, "\n"))

BeginBlock ==
    /\ Starting /\ First = "/" /\ Second = "*"
    /\ Enter("block", "comment", pos + 2)

RawIdentifier ==
    /\ Starting /\ First = "r" /\ Second = "#" /\ Third \in IdStart
    /\ Plain("raw_identifier", IdentifierEnd(pos + 2))

BeginRaw ==
    /\ Starting /\ First = "r"
    /\ Second = Quote \/ (Second = "#" /\ Third \notin IdStart)
    /\ Enter("hashes", "raw_str", pos + 1)

\* byte_string; `br#` is never a raw identifier.
BeginRawBytes ==
    /\ Starting /\ First = "b" /\ Second = "r" /\ Third \in {Quote, "#"}
    /\ Enter("hashes", "raw_byte_str", pos + 2)

BeginString ==
    \/ Starting /\ First = Quote /\ Enter("string", "str", pos + 1)
    \/ Starting /\ First = "b" /\ Second = Quote /\ Enter("string", "byte_str", pos + 2)

BeginChar ==
    \/ Starting /\ First = "'" /\ Enter("symbol", "char", pos + 1)
    \/ Starting /\ First = "b" /\ Second = "'" /\ Enter("symbol", "byte", pos + 2)

\* identifier_or_unknown_prefix, i after the identifier.
IdentifierToken(i) ==
    CASE At(i) \in {"#", Quote, "'"} -> Plain("unknown_prefix", i)
      [] At(i) = "emoji"           -> Plain("invalid_identifier", InvalidEnd(i))
      [] OTHER                     -> Plain("identifier", i)

Identifier ==
    /\ Starting /\ First \in IdStart
    /\ First = "r" => Second \notin {"#", Quote}
    /\ First = "b" => /\ Second \notin {"'", Quote}
                     /\ ~(Second = "r" /\ Third \in {Quote, "#"})
    /\ IdentifierToken(EatWhile(pos + 1, IdContinue))

NumberToken ==
    /\ Starting /\ First \in Digits
    /\ begin' = pos
    /\ LET n == NumberAt(pos + 1) IN
       Push(Token(n.kind, SuffixEnd(n.end), n.end, n.ok, 0))

GuardedStrPrefix ==
    /\ Starting /\ First = "#" /\ Second \in {Quote, "#"}
    /\ Plain("guarded", pos + 2)

Special ==
    /\ Starting /\ IsSpecial(pos)
    /\ First # "_"
    /\ First = "/" => Second \notin {"/", "*"}
    /\ First = "#" => Second \notin {Quote, "#"}
    /\ Plain("special", IF First = "/" THEN pos + 1 ELSE SpecialEnd(pos))

InvalidIdentifier ==
    /\ Starting /\ First = "emoji"
    /\ Plain("invalid_identifier", InvalidEnd(pos + 1))

Unknown ==
    /\ Starting /\ First \in {Backslash, "joiner", "other"}
    /\ Plain("unknown", pos + 1)

EndOfSource ==
    /\ mode = "token" /\ pos = Len(source)
    /\ mode' = "done"
    /\ UNCHANGED <<source, pos, begin, loopVars, tokens>>

----------------------------------------------------------------------------
(* The loops                                                               *)

OpenerEatsOne(i) == i + 1
OpenerEnd(i) == i + 2

OpenComment ==
    /\ mode = "block" /\ First = "/" /\ Second = "*"
    /\ depth' = depth + 1
    /\ Stay("block", OpenerEnd(pos)) /\ UNCHANGED <<opening, closing>>

CloseComment ==
    /\ mode = "block" /\ First = "*" /\ Second = "/" /\ depth > 1
    /\ depth' = depth - 1
    /\ Stay("block", pos + 2) /\ UNCHANGED <<opening, closing>>

EndComment ==
    /\ mode = "block"
    /\ \/ /\ First = "*" /\ Second = "/" /\ depth = 1
          /\ UNCHANGED begin /\ Push(Token(literal, pos + 2, pos + 2, TRUE, 0))
       \/ First = Eof /\ Broken(pos)

SkipInComment ==
    /\ mode = "block" /\ First # Eof
    /\ <<First, Second>> \notin {<<"/", "*">>, <<"*", "/">>}
    /\ Stay("block", pos + 1) /\ UNCHANGED <<depth, opening, closing>>

EscapesQuoteOnly == {Quote}
\* What a backslash takes with it in a string.
Escapes == {Backslash, Quote}

StringStep ==
    /\ mode = "string"
    /\ \/ First = Quote /\ Complete(pos + 1, 0)
       \/ First = Eof /\ Broken(pos)
       \/ /\ First \notin {Quote, Eof}
          /\ Stay("string", IF First = Backslash /\ Second \in Escapes
                            THEN pos + 2 ELSE pos + 1)
          /\ UNCHANGED <<depth, opening, closing>>

OneSymbolAnyFirst == Second = "'"
OneSymbol == Second = "'" /\ First # Backslash

\* single_quoted_string: the one-symbol literals, then the loop.
Symbol ==
    /\ mode = "symbol"
    /\ IF OneSymbol THEN Complete(pos + 2, 0)
       ELSE Stay("char", pos) /\ UNCHANGED <<depth, opening, closing>>

\* A comment, or a newline with no quote after it, is not eaten.
StopsChar == \/ First \in {"/", Eof}
             \/ First = "\n" /\ Second # "'"

TwoMore(i) == i + 2
BumpTwice(i) == AtMost(i + 2)

CharStep ==
    /\ mode = "char"
    /\ \/ First = "'" /\ Complete(pos + 1, 0)
       \/ StopsChar /\ Broken(pos)
       \/ /\ First # "'" /\ ~StopsChar
          /\ Stay("char", IF First = Backslash THEN BumpTwice(pos) ELSE pos + 1)
          /\ UNCHANGED <<depth, opening, closing>>

OpeningHash ==
    /\ mode = "hashes" /\ First = "#"
    /\ opening' = opening + 1
    /\ Stay("hashes", pos + 1) /\ UNCHANGED <<depth, closing>>

\* The bad starter, if there is one, is eaten.
OpenRaw ==
    /\ mode = "hashes" /\ First # "#"
    /\ IF First = Quote
       THEN Stay("raw", pos + 1) /\ UNCHANGED <<depth, opening, closing>>
       ELSE Broken(AtMost(pos + 1))

ToQuote ==
    /\ mode = "raw"
    /\ LET q == EatUntil(pos, Quote) IN
       IF q = Len(source) THEN Broken(q)
       ELSE closing' = 0 /\ Stay("closing", q + 1) /\ UNCHANGED <<depth, opening>>

ClosingHash ==
    /\ mode = "closing" /\ First = "#" /\ closing < opening
    /\ closing' = closing + 1
    /\ Stay("closing", pos + 1) /\ UNCHANGED <<depth, opening>>

AnyQuoteCloses == TRUE
QuoteCloses == closing = opening

ResumeAtQuote == pos - closing - 1
ResumeAt == pos

\* No more hashes, or enough: the literal is over, with a number of hashes
\* only if a u8 holds it, or the search for a quote goes on.
EndRaw ==
    /\ mode = "closing"
    /\ First # "#" \/ closing = opening
    /\ IF ~QuoteCloses
       THEN Stay("raw", ResumeAt) /\ UNCHANGED <<depth, opening, closing>>
       ELSE IF opening <= MaxHashes THEN Complete(pos, opening) ELSE Broken(pos)

Terminated == mode = "done" /\ UNCHANGED vars

Begin == \/ WhiteSpace \/ LineComment \/ BeginBlock \/ RawIdentifier \/ BeginRaw
         \/ BeginRawBytes \/ BeginString \/ BeginChar \/ Identifier
         \/ NumberToken \/ GuardedStrPrefix \/ Special \/ InvalidIdentifier
         \/ Unknown \/ EndOfSource
Loop  == \/ OpenComment \/ CloseComment \/ EndComment \/ SkipInComment
         \/ StringStep \/ Symbol \/ CharStep
         \/ OpeningHash \/ OpenRaw \/ ToQuote \/ ClosingHash \/ EndRaw

Next == Begin \/ Loop \/ Terminated

Spec == Init /\ [][Next]_vars

\* The cursor is driven by a loop on one thread.
FairSpec == Spec /\ WF_vars(Next)

----------------------------------------------------------------------------
(* What the parsers read back                                              *)

\* `is_invalid`: `parse` of crates/ast refuses a file with such a token.
IsInvalid(t) == \/ t.kind \in Quoted /\ ~t.ok
                \/ t.kind \in {"invalid_identifier", "unknown"}

Accepted == \A k \in DOMAIN tokens : ~IsInvalid(tokens[k])

SliceFromQuote(t) == t.begin + IF t.kind \in Raw THEN 2 ELSE 1
\* `get_value` takes the source from here ...
SliceFrom(t) == t.begin + IF t.kind \in Raw THEN 2 + t.hashes ELSE 1
\* ... up to here.
SliceTo(t) == t.suffix - 1 - t.hashes

Radix == [b |-> 2, o |-> 8, x |-> 16]
HasBase(t) == At(t.begin) = "0" /\ At(t.begin + 1) \in DOMAIN Radix
RadixOf(t) == IF HasBase(t) THEN Radix[At(t.begin + 1)] ELSE 10

DigitValue == [c \in Digits \cup HexLetters |->
                  CASE c = "0" -> 0 [] c = "7" -> 7 [] c = "a" -> 10
                    [] c = "b" -> 11 [] c = "e" -> 14]
DigitsBelow(radix) == {c \in Digits \cup HexLetters : DigitValue[c] < radix}

\* `value_s`, without the two characters of its base.
IntegerDigits(t) == SubSeq(source, t.begin + (IF HasBase(t) THEN 3 ELSE 1), t.suffix)

\* The loop of `from_str_radix`.
DigitsValue(s, radix) ==
    LET value[n \in 0 .. Len(s)] ==
            IF n = 0 THEN 0 ELSE value[n - 1] * radix + DigitValue[s[n]]
    IN value[Len(s)]

\* IntegerToken::get_value: `from_str_radix` knows no underscores.
IntegerValue(t) ==
    LET s == IntegerDigits(t)
        valid == /\ t.ok /\ s # <<>>
                 /\ \A n \in DOMAIN s : s[n] \in DigitsBelow(RadixOf(t))
                 /\ DigitsValue(s, RadixOf(t)) <= MaxValue
    IN IF valid THEN DigitsValue(s, RadixOf(t)) ELSE None

----------------------------------------------------------------------------
(* Properties                                                              *)

TokenType == [kind : Kinds, begin : Nat, end : Nat, suffix : Nat, ok : BOOLEAN,
              hashes : 0 .. MaxHashes]

\* The types of the variables; nothing eats past the end of the source, and a
\* token is not empty and lies within what was eaten (parse.rs:9-79).
TypeOK ==
    /\ source \in Seq(Char)
    /\ pos \in 0 .. Len(source)
    /\ mode \in {"token", "block", "string", "symbol", "char", "hashes", "raw",
                "closing", "done"}
    /\ begin \in 0 .. pos
    /\ literal \in Kinds
    /\ depth \in Nat \ {0}
    /\ opening \in Nat /\ closing \in 0 .. opening
    /\ tokens \in Seq(TokenType)
    /\ \A k \in DOMAIN tokens : /\ tokens[k].begin < tokens[k].suffix
                               /\ tokens[k].suffix <= tokens[k].end
                               /\ tokens[k].end <= pos

\* The first quote of a quoted literal.
Opening(t) == IF t.kind \in {"byte_str", "byte"} THEN t.begin + 1 ELSE t.begin

\* Character i of a literal opened at o is escaped: an odd number of
\* backslashes stands before it.
Escaped(o, i) ==
    \E n \in 0 .. (i - o - 2) :
        /\ n % 2 = 0
        /\ \A j \in (i - 1 - n) .. (i - 1) : At(j) = Backslash
        /\ (i - 2 - n = o \/ At(i - 2 - n) # Backslash)

Closes(o, q) == q > o /\ At(q) = Quote /\ ~Escaped(o, q)

OfKind(kinds) == {k \in DOMAIN tokens : tokens[k].kind \in kinds}

StringExact(t) ==
    LET closers == {q \in 0 .. (Len(source) - 1) : Closes(Opening(t), q)} IN
    IF t.ok THEN /\ t.suffix - 1 \in closers
                 /\ \A q \in closers : t.suffix - 1 <= q
            ELSE closers = {} /\ t.end = Len(source)

\* A string ends at the first quote that an even number of backslashes stands
\* before, and is unterminated exactly when there is none (parse.rs:265-279).
StringsExact == \A k \in OfKind({"str", "byte_str"}) : StringExact(tokens[k])

CharExact(t) ==
    LET o == Opening(t)
        q == t.suffix - 1
    IN t.ok =>
        /\ At(q) = "'" /\ q > o /\ ~Escaped(o, q)
        /\ \/ q = o + 2
           \/ \A i \in (o + 1) .. (q - 1) :
                 ~Escaped(o, i) => /\ At(i) \notin {"'", "/"}
                                   /\ (At(i) = "\n" => i = q - 1)

\* A terminated character literal ends at a quote that is not escaped, and
\* holds one character, or neither a bare quote, nor a bare slash, nor a bare
\* newline other than as its last character (parse.rs:217-256).
CharsExact == \A k \in OfKind({"char", "byte"}) : CharExact(tokens[k])

\* n characters `#` from i on.
Hashes(i, n) == \A j \in i .. (i + n - 1) : At(j) = "#"

RawStringExact(t) ==
    LET from == IF t.kind = "raw_str" THEN t.begin + 1 ELSE t.begin + 2
        o    == EatWhile(from, {"#"})
        n    == o - from
        ends == {q \in (o + 1) .. (Len(source) - 1) :
                    At(q) = Quote /\ Hashes(q + 1, n)}
    IN /\ t.ok <=> At(o) = Quote /\ ends # {} /\ n <= MaxHashes
       /\ t.ok => /\ t.hashes = n
                  /\ t.suffix - 1 - n \in ends
                  /\ \A q \in ends : t.suffix - 1 - n <= q

\* A raw string with n hashes ends at the first quote that n hashes follow; it
\* carries a number of hashes exactly when it has an opening quote, such an
\* end, and few enough of them (parse.rs:391-471).
RawStringsExact == \A k \in OfKind(Raw) : RawStringExact(tokens[k])

Pair(i) == <<At(i), At(i + 1)>>
Delimiters == {<<"/", "*">>, <<"*", "/">>}

\* A delimiter of the comment begun at b: in a run of overlapping pairs, as in
\* `/*/`, every other one.
IsDelimiter(b, i) ==
    /\ Pair(i) \in Delimiters
    /\ \E s \in b .. i : /\ (i - s) % 2 = 0
                        /\ \A j \in s .. i : Pair(j) \in Delimiters
                        /\ (s = b \/ Pair(s - 1) \notin Delimiters)

\* Openers less closers among the delimiters up to position i.
Nesting(b, i) ==
    Cardinality({j \in b .. i : IsDelimiter(b, j) /\ At(j) = "/"})
      - Cardinality({j \in b .. i : IsDelimiter(b, j) /\ At(j) = "*"})

CommentNests(t) ==
    LET closers == {i \in t.begin .. (Len(source) - 1) :
                        IsDelimiter(t.begin, i) /\ Nesting(t.begin, i) = 0}
    IN At(t.begin + 1) = "*" =>
        IF t.ok THEN /\ t.end - 2 \in closers
                     /\ \A i \in closers : t.end - 2 <= i
                ELSE closers = {} /\ t.end = Len(source)

\* A block comment ends at the delimiter that closes the first one, and is
\* unterminated when there is none (parse.rs:102-137).
CommentsNest == \A k \in OfKind({"comment"}) : CommentNests(tokens[k])

NumberWhole(t) ==
    /\ At(t.suffix) \notin Digits
    /\ \A i \in t.begin .. (t.end - 1) :
          At(i) = "." => At(i + 1) # "." /\ At(i + 1) \notin IdStart

\* A number takes no dot of a range or of a member access, and leaves no digit
\* behind (parse.rs:520-615).
NumbersWhole == \A k \in OfKind({"int", "float"}) : NumberWhole(tokens[k])

\* The slice is what stands between the first quote of t and the one it ends
\* at.
SliceIsContent(t) ==
    /\ SliceFrom(t) <= SliceTo(t)
    /\ At(SliceFrom(t) - 1) \in {Quote, "'"}
    /\ \A i \in t.begin .. (SliceFrom(t) - 2) : At(i) \notin {Quote, "'"}
    /\ At(SliceTo(t)) = At(SliceFrom(t) - 1)
    /\ Hashes(SliceTo(t) + 1, t.suffix - 1 - SliceTo(t))

\* base ^ n
Power(base, n) ==
    LET power[k \in 0 .. n] == IF k = 0 THEN 1 ELSE base * power[k - 1] IN power[n]

\* The number the digits from i to j - 1 write: a digit that n others follow
\* counts `radix ^ n`.
Written(i, j, radix) ==
    LET sum[n \in 0 .. (j - i)] ==
            IF n = 0 THEN 0
            ELSE sum[n - 1] + DigitValue[At(j - n)] * Power(radix, n - 1)
    IN sum[j - i]

\* The value of an integer is what all the characters between its base and its
\* suffix write; it has none if they are not just digits of the base (if there
\* is an underscore among them), or if the value is no u64.
IntegerIsContent(t) ==
    LET from  == IF HasBase(t) THEN t.begin + 2 ELSE t.begin
        to    == EatWhile(from, DigitsBelow(RadixOf(t)))
        value == Written(from, to, RadixOf(t))
    IN IntegerValue(t) =
          IF from < to /\ to = t.suffix /\ value <= MaxValue THEN value ELSE None

SlicesAreContents ==
    \A k \in OfKind({"str", "char", "raw_str"}) :
        tokens[k].ok => SliceIsContent(tokens[k])

IntegersAreContents == \A k \in OfKind({"int"}) : IntegerIsContent(tokens[k])

\* What a string, a character and a raw string give to the parsers is what is
\* written between their quotes, and an integer gives the number its digits
\* write, or none (token_aliases.rs:147-194, 250-281).
ValuesAreContents == SlicesAreContents /\ IntegersAreContents

\* "`b'a'`, `b'\\'`" (literal.rs:20) and "`br\"abc\"`, `br#\"abc\"#`"
\* (literal.rs:29) write a byte and bytes: their values are between the quotes
\* as well.
ByteValuesAreContents ==
    \A k \in OfKind({"byte", "byte_str", "raw_byte_str"}) :
        tokens[k].ok => SliceIsContent(tokens[k])

\* "`None` indicates an invalid literal" (literal.rs:26-27): a file with a raw
\* string that carries no number of hashes is not accepted.
InvalidLiteralsReported ==
    mode = "done" => \A k \in OfKind(Raw) : tokens[k].ok \/ ~Accepted

\* Every source is cut up to its end.
LexerEnds == <>(mode = "done")
============================================================================
