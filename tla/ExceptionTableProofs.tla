------------------------ MODULE ExceptionTableProofs ------------------------
(***************************************************************************)
(* Proofs about ExceptionTable, for every set of token sequences.          *)
(*                                                                         *)
(* What the table says of an entry is decided while its braces are read,   *)
(* so the invariant says of the entry being read what EntriesFaithful says *)
(* of a finished one, for the tokens read so far.  It needs two facts      *)
(* more: the straight-line code asks for no clause keyword, so that the    *)
(* loop over clauses meets all of them, and the entries read lie behind    *)
(* the cursor.                                                             *)
(***************************************************************************)
EXTENDS ExceptionTable, SequenceTheorems, TLAPS

\* What the straight-line code asks for.
Asked == (Kinds \cup Optional) \ Clauses

Wanted == /\ want \in Seq(Asked)
          /\ want # <<>> => pc \in {"entries", "clauses"}

\* The tokens read of the entry that are the keyword c.
Seen(c) == {i \in begin .. (pos - 1) : tokens[i] = c}

\* What the clauses say of the tokens read is what is there.
ClauseFaithful(c) ==
    IF clause[c] = None
    THEN Seen(c) = {}
    ELSE /\ clause[c] - 1 \in Seen(c)
         /\ \A i \in Seen(c) : clause[c] - 1 <= i

\* The entries are behind place p.
Behind(p) == entries # <<>> => entries[Len(entries)].end < p

EntryInv ==
    /\ pc = "start" => entries = <<>>
    /\ pc = "entries" => Behind(pos)
    /\ pc = "clauses" => /\ begin \in 1 .. pos
                         /\ Behind(begin)
                         /\ \A c \in Clauses : ClauseFaithful(c)

TableInv == TypeOK /\ Wanted /\ EntryInv /\ EntriesFaithful

----------------------------------------------------------------------------

\* The next token is one of the sequence's, or there is none.
LEMMA TokenType ==
    ASSUME TypeOK
    PROVE  /\ Token \in Kinds \cup {"eof"}
           /\ Token # "eof" => pos \in 1 .. Len(tokens) /\ Token = tokens[pos]
<1>1. pos <= Len(tokens) => pos \in 1 .. Len(tokens) /\ tokens[pos] \in Kinds
  BY DEF TypeOK
<1>2. "eof" \notin Kinds
  BY DEF Kinds
<1> QED
  BY <1>1, <1>2 DEF Token

LEMMA Advance ==
    ASSUME TypeOK, Token # "eof"
    PROVE  pos + 1 \in 1 .. (Len(tokens) + 1)
BY TokenType DEF TypeOK

\* A tuple of elements of S is a sequence of them.
LEMMA ShortSequences ==
    ASSUME NEW S
    PROVE  /\ <<>> \in Seq(S)
           /\ \A a \in S : <<a>> \in Seq(S)
           /\ \A a, b \in S : <<a, b>> \in Seq(S)
           /\ \A a, b, c \in S : <<a, b, c>> \in Seq(S)
           /\ \A a, b, c, d \in S : <<a, b, c, d>> \in Seq(S)
OBVIOUS

\* The pieces of straight-line code.
LEMMA Pieces ==
    /\ <<"{">> \in Seq(Asked)
    /\ TwoLocations \in Seq(Asked)
    /\ EntryHeader \in Seq(Asked)
    /\ <<"method", "in", "type">> \in Seq(Asked)
    /\ <<>> \in Seq(Asked)
<1>1. /\ "{" \in Asked /\ "rel?" \in Asked /\ "int" \in Asked
      /\ ".." \in Asked /\ "type" \in Asked /\ "filter?" \in Asked
      /\ "=>" \in Asked /\ "method" \in Asked /\ "in" \in Asked
  BY DEF Asked, Kinds, Optional, Clauses
<1>2. \A s, t \in Seq(Asked) : s \o t \in Seq(Asked)
  OBVIOUS
<1>3. /\ <<"rel?", "int">> \in Seq(Asked)
      /\ <<"..">> \in Seq(Asked)
      /\ <<"{">> \in Seq(Asked)
      /\ <<"int", "..">> \in Seq(Asked)
  BY <1>1, ShortSequences
<1>4. <<"type", "filter?", "=>", "{">> \in Seq(Asked)
  BY <1>1, ShortSequences
<1>5. <<"method", "in", "type">> \in Seq(Asked) /\ <<>> \in Seq(Asked)
  BY <1>1, ShortSequences
<1>6. TwoLocations \in Seq(Asked)
  BY <1>2, <1>3 DEF TwoLocations, Location
<1>7. EntryHeader \in Seq(Asked)
  BY <1>2, <1>3, <1>4 DEF EntryHeader, Location
<1> QED
  BY <1>3, <1>5, <1>6, <1>7

LEMMA WantTyped ==
    ASSUME NEW s \in Seq(Asked)
    PROVE  s \in Seq(Kinds \cup Optional)
BY DEF Asked

LEMMA WantHead ==
    ASSUME Wanted, want # <<>>
    PROVE  /\ Head(want) \in Asked
           /\ Tail(want) \in Seq(Asked)
           /\ pc \in {"entries", "clauses"}
BY DEF Wanted

\* Asked and the clause keywords have nothing in common.
LEMMA AskedNoClause == Asked \cap Clauses = {} /\ "eof" \notin Asked /\ "eof" \notin Clauses
BY DEF Asked, Kinds, Optional, Clauses

----------------------------------------------------------------------------
(* The variables keep their types                                          *)

LEMMA InitType == ASSUME Init PROVE TypeOK
<1>1. tokens \in Seq(Kinds) /\ pos \in 1 .. (Len(tokens) + 1)
  BY InputAssumption DEF Init
<1>2. want \in Seq(Kinds \cup Optional) /\ entries \in Seq(EntryType)
  BY DEF Init
<1> QED
  BY <1>1, <1>2 DEF Init, TypeOK, Unset

\* What TypeOK says, a piece at a time.
LEMMA InTypes ==
    ASSUME TableInv
    PROVE  /\ pos \in Nat /\ pos \in 1 .. (Len(tokens) + 1)
           /\ Len(tokens) \in Nat /\ DOMAIN tokens = 1 .. Len(tokens)
           /\ clause \in [Clauses -> Nat \cup {None}]
           /\ entries \in Seq(EntryType)
           /\ Len(entries) \in Nat /\ DOMAIN entries = 1 .. Len(entries)
<1>1. TypeOK
  BY DEF TableInv
<1>2. tokens \in Seq(Kinds) /\ pos \in 1 .. (Len(tokens) + 1)
      /\ clause \in [Clauses -> Nat \cup {None}] /\ entries \in Seq(EntryType)
  BY <1>1 DEF TypeOK
<1>3. Len(tokens) \in Nat /\ DOMAIN tokens = 1 .. Len(tokens)
  BY <1>2
<1>4. Len(entries) \in Nat /\ DOMAIN entries = 1 .. Len(entries)
  BY <1>2
<1> QED
  BY <1>2, <1>3, <1>4

\* Where the cursor can go in one step.
LEMMA CursorStep ==
    ASSUME TableInv, Next
    PROVE  /\ tokens' = tokens
           /\ pos' = pos \/ (pos' = pos + 1 /\ Token # "eof")
<1>1. TypeOK /\ Wanted
  BY DEF TableInv
<1>2. CASE Take
  BY <1>1, <1>2, WantHead, AskedNoClause DEF Take
<1>3. CASE OptionalRel
  BY <1>3 DEF OptionalRel, SkipsRel
<1>4. CASE TryClause
  <2>1. Token \in Clauses => Token # "eof"
    BY AskedNoClause
  <2>2. try \in 1 .. 3 /\ ClauseKinds[try] \in Clauses
    BY <1>1, <1>4 DEF TryClause, TypeOK, ClauseKinds, Clauses
  <2> QED
    BY <1>4, <2>1, <2>2 DEF TryClause, Consumes
<1>5. CASE ~Take /\ ~OptionalRel /\ ~TryClause
  BY <1>5 DEF Next, NoTable, BeginTable, OptionalFilter, Unexpected, BadInteger,
       EndTable, BeginEntry, EndEntry, NoCatch, EnterBody, Terminated, vars
<1> QED
  BY <1>2, <1>3, <1>4, <1>5

LEMMA CursorType ==
    ASSUME TableInv, Next
    PROVE  /\ tokens' \in Seq(Kinds)
           /\ pos' \in 1 .. (Len(tokens') + 1)
           /\ pos' \in {pos, pos + 1}
<1>1. TypeOK
  BY DEF TableInv
<1>2. Token # "eof" => pos + 1 \in 1 .. (Len(tokens) + 1)
  BY <1>1, Advance
<1> QED
  BY <1>1, <1>2, CursorStep DEF TypeOK

LEMMA WantStep ==
    ASSUME TableInv, Next
    PROVE  Wanted'
<1>1. TypeOK /\ Wanted
  BY DEF TableInv
<1>2. CASE Take \/ OptionalRel
  BY <1>1, <1>2, WantHead DEF Take, OptionalRel, Wanted
<1>3. CASE OptionalFilter
  <2>1. \A s, t \in Seq(Asked) : s \o t \in Seq(Asked)
    OBVIOUS
  <2>2. want' \in Seq(Asked)
    BY <1>1, <1>3, <2>1, WantHead, Pieces DEF OptionalFilter
  <2> QED
    BY <1>1, <1>3, <2>2, WantHead DEF OptionalFilter, Wanted
<1>4. CASE Unexpected \/ BadInteger
  BY <1>4, Pieces DEF Unexpected, BadInteger, Wanted
<1>5. CASE BeginTable \/ BeginEntry \/ TryClause
  BY <1>5, Pieces DEF BeginTable, BeginEntry, TryClause, Wanted
<1>6. CASE NoTable \/ EndTable \/ EndEntry \/ NoCatch \/ EnterBody \/ Terminated
  BY <1>1, <1>6 DEF NoTable, EndTable, EndEntry, NoCatch, EnterBody, Terminated,
       vars, Wanted
<1> QED
  BY <1>2, <1>3, <1>4, <1>5, <1>6 DEF Next

LEMMA BeginType ==
    ASSUME TableInv, pc = "clauses"
    PROVE  begin \in Nat /\ 1 <= begin /\ begin <= pos
<1>1. begin \in 1 .. pos
  BY DEF TableInv, EntryInv
<1> QED
  BY <1>1, InTypes

LEMMA EntriesStep ==
    ASSUME TableInv, Next
    PROVE  \/ entries' = entries
           \/ /\ EndEntry
              /\ begin \in Nat
              /\ [begin |-> begin, end |-> pos, clause |-> clause] \in EntryType
              /\ entries' \in Seq(EntryType)
<1>1. CASE EndEntry
  <2>1. begin \in Nat
    BY <1>1, InTypes, BeginType DEF EndEntry
  <2>2. [begin |-> begin, end |-> pos, clause |-> clause] \in EntryType
    BY <2>1, InTypes DEF EntryType
  <2>3. \A e \in EntryType : Append(entries, e) \in Seq(EntryType)
    BY InTypes
  <2> QED
    BY <1>1, <2>1, <2>2, <2>3 DEF EndEntry
<1>2. CASE ~EndEntry
  BY <1>2 DEF Next, NoTable, BeginTable, Take, OptionalRel, OptionalFilter,
       Unexpected, BadInteger, EndTable, BeginEntry, NoCatch, EnterBody,
       TryClause, Terminated, vars
<1> QED
  BY <1>1, <1>2

LEMMA ClauseType ==
    ASSUME TableInv, Next
    PROVE  /\ clause' \in [Clauses -> Nat \cup {None}]
           /\ begin' \in Nat \cup {None}
           /\ try' \in 0 .. 3
<1>1. /\ clause \in [Clauses -> Nat \cup {None}]
      /\ begin \in Nat \cup {None}
      /\ try \in 0 .. 3
      /\ pos \in Nat
  BY InTypes DEF TableInv, TypeOK
<1>2. CASE TryClause
  <2>1. try' \in 0 .. 3 /\ begin' = begin
    BY <1>1, <1>2 DEF TryClause
  <2>2. pos + 1 \in Nat
    BY <1>1
  <2>3. clause' \in [Clauses -> Nat \cup {None}]
    BY <1>1, <1>2, <2>2 DEF TryClause
  <2> QED
    BY <1>1, <2>1, <2>3
<1>3. CASE BeginEntry
  <2>1. Unset \in [Clauses -> Nat \cup {None}]
    BY DEF Unset
  <2>2. clause' = Unset /\ begin' = pos /\ try' = 0
    BY <1>3 DEF BeginEntry, FreshClauses
  <2>3. 0 \in 0 .. 3
    OBVIOUS
  <2> QED
    BY <1>1, <2>1, <2>2, <2>3
<1>4. CASE EnterBody
  <2>1. clause' = clause /\ begin' = begin /\ try' = 1
    BY <1>4 DEF EnterBody
  <2>2. 1 \in 0 .. 3
    OBVIOUS
  <2> QED
    BY <1>1, <2>1, <2>2
<1>5. CASE ~TryClause /\ ~BeginEntry /\ ~EnterBody
  <2>1. clause' = clause /\ begin' = begin /\ try' = try
    BY <1>5 DEF Next, NoTable, BeginTable, Take, OptionalRel, OptionalFilter,
         Unexpected, BadInteger, EndTable, EndEntry, NoCatch, Terminated, vars
  <2> QED
    BY <1>1, <2>1
<1> QED
  BY <1>2, <1>3, <1>4, <1>5

LEMMA TypeStep ==
    ASSUME TableInv, Next
    PROVE  TypeOK'
<1>1. pc' \in {"start", "entries", "clauses"} \cup Finished
  BY DEF TableInv, TypeOK, Finished, Next, NoTable, BeginTable, Take, OptionalRel,
       OptionalFilter, Unexpected, BadInteger, EndTable, BeginEntry, EndEntry,
       NoCatch, EnterBody, TryClause, Terminated, vars
<1>2. want' \in Seq(Kinds \cup Optional)
  BY WantStep, WantTyped DEF Wanted
<1>3. entries' \in Seq(EntryType)
  BY EntriesStep DEF TableInv, TypeOK
<1> QED
  BY <1>1, <1>2, <1>3, CursorType, ClauseType DEF TypeOK

----------------------------------------------------------------------------
(* The entry being read                                                    *)

\* A clause says of the tokens up to the cursor what it said before, when the
\* step eats none or another token than its keyword, or when it is set.
LEMMA ClauseKept ==
    ASSUME TableInv, Next, pc = "clauses", NEW c \in Clauses,
           begin' = begin, clause'[c] = clause[c],
           Token # c \/ pos' = pos \/ clause[c] # None
    PROVE  ClauseFaithful(c)'
<1>1. /\ tokens' = tokens /\ pos \in Nat /\ begin \in 1 .. pos
      /\ pos' \in {pos, pos + 1} /\ ClauseFaithful(c)
  BY CursorStep, CursorType DEF TableInv, TypeOK, EntryInv
<1>2. pos' = pos + 1 /\ Token # "eof" => tokens[pos] = Token /\ pos \in 1 .. Len(tokens)
  BY TokenType DEF TableInv
<1>3. Token # "eof" \/ pos' = pos
  BY CursorStep, <1>1
<1>4. ASSUME clause[c] = None
      PROVE  Seen(c)' = {}
  <2>1. Seen(c) = {}
    BY <1>1, <1>4 DEF ClauseFaithful
  <2> QED
    BY <1>1, <1>2, <1>3, <1>4, <2>1 DEF Seen
<1>5. ASSUME clause[c] # None
      PROVE  clause[c] \in Nat /\ clause[c] - 1 \in Seen(c)' /\ \A i \in Seen(c)' : clause[c] - 1 <= i
  <2>1. clause[c] - 1 \in Seen(c) /\ \A i \in Seen(c) : clause[c] - 1 <= i
    BY <1>1, <1>5 DEF ClauseFaithful
  <2>2. Seen(c) \subseteq Seen(c)' /\ Seen(c)' \subseteq Seen(c) \cup {pos}
    BY <1>1 DEF Seen
  <2>3. clause[c] - 1 <= pos
    BY <2>1, <1>1 DEF Seen
  <2>4. clause[c] \in Nat
    BY <1>5, InTypes
  <2>5. \A i \in Seen(c)' : clause[c] - 1 <= i
    BY <1>1, <2>1, <2>2, <2>3
  <2> QED
    BY <2>1, <2>2, <2>4, <2>5
<1>6. clause'[c] = clause[c]
  OBVIOUS
<1> QED
  BY <1>4, <1>5, <1>6 DEF ClauseFaithful

\* In the loop over clauses: the entry being read stays the same until it ends.
LEMMA StaysInEntry ==
    ASSUME TableInv, Next, pc' = "clauses"
    PROVE  \/ BeginEntry
           \/ /\ pc = "clauses" /\ begin' = begin /\ entries' = entries
              /\ \/ TryClause
                 \/ /\ clause' = clause
                    /\ pos' = pos \/ Token \notin Clauses
<1>1. CASE Take
  <2>1. Token \notin Clauses
    BY <1>1, WantHead, AskedNoClause DEF Take, TableInv
  <2> QED
    BY <1>1, <2>1 DEF Take
<1>2. CASE OptionalRel \/ OptionalFilter
  <2>1. pos' = pos \/ Token \in {"try_rel", "where"}
    BY <1>2 DEF OptionalRel, OptionalFilter, SkipsRel
  <2> QED
    BY <1>2, <2>1 DEF OptionalRel, OptionalFilter, Clauses
<1>3. CASE ~Take /\ ~OptionalRel /\ ~OptionalFilter
  BY <1>3 DEF Next, NoTable, BeginTable, Unexpected, BadInteger, EndTable,
       EndEntry, NoCatch, EnterBody, TryClause, Terminated, Finished, vars
<1> QED
  BY <1>1, <1>2, <1>3

LEMMA ClauseStep ==
    ASSUME TableInv, TryClause, Next, NEW c \in Clauses
    PROVE  ClauseFaithful(c)'
<1>1. /\ pc = "clauses" /\ begin' = begin /\ tokens' = tokens
      /\ clause \in [Clauses -> Nat \cup {None}] /\ pos \in Nat
  BY InTypes DEF TryClause
<1> DEFINE d == ClauseKinds[try]
<1>2. CASE c = d /\ Sets(c)
  <2>1. clause[c] = None /\ Token = c
    BY <1>2 DEF Sets
  <2>2. pos' = pos + 1 /\ clause' = [clause EXCEPT ![c] = pos + 1]
    BY <1>2, <2>1 DEF TryClause, Consumes
  <2>3. clause'[c] = pos + 1
    BY <1>1, <2>2
  <2>4. Seen(c) = {}
    BY <1>1, <2>1 DEF TableInv, EntryInv, ClauseFaithful
  <2>5. tokens[pos] = c /\ begin \in 1 .. pos
    BY <1>1, <2>1, TokenType, AskedNoClause DEF TableInv, EntryInv
  <2>6. Seen(c)' = {pos}
    BY <1>1, <2>2, <2>4, <2>5 DEF Seen
  <2>7. clause'[c] - 1 = pos /\ clause'[c] # None
    BY <1>1, <2>3, NoneAssumption
  <2> QED
    BY <1>1, <2>6, <2>7 DEF ClauseFaithful
<1>3. CASE ~(c = d /\ Sets(c))
  <2>1. clause'[c] = clause[c]
    BY <1>1, <1>3 DEF TryClause
  <2>2. Token # c \/ pos' = pos \/ clause[c] # None
    BY <1>3 DEF TryClause, Sets, Consumes
  <2> QED
    BY <1>1, <2>1, <2>2, ClauseKept
<1> QED
  BY <1>2, <1>3

\* A new entry: no token of it is read.
LEMMA FreshEntry ==
    ASSUME TableInv, BeginEntry, NEW c \in Clauses
    PROVE  ClauseFaithful(c)'
<1>1. clause' = Unset /\ begin' = pos /\ pos' = pos /\ pos \in Nat
  BY InTypes DEF BeginEntry, FreshClauses
<1>2. clause'[c] = None /\ Seen(c)' = {}
  BY <1>1 DEF Unset, Seen
<1> QED
  BY <1>2 DEF ClauseFaithful

LEMMA EntriesPc ==
    ASSUME TableInv, Next, pc' = "entries"
    PROVE  \/ BeginTable
           \/ EndEntry
           \/ pc = "entries" /\ entries' = entries
BY DEF Next, NoTable, BeginTable, Take, OptionalRel, OptionalFilter, Unexpected,
     BadInteger, EndTable, BeginEntry, EndEntry, NoCatch, EnterBody, TryClause,
     Terminated, Finished, vars

\* The entry that ends is behind the cursor.
LEMMA LastEnded ==
    ASSUME TableInv, EndEntry
    PROVE  Behind(pos)'
<1>1. /\ entries' = Append(entries, [begin |-> begin, end |-> pos, clause |-> clause])
      /\ pos' = pos + 1 /\ pos \in Nat
  BY InTypes DEF EndEntry
<1>2. /\ entries'[Len(entries')] = [begin |-> begin, end |-> pos, clause |-> clause]
  BY <1>1, InTypes
<1> QED
  BY <1>1, <1>2 DEF Behind

LEMMA LastType ==
    ASSUME TableInv, entries # <<>>
    PROVE  entries[Len(entries)].end \in Nat
<1>1. entries[Len(entries)] \in EntryType
  BY InTypes
<1> QED
  BY <1>1 DEF EntryType

LEMMA EntryStep ==
    ASSUME TableInv, Next
    PROVE  EntryInv'
<1>1. ASSUME pc' = "start" PROVE entries' = <<>>
  BY <1>1 DEF TableInv, EntryInv, Next, NoTable, BeginTable, Take, OptionalRel,
       OptionalFilter, Unexpected, BadInteger, EndTable, BeginEntry, EndEntry,
       NoCatch, EnterBody, TryClause, Terminated, Finished, vars
<1>2. ASSUME pc' = "entries" PROVE Behind(pos)'
  <2>1. CASE BeginTable
    BY <2>1 DEF BeginTable, TableInv, EntryInv, Behind
  <2>2. CASE EndEntry
    BY <2>2, LastEnded
  <2>3. CASE pc = "entries" /\ entries' = entries
    <3>1. Behind(pos) /\ pos' \in {pos, pos + 1} /\ pos \in Nat
      BY <2>3, CursorType, InTypes DEF TableInv, EntryInv
    <3>2. entries # <<>> => entries[Len(entries)].end \in Nat
      BY InTypes, LastType
    <3> QED
      BY <2>3, <3>1, <3>2 DEF Behind
  <2> QED
    BY <1>2, <2>1, <2>2, <2>3, EntriesPc
<1>3. ASSUME pc' = "clauses"
      PROVE  /\ begin' \in 1 .. pos' /\ Behind(begin)'
             /\ \A c \in Clauses : ClauseFaithful(c)'
  <2>1. CASE BeginEntry
    <3>1. /\ begin' = pos /\ pos' = pos /\ entries' = entries /\ Behind(pos)
          /\ pos \in Nat /\ 1 <= pos
      <4>1. pc = "entries" /\ begin' = pos /\ pos' = pos /\ entries' = entries
        BY <2>1 DEF BeginEntry
      <4>2. Behind(pos)
        BY <4>1 DEF TableInv, EntryInv
      <4> QED
        BY <4>1, <4>2, InTypes
    <3> QED
      BY <2>1, <3>1, FreshEntry DEF Behind
  <2>2. CASE pc = "clauses" /\ begin' = begin /\ entries' = entries
    <3>1. begin \in 1 .. pos /\ pos \in Nat /\ pos' \in {pos, pos + 1} /\ Behind(begin)
      BY <2>2, CursorType, InTypes DEF TableInv, EntryInv
    <3>2. begin' \in 1 .. pos' /\ Behind(begin)'
      BY <2>2, <3>1 DEF Behind
    <3>3. CASE TryClause
      BY <3>2, <3>3, ClauseStep
    <3>4. CASE clause' = clause /\ (pos' = pos \/ Token \notin Clauses)
      BY <2>2, <3>2, <3>4, ClauseKept
    <3> QED
      BY <1>3, <2>2, <3>3, <3>4, StaysInEntry, <3>2, FreshEntry
  <2> QED
    BY <1>3, <2>1, <2>2, StaysInEntry
<1> QED
  BY <1>1, <1>2, <1>3 DEF EntryInv

----------------------------------------------------------------------------
(* The entries read                                                        *)

\* Whether an entry is faithful depends on the tokens only.
LEMMA FaithfulKept ==
    ASSUME tokens' = tokens
    PROVE  \A f : EntryFaithful(f)' <=> EntryFaithful(f)
<1> TAKE f
<1>1. \A c : Keyword(f, c)' = Keyword(f, c)
  BY DEF Keyword
<1> QED
  BY <1>1 DEF EntryFaithful

LEMMA FaithfulStep ==
    ASSUME TableInv, Next
    PROVE  EntriesFaithful'
<1>1. tokens' = tokens
  BY CursorStep
<1>2. CASE entries' = entries
  <2>1. EntriesFaithful
    BY DEF TableInv
  <2>2. \A f : EntryFaithful(f)' <=> EntryFaithful(f)
    BY <1>1, FaithfulKept
  <2> QED
    BY <1>2, <2>1, <2>2 DEF EntriesFaithful
<1>3. CASE EndEntry
  <2> DEFINE e == [begin |-> begin, end |-> pos, clause |-> clause]
  <2>1. /\ entries' = Append(entries, e) /\ entries \in Seq(EntryType)
        /\ Len(entries) \in Nat /\ DOMAIN entries = 1 .. Len(entries)
    BY <1>3, InTypes DEF EndEntry
  <2>2. /\ DOMAIN entries' = 1 .. (Len(entries) + 1)
        /\ entries'[Len(entries) + 1] = e
        /\ \A n \in 1 .. Len(entries) : entries'[n] = entries[n]
    BY <2>1
  <2>3. pc = "clauses" /\ Token = "}"
    BY <1>3 DEF EndEntry
  <2>4. tokens[pos] = "}" /\ pos \in Nat
    BY <2>3, TokenType, InTypes DEF TableInv
  <2>5. \A c \in Clauses : Keyword(e, c) = Seen(c)
    <3> TAKE c \in Clauses
    <3>1. tokens[pos] # c
      BY <2>4 DEF Clauses
    <3>2. Keyword(e, c) = {i \in begin .. pos : tokens[i] = c}
      BY DEF Keyword
    <3>3. begin \in Nat /\ begin <= pos /\ pos \in Nat
      BY <2>3, <2>4, BeginType
    <3>4. \A i \in begin .. pos : i \in begin .. (pos - 1) \/ i = pos
      BY <3>3
    <3>5. \A i \in begin .. (pos - 1) : i \in begin .. pos
      BY <3>3
    <3> QED
      BY <3>1, <3>2, <3>4, <3>5 DEF Seen
  <2>6. \A c \in Clauses : ClauseFaithful(c)
    BY <2>3 DEF TableInv, EntryInv
  <2>7. EntryFaithful(e)
    <3>1. e.clause = clause /\ e.end = pos
      OBVIOUS
    <3> HIDE DEF e
    <3> QED
      BY <2>4, <2>5, <2>6, <3>1 DEF ClauseFaithful, EntryFaithful
  <2>8. entries # <<>> => entries[Len(entries)].end < begin
    BY <2>3 DEF TableInv, EntryInv, Behind
  <2>9. \A f : EntryFaithful(f)' <=> EntryFaithful(f)
    BY <1>1, FaithfulKept
  <2>10. e.begin = begin
    OBVIOUS
  <2> HIDE DEF e
  <2> SUFFICES ASSUME NEW n \in DOMAIN entries'
      PROVE  /\ EntryFaithful(entries'[n])
             /\ n > 1 => entries'[n - 1].end < entries'[n].begin
    BY <2>9 DEF EntriesFaithful
  <2>11. CASE n = Len(entries) + 1
    <3>1. entries'[n] = e
      BY <2>2, <2>11
    <3>2. n > 1 => n - 1 = Len(entries) /\ entries # <<>>
                     /\ Len(entries) \in 1 .. Len(entries)
      BY <2>1, <2>11
    <3>3. n > 1 => entries'[n - 1] = entries[Len(entries)]
      BY <2>2, <3>2
    <3> QED
      BY <2>7, <2>8, <2>10, <3>1, <3>2, <3>3
  <2>12. CASE n \in 1 .. Len(entries)
    <3>1. /\ entries'[n] = entries[n]
          /\ n > 1 => entries'[n - 1] = entries[n - 1]
      BY <2>1, <2>2, <2>12
    <3> QED
      BY <2>1, <2>12, <3>1 DEF TableInv, EntriesFaithful
  <2> QED
    BY <2>1, <2>2, <2>11, <2>12
<1> QED
  BY <1>2, <1>3, EntriesStep

----------------------------------------------------------------------------
(* The theorems                                                            *)

LEMMA InitInv == ASSUME Init PROVE TableInv
<1>1. TypeOK
  BY InitType
<1>2. Wanted
  BY Pieces DEF Init, Wanted
<1>3. EntryInv /\ EntriesFaithful
  BY DEF Init, EntryInv, EntriesFaithful
<1> QED
  BY <1>1, <1>2, <1>3 DEF TableInv

LEMMA StepInv == ASSUME TableInv, [Next]_vars PROVE TableInv'
<1>1. CASE Next
  BY <1>1, TypeStep, WantStep, EntryStep, FaithfulStep DEF TableInv
<1>2. CASE UNCHANGED vars
  <2>1. UNCHANGED <<tokens, pos, pc, want, try, begin, clause, entries>>
    BY <1>2 DEF vars
  <2>2. TypeOK' /\ Wanted'
    BY <2>1 DEF TableInv, TypeOK, Wanted
  <2>3. EntriesFaithful'
    BY <2>1, FaithfulKept DEF TableInv, EntriesFaithful
  <2>4. EntryInv'
    BY <2>1 DEF TableInv, EntryInv, Behind, ClauseFaithful, Seen
  <2> QED
    BY <2>2, <2>3, <2>4 DEF TableInv
<1> QED
  BY <1>1, <1>2

LEMMA TableInvariant == Spec => []TableInv
<1>1. Init => TableInv
  BY InitInv
<1>2. TableInv /\ [Next]_vars => TableInv'
  BY StepInv
<1> QED
  BY <1>1, <1>2, PTL DEF Spec

\* The variables keep their types, and the cursor never passes the end of the
\* tokens (method.rs:188-271).
THEOREM TypeCorrect == Spec => []TypeOK
<1>1. TableInv => TypeOK
  BY DEF TableInv
<1> QED
  BY <1>1, TableInvariant, PTL

\* What the table of a method says is what is written (method.rs:239-266).
THEOREM TableFaithful == Spec => []EntriesFaithful
<1>1. TableInv => EntriesFaithful
  BY DEF TableInv
<1> QED
  BY <1>1, TableInvariant, PTL
=============================================================================
