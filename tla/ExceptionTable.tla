--------------------------- MODULE ExceptionTable ---------------------------
(***************************************************************************)
(* parse_exception_table: the table of a method's protected regions, read  *)
(* from the token stream.  A token is its kind; type and method references *)
(* are one token each ("type", "method"), "bad_int" is an integer whose    *)
(* value get_value cannot compute.  Locations are kept as the positions of *)
(* their first tokens.                                                     *)
(*                                                                         *)
(* `stream.expect(k)` takes the next token if it is k and fails without    *)
(* taking it otherwise.                                                    *)
(***************************************************************************)
EXTENDS Integers, Sequences

CONSTANTS Inputs, None

Kinds == {"exception_table", "{", "}", "int", "bad_int", "try_rel", "..", "type",
          "where", "method", "in", "=>", "catch", "finally", "fault", "other"}

ASSUME InputAssumption == Inputs \subseteq Seq(Kinds)
ASSUME NoneAssumption == None \notin Nat

ClauseKinds == <<"catch", "finally", "fault">>
Clauses == {"catch", "finally", "fault"}

VARIABLES
    tokens,
    pos,      \* the next token
    pc,
    want,     \* what the straight-line code at this point still expects
    try,      \* in the loop over clauses: 0 at its test, else the alternative
    begin,    \* position of the entry's `try_begin`
    clause,   \* `catch`, `finally` and `fault`: positions, None if unset
    entries

vars == <<tokens, pos, pc, want, try, begin, clause, entries>>

Finished == {"done", "error", "panic"}

Token == IF pos <= Len(tokens) THEN tokens[pos] ELSE "eof"

Unset == [c \in Clauses |-> None]

Init == /\ tokens \in Inputs
        /\ pos = 1 /\ pc = "start" /\ want = <<>> /\ try = 0
        /\ begin = None /\ clause = Unset /\ entries = <<>>

\* `if stream.expect(Keyword::ExceptionTable).is_err() { return Ok(entries) }`
NoTable ==
    /\ pc = "start" /\ Token # "exception_table"
    /\ pc' = "done"
    /\ UNCHANGED <<tokens, pos, want, try, begin, clause, entries>>

BeginTable ==
    /\ pc = "start" /\ Token = "exception_table"
    /\ pc' = "entries"
    /\ pos' = pos + 1
    /\ want' = <<"{">>
    /\ UNCHANGED <<tokens, try, begin, clause, entries>>

----------------------------------------------------------------------------
(* Straight-line parts                                                     *)

Location == <<"rel?", "int">>
TwoLocations == Location \o <<"..">> \o Location
EntryHeader == <<"int", "..">> \o Location \o <<"type", "filter?", "=>", "{">>

\* An item that is there.
Take ==
    /\ want # <<>> /\ Token = Head(want)
    /\ pos' = pos + 1
    /\ want' = Tail(want)
    /\ UNCHANGED <<tokens, pc, try, begin, clause, entries>>

SkipsAnything == pos + 1
\* `stream.expect(Keyword::TryRel).is_ok()`
SkipsRel == IF Token = "try_rel" THEN pos + 1 ELSE pos

OptionalRel ==
    /\ want # <<>> /\ Head(want) = "rel?"
    /\ pos' = SkipsRel
    /\ want' = Tail(want)
    /\ UNCHANGED <<tokens, pc, try, begin, clause, entries>>

\* `if stream.expect(Keyword::Where).is_ok()`: a method in a type.
OptionalFilter ==
    /\ want # <<>> /\ Head(want) = "filter?"
    /\ pos' = IF Token = "where" THEN pos + 1 ELSE pos
    /\ want' = (IF Token = "where" THEN <<"method", "in", "type">> ELSE <<>>)
                  \o Tail(want)
    /\ UNCHANGED <<tokens, pc, try, begin, clause, entries>>

Optional == {"rel?", "filter?"}

Unexpected ==
    /\ want # <<>> /\ Head(want) \notin Optional
    /\ Token # Head(want)
    /\ ~(Head(want) = "int" /\ Token = "bad_int")
    /\ pc' = "error" /\ want' = <<>>
    /\ UNCHANGED <<tokens, pos, try, begin, clause, entries>>

\* `get_value(..).unwrap()`
BadInteger ==
    /\ want # <<>> /\ Head(want) = "int" /\ Token = "bad_int"
    /\ pc' = "panic" /\ want' = <<>>
    /\ UNCHANGED <<tokens, pos, try, begin, clause, entries>>

----------------------------------------------------------------------------
(* The loop over entries                                                   *)

EndTable ==
    /\ pc = "entries" /\ want = <<>> /\ Token = "}"
    /\ pos' = pos + 1
    /\ pc' = "done"
    /\ UNCHANGED <<tokens, want, try, begin, clause, entries>>

KeptClauses == clause
FreshClauses == Unset

BeginEntry ==
    /\ pc = "entries" /\ want = <<>> /\ Token # "}"
    /\ pc' = "clauses"
    /\ want' = EntryHeader
    /\ try' = 0
    /\ begin' = pos
    /\ clause' = FreshClauses
    /\ UNCHANGED <<tokens, pos, entries>>

----------------------------------------------------------------------------
(* The loop over clauses                                                   *)

\* `let Some(catch) = catch else { return Err(..) }`
EntryComplete == clause["catch"] # None

EndEntry ==
    /\ pc = "clauses" /\ want = <<>> /\ try = 0 /\ Token = "}"
    /\ EntryComplete
    /\ pos' = pos + 1
    /\ entries' = Append(entries, [begin |-> begin, end |-> pos, clause |-> clause])
    /\ pc' = "entries"
    /\ UNCHANGED <<tokens, want, try, begin, clause>>

NoCatch ==
    /\ pc = "clauses" /\ want = <<>> /\ try = 0 /\ Token = "}"
    /\ ~EntryComplete
    /\ pos' = pos + 1
    /\ pc' = "error"
    /\ UNCHANGED <<tokens, want, try, begin, clause, entries>>

EnterBody ==
    /\ pc = "clauses" /\ want = <<>> /\ try = 0 /\ Token # "}"
    /\ try' = 1
    /\ UNCHANGED <<tokens, pos, pc, want, begin, clause, entries>>

ConsumesUnlessSet(c) == Token = c /\ clause[c] = None
\* `stream.expect(c).is_ok() && x.is_none()`: the keyword is gone even when
\* the second conjunct fails.
Consumes(c) == Token = c

AlwaysSets(c) == Token = c
\* The alternative is taken.
Sets(c) == Token = c /\ clause[c] = None

\* One `if` of the chain.  Past the last one the body ends: there is no else.
TryClause ==
    /\ pc = "clauses" /\ want = <<>> /\ try > 0
    /\ LET c == ClauseKinds[try] IN
       /\ pos' = IF Consumes(c) THEN pos + 1 ELSE pos
       /\ clause' = IF Sets(c) THEN [clause EXCEPT ![c] = pos + 1] ELSE clause
       /\ want' = IF Sets(c) THEN TwoLocations ELSE <<>>
       /\ try' = IF Sets(c) \/ try = 3 THEN 0 ELSE try + 1
    /\ UNCHANGED <<tokens, pc, begin, entries>>

Terminated == pc \in Finished /\ UNCHANGED vars

Next == \/ NoTable \/ BeginTable \/ Take \/ OptionalRel \/ OptionalFilter
        \/ Unexpected \/ BadInteger \/ EndTable \/ BeginEntry
        \/ EndEntry \/ NoCatch \/ EnterBody \/ TryClause \/ Terminated

Spec == Init /\ [][Next]_vars

\* One thread, no waiting: the parser takes its next step.
FairSpec == Spec /\ WF_vars(Next)

----------------------------------------------------------------------------
(* Properties                                                              *)

EntryType == [begin : Nat, end : Nat, clause : [Clauses -> Nat \cup {None}]]

\* The types of the variables; the cursor never passes the end of the tokens
\* (method.rs:188-271).
TypeOK ==
    /\ tokens \in Seq(Kinds)
    /\ pos \in 1 .. (Len(tokens) + 1)
    /\ pc \in {"start", "entries", "clauses"} \cup Finished
    /\ want \in Seq(Kinds \cup Optional)
    /\ try \in 0 .. 3
    /\ begin \in Nat \cup {None}
    /\ clause \in [Clauses -> Nat \cup {None}]
    /\ entries \in Seq(EntryType)

\* The tokens of an entry that are the keyword c.
Keyword(e, c) == {i \in e.begin .. e.end : tokens[i] = c}

\* An entry has the first clause of each kind in its braces, and none that is
\* not there.
EntryFaithful(e) ==
    /\ \A c \in Clauses :
          IF e.clause[c] = None
          THEN Keyword(e, c) = {}
          ELSE /\ e.clause[c] - 1 \in Keyword(e, c)
               /\ \A i \in Keyword(e, c) : e.clause[c] - 1 <= i
    /\ tokens[e.end] = "}"

\* What the table of a method says is what is written: each entry is faithful
\* to its braces, and has no clause of the entry before it
\* (method.rs:239-266).
EntriesFaithful ==
    \A n \in DOMAIN entries :
        /\ EntryFaithful(entries[n])
        /\ n > 1 => entries[n - 1].end < entries[n].begin

\* Where the loop over clauses makes no progress: the token ends nothing and
\* starts no clause.
Stuck == /\ pc = "clauses" /\ want = <<>>
         /\ Token \notin Clauses \cup {"}"}

\* The parser comes to an end on every input, unless it meets such a token:
\* no other loop of it can run for ever (method.rs:211, 243-251).
EndsUnlessStuck == <>(pc \in Finished \/ Stuck)

\* "No catch in an exception table" (method.rs:254): an entry without a catch
\* clause makes the parser return an error.
MissingCatchIsReported ==
    (pc = "clauses" /\ want = <<>> /\ \A i \in DOMAIN tokens : tokens[i] # "catch")
        ~> pc = "error"
============================================================================
