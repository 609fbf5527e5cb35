-------------------------- MODULE MCExceptionTable --------------------------
(***************************************************************************)
(* Every table of one entry whose braces hold up to four pieces (clauses,  *)
(* bare keywords, a stray token, a closing brace, the start of another     *)
(* entry), a table cut off anywhere in its first entry, and every sequence *)
(* of up to two pieces where the table itself should start.                *)
(***************************************************************************)
EXTENDS ExceptionTable, SequencesExt

Begin == <<"exception_table", "{">>
Entry == <<"int", "..", "int", "type", "=>", "{">>
Filtered == <<"int", "..", "try_rel", "int", "type", "where", "method", "in",
              "type", "=>", "{">>
Range1 == <<"int", "..", "try_rel", "int">>

Pieces == {<<"catch">> \o Range1, <<"finally">> \o Range1, <<"fault">> \o Range1,
           <<"catch">>, <<"finally">>, <<"other">>, <<"}">>, Entry}

UpTo(n, S) == UNION {[1 .. k -> S] : k \in 0 .. n}

Headers == {Entry, Filtered, <<"int", "..", "bad_int">>, <<"int", "type">>,
            <<"bad_int">>, <<"other">>, <<"}">>}

MCInputs ==
    {Begin \o Entry \o FlattenSeq(s) : s \in UpTo(4, Pieces)} \cup
    {Begin \o h \o <<"catch">> \o Range1 \o <<"}">> : h \in Headers} \cup
    {Begin \o SubSeq(Filtered, 1, k) : k \in 0 .. Len(Filtered)} \cup
    {FlattenSeq(s) : s \in UpTo(2, {Begin, <<"exception_table">>, <<"}">>, Entry})}
============================================================================
