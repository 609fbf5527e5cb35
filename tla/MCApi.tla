------------------------------- MODULE MCApi -------------------------------
(***************************************************************************)
(* Loading and querying: a thread that sets the last index, then makes two *)
(* calls of any kind, next to a thread that makes one.  The files: two     *)
(* with one type each, in and out of order, one whose two types have the   *)
(* index of another file's and overflow on a higher base, one that fails   *)
(* and one that makes the parser panic.                                    *)
(*                                                                         *)
(* Building while others add: a thread that loads two files that refer to  *)
(* each other's types and builds, next to a thread that makes two calls.   *)
(* Its files tile the indexes, leave a gap, repeat an index, or repeat a   *)
(* name.                                                                   *)
(***************************************************************************)
EXTENDS CompilerApi, TLC

T(n, i, r) == [name |-> n, index |-> i, refs |-> r]
Src(r, ts) == [result |-> r, types |-> ts]
Ok(ts)     == Src("ok", ts)

----------------------------------------------------------------------------
Files == {Ok(<<T("A", 1, <<>>)>>), Ok(<<T("B", 0, <<>>)>>),
          Ok(<<T("A", 4, <<>>), T("C", 1, <<>>)>>),
          Src("error", <<T("A", 0, <<>>)>>), Src("panic", <<>>)}

Opt(f, i, ns, e) == [foreign |-> f, index |-> i, names |-> ns, exact |-> e]

Queries == {Opt(FALSE, None, {"A", "C"}, TRUE), Opt(FALSE, None, {"A", "B"}, FALSE),
            Opt(FALSE, 1, {"B"}, TRUE), Opt(FALSE, 1, {"C"}, FALSE),
            Opt(TRUE, None, {"A"}, TRUE)}

Ops == {AddFile(s) : s \in Files} \cup {Query(o) : o \in Queries}
         \cup {FinishLoad, SetLastIndex(1)}

Loading == {("p" :> <<SetLastIndex(0), a, b>>) @@ ("q" :> <<c>>) :
               a \in Ops, b \in Ops, c \in Ops}

----------------------------------------------------------------------------
A == Ok(<<T("A", 1, <<"B", "A">>)>>)
B == Ok(<<T("B", 0, <<"A">>)>>)
Others == {Ok(<<T("C", 2, <<"B">>)>>), Ok(<<T("C", 3, <<>>)>>),
           Ok(<<T("A", 0, <<>>)>>), Ok(<<T("C", 2, <<"D">>), T("D", 3, <<>>)>>)}

Mine == {<<SetLastIndex(0), AddFile(A), AddFile(B), Build>>,
         <<AddFile(A), Build>>, <<SetLastIndex(0), AddFile(B), Build>>}
Theirs == {<<x, y>> : x \in {AddFile(s) : s \in Others} \cup {SetLastIndex(1)},
                      y \in {AddFile(s) : s \in Others} \cup {Build, FinishLoad}}

Building == {("p" :> a) @@ ("q" :> b) : a \in Mine, b \in Theirs}

MCScripts == Loading \cup Building
============================================================================
