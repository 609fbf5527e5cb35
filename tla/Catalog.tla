------------------------------ MODULE Catalog ------------------------------
(***************************************************************************)
(* The data the compiler's interface deals in: type definitions, source    *)
(* files and query options, and the calls a host makes.                    *)
(***************************************************************************)
EXTENDS Integers, Sequences, FiniteSets

CONSTANTS
    Names,       \* names of types
    MaxIndex,    \* u32::MAX
    None         \* Rust's None

ASSUME CatalogAssumption == MaxIndex \in Nat /\ None \notin Nat

Index == 0 .. MaxIndex

\* A type definition: its index and the types its members refer to by name.
Type == [name : Names, index : Index, refs : Seq(Names)]

\* What reading and parsing a file does: it gives types with the indexes
\* written in the file, it fails (no such file, not UTF-8, a syntax error), or
\* the parser panics.  Types before the failure have been parsed and discarded.
Source == [result : {"ok", "error", "panic"}, types : Seq(Type)]

\* A query: one index, or the names the filters on generic count, name and
\* implemented interface let through together; `foreign` when it asks for
\* another language or assembly.
Options == [foreign : BOOLEAN, index : Index \cup {None},
            names : SUBSET Names, exact : BOOLEAN]

Op(tag)         == [tag |-> tag]
SetLastIndex(n) == [tag |-> "set_last_index", index |-> n]
AddFile(src)    == [tag |-> "add_file", source |-> src]
FinishLoad      == Op("finish_load")
Query(options)  == [tag |-> "query", options |-> options]
Build           == Op("build")

Operation == [tag : {"set_last_index"}, index : Index]
               \cup [tag : {"add_file"}, source : Source]
               \cup [tag : {"query"}, options : Options]
               \cup [tag : {"finish_load", "build"}]

\* Results of calls.
Answer(tag, types, index) == [tag |-> tag, types |-> types, index |-> index]
NoAnswer == Answer("none", <<>>, 0)
Done     == Answer("ok", <<>>, 0)
Failed   == Answer("error", <<>>, 0)
Panicked == Answer("panic", <<>>, 0)
Found(types) == Answer("ok", types, 0)
LastIndexIs(n) == Answer("ok", <<>>, n)

MatchesBoth(t, options) ==
    t.name \in options.names /\ (options.index = None \/ t.index = options.index)

\* `if let Some(index) = options.index` returns before the other filters.
Matches(t, options) ==
    IF options.index # None THEN t.index = options.index
                            ELSE t.name \in options.names

\* `ty.set_index(ty.index() + last_index)`
Rebase(ts, base) ==
    [i \in DOMAIN ts |-> [ts[i] EXCEPT !.index = @ + base]]

Overflows(ts, base) == \E i \in DOMAIN ts : ts[i].index + base > MaxIndex

\* How many times each element occurs.
BagOf(s) == [x \in {s[i] : i \in DOMAIN s} |->
                Cardinality({i \in DOMAIN s : s[i] = x})]
============================================================================
