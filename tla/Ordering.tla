------------------------------ MODULE Ordering ------------------------------
(***************************************************************************)
(* `sort_by_key(|x| x.index)`, Rust's stable sort, as the file and every   *)
(* type use it.  Stated by ranks rather than by an algorithm: the standard *)
(* library's merge sort is not this repository's.                          *)
(***************************************************************************)
EXTENDS Integers, Sequences, FiniteSets

\* In a stable sort, element i comes before element j iff its key is smaller,
\* or the keys are equal and it stood before.
Precedes(s, i, j) ==
    \/ s[i].index < s[j].index
    \/ s[i].index = s[j].index /\ i < j

Rank(s, i) == 1 + Cardinality({j \in DOMAIN s : Precedes(s, j, i)})

SortByIndex(s) ==
    [p \in 1 .. Len(s) |-> s[CHOOSE i \in DOMAIN s : Rank(s, i) = p]]

\* The elements at the places P of s, in the order they have there.
Keep(s, P) ==
    [k \in 1 .. Cardinality(P) |->
        s[CHOOSE i \in P : Cardinality({j \in P : j <= i}) = k]]

SortedByIndex(s) ==
    \A i, j \in DOMAIN s : i < j => s[i].index <= s[j].index
============================================================================
