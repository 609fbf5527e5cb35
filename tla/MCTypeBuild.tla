---------------------------- MODULE MCTypeBuild ----------------------------
(***************************************************************************)
(* Slots: every sorted class of up to three methods over four indexes,     *)
(* with every parent, alone or followed by a second type, without `impl`   *)
(* clauses.                                                                *)
(*                                                                         *)
(* Interface maps: every class of up to three methods, each in its slot,   *)
(* with every choice of `impl` clauses: by name, by index, twice the same, *)
(* naming nothing, with type arguments, on two interfaces, one of which    *)
(* has no token.                                                           *)
(*                                                                         *)
(* Both: two methods with clauses, overriding or not, in or out of their   *)
(* slots.                                                                  *)
(***************************************************************************)
EXTENDS TypeBuild, Ordering

MCInterfaces == {"I", "K", "Unknown"}

Named(n, i, s) == [name |-> n, id |-> i, static |-> s]

\* "a" is also the name of a static method, which an `impl` never means.
MCInterfaceMethods ==
    [i \in MCInterfaces |->
        IF i = "Unknown" THEN <<>>
        ELSE <<Named("a", 2, TRUE), Named("a", 0, FALSE), Named("b", 1, FALSE)>>]

Clause(i, n, k, g) == [iface |-> i, name |-> n, index |-> k, generic |-> g]

MCClauses == {Clause("I", "a", 0, FALSE), Clause("I", "b", 0, FALSE),
              Clause("I", ByIndex, 0, FALSE), Clause("I", ByIndex, 2, FALSE),
              Clause("I", "a", 0, TRUE), Clause("K", "a", 0, FALSE),
              Clause("Unknown", "a", 0, FALSE),
              Clause("Unknown", ByIndex, 0, FALSE), NoImpl}

NoParent == [tag |-> "none", methods |-> 0]
Known(n) == [tag |-> "known", methods |-> n]
Parents == {NoParent, [tag |-> "missing", methods |-> 0],
            [tag |-> "opaque", methods |-> 0]} \cup {Known(n) : n \in {0, 1, 3, 4}}

Type(k, i, p, ms) == [kind |-> k, index |-> i, parent |-> p, methods |-> ms]
Class(i, ms)      == Type("class", i, NoParent, ms)

----------------------------------------------------------------------------
SomeMethod == [index : 0 .. 3, overrides : BOOLEAN, impl : {NoImpl}]
Sorted(n) == {SortByIndex(ms) : ms \in [1 .. n -> SomeMethod]}

Classes(i, mss) == {Type("class", i, p, ms) : p \in Parents, ms \in mss}
Others(i, mss) ==
    {Type(k, i, NoParent, ms) : k \in {"struct", "interface"}, ms \in mss}

Singles == {<<t>> : t \in Classes(1, Sorted(3)) \cup Others(1, Sorted(2))}

\* What the first type leaves behind for the second: a class with an override.
\* The second is in order, or (index 4) out of order.
Firsts == {t \in Classes(1, Sorted(2)) :
              /\ t.parent.tag = "none" \/ t.parent.methods = 3
              /\ \E j \in 1 .. 2 : t.methods[j].overrides}
Seconds == {t \in Classes(2, Sorted(1)) \cup Others(2, Sorted(1))
                  \cup Classes(4, Sorted(0)) :
              t.parent.tag = "none" \/ t.parent.methods = 3}

SlotFiles == Singles \cup {<<a, b>> : a \in Firsts, b \in Seconds} \cup {<<>>}

----------------------------------------------------------------------------
ClausesOf(n) == [1 .. n -> MCClauses]
InSlots(c) ==
    [j \in DOMAIN c |-> [index |-> j - 1, overrides |-> FALSE, impl |-> c[j]]]

ClaimFiles ==
    {<<Class(1, InSlots(c))>> : c \in ClausesOf(3)} \cup
    {<<Type(k, 1, NoParent, InSlots(c)), Class(2, InSlots(d))>> :
        k \in {"class", "struct"}, c \in ClausesOf(1), d \in ClausesOf(1)}

----------------------------------------------------------------------------
Mixed == [index : 0 .. 1, overrides : BOOLEAN,
          impl : {Clause("I", "a", 0, FALSE), Clause("K", "a", 0, FALSE), NoImpl}]
MixedFiles ==
    {<<Type("class", 1, p, SortByIndex(ms))>> :
        p \in {NoParent, Known(1)}, ms \in [1 .. 2 -> Mixed]}

MCFiles == UNION {SlotFiles, ClaimFiles, MixedFiles}
============================================================================
