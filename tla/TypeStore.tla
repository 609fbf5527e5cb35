----------------------------- MODULE TypeStore -----------------------------
(***************************************************************************)
(* What the compiler promises the host that calls it from several threads: *)
(* a bag of types that only grows, and calls that take effect at once, at  *)
(* some moment between their start and their end.                          *)
(*                                                                         *)
(* Two things are promised less than one might expect, and are stated here *)
(* because the code is that way.  add_file uses the last index in force    *)
(* when it starts, not when its types appear.  And build has no effect on  *)
(* the store: it is not part of this specification.                        *)
(***************************************************************************)
EXTENDS Catalog, Bags

CONSTANTS Procs, Calls

VARIABLES
    store,    \* the bag of types
    index,    \* the last index, None until it is set
    call,     \* the call each thread is in, None if none
    base,     \* the last index when it started
    answer    \* the answer of each thread's last finished call

vars == <<store, index, call, base, answer>>

Init == /\ store = EmptyBag
        /\ index = None
        /\ call = [p \in Procs |-> None]
        /\ base = [p \in Procs |-> None]
        /\ answer = [p \in Procs |-> NoAnswer]

Start(p, op) ==
    /\ call[p] = None /\ answer[p].tag # "panic"
    /\ call' = [call EXCEPT ![p] = op]
    /\ base' = [base EXCEPT ![p] = IF op.tag = "add_file" THEN index ELSE None]
    /\ UNCHANGED <<store, index, answer>>

Return(p, a) == /\ call' = [call EXCEPT ![p] = None]
                /\ base' = [base EXCEPT ![p] = None]
                /\ answer' = [answer EXCEPT ![p] = a]

DoSet(p) ==
    /\ call[p] # None /\ call[p].tag = "set_last_index"
    /\ index' = call[p].index
    /\ Return(p, Done)
    /\ UNCHANGED store

With(types) == store (+) BagOf(types)

\* All the types of the file, or none of them.
DoAdd(p) ==
    /\ call[p] # None /\ call[p].tag = "add_file"
    /\ LET src == call[p].source
           bad == base[p] = None \/ Overflows(src.types, base[p]) IN
       \/ /\ bad \/ src.result = "panic"
          /\ Return(p, Panicked) /\ UNCHANGED store
       \/ /\ src.result = "error"
          /\ Return(p, Failed) /\ UNCHANGED store
       \/ /\ ~bad /\ src.result = "ok"
          /\ store' = With(Rebase(src.types, base[p]))
          /\ Return(p, Done)
    /\ UNCHANGED index

\* The largest index; a panic when there is no type.
DoFinish(p) ==
    /\ call[p] # None /\ call[p].tag = "finish_load"
    /\ \/ store = EmptyBag /\ Return(p, Panicked)
       \/ \E t \in BagToSet(store) :
             /\ \A u \in BagToSet(store) : u.index <= t.index
             /\ Return(p, LastIndexIs(t.index))
    /\ UNCHANGED <<store, index>>

Lowest(S) == {t \in S : \A u \in S : t.index <= u.index}

\* An exact query gives one match with the lowest index, if there is a match;
\* any other gives all of them, ordered by index.
Answers(options, r) ==
    LET hits == IF options.foreign THEN {}
                ELSE {t \in BagToSet(store) : Matches(t, options)} IN
    IF options.exact
    THEN IF hits = {} THEN r = <<>> ELSE \E t \in Lowest(hits) : r = <<t>>
    ELSE /\ BagOf(r) = [t \in hits |-> store[t]]
         /\ \A i, j \in DOMAIN r : i < j => r[i].index <= r[j].index

\* The answer is a sequence over the bag.
DoQuery(p) ==
    /\ call[p] # None /\ call[p].tag = "query"
    /\ LET r == answer'[p].types IN
          /\ r \in Seq(BagToSet(store))
          /\ Answers(call[p].options, r)
          /\ Return(p, Found(r))
    /\ UNCHANGED <<store, index>>

Next == \E p \in Procs : \/ \E op \in Calls : Start(p, op)
                         \/ DoSet(p) \/ DoAdd(p) \/ DoFinish(p) \/ DoQuery(p)

Spec == Init /\ [][Next]_vars
============================================================================
