-------------------------- MODULE TypeTokensProofs --------------------------
(***************************************************************************)
(* Proofs about TypeTokens, for every set of references and every nesting  *)
(* of type arguments.                                                      *)
(*                                                                         *)
(* The tables only grow, so what a token denotes it goes on denoting: that *)
(* is the lemma everything rests on.  The invariant adds, for the stack of *)
(* suspended calls, that the tokens gathered so far denote the arguments   *)
(* they were compiled from, and that each call was made for the next       *)
(* argument of the one below it.                                           *)
(***************************************************************************)
EXTENDS TypeTokens, SequenceTheorems, TLAPS

\* What a suspended call holds.
FrameOK(f) ==
    /\ f.ref \in Refs =>
          /\ Kind[f.ref] = "common" /\ Id[f.ref] # None
          /\ f.ty \in TypeToken /\ RefersToEntry(f.ty, f.ref)
    /\ f.ref \in MethodRefs => Id[f.ref] # None
    /\ Args[f.ref] # <<>>
    /\ Len(f.done) <= Len(Args[f.ref])
    /\ \A k \in DOMAIN f.done : Denotes(f.done[k], Args[f.ref][k])

\* r is what the code on top of the stack s waits for.
Awaits(s, r) ==
    IF s = <<>> THEN r = asked
    ELSE LET f == s[Len(s)] IN
         Len(f.done) < Len(Args[f.ref]) /\ r = Args[f.ref][Len(f.done) + 1]

\* Each suspended call was made for the next argument of the one below.
Chained(s) ==
    \A n \in DOMAIN s :
        IF n = 1 THEN s[n].ref = asked
        ELSE /\ Len(s[n - 1].done) < Len(Args[s[n - 1].ref])
             /\ s[n].ref = Args[s[n - 1].ref][Len(s[n - 1].done) + 1]

StackInv ==
    /\ \A n \in DOMAIN stack : FrameOK(stack[n])
    /\ Chained(stack)
    /\ pc = "call" => Awaits(stack, current)
    /\ pc = "idle" => stack = <<>>
    /\ pc = "args" => stack # <<>>

TableInv == SpecsFaithful /\ SpecsWellFounded /\ MethodSpecsFaithful
TokenInv == StackInv /\ TableInv /\ AnswersDenote

\* The tables keep their entries.
Grow ==
    /\ \A i \in DOMAIN typeRefs :
          i \in DOMAIN typeRefs' /\ typeRefs'[i] = typeRefs[i]
    /\ \A i \in DOMAIN typeSpecs :
          /\ i \in DOMAIN typeSpecs' /\ typeSpecs'[i] = typeSpecs[i]
          /\ specOf'[i] = specOf[i]

LEMMA RefersGrows ==
    ASSUME Grow, NEW tk, NEW r, RefersToEntry(tk, r)
    PROVE  RefersToEntry(tk, r)'
BY DEF Grow, RefersToEntry, TypeRefEntry

LEMMA DenotesGrows ==
    ASSUME Grow, NEW tk, NEW r, Denotes(tk, r)
    PROVE  Denotes(tk, r)'
<1>1. RefersToEntry(tk, r) => RefersToEntry(tk, r)'
  BY RefersGrows
<1>2. tk.index + 1 \in DOMAIN typeSpecs /\ specOf[tk.index + 1] = r
         => tk.index + 1 \in DOMAIN typeSpecs' /\ specOf'[tk.index + 1] = r
  BY DEF Grow
<1> QED
  BY <1>1, <1>2 DEF Denotes

LEMMA FrameGrows ==
    ASSUME Grow, NEW f, FrameOK(f)
    PROVE  FrameOK(f)'
<1>1. \A k \in DOMAIN f.done :
         Denotes(f.done[k], Args[f.ref][k]) => Denotes(f.done[k], Args[f.ref][k])'
  BY DenotesGrows
<1>2. RefersToEntry(f.ty, f.ref) => RefersToEntry(f.ty, f.ref)'
  BY RefersGrows
<1> QED
  BY <1>1, <1>2 DEF FrameOK

LEMMA DenoteAllGrows ==
    ASSUME Grow, NEW ts, NEW rs, DenoteAll(ts, rs)
    PROVE  DenoteAll(ts, rs)'
<1>1. \A k \in DOMAIN ts : Denotes(ts[k], rs[k]) => Denotes(ts[k], rs[k])'
  BY DenotesGrows
<1> QED
  BY <1>1 DEF DenoteAll

\* The entries already there stay faithful.
LEMMA SpecGrows ==
    ASSUME Grow, SpecsFaithful, NEW i \in DOMAIN typeSpecs
    PROVE  /\ i \in DOMAIN typeSpecs' /\ typeSpecs'[i] = typeSpecs[i]
           /\ RefersToEntry(typeSpecs[i].ty, specOf[i])'
           /\ DenoteAll(typeSpecs[i].generics, Args[specOf[i]])'
<1>1. PICK e : e = typeSpecs[i]
  OBVIOUS
<1>2. PICK r : r = specOf[i]
  OBVIOUS
<1>3. RefersToEntry(e.ty, r) /\ DenoteAll(e.generics, Args[r])
  BY <1>1, <1>2 DEF SpecsFaithful
<1>4. RefersToEntry(e.ty, r)' /\ DenoteAll(e.generics, Args[r])'
  BY <1>3, RefersGrows, DenoteAllGrows
<1>5. i \in DOMAIN typeSpecs' /\ typeSpecs'[i] = e /\ specOf'[i] = r
  BY <1>1, <1>2 DEF Grow
<1> QED
  BY <1>1, <1>4, <1>5

LEMMA MethodSpecGrows ==
    ASSUME Grow, MethodSpecsFaithful, NEW i \in DOMAIN methodSpecs,
           methodSpecs'[i] = methodSpecs[i], methodOf'[i] = methodOf[i]
    PROVE  /\ methodSpecs'[i].m = Id[methodOf'[i]]
           /\ DenoteAll(methodSpecs[i].generics, Args[methodOf[i]])'
<1>1. PICK e : e = methodSpecs[i]
  OBVIOUS
<1>2. PICK m : m = methodOf[i]
  OBVIOUS
<1>3. e.m = Id[m] /\ DenoteAll(e.generics, Args[m])
  BY <1>1, <1>2 DEF MethodSpecsFaithful
<1>4. DenoteAll(e.generics, Args[m])'
  BY <1>3, DenoteAllGrows
<1> QED
  BY <1>1, <1>2, <1>3, <1>4

LEMMA TablesKept ==
    ASSUME Grow, TableInv, UNCHANGED <<typeSpecs, methodSpecs, specOf, methodOf>>
    PROVE  TableInv'
<1>1. SpecsFaithful'
  BY SpecGrows DEF SpecsFaithful, TableInv
<1>2. SpecsWellFounded'
  BY DEF SpecsWellFounded, TableInv
<1>3. MethodSpecsFaithful'
  BY MethodSpecGrows DEF MethodSpecsFaithful, TableInv
<1> QED
  BY <1>1, <1>2, <1>3 DEF TableInv

LEMMA StackGrows ==
    ASSUME Grow, StackInv, NEW s, s = stack
    PROVE  \A n \in DOMAIN s : FrameOK(s[n])'
<1> SUFFICES ASSUME NEW n \in DOMAIN s PROVE FrameOK(s[n])'
  OBVIOUS
<1>1. FrameOK(s[n])
  BY DEF StackInv
<1> QED
  BY <1>1, FrameGrows

\* A specification token stands for an entry already pushed.
LEMMA SpecTokenInTable ==
    ASSUME NEW r \in Refs, NEW tk, Denotes(tk, r), tk.ty = "TypeSpec"
    PROVE  tk.index + 1 \in DOMAIN typeSpecs
BY RefsAssumption DEF Denotes, RefersToEntry, Tk, Parameters

LEMMA TokenInit == Init => TypeOK /\ TokenInv
<1> SUFFICES ASSUME Init PROVE TypeOK /\ TokenInv
  OBVIOUS
<1>1. TypeOK
  BY DEF Init, TypeOK
<1>2. TokenInv
  BY DEF Init, TokenInv, TableInv, StackInv, Chained, SpecsFaithful, SpecsWellFounded,
         MethodSpecsFaithful, AnswersDenote
<1> QED
  BY <1>1, <1>2

FrameType == [ref : Refs \cup MethodRefs, ty : TypeToken \cup {None},
              done : Seq(TypeToken)]

LEMMA FrameExtended ==
    ASSUME NEW f \in FrameType, NEW token
    PROVE  [f EXCEPT !.done = Append(@, token)]
             = [ref |-> f.ref, ty |-> f.ty, done |-> Append(f.done, token)]
<1>1. PICK d : d = Append(f.done, token)
  OBVIOUS
<1>2. PICK g : g = [f EXCEPT !.done = d]
  OBVIOUS
<1>3. /\ f = [x \in {"ref", "ty", "done"} |-> f[x]]
      /\ DOMAIN f = {"ref", "ty", "done"}
  BY DEF FrameType
<1>4. /\ DOMAIN g = {"ref", "ty", "done"}
      /\ g.ref = f.ref /\ g.ty = f.ty /\ g.done = d
  BY <1>2, <1>3
<1>5. g = [x \in {"ref", "ty", "done"} |-> g[x]]
  BY <1>2, <1>3
<1>6. g = [ref |-> f.ref, ty |-> f.ty, done |-> d]
  BY <1>4, <1>5
<1> QED
  BY <1>1, <1>2, <1>6

\* A token given to the call that waits for it.
LEMMA DeliverOK ==
    ASSUME NEW s, s \in Seq(FrameType), NEW token, token \in TypeToken, NEW r \in Refs,
           \A n \in DOMAIN s : FrameOK(s[n])',
           Chained(s), Awaits(s, r), Denotes(token, r)',
           asked' = asked, Deliver(token, s)
    PROVE  /\ StackInv' /\ AnswersDenote'
           /\ stack' \in Seq(FrameType) /\ pc' \in {"idle", "args"}
           /\ (result' = token \/ result' = result)
<1>1. CASE s = <<>>
  BY <1>1, RefsAssumption DEF Deliver, StackInv, Chained, Awaits, AnswersDenote
<1>2. CASE s # <<>>
  <2> DEFINE l == Len(s)
  <2>1. /\ l \in Nat \ {0} /\ l \in DOMAIN s /\ DOMAIN s = 1 .. l
        /\ s[l] \in FrameType
    BY <1>2
  <2>2. PICK f \in FrameType : f = s[l]
    BY <2>1
  <2>3. f.done \in Seq(TypeToken) /\ f.ref \in Refs \cup MethodRefs
    BY DEF FrameType
  <2>4. Append(f.done, token) \in Seq(TypeToken)
    BY <2>3
  <2>5. PICK g \in FrameType : /\ g = [f EXCEPT !.done = Append(@, token)]
                               /\ g.ref = f.ref /\ g.ty = f.ty
                               /\ g.done = Append(f.done, token)
    <3>1. [ref |-> f.ref, ty |-> f.ty, done |-> Append(f.done, token)] \in FrameType
      BY <2>3, <2>4 DEF FrameType
    <3>2. [f EXCEPT !.done = Append(@, token)]
            = [ref |-> f.ref, ty |-> f.ty, done |-> Append(f.done, token)]
      BY FrameExtended
    <3> QED
      BY <3>1, <3>2
  <2>6. PICK t : t = [s EXCEPT ![l] = g]
    OBVIOUS
  <2>7. stack' = t /\ pc' = "args" /\ result' = result
    BY <1>2, <2>2, <2>5, <2>6 DEF Deliver
  <2>8. /\ t \in Seq(FrameType) /\ DOMAIN t = 1 .. l /\ Len(t) = l
        /\ t[l] = g /\ \A n \in 1 .. l : n # l => t[n] = s[n]
    BY <2>1, <2>6
  <2>9. /\ Len(f.done) < Len(Args[f.ref]) /\ r = Args[f.ref][Len(f.done) + 1]
    BY <1>2, <2>2 DEF Awaits
  <2>10. FrameOK(g)'
    <3>1. FrameOK(f)'
      BY <2>1, <2>2
    <3>2. /\ Len(g.done) = Len(f.done) + 1 /\ DOMAIN g.done = 1 .. (Len(f.done) + 1)
          /\ DOMAIN f.done = 1 .. Len(f.done) /\ Len(f.done) \in Nat
          /\ g.done[Len(f.done) + 1] = token
          /\ \A k \in DOMAIN f.done : g.done[k] = f.done[k]
      BY <2>3, <2>5
    <3>3. Len(g.done) <= Len(Args[g.ref])
      <4>1. Len(Args[f.ref]) \in Nat
        BY <2>3, RefsAssumption
      <4> QED
        BY <2>5, <2>9, <3>2, <4>1
    <3>4. ASSUME NEW k \in DOMAIN g.done PROVE Denotes(g.done[k], Args[g.ref][k])'
      <4>1. CASE k = Len(f.done) + 1
        BY <4>1, <2>5, <2>9, <3>2
      <4>2. CASE k \in DOMAIN f.done
        BY <4>2, <2>5, <3>1, <3>2 DEF FrameOK
      <4> QED
        BY <3>2, <4>1, <4>2
    <3> QED
      BY <3>1, <3>3, <3>4, <2>5 DEF FrameOK
  <2>11. \A n \in DOMAIN t : FrameOK(t[n])'
    BY <2>1, <2>8, <2>10
  <2>12. Chained(t)
    <3>1. ASSUME NEW n \in 1 .. l
          PROVE  IF n = 1 THEN t[n].ref = asked
                 ELSE /\ Len(t[n - 1].done) < Len(Args[t[n - 1].ref])
                      /\ t[n].ref = Args[t[n - 1].ref][Len(t[n - 1].done) + 1]
      <4>1. t[n].ref = s[n].ref
        BY <2>2, <2>5, <2>8
      <4>2. n # 1 => t[n - 1] = s[n - 1]
        <5>1. n # 1 => n - 1 \in 1 .. l /\ n - 1 # l
          BY <2>1
        <5> QED
          BY <2>8, <5>1
      <4> QED
        BY <2>1, <4>1, <4>2 DEF Chained
    <3> QED
      BY <2>8, <3>1 DEF Chained
  <2>13. t # <<>>
    BY <2>1, <2>8
  <2>14. StackInv'
    BY <2>7, <2>11, <2>12, <2>13 DEF StackInv, Chained
  <2> QED
    BY <2>7, <2>8, <2>14 DEF AnswersDenote
<1> QED
  BY <1>1, <1>2

----------------------------------------------------------------------------
(* One lemma per action that pushes to a table or delivers a token.        *)

LEMMA SimpleToken ==
    ASSUME TypeOK, TokenInv, NEW token \in TypeToken, pc = "call",
           Denotes(token, current), Deliver(token, stack),
           UNCHANGED <<current, asked, tables, calls>>
    PROVE  TypeOK' /\ TokenInv'
<1>1. PICK s : s = stack
  OBVIOUS
<1>2. PICK r : r = current
  OBVIOUS
<1>3. /\ s \in Seq(FrameType) /\ r \in Refs
      /\ Chained(s) /\ Awaits(s, r) /\ Denotes(token, r) /\ Deliver(token, s)
  BY <1>1, <1>2 DEF TypeOK, FrameType, TokenInv, StackInv
<1>4. Grow
  BY DEF Grow, tables
<1>5. Denotes(token, r)' /\ \A n \in DOMAIN s : FrameOK(s[n])'
  BY <1>1, <1>3, <1>4, DenotesGrows, StackGrows DEF TokenInv
<1>6. /\ StackInv' /\ AnswersDenote'
      /\ stack' \in Seq(FrameType) /\ pc' \in {"idle", "args"}
      /\ (result' = token \/ result' = result)
  BY <1>3, <1>5, DeliverOK
<1>7. TableInv'
  BY <1>4, TablesKept DEF TokenInv, tables
<1>8. TypeOK'
  BY <1>6 DEF TypeOK, FrameType, tables
<1> QED
  BY <1>6, <1>7, <1>8 DEF TokenInv

LEMMA AskMethodKeeps ==
    ASSUME TypeOK, TokenInv, NEW m \in MethodRefs, AskMethod(m)
    PROVE  TypeOK' /\ TokenInv'
<1>1. Grow /\ UNCHANGED <<typeSpecs, methodSpecs, specOf, methodOf>>
  BY DEF Grow, AskMethod, tables
<1>2. TableInv'
  BY <1>1, TablesKept DEF TokenInv
<1>3. stack = <<>> /\ m \notin Refs /\ Args[m] \in Seq(Refs) /\ Id[m] \in Nat \cup {None}
  BY RefsAssumption DEF AskMethod, TokenInv, StackInv
<1>4. CASE Id[m] = None
  BY <1>2, <1>3, <1>4 DEF AskMethod, TypeOK, TokenInv, StackInv, Chained, AnswersDenote, tables
<1>5. CASE Id[m] # None /\ Args[m] = <<>>
  <2>1. Tk("Method", Id[m]) \in MethodToken
    BY <1>3, <1>5 DEF Tk, MethodToken
  <2>2. TypeOK'
    BY <2>1, <1>3, <1>5 DEF AskMethod, TypeOK, tables
  <2>3. StackInv' /\ AnswersDenote'
    BY <1>3, <1>5 DEF AskMethod, StackInv, Chained, AnswersDenote, MethodDenotes
  <2> QED
    BY <2>2, <2>3, <1>2 DEF TokenInv
<1>6. CASE Id[m] # None /\ Args[m] # <<>>
  <2>1. PICK f : f = Frame(m, None)
    OBVIOUS
  <2>2. f \in FrameType /\ f.ref = m /\ f.done = <<>>
    BY <2>1 DEF Frame, FrameType
  <2>3. stack' = <<f>> /\ pc' = "args" /\ result' = result /\ asked' = m
    BY <1>6, <2>1 DEF AskMethod
  <2>4. FrameOK(f)'
    BY <1>3, <1>6, <2>2 DEF FrameOK
  <2>5. StackInv'
    BY <2>2, <2>3, <2>4 DEF StackInv, Chained
  <2>6. TypeOK'
    BY <2>2, <2>3 DEF AskMethod, TypeOK, FrameType, tables
  <2> QED
    BY <2>3, <2>5, <2>6, <1>2 DEF TokenInv, AnswersDenote
<1> QED
  BY <1>4, <1>5, <1>6

LEMMA NextArgumentKeeps ==
    ASSUME TypeOK, TokenInv, NextArgument
    PROVE  TypeOK' /\ TokenInv'
<1>1. Grow /\ UNCHANGED <<typeSpecs, methodSpecs, specOf, methodOf>>
  BY DEF Grow, NextArgument, tables
<1>2. TableInv'
  BY <1>1, TablesKept DEF TokenInv
<1>3. PICK s : s = stack
  OBVIOUS
<1>4. /\ s \in Seq(FrameType) /\ s # <<>> /\ stack' = s /\ pc' = "call"
      /\ \A n \in DOMAIN s : FrameOK(s[n])'
  BY <1>1, <1>3, StackGrows DEF NextArgument, TypeOK, FrameType, TokenInv, StackInv
<1>5. PICK f \in FrameType : f = s[Len(s)]
  BY <1>4
<1>6. /\ Len(f.done) < Len(Args[f.ref])
      /\ current' = Args[f.ref][Len(f.done) + 1]
  BY <1>3, <1>5 DEF NextArgument, MoreArguments, Top
<1>7. current' \in Refs
  <2>1. f.ref \in Refs \cup MethodRefs /\ f.done \in Seq(TypeToken)
    BY DEF FrameType
  <2>2. Args[f.ref] \in Seq(Refs)
    BY <2>1, RefsAssumption
  <2>3. Len(f.done) + 1 \in 1 .. Len(Args[f.ref])
    BY <2>1, <2>2, <1>6
  <2> QED
    BY <2>2, <2>3, <1>6
<1>8. Awaits(stack, current)'
  BY <1>4, <1>5, <1>6 DEF Awaits
<1>9. Chained(stack)'
  BY <1>3, <1>4 DEF NextArgument, TokenInv, StackInv, Chained
<1>10. StackInv' /\ AnswersDenote'
  BY <1>4, <1>8, <1>9 DEF StackInv, AnswersDenote
<1>11. TypeOK'
  BY <1>7 DEF NextArgument, TypeOK, tables
<1> QED
  BY <1>2, <1>10, <1>11 DEF TokenInv

LEMMA CompileTypeRefKeeps ==
    ASSUME TypeOK, TokenInv, CompileTypeRef
    PROVE  TypeOK' /\ TokenInv'
<1>1. PICK i \in 0 .. Len(typeRefs) :
         /\ AddTypeRef(TypeRefEntry(current), i)
         /\ IF Args[current] = <<>>
            THEN Deliver(Tk("TypeRef", i), stack)
            ELSE /\ stack' = Append(stack, Frame(current, Tk("TypeRef", i)))
                 /\ pc' = "args" /\ UNCHANGED result
  BY DEF CompileTypeRef
<1>2. PICK s : s = stack
  OBVIOUS
<1>3. PICK r : r = current
  OBVIOUS
<1>4. PICK tk : tk = Tk("TypeRef", i)
  OBVIOUS
<1>5. /\ s \in Seq(FrameType) /\ r \in Refs /\ Chained(s) /\ Awaits(s, r)
      /\ tk \in TypeToken /\ tk.ty = "TypeRef" /\ tk.index = i
      /\ Kind[r] = "common" /\ Id[r] \in Nat /\ Args[r] \in Seq(Refs)
  <2>1. r \in Refs /\ Kind[r] = "common" /\ Id[r] # None
    BY <1>3 DEF CompileTypeRef, TypeOK, Found
  <2>2. tk \in TypeToken /\ tk.ty = "TypeRef" /\ tk.index = i
    BY <1>4 DEF Tk, TypeToken, TypeTokenKinds, TypeOK
  <2> QED
    BY <1>2, <1>3, <2>1, <2>2, RefsAssumption
       DEF CompileTypeRef, TypeOK, FrameType, TokenInv, StackInv
<1>6. PICK e : e = TypeRefEntry(r)
  OBVIOUS
<1>7. e \in [assembly : {Assembly[q] : q \in Refs}, index : Nat]
  BY <1>5, <1>6 DEF TypeRefEntry
<1>8. /\ Grow /\ typeRefs' \in Seq([assembly : {Assembly[q] : q \in Refs}, index : Nat])
      /\ i + 1 \in DOMAIN typeRefs' /\ typeRefs'[i + 1] = e
  <2>1. AddTypeRef(e, i) /\ UNCHANGED <<typeSpecs, specOf>>
    BY <1>1, <1>3, <1>6 DEF CompileTypeRef
  <2> QED
    <3> DEFINE E == [assembly : {Assembly[q] : q \in Refs}, index : Nat]
    <3>1. typeRefs \in Seq(E) /\ e \in E
      BY <1>7 DEF TypeOK
    <3> HIDE DEF E
    <3>2. \/ i + 1 \in DOMAIN typeRefs /\ typeRefs[i + 1] = e /\ typeRefs' = typeRefs
          \/ i = Len(typeRefs) /\ typeRefs' = Append(typeRefs, e)
      BY <2>1 DEF AddTypeRef
    <3>3. /\ typeRefs' \in Seq(E) /\ i + 1 \in DOMAIN typeRefs' /\ typeRefs'[i + 1] = e
          /\ \A k \in DOMAIN typeRefs :
                k \in DOMAIN typeRefs' /\ typeRefs'[k] = typeRefs[k]
      BY <3>1, <3>2
    <3> QED
      BY <2>1, <3>3 DEF Grow, E
<1>9. RefersToEntry(tk, r)'
  BY <1>5, <1>6, <1>8 DEF RefersToEntry, TypeRefEntry
<1>10. \A n \in DOMAIN s : FrameOK(s[n])'
  BY <1>2, <1>8, StackGrows DEF TokenInv
<1>11. TableInv'
  BY <1>8, TablesKept DEF TokenInv, CompileTypeRef
<1>12. CASE Args[r] = <<>>
  <2>1. Deliver(tk, s) /\ asked' = asked
    BY <1>1, <1>2, <1>3, <1>4, <1>12 DEF CompileTypeRef
  <2>2. Assembly[r] # Own
    BY <1>3, <1>12 DEF CompileTypeRef, IsTypeDef
  <2>3. Denotes(tk, r)'
    BY <1>5, <1>9, <1>12, <2>2 DEF Denotes, Parameters
  <2>4. /\ StackInv' /\ AnswersDenote'
        /\ stack' \in Seq(FrameType) /\ pc' \in {"idle", "args"}
        /\ (result' = tk \/ result' = result)
    BY <1>5, <1>10, <2>1, <2>3, DeliverOK
  <2>5. TypeOK'
    BY <1>5, <1>8, <2>4 DEF CompileTypeRef, TypeOK, FrameType
  <2> QED
    BY <1>11, <2>4, <2>5 DEF TokenInv
<1>13. CASE Args[r] # <<>>
  <2>1. PICK f : f = Frame(r, tk)
    OBVIOUS
  <2>2. f \in FrameType /\ f.ref = r /\ f.ty = tk /\ f.done = <<>>
    BY <1>5, <2>1 DEF Frame, FrameType
  <2>3. PICK t : t = Append(s, f)
    OBVIOUS
  <2>4. stack' = t /\ pc' = "args" /\ result' = result /\ asked' = asked
    BY <1>1, <1>2, <1>3, <1>4, <1>13, <2>1, <2>3 DEF CompileTypeRef
  <2>5. /\ t \in Seq(FrameType) /\ t # <<>> /\ DOMAIN t = 1 .. (Len(s) + 1)
        /\ Len(s) \in Nat /\ t[Len(s) + 1] = f /\ \A n \in DOMAIN s : t[n] = s[n]
        /\ DOMAIN s = 1 .. Len(s)
    BY <1>5, <2>2, <2>3
  <2>6. FrameOK(f)'
    <3>1. f.ref \notin MethodRefs /\ Len(f.done) = 0 /\ DOMAIN f.done = {}
      BY <1>5, <2>2, RefsAssumption
    <3> QED
      BY <1>5, <1>9, <1>13, <2>2, <3>1, RefsAssumption DEF FrameOK
  <2>7. \A n \in DOMAIN t : FrameOK(t[n])'
    BY <1>10, <2>5, <2>6
  <2>8. Chained(t)
    <3>1. ASSUME NEW n \in DOMAIN t
          PROVE  IF n = 1 THEN t[n].ref = asked
                 ELSE /\ Len(t[n - 1].done) < Len(Args[t[n - 1].ref])
                      /\ t[n].ref = Args[t[n - 1].ref][Len(t[n - 1].done) + 1]
      <4>1. n # 1 => t[n - 1] = s[n - 1]
        <5>1. n # 1 => n - 1 \in 1 .. Len(s)
          BY <2>5
        <5> QED
          BY <2>5, <5>1
      <4>2. CASE n \in DOMAIN s
        BY <4>1, <4>2, <1>5, <2>5 DEF Chained
      <4>3. CASE n = Len(s) + 1
        <5>1. t[n].ref = r
          BY <4>3, <2>2, <2>5
        <5>2. CASE s = <<>>
          BY <4>3, <5>1, <5>2, <1>5 DEF Awaits
        <5>3. CASE s # <<>>
          BY <4>1, <4>3, <5>1, <5>3, <1>5, <2>5 DEF Awaits
        <5> QED
          BY <5>2, <5>3
      <4> QED
        BY <2>5, <4>2, <4>3
    <3> QED
      BY <3>1 DEF Chained
  <2>9. StackInv'
    BY <2>4, <2>5, <2>7, <2>8 DEF StackInv, Chained
  <2>10. TypeOK'
    BY <1>8, <2>4, <2>5 DEF CompileTypeRef, TypeOK, FrameType
  <2> QED
    BY <1>11, <2>4, <2>9, <2>10 DEF TokenInv, AnswersDenote
<1> QED
  BY <1>12, <1>13

\* The stack below its top, where the reference of the top is awaited.
LEMMA PopOK ==
    ASSUME NEW s \in Seq(FrameType), s # <<>>, Chained(s)
    PROVE  LET p == SubSeq(s, 1, Len(s) - 1) IN
           /\ p \in Seq(FrameType) /\ Chained(p) /\ Awaits(p, s[Len(s)].ref)
           /\ \A n \in DOMAIN p : n \in DOMAIN s /\ p[n] = s[n]
<1>1. PICK p : p = SubSeq(s, 1, Len(s) - 1)
  OBVIOUS
<1>2. Len(s) \in Nat \ {0} /\ DOMAIN s = 1 .. Len(s)
  OBVIOUS
<1>3. /\ p \in Seq(FrameType) /\ Len(p) = Len(s) - 1 /\ DOMAIN p = 1 .. (Len(s) - 1)
      /\ \A n \in DOMAIN p : n \in DOMAIN s /\ p[n] = s[n]
  BY <1>1, <1>2
<1>4. ASSUME NEW n \in DOMAIN p
      PROVE  IF n = 1 THEN p[n].ref = asked
             ELSE /\ Len(p[n - 1].done) < Len(Args[p[n - 1].ref])
                  /\ p[n].ref = Args[p[n - 1].ref][Len(p[n - 1].done) + 1]
  <2>1. n # 1 => p[n - 1] = s[n - 1]
    <3>1. n # 1 => n - 1 \in DOMAIN p
      BY <1>2, <1>3
    <3> QED
      BY <1>3, <3>1
  <2> QED
    BY <1>3, <2>1 DEF Chained
<1>5. Awaits(p, s[Len(s)].ref)
  <2>1. CASE Len(s) = 1
    BY <1>2, <1>3, <2>1 DEF Awaits, Chained
  <2>2. CASE Len(s) # 1
    <3>1. p # <<>> /\ p[Len(p)] = s[Len(s) - 1]
      <4>1. Len(s) - 1 \in DOMAIN p
        BY <1>2, <1>3, <2>2
      <4> QED
        BY <1>3, <4>1
    <3>2. Len(s) \in DOMAIN s
      BY <1>2
    <3> QED
      BY <2>2, <3>1, <3>2 DEF Awaits, Chained
  <2> QED
    BY <2>1, <2>2
<1> QED
  BY <1>1, <1>3, <1>4, <1>5 DEF Chained

LEMMA PushTypeSpecKeeps ==
    ASSUME TypeOK, TokenInv, PushTypeSpec
    PROVE  TypeOK' /\ TokenInv'
<1>1. PICK s : s = stack
  OBVIOUS
<1>2. /\ s \in Seq(FrameType) /\ s # <<>> /\ Chained(s)
      /\ Len(s) \in DOMAIN s /\ Len(s) \in Nat
  BY <1>1 DEF PushTypeSpec, TypeOK, FrameType, TokenInv, StackInv
<1>3. PICK f \in FrameType : f = s[Len(s)]
  BY <1>2
<1>4. PICK p : p = SubSeq(s, 1, Len(s) - 1)
  OBVIOUS
<1>5. PICK tk : tk = Tk("TypeSpec", Len(typeSpecs))
  OBVIOUS
<1>6. /\ f.ref \in Refs /\ ~(Len(f.done) < Len(Args[f.ref]))
      /\ typeSpecs' = Append(typeSpecs, [ty |-> f.ty, generics |-> f.done])
      /\ specOf' = Append(specOf, f.ref)
      /\ Deliver(tk, p)
      /\ UNCHANGED <<current, asked, typeRefs, methodSpecs, methodOf, calls>>
  BY <1>1, <1>3, <1>4, <1>5
     DEF PushTypeSpec, Top, Pop, MoreArguments, PushedIndex
<1>7. FrameOK(f)
  BY <1>1, <1>2, <1>3 DEF TokenInv, StackInv
<1>8. /\ Kind[f.ref] = "common" /\ Args[f.ref] # <<>>
      /\ RefersToEntry(f.ty, f.ref) /\ DenoteAll(f.done, Args[f.ref])
      /\ f.done \in Seq(TypeToken) /\ f.ty \in TypeToken
  <2>1. f.done \in Seq(TypeToken)
    BY DEF FrameType
  <2>2. Args[f.ref] \in Seq(Refs)
    BY <1>6, RefsAssumption
  <2>3. /\ Kind[f.ref] = "common" /\ Args[f.ref] # <<>>
        /\ f.ty \in TypeToken /\ RefersToEntry(f.ty, f.ref)
    BY <1>6, <1>7 DEF FrameOK
  <2>4. Len(f.done) = Len(Args[f.ref])
    BY <1>6, <1>7, <2>1, <2>2 DEF FrameOK
  <2> QED
    BY <1>7, <2>1, <2>3, <2>4 DEF FrameOK, DenoteAll
<1>9. PICK e : e = [ty |-> f.ty, generics |-> f.done]
  OBVIOUS
<1>10. PICK n : n = Len(typeSpecs) + 1
  OBVIOUS
<1>11. /\ e \in TypeSpecEntry /\ e.ty = f.ty /\ e.generics = f.done
       /\ n \in Nat /\ n = Len(specOf) + 1 /\ Len(typeSpecs) = n - 1
  BY <1>8, <1>9, <1>10 DEF TypeSpecEntry, TypeOK
<1>12. /\ typeSpecs' \in Seq(TypeSpecEntry) /\ specOf' \in Seq(Refs)
       /\ DOMAIN typeSpecs' = 1 .. n /\ DOMAIN typeSpecs = 1 .. (n - 1)
       /\ Len(specOf') = n /\ Len(typeSpecs') = n
       /\ typeSpecs'[n] = e /\ specOf'[n] = f.ref
       /\ \A i \in 1 .. (n - 1) : typeSpecs'[i] = typeSpecs[i] /\ specOf'[i] = specOf[i]
  BY <1>6, <1>9, <1>11 DEF TypeOK
<1>13. Grow
  BY <1>6, <1>11, <1>12 DEF Grow
<1>14. SpecsFaithful'
  <2>1. RefersToEntry(f.ty, f.ref)' /\ DenoteAll(f.done, Args[f.ref])'
    BY <1>8, <1>13, RefersGrows, DenoteAllGrows
  <2>2. SpecsFaithful
    BY DEF TokenInv, TableInv
  <2>3. ASSUME NEW i \in 1 .. n
        PROVE  /\ RefersToEntry(typeSpecs[i].ty, specOf[i])'
               /\ DenoteAll(typeSpecs[i].generics, Args[specOf[i]])'
    <3>1. CASE i = n
      BY <1>11, <1>12, <2>1, <3>1
    <3>2. CASE i \in DOMAIN typeSpecs
      BY <1>13, <2>2, <3>2, SpecGrows
    <3> QED
      BY <1>11, <1>12, <3>1, <3>2
  <2> QED
    BY <1>12, <2>3 DEF SpecsFaithful
<1>15. SpecsWellFounded'
  <2>1. \A k \in DOMAIN f.done :
           f.done[k].ty = "TypeSpec" => f.done[k].index + 1 \in DOMAIN typeSpecs
    <3>1. ASSUME NEW k \in DOMAIN f.done PROVE Args[f.ref][k] \in Refs
      <4>1. Args[f.ref] \in Seq(Refs) /\ DOMAIN f.done = DOMAIN Args[f.ref]
        BY <1>6, <1>8, RefsAssumption DEF DenoteAll
      <4> QED
        BY <4>1
    <3> QED
      BY <1>8, <3>1, SpecTokenInTable DEF DenoteAll
  <2>2. ASSUME NEW i \in 1 .. n, NEW k \in DOMAIN typeSpecs'[i].generics,
               typeSpecs'[i].generics[k].ty = "TypeSpec"
        PROVE  typeSpecs'[i].generics[k].index + 1 < i
    <3>1. CASE i = n
      BY <1>11, <1>12, <2>1, <2>2, <3>1
    <3>2. CASE i \in 1 .. (n - 1)
      BY <1>12, <2>2, <3>2 DEF TokenInv, TableInv, SpecsWellFounded
    <3> QED
      BY <1>11, <3>1, <3>2
  <2> QED
    BY <1>12, <2>2 DEF SpecsWellFounded
<1>16. MethodSpecsFaithful'
  BY <1>6, <1>13, MethodSpecGrows DEF MethodSpecsFaithful, TokenInv, TableInv
<1>17. Denotes(tk, f.ref)' /\ tk \in TypeToken
  <2>1. tk.ty = "TypeSpec" /\ tk.index = n - 1 /\ tk \in TypeToken
    BY <1>5, <1>11 DEF Tk, TypeToken, TypeTokenKinds
  <2> QED
    BY <1>8, <1>11, <1>12, <2>1 DEF Denotes, Parameters
<1>18. /\ p \in Seq(FrameType) /\ Chained(p) /\ Awaits(p, f.ref)
       /\ \A i \in DOMAIN p : i \in DOMAIN s /\ p[i] = s[i]
  BY <1>2, <1>3, <1>4, PopOK
<1>19. \A i \in DOMAIN p : FrameOK(p[i])'
  BY <1>1, <1>13, <1>18, StackGrows DEF TokenInv
<1>20. /\ StackInv' /\ AnswersDenote'
       /\ stack' \in Seq(FrameType) /\ pc' \in {"idle", "args"}
       /\ (result' = tk \/ result' = result)
  BY <1>6, <1>17, <1>18, <1>19, DeliverOK
<1>21. TypeOK'
  BY <1>6, <1>12, <1>17, <1>20 DEF TypeOK, FrameType
<1> QED
  BY <1>14, <1>15, <1>16, <1>20, <1>21 DEF TokenInv, TableInv

LEMMA PushMethodSpecKeeps ==
    ASSUME TypeOK, TokenInv, PushMethodSpec
    PROVE  TypeOK' /\ TokenInv'
<1>1. PICK s : s = stack
  OBVIOUS
<1>2. /\ s \in Seq(FrameType) /\ s # <<>> /\ Chained(s)
      /\ Len(s) \in DOMAIN s /\ Len(s) \in Nat
      /\ \A i \in DOMAIN s : FrameOK(s[i])
  BY <1>1 DEF PushMethodSpec, TypeOK, FrameType, TokenInv, StackInv
<1>3. PICK f \in FrameType : f = s[Len(s)]
  BY <1>2
<1>4. PICK p : p = SubSeq(s, 1, Len(s) - 1)
  OBVIOUS
<1>5. PICK tk : tk = Tk("MethodSpec", Len(methodSpecs))
  OBVIOUS
<1>6. /\ f.ref \in MethodRefs /\ f.ref \notin Refs
      /\ ~(Len(f.done) < Len(Args[f.ref]))
      /\ methodSpecs' = Append(methodSpecs, [m |-> Id[f.ref], generics |-> f.done])
      /\ methodOf' = Append(methodOf, f.ref)
      /\ Deliver(tk, p)
      /\ UNCHANGED <<current, asked, typeRefs, typeSpecs, specOf, calls>>
  BY <1>1, <1>3, <1>4, <1>5, RefsAssumption
     DEF PushMethodSpec, Top, Pop, MoreArguments, PushedIndex
\* Only a type reference is compiled for a call that is suspended.
<1>7. Len(s) = 1 /\ f.ref = asked
  <2>1. CASE Len(s) = 1
    BY <1>2, <1>3, <2>1 DEF Chained
  <2>2. CASE Len(s) # 1
    <3>1. PICK b \in FrameType : b = s[Len(s) - 1]
      <4>1. Len(s) - 1 \in DOMAIN s
        <5>1. Len(s) \in Nat \ {0} /\ DOMAIN s = 1 .. Len(s)
          BY <1>2
        <5> QED
          BY <2>2, <5>1
      <4> QED
        BY <1>2, <4>1
    <3>2. /\ Len(b.done) < Len(Args[b.ref])
          /\ f.ref = Args[b.ref][Len(b.done) + 1]
      BY <1>2, <1>3, <2>2, <3>1 DEF Chained
    <3>3. Args[b.ref] \in Seq(Refs) /\ b.done \in Seq(TypeToken)
      BY RefsAssumption DEF FrameType
    <3>4. Len(b.done) + 1 \in 1 .. Len(Args[b.ref])
      BY <3>2, <3>3
    <3> QED
      BY <1>6, <3>2, <3>3, <3>4
  <2> QED
    BY <2>1, <2>2
<1>8. /\ Id[f.ref] \in Nat /\ Args[f.ref] # <<>> /\ DenoteAll(f.done, Args[f.ref])
      /\ f.done \in Seq(TypeToken)
  <2>1. f.done \in Seq(TypeToken) /\ FrameOK(f)
    BY <1>2, <1>3 DEF FrameType
  <2>2. Args[f.ref] \in Seq(Refs)
    BY <1>6, RefsAssumption
  <2>3. Len(f.done) = Len(Args[f.ref])
    BY <1>6, <2>1, <2>2 DEF FrameOK
  <2> QED
    BY <1>6, <2>1, <2>3, RefsAssumption DEF FrameOK, DenoteAll
<1>9. PICK e : e = [m |-> Id[f.ref], generics |-> f.done]
  OBVIOUS
<1>10. PICK n : n = Len(methodSpecs) + 1
  OBVIOUS
<1>11. /\ e \in MethodSpecEntry /\ e.m = Id[f.ref] /\ e.generics = f.done
       /\ n \in Nat /\ n = Len(methodOf) + 1 /\ Len(methodSpecs) = n - 1
  BY <1>8, <1>9, <1>10 DEF MethodSpecEntry, TypeOK
<1>12. /\ methodSpecs' \in Seq(MethodSpecEntry) /\ methodOf' \in Seq(MethodRefs)
       /\ DOMAIN methodSpecs' = 1 .. n /\ DOMAIN methodSpecs = 1 .. (n - 1)
       /\ Len(methodOf') = n /\ Len(methodSpecs') = n
       /\ methodSpecs'[n] = e /\ methodOf'[n] = f.ref
       /\ \A i \in 1 .. (n - 1) :
             methodSpecs'[i] = methodSpecs[i] /\ methodOf'[i] = methodOf[i]
  BY <1>6, <1>9, <1>11 DEF TypeOK
<1>13. Grow
  BY <1>6 DEF Grow
<1>14. SpecsFaithful' /\ SpecsWellFounded'
  <2>1. SpecsFaithful'
    BY <1>6, <1>13, SpecGrows DEF SpecsFaithful, TokenInv, TableInv
  <2> QED
    BY <1>6, <2>1 DEF SpecsWellFounded, TokenInv, TableInv
<1>15. MethodSpecsFaithful'
  <2>1. DenoteAll(f.done, Args[f.ref])'
    BY <1>8, <1>13, DenoteAllGrows
  <2>2. ASSUME NEW i \in 1 .. n
        PROVE  /\ methodSpecs'[i].m = Id[methodOf'[i]]
               /\ DenoteAll(methodSpecs[i].generics, Args[methodOf[i]])'
    <3>1. CASE i = n
      BY <1>11, <1>12, <2>1, <3>1
    <3>2. CASE i \in DOMAIN methodSpecs
      <4>1. methodSpecs'[i] = methodSpecs[i] /\ methodOf'[i] = methodOf[i]
        BY <1>12, <3>2
      <4>2. MethodSpecsFaithful
        BY DEF TokenInv, TableInv
      <4> QED
        BY <1>13, <3>2, <4>1, <4>2, MethodSpecGrows
    <3> QED
      BY <1>11, <1>12, <3>1, <3>2
  <2> QED
    BY <1>12, <2>2 DEF MethodSpecsFaithful
<1>16. tk.ty = "MethodSpec" /\ tk.index = n - 1 /\ tk \in MethodToken
  BY <1>5, <1>11 DEF Tk, MethodToken
<1>17. pc' = "idle" /\ stack' = <<>> /\ result' = tk
  <2>1. p = <<>>
    BY <1>2, <1>4, <1>7
  <2> QED
    BY <1>6, <2>1 DEF Deliver
<1>18. StackInv'
  BY <1>17 DEF StackInv, Chained
<1>19. AnswersDenote'
  BY <1>6, <1>7, <1>8, <1>11, <1>12, <1>16, <1>17 DEF AnswersDenote, MethodDenotes
<1>20. TypeOK'
  BY <1>6, <1>12, <1>16, <1>17 DEF TypeOK
<1> QED
  BY <1>14, <1>15, <1>18, <1>19, <1>20 DEF TokenInv, TableInv

----------------------------------------------------------------------------
LEMMA TokenPreserved == TypeOK /\ TokenInv /\ [Next]_vars => TypeOK' /\ TokenInv'
<1> SUFFICES ASSUME TypeOK, TokenInv, [Next]_vars
             PROVE  TypeOK' /\ TokenInv'
  OBVIOUS
<1>1. ASSUME NEW r \in Refs, AskType(r) PROVE TypeOK' /\ TokenInv'
  <2>1. TypeOK'
    BY <1>1 DEF AskType, TypeOK, tables
  <2>2. Grow /\ UNCHANGED <<typeSpecs, methodSpecs, specOf, methodOf>>
    BY <1>1 DEF Grow, AskType, tables
  <2>3. TableInv'
    BY <2>2, TablesKept DEF TokenInv
  <2>4. StackInv' /\ AnswersDenote'
    BY <1>1 DEF AskType, TokenInv, StackInv, Chained, Awaits, AnswersDenote
  <2> QED
    BY <2>1, <2>3, <2>4 DEF TokenInv
<1>2. ASSUME NEW m \in MethodRefs, AskMethod(m) PROVE TypeOK' /\ TokenInv'
  BY <1>2, AskMethodKeeps
<1>3. CASE CompileParameter
  <2>1. PICK tk : tk = Tk(Kind[current], Id[current])
    OBVIOUS
  <2>2. current \in Refs /\ Id[current] \in Nat
    BY <1>3, RefsAssumption DEF CompileParameter, TypeOK
  <2>3. tk \in TypeToken /\ Denotes(tk, current)
    BY <1>3, <2>1, <2>2 DEF CompileParameter, Tk, TypeToken, TypeTokenKinds, Denotes, Parameters
  <2> QED
    BY <1>3, <2>1, <2>3, SimpleToken DEF CompileParameter
<1>4. CASE TypeNotFound
  <2>1. TypeOK'
    BY <1>4 DEF TypeNotFound, Fail, TypeOK, tables
  <2>2. Grow /\ UNCHANGED <<typeSpecs, methodSpecs, specOf, methodOf>>
    BY <1>4 DEF Grow, TypeNotFound, Fail, tables
  <2>3. TableInv'
    BY <2>2, TablesKept DEF TokenInv
  <2>4. StackInv' /\ AnswersDenote'
    BY <1>4 DEF TypeNotFound, Fail, StackInv, Chained, AnswersDenote
  <2> QED
    BY <2>1, <2>3, <2>4 DEF TokenInv
<1>5. CASE CompileTypeDef
  <2>1. PICK tk : tk = Tk("TypeDef", Id[current])
    OBVIOUS
  <2>2. current \in Refs /\ Id[current] \in Nat
    BY <1>5, RefsAssumption DEF CompileTypeDef, TypeOK, Found
  <2>3. tk \in TypeToken /\ Denotes(tk, current)
    BY <1>5, <2>1, <2>2
       DEF CompileTypeDef, IsTypeDef, Tk, TypeToken, TypeTokenKinds, Denotes, Parameters
  <2> QED
    BY <1>5, <2>1, <2>3, SimpleToken DEF CompileTypeDef
<1>6. CASE CompileTypeRef
  BY <1>6, CompileTypeRefKeeps
<1>7. CASE NextArgument
  BY <1>7, NextArgumentKeeps
<1>8. CASE PushTypeSpec
  BY <1>8, PushTypeSpecKeeps
<1>9. CASE PushMethodSpec
  BY <1>9, PushMethodSpecKeeps
<1>10. CASE UNCHANGED vars
  <2>1. TypeOK'
    BY <1>10 DEF vars, TypeOK
  <2>2. Grow /\ UNCHANGED <<typeSpecs, methodSpecs, specOf, methodOf>>
    BY <1>10 DEF Grow, vars
  <2>3. TableInv'
    BY <2>2, TablesKept DEF TokenInv
  <2>4. /\ \A tk, r : Denotes(tk, r)' <=> Denotes(tk, r)
        /\ \A tk, r : MethodDenotes(tk, r)' <=> MethodDenotes(tk, r)
        /\ \A tk, r : RefersToEntry(tk, r)' <=> RefersToEntry(tk, r)
    BY <1>10 DEF vars, Denotes, MethodDenotes, RefersToEntry
  <2>5. UNCHANGED <<pc, stack, current, result, asked>>
    BY <1>10 DEF vars
  <2>6. \A f : FrameOK(f)' <=> FrameOK(f)
    BY <2>4, Zenon DEF FrameOK
  <2>7. StackInv'
    <3>1. Chained(stack)' /\ (pc = "call" => Awaits(stack, current))'
      BY <2>5 DEF TokenInv, StackInv, Chained, Awaits
    <3> QED
      BY <2>5, <2>6, <3>1 DEF TokenInv, StackInv
  <2>8. AnswersDenote'
    BY <2>4, <2>5 DEF TokenInv, AnswersDenote
  <2> QED
    BY <2>1, <2>3, <2>7, <2>8 DEF TokenInv
<1> QED
  BY <1>1, <1>2, <1>3, <1>4, <1>5, <1>6, <1>7, <1>8, <1>9, <1>10 DEF Next, Enough

THEOREM TokenInvariant == Spec => [](TypeOK /\ TokenInv)
<1> QED
  BY TokenInit, TokenPreserved, PTL DEF Spec

\* The variables keep their types.
THEOREM TokensTypeCorrect == Spec => []TypeOK
<1> QED
  BY TokenInvariant, PTL

\* Every type specification, whatever failed after it, names the generic type
\* and the type arguments of the reference it was pushed for
\* (build_impl.rs:250-275).
THEOREM SpecsFaithfulTheorem == Spec => []SpecsFaithful
<1>1. TokenInv => SpecsFaithful
  BY DEF TokenInv, TableInv
<1> QED
  BY <1>1, TokenInvariant, PTL

\* Reading a type specification ends (build_impl.rs:263-275).
THEOREM SpecsWellFoundedTheorem == Spec => []SpecsWellFounded
<1>1. TokenInv => SpecsWellFounded
  BY DEF TokenInv, TableInv
<1> QED
  BY <1>1, TokenInvariant, PTL

\* Every method specification names the method and the type arguments of the
\* reference it was pushed for (build_impl.rs:355-373).
THEOREM MethodSpecsFaithfulTheorem == Spec => []MethodSpecsFaithful
<1>1. TokenInv => MethodSpecsFaithful
  BY DEF TokenInv, TableInv
<1> QED
  BY <1>1, TokenInvariant, PTL

\* The token answered stands for the reference asked for
\* (build_impl.rs:222-289, 323-375).
THEOREM AnswersDenoteTheorem == Spec => []AnswersDenote
<1>1. TokenInv => AnswersDenote
  BY DEF TokenInv
<1> QED
  BY <1>1, TokenInvariant, PTL
=============================================================================
