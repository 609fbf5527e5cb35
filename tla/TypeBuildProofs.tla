-------------------------- MODULE TypeBuildProofs ---------------------------
(***************************************************************************)
(* Proofs about TypeBuild, for every set of files, every base and every    *)
(* set of interfaces.                                                      *)
(***************************************************************************)
EXTENDS TypeBuild, FiniteSetTheorems, TLAPS

USE IndexAssumption DEF Index

----------------------------------------------------------------------------
(* Types                                                                   *)

LEMMA TyIsTypeDef ==
    ASSUME TypeOK, ti <= Len(file)
    PROVE  /\ file \in Seq(TypeDef)
           /\ Ty \in TypeDef
           /\ Ty.methods \in Seq(Method)
           /\ \A j \in 1 .. Len(Ty.methods) : Ty.methods[j] \in Method
<1>1. file \in Seq(TypeDef)
  BY DEF TypeOK
<1>2. Ty \in TypeDef
  BY <1>1 DEF TypeOK, Ty
<1>3. Ty.methods \in Seq(Method)
  BY <1>2 DEF TypeDef
<1> QED
  BY <1>1, <1>2, <1>3

LEMMA InsertType ==
    ASSUME NEW claims, claims \in [DOMAIN claims -> Index],
           DOMAIN claims \subseteq Interfaces \X Index,
           NEW i \in Interfaces, NEW k \in Index, NEW v \in Index
    PROVE  LET c == Insert(claims, i, k, v) IN
           /\ DOMAIN c = DOMAIN claims \cup {<<i, k>>}
           /\ c[<<i, k>>] = v
           /\ \A p \in DOMAIN claims : p # <<i, k>> => c[p] = claims[p]
           /\ c \in [DOMAIN c -> Index]
           /\ DOMAIN c \subseteq Interfaces \X Index
BY DEF Insert

LEMMA TypeInit == Init => TypeOK
<1> SUFFICES ASSUME Init PROVE TypeOK
  OBVIOUS
<1>1. file \in Seq(TypeDef)
  BY FilesAssumption DEF Init
<1>2. Len(file) \in Nat
  BY <1>1
<1>3. impls \in [DOMAIN impls -> Index] /\ DOMAIN impls = {}
  BY DEF Init, NoClaims
<1> QED
  BY <1>1, <1>2, <1>3, FilesAssumption DEF Init, TypeOK, Running, Finished

LEMMA TypeStop ==
    ASSUME TypeOK, NEW reason \in Finished, StopAt(reason)
    PROVE  TypeOK'
BY DEF TypeOK, StopAt, Running, Finished, Panics, inputVars, methodVars, emitVars, Ty

\* The iterator hands out a method.
LEMMA TypeCounted ==
    ASSUME TypeOK, pc = "slot", ind < Len(Ty.methods), pc' = "impl", ind' = ind + 1,
           overrideCount' \in Nat,
           UNCHANGED <<inputVars, ti, impls, emitVars, typeDefs>>
    PROVE  TypeOK'
<1>1. UNCHANGED <<file, base, ti, impls, pending, target, rest, last, map, interfaces, typeDefs>>
  BY DEF inputVars, emitVars
<1>2. Ty' = Ty
  BY <1>1 DEF Ty
<1>3. ti <= Len(file)
  BY DEF TypeOK, Running
<1>4. ind \in Nat /\ Len(Ty.methods) \in Nat
  BY <1>3, TyIsTypeDef DEF TypeOK
<1>5. ind' \in Nat /\ ind' <= Len(Ty'.methods) /\ ind' > 0
  BY <1>2, <1>4
<1>6. pc' \in Running \cup Finished /\ pc' # "keys"
  BY DEF Running
<1>7. /\ (file \in Seq(TypeDef) /\ base \in Index)'
      /\ (ti \in 1 .. (Len(file) + 1) /\ ti <= Len(file))'
  BY <1>1, <1>3 DEF TypeOK
<1>8. /\ (impls \in [DOMAIN impls -> Index] /\ DOMAIN impls \subseteq Interfaces \X Index)'
      /\ (pending \subseteq Interfaces /\ target \in Interfaces \cup {NoImpl})'
      /\ (rest \subseteq Index /\ last \in Index /\ map \in Seq(Index))'
      /\ (interfaces \in Seq(Emission))'
      /\ (typeDefs \in Seq([ty : Nat, interfaces : Seq(Emission)]))'
  BY <1>1 DEF TypeOK
<1> QED
  BY <1>5, <1>6, <1>7, <1>8 DEF TypeOK

LEMMA TypePreserved == TypeOK /\ [Next]_vars => TypeOK'
<1> SUFFICES ASSUME TypeOK, [Next]_vars PROVE TypeOK'
  OBVIOUS
<1> USE DEF Running, Finished, Panics
<1>0. /\ file \in Seq(TypeDef) /\ Len(file) \in Nat
      /\ ti \in Nat
  BY DEF TypeOK
<1>1. CASE TypeStep
  <2>1. CASE BeginType
    <3>1. NoClaims \in [DOMAIN NoClaims -> Index] /\ DOMAIN NoClaims = {}
      BY DEF NoClaims
    <3>2. Len(Ty.methods) \in Nat
      BY <2>1, TyIsTypeDef DEF BeginType
    <3> QED
      BY <2>1, <3>1, <3>2 DEF BeginType, TypeOK, inputVars, emitVars, FreshCount, Ty
  <2> QED
    BY <1>1, <2>1, TypeStop DEF TypeStep, TypeOutOfOrder, HeaderFails, FinishBuild
<1>2. CASE SlotStep
  <2>1. CASE AcceptSlot
    BY <2>1, TypeCounted DEF AcceptSlot, TypeOK
  <2>2. CASE SkipOverride
    <3>1. overrideCount' \in Nat
      BY <2>2 DEF SkipOverride, CountOverride, TypeOK
    <3> QED
      BY <2>2, <3>1, TypeCounted DEF SkipOverride
  <2> QED
    BY <1>2, <2>1, <2>2, TypeStop
    DEF SlotStep, ParentPanics, SlotOverflows, RejectSlot
<1>3. CASE ClaimStep
  <2>1. CASE NoClaim
    BY <2>1 DEF NoClaim, TypeOK, inputVars, methodVars, emitVars, Ty
  <2>2. CASE RecordClaim
    <3>1. ti <= Len(file) /\ ind \in 1 .. Len(Ty.methods)
      BY <2>2, TyIsTypeDef DEF RecordClaim, TypeOK
    <3>2. impls' \in [DOMAIN impls' -> Index] /\ DOMAIN impls' \subseteq Interfaces \X Index
      <4>1. PICK key \in Index :
                impls' = KeptClaims(Ty, Insert(impls, Meth.impl.iface, key, Meth.index))
        BY <2>2 DEF RecordClaim
      <4>2. CASE ~IsClass(Ty)
        BY <4>1, <4>2 DEF KeptClaims, TypeOK
      <4>3. CASE IsClass(Ty)
        <5>1. Meth \in Method
          BY <2>2, <3>1, TyIsTypeDef DEF RecordClaim, Meth
        <5>2. Meth.impl.iface \in Interfaces /\ Meth.index \in Index
          BY <5>1, <2>2 DEF Method, ImplClause, RecordClaim
        <5> QED
          BY <4>1, <4>3, <5>2, InsertType DEF KeptClaims, TypeOK
      <4> QED
        BY <4>2, <4>3
    <3> QED
      BY <2>2, <3>2 DEF RecordClaim, TypeOK, inputVars, emitVars, Ty
  <2> QED
    BY <1>3, <2>1, <2>2, TypeStop DEF ClaimStep, ClaimFails, ClaimPanics
<1>4. CASE BodyStep
  <2>1. CASE CompileBody
    BY <2>1 DEF CompileBody, TypeOK, inputVars, methodVars, emitVars, Ty
  <2> QED
    BY <1>4, <2>1, TypeStop DEF BodyStep, BodyFails, BodyPanics
<1>5. CASE FinishStep
  <2>1. CASE FinishMethods
    BY <2>1 DEF FinishMethods, TypeOK, inputVars, methodVars, emitVars, Ty
  <2>2. CASE BeginInterfaces
    <3>1. pending' \subseteq Interfaces
      BY <2>2 DEF BeginInterfaces, TypeOK
    <3>2. <<>> \in Seq(Emission)
      OBVIOUS
    <3> QED
      BY <2>2, <3>1, <3>2 DEF BeginInterfaces, TypeOK, inputVars, methodVars, Ty
  <2>3. CASE PushOther
    <3>1. [ty |-> ti, interfaces |-> <<>>] \in [ty : Nat, interfaces : Seq(Emission)]
      BY <1>0
    <3>2. ti' \in 1 .. (Len(file) + 1)
      BY <2>3, <1>0 DEF PushOther, TypeOK
    <3>3. typeDefs' \in Seq([ty : Nat, interfaces : Seq(Emission)])
      BY <2>3, <3>1 DEF PushOther, TypeOK
    <3>4. /\ pc' = "type"
          /\ UNCHANGED <<file, base, ind, overrideCount, impls>>
          /\ UNCHANGED <<pending, target, rest, last, map, interfaces>>
      BY <2>3 DEF PushOther, inputVars, methodVars, emitVars
    <3> QED
      BY <3>2, <3>3, <3>4 DEF TypeOK
  <2> QED
    BY <1>5, <2>1, <2>2, <2>3, TypeStop DEF FinishStep, FieldsFail
<1>6. CASE EmitStep
  <2>1. ASSUME NEW i \in Interfaces, BeginInterface(i) PROVE TypeOK'
    <3>1. Keys(impls, i) \subseteq Index
      BY DEF Keys
    <3> QED
      BY <2>1, <3>1 DEF BeginInterface, TypeOK, inputVars, methodVars, Ty
  <2>2. CASE EmitKey
    <3>1. PICK k \in rest : /\ last' = k
                            /\ map' = Append(map, impls[<<target, k>>])
                            /\ rest' = rest \ {k}
      BY <2>2 DEF EmitKey
    <3>2. <<target, k>> \in DOMAIN impls
      BY <2>2 DEF EmitKey, TypeOK, Keys
    <3>3. impls[<<target, k>>] \in Index
      BY <3>2 DEF TypeOK
    <3>4. map' \in Seq(Index) /\ last' \in Index /\ rest' \subseteq rest
      BY <3>1, <3>3 DEF TypeOK
    <3>5. rest' \subseteq Keys(impls, target)
      BY <3>4, <2>2 DEF EmitKey, TypeOK
    <3> QED
      BY <2>2, <3>4, <3>5 DEF EmitKey, TypeOK, inputVars, methodVars, Ty, Keys
  <2>3. CASE FinishInterface
    <3>1. [target |-> target, map |-> map] \in Emission
      BY <2>3 DEF FinishInterface, TypeOK, Emission
    <3> QED
      BY <2>3, <3>1 DEF FinishInterface, TypeOK, inputVars, methodVars, Ty, Remaining
  <2>4. CASE PushClass
    <3>1. [ty |-> ti, interfaces |-> interfaces] \in [ty : Nat, interfaces : Seq(Emission)]
      BY <1>0 DEF TypeOK
    <3>2. typeDefs' \in Seq([ty : Nat, interfaces : Seq(Emission)])
      BY <2>4, <3>1 DEF PushClass, TypeOK
    <3>3. ti' \in 1 .. (Len(file) + 1)
      BY <2>4, <1>0 DEF PushClass, TypeOK
    <3>4. /\ pc' = "type"
          /\ UNCHANGED <<file, base, ind, overrideCount, impls>>
          /\ UNCHANGED <<pending, target, rest, last, map, interfaces>>
      BY <2>4 DEF PushClass, inputVars, methodVars, emitVars
    <3> QED
      BY <3>2, <3>3, <3>4 DEF TypeOK
  <2> QED
    BY <1>6, <2>1, <2>2, <2>3, <2>4, TypeStop DEF EmitStep, InterfaceFails, KeyPanics
<1>7. CASE Terminated \/ UNCHANGED vars
  BY <1>7 DEF Terminated, vars, TypeOK, Ty
<1> QED
  BY <1>1, <1>2, <1>3, <1>4, <1>5, <1>6, <1>7 DEF Next

\* The variables always have the types build_impl gives them, whatever file
\* it compiles.
THEOREM TypeCorrect == Spec => []TypeOK
<1> QED
  BY TypeInit, TypePreserved, PTL DEF Spec

----------------------------------------------------------------------------
(* Slots.  The counter of overrides and the new methods seen so far add up *)
(* to the methods seen so far: that is what makes `current_index +         *)
(* parent_len - override_count` the next free slot.                        *)

Compiling == Running \ {"type"}
AfterMethods == {"fields", "interfaces", "keys"}

CountInv ==
    pc \in Compiling =>
        IF IsClass(Ty)
        THEN overrideCount + Cardinality(NewMethods(Ty, ind)) = ind
        ELSE overrideCount = 0

LandInv ==
    /\ Len(typeDefs) = ti - 1
    /\ pc \in Compiling => IndexFollows(ti, Ty)
    /\ pc \in AfterMethods => ind = Len(Ty.methods)

SlotInv == CountInv /\ LandInv /\ SlotsCorrect /\ SlotPanicMeansWrongSlot
             /\ TokensLand

LEMMA NewMethodsFinite ==
    ASSUME NEW t, NEW n \in Nat
    PROVE  /\ IsFiniteSet(NewMethods(t, n))
           /\ Cardinality(NewMethods(t, n)) \in Nat
<1>1. IsFiniteSet(1 .. n)
  BY FS_Interval
<1>2. NewMethods(t, n) \in SUBSET (1 .. n)
  BY DEF NewMethods
<1>3. IsFiniteSet(NewMethods(t, n))
  BY <1>1, <1>2, FS_Subset
<1> QED
  BY <1>3, FS_CardinalityType

LEMMA NewMethodsNone ==
    ASSUME NEW t
    PROVE  NewMethods(t, 0) = {} /\ Cardinality(NewMethods(t, 0)) = 0
<1>1. NewMethods(t, 0) = {}
  BY DEF NewMethods
<1> QED
  BY <1>1, FS_EmptySet

\* One more method adds itself to the new ones unless it overrides.
LEMMA NewMethodsStep ==
    ASSUME NEW t, NEW n \in Nat
    PROVE  /\ t.methods[n + 1].overrides =>
                NewMethods(t, n + 1) = NewMethods(t, n)
           /\ ~t.methods[n + 1].overrides =>
                /\ NewMethods(t, n + 1) = NewMethods(t, n) \cup {n + 1}
                /\ Cardinality(NewMethods(t, n + 1)) = Cardinality(NewMethods(t, n)) + 1
<1>1. 1 .. (n + 1) = (1 .. n) \cup {n + 1}
  OBVIOUS
<1>2. n + 1 \notin NewMethods(t, n)
  BY DEF NewMethods
<1>3. ~t.methods[n + 1].overrides =>
          NewMethods(t, n + 1) = NewMethods(t, n) \cup {n + 1}
  BY <1>1 DEF NewMethods
<1>4. t.methods[n + 1].overrides => NewMethods(t, n + 1) = NewMethods(t, n)
  BY <1>1 DEF NewMethods
<1>5. Cardinality(NewMethods(t, n) \cup {n + 1}) = Cardinality(NewMethods(t, n)) + 1
  BY <1>2, NewMethodsFinite, FS_AddElement
<1> QED
  BY <1>3, <1>4, <1>5

\* On every type, the assertion compares with the method's slot.
LEMMA ExpectedIsSlot ==
    ASSUME TypeOK, SlotInv, pc = "slot", ind < Len(Ty.methods)
    PROVE  ExpectedIndex(Ty, ind, overrideCount) = SlotOf(Ty, ind + 1)
<1>1. Ty \in TypeDef /\ ind \in Nat /\ overrideCount \in Nat
  BY TyIsTypeDef DEF TypeOK, Running
<1>2. ParentLen(Ty) \in Int
  BY <1>1 DEF ParentLen, TypeDef, Parent
<1>3. (ind + 1) - 1 = ind
  BY <1>1
<1>4. CASE IsClass(Ty)
  <2>1. overrideCount + Cardinality(NewMethods(Ty, ind)) = ind
    BY <1>4 DEF SlotInv, CountInv, Compiling, Running
  <2>2. Cardinality(NewMethods(Ty, ind)) \in Nat
    BY <1>1, NewMethodsFinite
  <2> QED
    BY <1>1, <1>2, <1>3, <1>4, <2>1, <2>2 DEF ExpectedIndex, SlotOf
<1>5. CASE ~IsClass(Ty)
  <2>1. overrideCount = 0
    BY <1>5 DEF SlotInv, CountInv, Compiling, Running
  <2>2. ParentLen(Ty) = 0
    BY <1>1, <1>5 DEF ParentLen, TypeDef, IsClass
  <2> QED
    BY <1>1, <1>3, <1>5, <2>1, <2>2 DEF ExpectedIndex, SlotOf
<1> QED
  BY <1>4, <1>5

LEMMA SlotInit == Init => SlotInv
BY DEF Init, SlotInv, CountInv, LandInv, SlotsCorrect, TokensLand,
       SlotPanicMeansWrongSlot, Compiling, Running, AfterMethods

\* A step that leaves the type, the counters and the assembly alone.
LEMMA SlotFrame ==
    ASSUME TypeOK, SlotInv,
           UNCHANGED <<file, base, ti, ind, overrideCount, typeDefs>>,
           pc' \in Compiling => pc \in Compiling,
           pc' \in AfterMethods => pc \in AfterMethods \/ ind = Len(Ty.methods),
           pc' # "slot_panic"
    PROVE  SlotInv'
<1>1. Ty' = Ty
  BY DEF Ty
<1>2. CountInv'
  BY <1>1 DEF SlotInv, CountInv
<1>3. LandInv'
  BY <1>1 DEF SlotInv, LandInv, IndexFollows
<1>4. SlotsCorrect'
  BY <1>1 DEF SlotInv, SlotsCorrect, Compiling
<1> QED
  BY <1>2, <1>3, <1>4 DEF SlotInv, TokensLand, SlotPanicMeansWrongSlot

LEMMA SlotStop ==
    ASSUME TypeOK, SlotInv, NEW reason \in Finished \ {"slot_panic"}, StopAt(reason)
    PROVE  SlotInv'
<1>1. reason \notin Compiling /\ reason \notin AfterMethods
  BY DEF Finished, Panics, Compiling, Running, AfterMethods
<1> QED
  BY <1>1, SlotFrame DEF StopAt, inputVars, methodVars, emitVars

\* Both ways of pushing a type.
LEMMA SlotPush ==
    ASSUME TypeOK, SlotInv, pc \in AfterMethods, pc' = "type", ti' = ti + 1,
           UNCHANGED <<file, base, ind, overrideCount>>,
           NEW ifs, typeDefs' = Append(typeDefs, [ty |-> ti, interfaces |-> ifs])
    PROVE  SlotInv'
<1>1. /\ Len(typeDefs) = ti - 1 /\ ti \in Nat /\ ti >= 1 /\ IndexFollows(ti, Ty)
      /\ ind = Len(Ty.methods) /\ base \in Nat
      /\ DOMAIN typeDefs = 1 .. (ti - 1)
  <2>1. pc \in Compiling
    BY DEF Compiling, Running, AfterMethods
  <2>2. base \in Nat
    BY DEF TypeOK
  <2>3. file \in Seq(TypeDef)
    BY DEF TypeOK
  <2> QED
    BY <2>1, <2>2, <2>3 DEF SlotInv, LandInv, TypeOK
<1>2. /\ Len(typeDefs') = ti
      /\ DOMAIN typeDefs' = 1 .. ti
      /\ typeDefs'[ti].ty = ti
      /\ \A k \in DOMAIN typeDefs : typeDefs'[k] = typeDefs[k]
  BY <1>1 DEF TypeOK
<1>3. CountInv' /\ SlotPanicMeansWrongSlot'
  BY DEF CountInv, SlotPanicMeansWrongSlot, Compiling
<1>4. LandInv'
  BY <1>1, <1>2 DEF LandInv, Compiling, AfterMethods
<1>5. SlotsAssigned(Ty, Len(Ty.methods))
  BY <1>1 DEF SlotInv, SlotsCorrect, AfterMethods, Running
<1>6. SlotsCorrect'
  <2>1. ASSUME NEW k \in 1 .. ti PROVE SlotsAssigned(file[k], Len(file[k].methods))
    <3>1. CASE k = ti
      BY <1>5, <3>1 DEF Ty
    <3>2. CASE k # ti
      BY <3>2, <1>1 DEF SlotInv, SlotsCorrect
    <3> QED
      BY <3>1, <3>2
  <2> QED
    BY <2>1, <1>2 DEF SlotsCorrect
<1>7. TokensLand'
  <2>1. ASSUME NEW k \in 1 .. ti
        PROVE  typeDefs'[k].ty = k /\ file[k].index = base + k - 1
    <3>1. CASE k = ti
      BY <1>1, <1>2, <3>1 DEF IndexFollows, Ty
    <3>2. CASE k # ti
      <4>1. k \in DOMAIN typeDefs
        BY <3>2, <1>1
      <4>2. typeDefs[k].ty = k /\ file[k].index = base + k - 1
        BY <4>1 DEF SlotInv, TokensLand
      <4> QED
        BY <4>1, <4>2, <1>2
    <3> QED
      BY <3>1, <3>2
  <2> QED
    BY <2>1, <1>2 DEF TokensLand
<1> QED
  BY <1>3, <1>4, <1>6, <1>7 DEF SlotInv

LEMMA SlotPreserved == TypeOK /\ SlotInv /\ [Next]_vars => SlotInv'
<1> SUFFICES ASSUME TypeOK, SlotInv, [Next]_vars PROVE SlotInv'
  OBVIOUS
<1> USE DEF Running, Compiling, AfterMethods
<1>0. /\ \A r \in {"ok", "error", "order_panic", "parent_panic", "overflow_panic",
                   "claim_panic", "key_panic", "body_panic"} :
            r \in Finished \ {"slot_panic"}
  BY DEF Finished, Panics
<1>1. CASE TypeStep
  <2>1. CASE BeginType
    <3>1. Ty' = Ty /\ ind' = 0 /\ overrideCount' = 0 /\ pc' = "slot"
          /\ UNCHANGED <<file, base, ti, typeDefs>>
      BY <2>1 DEF BeginType, Ty, inputVars, FreshCount
    <3>2. CountInv'
      BY <3>1, NewMethodsNone DEF CountInv
    <3>3. LandInv'
      BY <2>1, <3>1 DEF BeginType, SlotInv, LandInv, IndexFollows
    <3>4. SlotsCorrect'
      BY <3>1, NewMethodsNone DEF SlotInv, SlotsCorrect, SlotsAssigned
    <3> QED
      BY <3>1, <3>2, <3>3, <3>4 DEF SlotInv, TokensLand, SlotPanicMeansWrongSlot
  <2> QED
    BY <1>0, <1>1, <2>1, SlotStop DEF TypeStep, TypeOutOfOrder, HeaderFails, FinishBuild
<1>2. CASE SlotStep
  <2>0. ASSUME AcceptSlot \/ SkipOverride \/ RejectSlot
        PROVE  /\ Ty' = Ty /\ ind \in Nat /\ ind < Len(Ty.methods)
               /\ ind + 1 \in 1 .. Len(Ty.methods)
               /\ pc \in Compiling /\ UNCHANGED <<file, base, ti, typeDefs>>
               /\ overrideCount \in Nat
               /\ NextMethod = Ty.methods[ind + 1]
    <3>1. Len(Ty.methods) \in Nat
      BY <2>0, TyIsTypeDef DEF AcceptSlot, SkipOverride, RejectSlot, TypeOK
    <3>2. ind \in Nat /\ overrideCount \in Nat
      BY DEF TypeOK
    <3>3. /\ Ty' = Ty /\ ind < Len(Ty.methods) /\ pc \in Compiling
          /\ UNCHANGED <<file, base, ti, typeDefs>>
      BY <2>0 DEF AcceptSlot, SkipOverride, RejectSlot, StopAt, Ty, inputVars, Compiling
    <3> QED
      BY <3>1, <3>2, <3>3 DEF NextMethod
  <2>1. CASE AcceptSlot
    <3>1. /\ ind' = ind + 1 /\ overrideCount' = overrideCount /\ pc' = "impl"
          /\ ~Ty.methods[ind + 1].overrides
          /\ Ty.methods[ind + 1].index = SlotOf(Ty, ind + 1)
      BY <2>0, <2>1, ExpectedIsSlot DEF AcceptSlot
    <3>2. CountInv'
      BY <2>0, <2>1, <3>1, NewMethodsStep, NewMethodsFinite DEF SlotInv, CountInv
    <3>3. LandInv'
      BY <2>0, <2>1, <3>1 DEF SlotInv, LandInv, IndexFollows
    <3>4. SlotsAssigned(Ty, ind + 1)
      BY <2>0, <2>1, <3>1, NewMethodsStep DEF SlotInv, SlotsCorrect, SlotsAssigned
    <3>5. SlotsCorrect'
      BY <2>0, <2>1, <3>1, <3>4 DEF SlotInv, SlotsCorrect
    <3> QED
      BY <2>0, <2>1, <3>1, <3>2, <3>3, <3>5
      DEF SlotInv, TokensLand, SlotPanicMeansWrongSlot
  <2>2. CASE SkipOverride
    <3>1. /\ ind' = ind + 1 /\ pc' = "impl"
          /\ overrideCount' = IF IsClass(Ty) THEN overrideCount + 1 ELSE 0
          /\ Ty.methods[ind + 1].overrides
      BY <2>0, <2>2 DEF SkipOverride, CountOverride
    <3>2. CountInv'
      BY <2>0, <2>2, <3>1, NewMethodsStep, NewMethodsFinite DEF SlotInv, CountInv
    <3>3. LandInv'
      BY <2>0, <2>2, <3>1 DEF SlotInv, LandInv, IndexFollows
    <3>4. SlotsAssigned(Ty, ind + 1)
      BY <2>0, <2>2, <3>1, NewMethodsStep DEF SlotInv, SlotsCorrect, SlotsAssigned
    <3>5. SlotsCorrect'
      BY <2>0, <2>2, <3>1, <3>4 DEF SlotInv, SlotsCorrect
    <3> QED
      BY <2>0, <2>2, <3>1, <3>2, <3>3, <3>5
      DEF SlotInv, TokensLand, SlotPanicMeansWrongSlot
  <2>3. CASE RejectSlot
    <3>1. /\ pc' = "slot_panic" /\ ind' = ind
          /\ ~Ty.methods[ind + 1].overrides
          /\ Ty.methods[ind + 1].index # SlotOf(Ty, ind + 1)
      BY <2>0, <2>3, ExpectedIsSlot DEF RejectSlot, StopAt, methodVars
    <3>2. ~SlotsAssigned(Ty, ind + 1)
      <4>1. /\ NewMethods(Ty, ind + 1)
                  = {j \in 1 .. (ind + 1) : ~Ty.methods[j].overrides}
            /\ ind + 1 \in 1 .. (ind + 1)
        BY <2>0, <2>3 DEF NewMethods
      <4>2. ind + 1 \in NewMethods(Ty, ind + 1)
        BY <3>1, <4>1
      <4> QED
        BY <3>1, <4>2 DEF SlotsAssigned
    <3>3. SlotPanicMeansWrongSlot'
      BY <2>0, <2>3, <3>1, <3>2 DEF SlotPanicMeansWrongSlot
    <3> QED
      BY <2>0, <2>3, <3>1, <3>3 DEF SlotInv, CountInv, LandInv, SlotsCorrect, TokensLand
  <2> QED
    BY <1>0, <1>2, <2>1, <2>2, <2>3, SlotStop DEF SlotStep, ParentPanics, SlotOverflows
<1>3. CASE ClaimStep
  <2>1. CASE NoClaim
    BY <2>1, SlotFrame DEF NoClaim, inputVars, methodVars
  <2>2. CASE RecordClaim
    BY <2>2, SlotFrame DEF RecordClaim, inputVars
  <2> QED
    BY <1>0, <1>3, <2>1, <2>2, SlotStop DEF ClaimStep, ClaimFails, ClaimPanics
<1>4. CASE BodyStep
  <2>1. CASE CompileBody
    BY <2>1, SlotFrame DEF CompileBody, inputVars, methodVars
  <2> QED
    BY <1>0, <1>4, <2>1, SlotStop DEF BodyStep, BodyFails, BodyPanics
<1>5. CASE FinishStep
  <2>1. CASE FinishMethods
    BY <2>1, SlotFrame DEF FinishMethods, inputVars, methodVars
  <2>2. CASE BeginInterfaces
    BY <2>2, SlotFrame DEF BeginInterfaces, inputVars, methodVars
  <2>3. CASE PushOther
    BY <2>3, SlotPush DEF PushOther, inputVars, methodVars
  <2> QED
    BY <1>0, <1>5, <2>1, <2>2, <2>3, SlotStop DEF FinishStep, FieldsFail
<1>6. CASE EmitStep
  <2>1. ASSUME NEW i \in Interfaces, BeginInterface(i) PROVE SlotInv'
    BY <2>1, SlotFrame DEF BeginInterface, inputVars, methodVars
  <2>2. CASE EmitKey
    BY <2>2, SlotFrame DEF EmitKey, inputVars, methodVars
  <2>3. CASE FinishInterface
    BY <2>3, SlotFrame DEF FinishInterface, inputVars, methodVars
  <2>4. CASE PushClass
    BY <2>4, SlotPush DEF PushClass, inputVars, methodVars
  <2> QED
    BY <1>0, <1>6, <2>1, <2>2, <2>3, <2>4, SlotStop DEF EmitStep, InterfaceFails, KeyPanics
<1>7. CASE Terminated \/ UNCHANGED vars
  <2>1. UNCHANGED vars
    BY <1>7 DEF Terminated
  <2>2. Ty' = Ty /\ UNCHANGED <<file, base, pc, ti, ind, overrideCount, typeDefs>>
    BY <2>1 DEF vars, Ty
  <2> QED
    BY <2>2 DEF SlotInv, CountInv, LandInv, SlotsCorrect, SlotPanicMeansWrongSlot,
                TokensLand, IndexFollows
<1> QED
  BY <1>1, <1>2, <1>3, <1>4, <1>5, <1>6, <1>7 DEF Next

LEMMA SlotInvariant == Spec => []SlotInv
<1> QED
  BY TypeInit, TypePreserved, SlotInit, SlotPreserved, PTL DEF Spec

\* Every new method of every type that reaches the assembly is in the slot
\* the language gives it, for any mix of overrides and any parent.
THEOREM SlotsTheorem == Spec => []SlotsCorrect
<1>1. SlotInv => SlotsCorrect
  BY DEF SlotInv
<1> QED
  BY <1>1, SlotInvariant, PTL

\* The slot assertion never fires on a method that is in its slot.
THEOREM SlotPanicTheorem == Spec => []SlotPanicMeansWrongSlot
<1>1. SlotInv => SlotPanicMeansWrongSlot
  BY DEF SlotInv
<1> QED
  BY <1>1, SlotInvariant, PTL

\* A type's definition is at the index its TypeDef tokens hold.
THEOREM TokensLandTheorem == Spec => []TokensLand
<1>1. SlotInv => TokensLand
  BY DEF SlotInv
<1> QED
  BY <1>1, SlotInvariant, PTL

----------------------------------------------------------------------------
(* Interface maps.  Until the class is pushed, `interface_implementations` *)
(* is the last-claim map of the methods compiled so far; the emission      *)
(* copies it entry by entry.                                               *)

\* The methods whose `impl` clause has been looked at.
Claimed == IF pc = "impl" THEN ind - 1 ELSE ind

ClaimsInv ==
    pc \in Compiling /\ IsClass(Ty) =>
        /\ \A i \in Interfaces, key \in Index :
              <<i, key>> \in DOMAIN impls =>
                  LastClaim(Ty, Claimed, i, key, impls[<<i, key>>])
        /\ \A j \in 1 .. Claimed, i \in Interfaces, key \in Index :
              Claims(Ty, j, i, key) => <<i, key>> \in DOMAIN impls

\* m is a vector for iface that agrees with the claims, entry by entry.
Agrees(iface, m) ==
    \A p \in DOMAIN m : /\ p - 1 \in Keys(impls, iface)
                        /\ m[p] = impls[<<iface, p - 1>>]

Covers(iface, m) == \A key \in Keys(impls, iface) : key + 1 \in DOMAIN m

\* `last` never leaves 0, so a vector has at most the entry for key 0.
KeyInv ==
    pc = "keys" =>
        /\ last = 0
        /\ \/ map = <<>> /\ rest = Keys(impls, target)
           \/ /\ 0 \in Keys(impls, target)
              /\ map = <<impls[<<target, 0>>]>>
              /\ rest = Keys(impls, target) \ {0}

EmitInv ==
    pc \in {"interfaces", "keys"} =>
        /\ IsClass(Ty)
        /\ \A e \in DOMAIN interfaces :
              interfaces[e].target \in Interfaces
                /\ Agrees(interfaces[e].target, interfaces[e].map)
        /\ \A i \in Interfaces :
              i \in pending \/ Keys(impls, i) = {}
                \/ \E e \in DOMAIN interfaces :
                      interfaces[e].target = i /\ Covers(i, interfaces[e].map)

MapInv == ClaimsInv /\ KeyInv /\ EmitInv /\ MapsAligned /\ ClaimsEmitted

\* A clause names one method at most.
LEMMA RefersToUnique ==
    ASSUME NEW c, c \in ImplClause, NEW k \in Index, NEW l \in Index,
           RefersTo(c, k), RefersTo(c, l)
    PROVE  k = l
<1>1. CASE c.name = ByIndex
  BY <1>1 DEF RefersTo
<1>2. CASE c.name # ByIndex
  <2> DEFINE ms == InterfaceMethods[c.iface]
             fits(i) == ms[i].name = c.name /\ ~ms[i].static
  <2>1. ms \in Seq(InterfaceMethod)
    BY InterfaceAssumption DEF ImplClause
  <2>2. PICK i \in DOMAIN ms : fits(i) /\ ms[i].id = k /\ \A j \in 1 .. (i - 1) : ~fits(j)
    BY <1>2 DEF RefersTo, NamesMethod
  <2>3. PICK h \in DOMAIN ms : fits(h) /\ ms[h].id = l /\ \A j \in 1 .. (h - 1) : ~fits(j)
    BY <1>2 DEF RefersTo, NamesMethod
  <2>4. i \in Nat \ {0} /\ h \in Nat \ {0}
    BY <2>1
  <2>5. ~(i < h) /\ ~(h < i)
    BY <2>2, <2>3, <2>4
  <2>6. i = h
    BY <2>4, <2>5
  <2> QED
    BY <2>2, <2>3, <2>6
<1> QED
  BY <1>1, <1>2

\* A method without the claim leaves the last claimer as it is.
LEMMA LastClaimKept ==
    ASSUME NEW t, NEW n \in Nat, NEW i, NEW key, NEW v,
           LastClaim(t, n, i, key, v), ~Claims(t, n + 1, i, key)
    PROVE  LastClaim(t, n + 1, i, key, v)
<1>1. PICK j \in 1 .. n : /\ Claims(t, j, i, key)
                          /\ t.methods[j].index = v
                          /\ \A h \in (j + 1) .. n : ~Claims(t, h, i, key)
  BY DEF LastClaim
<1>2. \A h \in (j + 1) .. (n + 1) : ~Claims(t, h, i, key)
  BY <1>1
<1> QED
  BY <1>1, <1>2 DEF LastClaim

\* A method with it becomes the last claimer.
LEMMA LastClaimNew ==
    ASSUME NEW t, NEW n \in Nat, NEW i, NEW key, Claims(t, n + 1, i, key)
    PROVE  LastClaim(t, n + 1, i, key, t.methods[n + 1].index)
<1>1. (n + 2) .. (n + 1) = {}
  OBVIOUS
<1> QED
  BY <1>1 DEF LastClaim

LEMMA MapInit == Init => MapInv
BY DEF Init, MapInv, ClaimsInv, KeyInv, EmitInv, MapsAligned, ClaimsEmitted,
       Compiling, Running

\* A step before the emission that leaves the claims alone.
LEMMA MapFrame ==
    ASSUME TypeOK, MapInv,
           UNCHANGED <<file, ti, impls, typeDefs>>,
           pc' \in Compiling => pc \in Compiling /\ Claimed' = Claimed,
           pc' \notin {"interfaces", "keys"}
    PROVE  MapInv'
<1>1. Ty' = Ty
  BY DEF Ty
<1>2. ClaimsInv'
  BY <1>1 DEF MapInv, ClaimsInv
<1> QED
  BY <1>2 DEF MapInv, KeyInv, EmitInv, MapsAligned, ClaimsEmitted

LEMMA MapStop ==
    ASSUME TypeOK, MapInv, NEW reason \in Finished, StopAt(reason)
    PROVE  MapInv'
<1>1. reason \notin Compiling /\ reason \notin {"interfaces", "keys"}
  BY DEF Finished, Panics, Compiling, Running
<1> QED
  BY <1>1, MapFrame DEF StopAt, inputVars, methodVars, emitVars

\* Both ways of pushing a type.
LEMMA MapPush ==
    ASSUME TypeOK, SlotInv, MapInv, pc' = "type",
           UNCHANGED file, NEW ifs,
           typeDefs' = Append(typeDefs, [ty |-> ti, interfaces |-> ifs]),
           Aligned(Ty, ifs), IsClass(Ty) => AllClaimsIn(Ty, ifs)
    PROVE  MapInv'
<1>1. DOMAIN typeDefs = 1 .. (ti - 1) /\ ti \in Nat /\ ti >= 1
  <2>1. file \in Seq(TypeDef)
    BY DEF TypeOK
  <2> QED
    BY <2>1 DEF SlotInv, LandInv, TypeOK
<1>2. /\ DOMAIN typeDefs' = 1 .. ti
      /\ typeDefs'[ti].interfaces = ifs
      /\ \A k \in 1 .. (ti - 1) : typeDefs'[k] = typeDefs[k]
  BY <1>1 DEF SlotInv, LandInv, TypeOK
<1>3. ClaimsInv' /\ KeyInv' /\ EmitInv'
  BY DEF ClaimsInv, KeyInv, EmitInv, Compiling
<1>4. ASSUME NEW k \in 1 .. ti
      PROVE  /\ Aligned(file[k], typeDefs'[k].interfaces)
             /\ IsClass(file[k]) => AllClaimsIn(file[k], typeDefs'[k].interfaces)
  <2>1. CASE k = ti
    BY <1>2, <2>1 DEF Ty
  <2>2. CASE k # ti
    BY <2>2, <1>1, <1>2 DEF MapInv, MapsAligned, ClaimsEmitted
  <2> QED
    BY <2>1, <2>2
<1>5. MapsAligned' /\ ClaimsEmitted'
  BY <1>2, <1>4 DEF MapsAligned, ClaimsEmitted
<1> QED
  BY <1>3, <1>5 DEF MapInv

LEMMA MapPreserved == TypeOK /\ SlotInv /\ MapInv /\ [Next]_vars => MapInv'
<1> SUFFICES ASSUME TypeOK, SlotInv, MapInv, [Next]_vars PROVE MapInv'
  OBVIOUS
<1> USE DEF Running, Compiling
<1>0. \A r \in {"ok", "error"} \cup Panics : r \in Finished
  BY DEF Finished
<1>1. CASE TypeStep
  <2>1. CASE BeginType
    <3>1. /\ pc' = "slot" /\ ind' = 0 /\ DOMAIN impls' = {}
          /\ UNCHANGED <<file, typeDefs>>
      BY <2>1 DEF BeginType, NoClaims, inputVars
    <3>2. ClaimsInv'
      BY <3>1 DEF ClaimsInv, Claimed
    <3> QED
      BY <3>1, <3>2 DEF MapInv, KeyInv, EmitInv, MapsAligned, ClaimsEmitted
  <2> QED
    BY <1>0, <1>1, <2>1, MapStop
    DEF TypeStep, TypeOutOfOrder, HeaderFails, FinishBuild, Panics
<1>2. CASE SlotStep
  <2>1. CASE AcceptSlot \/ SkipOverride
    <3>1. /\ pc = "slot" /\ pc' = "impl" /\ ind' = ind + 1 /\ ind \in Nat
          /\ UNCHANGED <<file, ti, impls, typeDefs>>
      BY <2>1 DEF AcceptSlot, SkipOverride, TypeOK, inputVars
    <3>2. Claimed' = Claimed
      BY <3>1 DEF Claimed
    <3> QED
      BY <3>1, <3>2, MapFrame
  <2> QED
    BY <1>0, <1>2, <2>1, MapStop
    DEF SlotStep, ParentPanics, SlotOverflows, RejectSlot, Panics
<1>3. CASE ClaimStep
  <2>0. ASSUME NoClaim \/ RecordClaim
        PROVE  /\ pc = "impl" /\ pc' = "body" /\ Ty' = Ty
               /\ UNCHANGED <<file, ti, ind, typeDefs>>
               /\ ind \in Nat \ {0} /\ Claimed' = ind /\ Claimed = ind - 1
               /\ ind - 1 \in Nat /\ (ind - 1) + 1 = ind
               /\ Meth \in Method /\ Meth = Ty.methods[ind]
    <3>1. ti <= Len(file) /\ ind \in Nat /\ ind > 0 /\ ind <= Len(Ty.methods)
      BY <2>0 DEF NoClaim, RecordClaim, TypeOK
    <3>2. ind \in 1 .. Len(Ty.methods)
      BY <3>1, TyIsTypeDef
    <3>3. Meth \in Method
      BY <3>1, <3>2, TyIsTypeDef DEF Meth
    <3> QED
      BY <2>0, <3>1, <3>3 DEF NoClaim, RecordClaim, Ty, Meth, Claimed, inputVars, methodVars
  <2>1. CASE NoClaim
    <3>1. \A i, key : ~Claims(Ty, ind, i, key)
      BY <2>0, <2>1 DEF NoClaim, Claims
    <3>2. impls' = impls
      BY <2>1 DEF NoClaim, methodVars
    <3>3. ASSUME IsClass(Ty), NEW i \in Interfaces, NEW key \in Index,
                 <<i, key>> \in DOMAIN impls
          PROVE  LastClaim(Ty, ind, i, key, impls[<<i, key>>])
      <4>1. LastClaim(Ty, ind - 1, i, key, impls[<<i, key>>])
        BY <3>3, <2>0, <2>1 DEF MapInv, ClaimsInv
      <4>2. LastClaim(Ty, (ind - 1) + 1, i, key, impls[<<i, key>>])
        BY <4>1, <3>1, <2>0, <2>1, LastClaimKept
      <4> QED
        BY <4>2, <2>0, <2>1
    <3>4. ASSUME IsClass(Ty), NEW j \in 1 .. ind, NEW i \in Interfaces, NEW key \in Index,
                 Claims(Ty, j, i, key)
          PROVE  <<i, key>> \in DOMAIN impls
      <4>1. j # ind
        BY <3>4, <3>1
      <4>2. j \in 1 .. (ind - 1)
        BY <4>1, <2>0, <2>1
      <4> QED
        BY <4>2, <3>4, <2>0, <2>1 DEF MapInv, ClaimsInv
    <3>5. ClaimsInv'
      BY <3>2, <3>3, <3>4, <2>0, <2>1 DEF ClaimsInv
    <3> QED
      BY <3>5, <2>0, <2>1 DEF MapInv, KeyInv, EmitInv, MapsAligned, ClaimsEmitted
  <2>2. CASE RecordClaim
    <3>0. Meth.impl \in ImplClause
      BY <2>0, <2>2 DEF RecordClaim, Method
    <3>1. PICK k \in Index :
             /\ RefersTo(Meth.impl, k)
             /\ impls' = KeptClaims(Ty, Insert(impls, Meth.impl.iface, k, Meth.index))
      BY <2>2 DEF RecordClaim
    <3>2. \A i, key : Claims(Ty, ind, i, key) => i = Meth.impl.iface
      BY <2>0, <2>2 DEF Claims
    <3>3. \A i : \A key \in Index : Claims(Ty, ind, i, key) => key = k
      BY <2>0, <2>2, <3>0, <3>1, RefersToUnique DEF Claims
    <3>4. Claims(Ty, ind, Meth.impl.iface, k)
      BY <2>0, <2>2, <3>1 DEF Claims, RecordClaim
    <3>5. ASSUME IsClass(Ty) PROVE ClaimsInv'
      <4> DEFINE new == <<Meth.impl.iface, k>>
      <4>0. Meth.impl.iface \in Interfaces /\ Meth.index \in Index
        BY <3>0, <2>0, <2>2 DEF ImplClause, Method
      <4>1. /\ DOMAIN impls' = DOMAIN impls \cup {new}
            /\ impls'[new] = Meth.index
            /\ \A p \in DOMAIN impls : p # new => impls'[p] = impls[p]
        <5>1. impls' = Insert(impls, Meth.impl.iface, k, Meth.index)
          BY <3>1, <3>5 DEF KeptClaims
        <5>2. impls \in [DOMAIN impls -> Index] /\ DOMAIN impls \subseteq Interfaces \X Index
          BY DEF TypeOK
        <5> QED
          BY <5>1, <5>2, <4>0 DEF Insert
      <4>2. ASSUME NEW i \in Interfaces, NEW key \in Index, <<i, key>> \in DOMAIN impls'
            PROVE  LastClaim(Ty, ind, i, key, impls'[<<i, key>>])
        <5>1. CASE <<i, key>> = new
          <6>1. i = Meth.impl.iface /\ key = k
            BY <5>1
          <6>2. Claims(Ty, (ind - 1) + 1, i, key)
            BY <6>1, <3>4, <2>0, <2>2
          <6>3. LastClaim(Ty, (ind - 1) + 1, i, key, Ty.methods[(ind - 1) + 1].index)
            BY <6>2, <2>0, <2>2, LastClaimNew
          <6> QED
            BY <6>3, <4>1, <5>1, <2>0, <2>2
        <5>2. CASE <<i, key>> # new
          <6>1. <<i, key>> \in DOMAIN impls /\ impls'[<<i, key>>] = impls[<<i, key>>]
            BY <5>2, <4>1, <4>2
          <6>2. LastClaim(Ty, ind - 1, i, key, impls[<<i, key>>])
            BY <6>1, <3>5, <2>0, <2>2 DEF MapInv, ClaimsInv
          <6>3. ~Claims(Ty, (ind - 1) + 1, i, key)
            BY <5>2, <3>2, <3>3, <2>0, <2>2
          <6>4. LastClaim(Ty, (ind - 1) + 1, i, key, impls[<<i, key>>])
            BY <6>2, <6>3, <2>0, <2>2, LastClaimKept
          <6> QED
            BY <6>1, <6>4, <2>0, <2>2
        <5> QED
          BY <5>1, <5>2
      <4>3. ASSUME NEW j \in 1 .. ind, NEW i \in Interfaces, NEW key \in Index,
                   Claims(Ty, j, i, key)
            PROVE  <<i, key>> \in DOMAIN impls'
        <5>1. CASE j = ind
          BY <5>1, <4>1, <4>3, <3>2, <3>3
        <5>2. CASE j # ind
          <6>1. j \in 1 .. (ind - 1)
            BY <5>2, <2>0, <2>2
          <6> QED
            BY <6>1, <4>1, <4>3, <3>5, <2>0, <2>2 DEF MapInv, ClaimsInv
        <5> QED
          BY <5>1, <5>2
      <4> QED
        BY <4>2, <4>3, <2>0, <2>2 DEF ClaimsInv
    <3>6. ClaimsInv'
      <4>1. CASE IsClass(Ty)
        BY <4>1, <3>5
      <4>2. CASE ~IsClass(Ty)
        BY <4>2, <2>0, <2>2 DEF ClaimsInv
      <4> QED
        BY <4>1, <4>2
    <3> QED
      BY <3>6, <2>0, <2>2 DEF MapInv, KeyInv, EmitInv, MapsAligned, ClaimsEmitted
  <2> QED
    BY <1>0, <1>3, <2>1, <2>2, MapStop DEF ClaimStep, ClaimFails, ClaimPanics, Panics
<1>4. CASE BodyStep
  <2>1. CASE CompileBody
    BY <2>1, MapFrame DEF CompileBody, inputVars, methodVars, Claimed
  <2> QED
    BY <1>0, <1>4, <2>1, MapStop DEF BodyStep, BodyFails, BodyPanics, Panics
<1>5. CASE FinishStep
  <2>1. CASE FinishMethods
    BY <2>1, MapFrame DEF FinishMethods, inputVars, methodVars, Claimed
  <2>2. CASE BeginInterfaces
    <3>1. /\ pc = "fields" /\ pc' = "interfaces" /\ IsClass(Ty) /\ Ty' = Ty
          /\ pending' = {p[1] : p \in DOMAIN impls} /\ interfaces' = <<>>
          /\ UNCHANGED <<file, ti, ind, impls, typeDefs>>
      BY <2>2 DEF BeginInterfaces, inputVars, methodVars, Ty
    <3>2. \A i \in Interfaces : i \in pending' \/ Keys(impls, i) = {}
      BY <3>1 DEF Keys
    <3>3. EmitInv'
      BY <3>1, <3>2 DEF EmitInv
    <3>4. ClaimsInv'
      BY <3>1 DEF MapInv, ClaimsInv, Claimed
    <3> QED
      BY <3>1, <3>3, <3>4 DEF MapInv, KeyInv, MapsAligned, ClaimsEmitted
  <2>3. CASE PushOther
    <3>1. Aligned(Ty, <<>>)
      BY DEF Aligned
    <3> QED
      BY <2>3, <3>1, MapPush DEF PushOther, inputVars
  <2> QED
    BY <1>0, <1>5, <2>1, <2>2, <2>3, MapStop DEF FinishStep, FieldsFail
<1>6. CASE EmitStep
  <2>0. ASSUME UNCHANGED <<file, ti, ind, impls, typeDefs>>,
               pc \in {"interfaces", "keys"}, pc' \in {"interfaces", "keys"},
               KeyInv', EmitInv'
        PROVE  MapInv'
    <3>1. Ty' = Ty
      BY <2>0 DEF Ty
    <3>2. ClaimsInv'
      BY <2>0, <3>1 DEF MapInv, ClaimsInv, Claimed
    <3> QED
      BY <2>0, <3>2 DEF MapInv, MapsAligned, ClaimsEmitted
  <2>1. ASSUME NEW i \in Interfaces, BeginInterface(i) PROVE MapInv'
    <3>1. KeyInv'
      BY <2>1 DEF BeginInterface, KeyInv, methodVars
    <3>2. EmitInv'
      BY <2>1 DEF BeginInterface, MapInv, EmitInv, methodVars, inputVars, Ty,
                  Agrees, Covers, Keys
    <3> QED
      BY <2>0, <2>1, <3>1, <3>2 DEF BeginInterface, methodVars, inputVars
  <2>2. CASE EmitKey
    <3>1. PICK k \in rest : /\ k = last /\ last' = k
                            /\ map' = Append(map, impls[<<target, k>>])
                            /\ rest' = rest \ {k}
      BY <2>2 DEF EmitKey, KeyFollows
    <3>2. k = 0 /\ 0 \in rest
      BY <2>2, <3>1 DEF EmitKey, MapInv, KeyInv
    <3>3. map = <<>> /\ rest = Keys(impls, target)
      BY <2>2, <3>2 DEF EmitKey, MapInv, KeyInv
    <3>4. map' = <<impls[<<target, 0>>]>>
      BY <3>1, <3>2, <3>3
    <3>5. KeyInv'
      BY <2>2, <3>1, <3>2, <3>3, <3>4 DEF EmitKey, KeyInv, Keys, methodVars
    <3>6. EmitInv'
      BY <2>2 DEF EmitKey, MapInv, EmitInv, methodVars, inputVars, Ty,
                  Agrees, Covers, Keys
    <3> QED
      BY <2>0, <2>2, <3>5, <3>6 DEF EmitKey, methodVars, inputVars
  <2>3. CASE FinishInterface
    <3>1. /\ pc = "keys" /\ rest = {} /\ target \in Interfaces /\ pc' = "interfaces"
          /\ interfaces' = Append(interfaces, [target |-> target, map |-> map])
          /\ pending' = pending \ {target} /\ Ty' = Ty
          /\ UNCHANGED <<file, ti, ind, impls, typeDefs>>
      BY <2>3 DEF FinishInterface, TypeOK, Remaining, methodVars, inputVars, Ty
    <3>2. Agrees(target, map) /\ Covers(target, map)
      <4>1. CASE map = <<>> /\ rest = Keys(impls, target)
        BY <4>1, <3>1 DEF Agrees, Covers
      <4>2. CASE /\ 0 \in Keys(impls, target)
                 /\ map = <<impls[<<target, 0>>]>>
                 /\ rest = Keys(impls, target) \ {0}
        <5>1. DOMAIN map = {1} /\ map[1] = impls[<<target, 0>>]
          BY <4>2
        <5>2. Keys(impls, target) = {0}
          BY <4>2, <3>1
        <5> QED
          BY <5>1, <5>2 DEF Agrees, Covers
      <4> QED
        BY <3>1, <4>1, <4>2 DEF MapInv, KeyInv
    <3>3. /\ Len(interfaces) \in Nat
          /\ DOMAIN interfaces = 1 .. Len(interfaces)
          /\ DOMAIN interfaces' = 1 .. (Len(interfaces) + 1)
          /\ interfaces'[Len(interfaces) + 1] = [target |-> target, map |-> map]
          /\ \A e \in DOMAIN interfaces : interfaces'[e] = interfaces[e]
      BY <3>1 DEF TypeOK
    <3>4. ASSUME NEW e \in DOMAIN interfaces'
          PROVE  /\ interfaces'[e].target \in Interfaces
                 /\ Agrees(interfaces'[e].target, interfaces'[e].map)
      <4>1. CASE e = Len(interfaces) + 1
        BY <4>1, <3>1, <3>2, <3>3
      <4>2. CASE e \in DOMAIN interfaces
        BY <4>2, <3>1, <3>3 DEF MapInv, EmitInv
      <4> QED
        BY <3>3, <4>1, <4>2
    <3>5. ASSUME NEW i \in Interfaces
          PROVE  i \in pending' \/ Keys(impls, i) = {}
                   \/ \E e \in DOMAIN interfaces' :
                         interfaces'[e].target = i /\ Covers(i, interfaces'[e].map)
      <4>1. CASE i = target
        BY <4>1, <3>2, <3>3
      <4>2. CASE i # target
        BY <4>2, <3>1, <3>3 DEF MapInv, EmitInv
      <4> QED
        BY <4>1, <4>2
    <3>6. EmitInv'
      <4>1. IsClass(Ty)
        BY <3>1 DEF MapInv, EmitInv
      <4>2. Ty' = Ty /\ impls' = impls
        BY <3>1
      <4>3. (\A e \in DOMAIN interfaces :
                interfaces[e].target \in Interfaces
                  /\ Agrees(interfaces[e].target, interfaces[e].map))'
        BY <4>2, <3>4 DEF Agrees, Keys
      <4>4. (\A i \in Interfaces :
                i \in pending \/ Keys(impls, i) = {}
                  \/ \E e \in DOMAIN interfaces :
                        interfaces[e].target = i /\ Covers(i, interfaces[e].map))'
        BY <4>2, <3>5 DEF Covers, Keys
      <4>5. IsClass(Ty)'
        BY <4>1, <4>2 DEF IsClass
      <4> QED
        BY <4>3, <4>4, <4>5 DEF EmitInv
    <3> QED
      BY <2>0, <3>1, <3>6 DEF KeyInv
  <2>4. CASE PushClass
    <3>1. /\ pc = "interfaces" /\ pending = {} /\ IsClass(Ty)
          /\ Claimed = Len(Ty.methods) /\ DOMAIN Ty.methods = 1 .. Len(Ty.methods)
      <4>1. ti <= Len(file)
        BY <2>4 DEF PushClass, TypeOK
      <4> QED
        BY <2>4, <4>1, TyIsTypeDef
        DEF PushClass, MapInv, EmitInv, SlotInv, LandInv, AfterMethods, Claimed
    <3>2. ASSUME NEW e \in DOMAIN interfaces, NEW p \in DOMAIN interfaces[e].map
          PROVE  LastClaim(Ty, Len(Ty.methods), interfaces[e].target, p - 1,
                           interfaces[e].map[p])
      <4>1. /\ interfaces[e].target \in Interfaces
            /\ p - 1 \in Keys(impls, interfaces[e].target)
            /\ interfaces[e].map[p] = impls[<<interfaces[e].target, p - 1>>]
        BY <3>1 DEF MapInv, EmitInv, Agrees
      <4>2. p - 1 \in Index /\ <<interfaces[e].target, p - 1>> \in DOMAIN impls
        BY <4>1 DEF Keys
      <4> QED
        BY <3>1, <4>1, <4>2 DEF MapInv, ClaimsInv
    <3>3. ASSUME NEW j \in DOMAIN Ty.methods, NEW i \in Interfaces, NEW key \in Index,
                 Claims(Ty, j, i, key)
          PROVE  \E e \in DOMAIN interfaces :
                    interfaces[e].target = i /\ key + 1 \in DOMAIN interfaces[e].map
      <4>1. <<i, key>> \in DOMAIN impls
        BY <3>1, <3>3 DEF MapInv, ClaimsInv
      <4>2. key \in Keys(impls, i)
        BY <4>1 DEF Keys
      <4> QED
        BY <3>1, <4>2 DEF MapInv, EmitInv, Covers
    <3>4. Aligned(Ty, interfaces) /\ AllClaimsIn(Ty, interfaces)
      BY <3>2, <3>3 DEF Aligned, AllClaimsIn
    <3> QED
      BY <2>4, <3>4, MapPush DEF PushClass, inputVars
  <2> QED
    BY <1>0, <1>6, <2>1, <2>2, <2>3, <2>4, MapStop DEF EmitStep, InterfaceFails, KeyPanics, Panics
<1>7. CASE Terminated \/ UNCHANGED vars
  <2>1. UNCHANGED vars
    BY <1>7 DEF Terminated
  <2>2. UNCHANGED <<file, pc, ti, ind, impls, pending, target, rest, last, map,
                    interfaces, typeDefs>> /\ Ty' = Ty /\ Claimed' = Claimed
    BY <2>1 DEF vars, Ty, Claimed
  <2>3. ClaimsInv' /\ KeyInv' /\ EmitInv'
    BY <2>2 DEF MapInv, ClaimsInv, KeyInv, EmitInv, Agrees, Covers
  <2> QED
    BY <2>2, <2>3 DEF MapInv, MapsAligned, ClaimsEmitted
<1> QED
  BY <1>1, <1>2, <1>3, <1>4, <1>5, <1>6, <1>7 DEF Next

LEMMA MapInvariant == Spec => []MapInv
<1> QED
  BY TypeInit, TypePreserved, SlotInit, SlotPreserved, MapInit, MapPreserved, PTL
  DEF Spec

\* Entry p of every interface vector in the assembly is the method that
\* claimed method p - 1 of the interface last.
THEOREM MapsAlignedTheorem == Spec => []MapsAligned
<1>1. MapInv => MapsAligned
  BY DEF MapInv
<1> QED
  BY <1>1, MapInvariant, PTL

\* No claim of a class that reaches the assembly is lost.
THEOREM ClaimsEmittedTheorem == Spec => []ClaimsEmitted
<1>1. MapInv => ClaimsEmitted
  BY DEF MapInv
<1> QED
  BY <1>1, MapInvariant, PTL
============================================================================
