----------------------------- MODULE TypeBuild -----------------------------
(***************************************************************************)
(* `Compiler::build_impl`: the loop that turns the type definitions of the *)
(* (cloned) file into binary type definitions, and the part of             *)
(* `compile_method` that carries state from one method to the next: the    *)
(* slot an un-overriding method must sit in, the count of overrides, and   *)
(* the interface methods a class claims to implement.                      *)
(*                                                                         *)
(* The translation of a method's attributes and body, of fields and of     *)
(* required interfaces is abstracted to whether it succeeds: it touches    *)
(* none of the variables here.  TypeTokens models what it does to the      *)
(* tables of the assembly.                                                 *)
(***************************************************************************)
EXTENDS Integers, Sequences, FiniteSets

CONSTANTS
    Files,             \* the files a build may start from: sequences of types
    Bases,             \* the values of `last_index`
    MaxIndex,          \* u32::MAX
    Interfaces,        \* the type references that occur in `impl` clauses
    InterfaceMethods,  \* the methods each of them resolves to, <<>> if none
    Denotable,         \* the references compile_type_reference has a token for
    Names,             \* method names
    ByIndex,           \* "the clause names the method by index" (no name)
    NoImpl             \* a method without an `impl` clause

Index == 0 .. MaxIndex

\* The reference in an `impl` clause: `ItemRef::ByIndex(index)` when name is
\* ByIndex, `ItemRef::ByName(name)` otherwise.
ImplClause == [iface : Interfaces, name : Names \cup {ByIndex},
               index : Index, generic : BOOLEAN]

Method == [index : Index, overrides : BOOLEAN, impl : ImplClause \cup {NoImpl}]

\* What the build learns about the parent: there is none; its name is unknown
\* and it carries no index ("missing"); it has a token but nothing answers a
\* query for it, a type parameter for instance ("opaque"); or it is known.
Parent == [tag : {"none", "missing", "opaque", "known"}, methods : Index]

\* Only classes have a parent.
TypeDef == {t \in [kind : {"class", "struct", "interface"}, index : Index,
                   parent : Parent, methods : Seq(Method)] :
              t.kind # "class" => t.parent.tag = "none"}

InterfaceMethod == [name : Names, id : Index, static : BOOLEAN]

ASSUME IndexAssumption == MaxIndex \in Nat
ASSUME FilesAssumption == Files \subseteq Seq(TypeDef) /\ Bases \subseteq Index
ASSUME InterfaceAssumption ==
    /\ InterfaceMethods \in [Interfaces -> Seq(InterfaceMethod)]
    /\ Denotable \subseteq Interfaces
    /\ ByIndex \notin Names
    /\ NoImpl \notin ImplClause

VARIABLES
    file,           \* the clone of the compiler's file
    base,           \* `last_index`
    pc,
    ti,             \* the type being built, 1-based
    ind,            \* methods of it the iterator has handed out
    overrideCount,  \* `override_count`
    impls,          \* `interface_implementations`, keyed <<interface, method>>
    pending,        \* interfaces the final iteration has not reached
    target,         \* the one it is at
    rest,           \* the keys of its map still to be visited
    last,           \* `last`
    map,            \* the values collected so far
    interfaces,     \* `interfaces` of the class
    typeDefs        \* what this build pushed on `assembly.type_defs`

vars == <<file, base, pc, ti, ind, overrideCount, impls, pending, target,
          rest, last, map, interfaces, typeDefs>>

emitVars   == <<pending, target, rest, last, map, interfaces>>
methodVars == <<ind, overrideCount, impls>>
inputVars  == <<file, base>>

Panics   == {"order_panic", "parent_panic", "overflow_panic", "slot_panic",
             "claim_panic", "key_panic", "body_panic"}
Finished == {"ok", "error"} \cup Panics
Running  == {"type", "slot", "impl", "body", "fields", "interfaces", "keys"}

----------------------------------------------------------------------------
(* Helpers                                                                 *)

Ty == file[ti]

\* A method being compiled: the iterator has already counted it.
Meth == Ty.methods[ind]

IsClass(t) == t.kind = "class"

\* The index of the first non-static method of that name, as a relation.
NamesMethod(ms, name, key) ==
    \E i \in DOMAIN ms :
        /\ ms[i].name = name /\ ~ms[i].static /\ ms[i].id = key
        /\ \A j \in 1 .. (i - 1) : ~(ms[j].name = name /\ ~ms[j].static)

\* compile_method_reference on the container the `impl` clause resolves to.
RefersTo(clause, key) ==
    IF clause.name = ByIndex
    THEN key = clause.index
    ELSE NamesMethod(InterfaceMethods[clause.iface], clause.name, key)

RefersToSomething(clause) == \E key \in Index : RefersTo(clause, key)

Keys(claims, iface) == {k \in Index : <<iface, k>> \in DOMAIN claims}

NoClaims == [p \in {} |-> 0]

InsertKeepsOld(claims, iface, key, index) ==
    [p \in DOMAIN claims \cup {<<iface, key>>} |->
        IF p \in DOMAIN claims THEN claims[p] ELSE index]

\* `entry(ty).or_default().insert(key, index)`: a second claim replaces the
\* first.
Insert(claims, iface, key, index) ==
    [p \in DOMAIN claims \cup {<<iface, key>>} |->
        IF p = <<iface, key>> THEN index ELSE claims[p]]

\* `parent_len`, when the parent resolves to a type with at least one method.
ParentLen(t) == IF t.parent.tag = "none" THEN 0 ELSE t.parent.methods - 1

ParentUsable(t) ==
    t.parent.tag = "none" \/ (t.parent.tag = "known" /\ t.parent.methods > 0)

ExpectedIgnoresOverrides(t, n, overridden) == n + ParentLen(t)

\* `current_index + parent_len - *override_count`
ExpectedIndex(t, n, overridden) == n + ParentLen(t) - overridden

\* Only a class hands the same counter and the same map to all its methods;
\* a struct and an interface make fresh ones for each.
CountOverrideDown(t) == overrideCount - 1
CountOverride(t) == IF IsClass(t) THEN overrideCount + 1 ELSE 0

DroppedClaims(t, claims) == impls
KeptClaims(t, claims) == IF IsClass(t) THEN claims ELSE impls

KeptCount(t) == overrideCount
FreshCount(t) == 0

AnyIndex(i, t) == TRUE
\* `debug_assert_eq!((ind as u32) + last_index, ty.index())`
IndexFollows(i, t) == base + i - 1 = t.index

AnyKey(key, previous) == TRUE
\* `assert_eq!(*k, last)`
KeyFollows(key, previous) == key = previous

Remaining(iface) == pending \ {iface}

----------------------------------------------------------------------------
Init ==
    /\ file \in Files
    /\ base \in Bases
    /\ pc = "type"
    /\ ti = 1
    /\ ind = 0
    /\ overrideCount = 0
    /\ impls = NoClaims
    /\ pending = {} /\ target = NoImpl /\ rest = {} /\ last = 0
    /\ map = <<>> /\ interfaces = <<>>
    /\ typeDefs = <<>>

\* The failing outcomes leave everything else as it is: the `?` or the panic
\* leaves build_impl at once.
StopAt(reason) == /\ pc' = reason
                  /\ UNCHANGED <<inputVars, ti, methodVars, emitVars, typeDefs>>

\* for (ind, ty) in file.types.iter().enumerate(): the assertion on the index,
\* then fresh counters.
BeginType ==
    /\ pc = "type" /\ ti <= Len(file)
    /\ base + ti - 1 <= MaxIndex
    /\ IndexFollows(ti, Ty)
    /\ Ty.parent.tag # "missing"
    /\ pc' = "slot"
    /\ ind' = 0
    /\ overrideCount' = FreshCount(Ty)
    /\ impls' = NoClaims
    /\ UNCHANGED <<inputVars, ti, emitVars, typeDefs>>

\* The sum overflows or the assertion fails.
TypeOutOfOrder ==
    /\ pc = "type" /\ ti <= Len(file)
    /\ base + ti - 1 > MaxIndex \/ ~IndexFollows(ti, Ty)
    /\ StopAt("order_panic")

\* A class compiles its parent before its methods, an interface the interfaces
\* it requires: either may be TypeNotFound.
HeaderFails ==
    /\ pc = "type" /\ ti <= Len(file)
    /\ base + ti - 1 <= MaxIndex
    /\ IndexFollows(ti, Ty)
    /\ Ty.parent.tag = "missing" \/ Ty.kind = "interface"
    /\ StopAt("error")

FinishBuild ==
    /\ pc = "type" /\ ti > Len(file)
    /\ StopAt("ok")

----------------------------------------------------------------------------
(* compile_method, once per method                                         *)

NextMethod == Ty.methods[ind + 1]

\* `if method.attr.overrides().is_none()`: the slot must be the next free one.
AcceptSlot ==
    /\ pc = "slot" /\ ind < Len(Ty.methods)
    /\ ~NextMethod.overrides
    /\ ParentUsable(Ty)
    /\ ind + ParentLen(Ty) <= MaxIndex
    /\ NextMethod.index = ExpectedIndex(Ty, ind, overrideCount)
    /\ pc' = "impl"
    /\ ind' = ind + 1
    /\ UNCHANGED <<inputVars, ti, overrideCount, impls, emitVars, typeDefs>>

\* The parent is `unwrap`ped, and `len() - 1` underflows on a parent without
\* methods.
ParentPanics ==
    /\ pc = "slot" /\ ind < Len(Ty.methods)
    /\ ~NextMethod.overrides
    /\ ~ParentUsable(Ty)
    /\ StopAt("parent_panic")

SlotOverflows ==
    /\ pc = "slot" /\ ind < Len(Ty.methods)
    /\ ~NextMethod.overrides
    /\ ParentUsable(Ty)
    /\ ind + ParentLen(Ty) > MaxIndex
    /\ StopAt("overflow_panic")

RejectSlot ==
    /\ pc = "slot" /\ ind < Len(Ty.methods)
    /\ ~NextMethod.overrides
    /\ ParentUsable(Ty)
    /\ ind + ParentLen(Ty) <= MaxIndex
    /\ NextMethod.index # ExpectedIndex(Ty, ind, overrideCount)
    /\ StopAt("slot_panic")

SkipOverride ==
    /\ pc = "slot" /\ ind < Len(Ty.methods)
    /\ NextMethod.overrides
    /\ pc' = "impl"
    /\ ind' = ind + 1
    /\ overrideCount' = CountOverride(Ty)
    /\ UNCHANGED <<inputVars, ti, impls, emitVars, typeDefs>>

NoClaim ==
    /\ pc = "impl" /\ Meth.impl = NoImpl
    /\ pc' = "body"
    /\ UNCHANGED <<inputVars, ti, methodVars, emitVars, typeDefs>>

RecordClaim ==
    /\ pc = "impl" /\ Meth.impl # NoImpl
    /\ ~Meth.impl.generic
    /\ \E key \in Index :
          /\ RefersTo(Meth.impl, key)
          /\ impls' = KeptClaims(Ty, Insert(impls, Meth.impl.iface, key, Meth.index))
    /\ pc' = "body"
    /\ UNCHANGED <<inputVars, ti, ind, overrideCount, emitVars, typeDefs>>

\* MethodNotFound, or a type argument of the reference that is TypeNotFound.
ClaimFails ==
    /\ pc = "impl" /\ Meth.impl # NoImpl
    /\ ~RefersToSomething(Meth.impl) \/ Meth.impl.generic
    /\ StopAt("error")

\* `assert_matches!(r.ty(), MethodType::Method)`: a reference with type
\* arguments became a MethodSpec.
ClaimPanics ==
    /\ pc = "impl" /\ Meth.impl # NoImpl
    /\ RefersToSomething(Meth.impl) /\ Meth.impl.generic
    /\ StopAt("claim_panic")

CompileBody ==
    /\ pc = "body"
    /\ pc' = "slot"
    /\ UNCHANGED <<inputVars, ti, methodVars, emitVars, typeDefs>>

BodyFails == pc = "body" /\ StopAt("error")

\* `todo!()` operands and missing containers.
BodyPanics == pc = "body" /\ StopAt("body_panic")

----------------------------------------------------------------------------
(* After the methods                                                       *)

\* method_table is complete; an interface has no fields.
FinishMethods ==
    /\ pc = "slot" /\ ind = Len(Ty.methods)
    /\ pc' = "fields"
    /\ UNCHANGED <<inputVars, ti, methodVars, emitVars, typeDefs>>

FieldsFail ==
    /\ pc = "fields" /\ Ty.kind # "interface"
    /\ StopAt("error")

\* `interface_implementations.iter()`
BeginInterfaces ==
    /\ pc = "fields" /\ IsClass(Ty)
    /\ pc' = "interfaces"
    /\ pending' = {p[1] : p \in DOMAIN impls}
    /\ interfaces' = <<>>
    /\ UNCHANGED <<inputVars, ti, methodVars, target, rest, last, map, typeDefs>>

\* One step of the iteration, in the order of the hash map: any.
BeginInterface(i) ==
    /\ pc = "interfaces" /\ i \in pending
    /\ i \in Denotable
    /\ pc' = "keys"
    /\ target' = i
    /\ rest' = Keys(impls, i)
    /\ last' = 0
    /\ map' = <<>>
    /\ UNCHANGED <<inputVars, ti, methodVars, pending, interfaces, typeDefs>>

InterfaceFails(i) ==
    /\ pc = "interfaces" /\ i \in pending
    /\ i \notin Denotable
    /\ StopAt("error")

\* The keys of a BTreeMap come in ascending order.
NextKey(k) == k \in rest /\ \A j \in rest : k <= j

EmitKey ==
    /\ pc = "keys"
    /\ \E k \in rest :
          /\ NextKey(k)
          /\ KeyFollows(k, last)
          /\ last' = k
          /\ map' = Append(map, impls[<<target, k>>])
          /\ rest' = rest \ {k}
    /\ UNCHANGED <<inputVars, pc, ti, methodVars, pending, target, interfaces,
                   typeDefs>>

KeyPanics ==
    /\ pc = "keys"
    /\ \E k \in rest : NextKey(k) /\ ~KeyFollows(k, last)
    /\ StopAt("key_panic")

FinishInterface ==
    /\ pc = "keys" /\ rest = {}
    /\ pc' = "interfaces"
    /\ interfaces' = Append(interfaces, [target |-> target, map |-> map])
    /\ pending' = Remaining(target)
    /\ UNCHANGED <<inputVars, ti, methodVars, target, rest, last, map, typeDefs>>

PushClass ==
    /\ pc = "interfaces" /\ pending = {}
    /\ typeDefs' = Append(typeDefs, [ty |-> ti, interfaces |-> interfaces])
    /\ pc' = "type"
    /\ ti' = ti + 1
    /\ UNCHANGED <<inputVars, methodVars, emitVars>>

PushOther ==
    /\ pc = "fields" /\ ~IsClass(Ty)
    /\ typeDefs' = Append(typeDefs, [ty |-> ti, interfaces |-> <<>>])
    /\ pc' = "type"
    /\ ti' = ti + 1
    /\ UNCHANGED <<inputVars, methodVars, emitVars>>

Terminated == pc \in Finished /\ UNCHANGED vars

TypeStep   == BeginType \/ TypeOutOfOrder \/ HeaderFails \/ FinishBuild
SlotStep   == AcceptSlot \/ ParentPanics \/ SlotOverflows \/ RejectSlot
                \/ SkipOverride
ClaimStep  == NoClaim \/ RecordClaim \/ ClaimFails \/ ClaimPanics
BodyStep   == CompileBody \/ BodyFails \/ BodyPanics
FinishStep == FinishMethods \/ FieldsFail \/ BeginInterfaces \/ PushOther
EmitStep   == \/ \E i \in Interfaces : BeginInterface(i) \/ InterfaceFails(i)
              \/ EmitKey \/ KeyPanics \/ FinishInterface \/ PushClass

Next == \/ TypeStep \/ SlotStep \/ ClaimStep \/ BodyStep \/ FinishStep
        \/ EmitStep \/ Terminated

Spec == Init /\ [][Next]_vars

----------------------------------------------------------------------------
(* Properties                                                              *)

Emission == [target : Interfaces, map : Seq(Index)]

\* The types of the variables (build_impl.rs:49-194).
TypeOK ==
    /\ file \in Seq(TypeDef) /\ base \in Index
    /\ pc \in Running \cup Finished
    /\ ti \in 1 .. (Len(file) + 1)
    /\ (pc \in Running \ {"type"} => ti <= Len(file))
    /\ ind \in Nat
    /\ (pc \in Running \ {"type"} => ind <= Len(Ty.methods))
    /\ (pc = "impl" => ind > 0)
    /\ overrideCount \in Nat
    /\ impls \in [DOMAIN impls -> Index]
    /\ DOMAIN impls \subseteq Interfaces \X Index
    /\ pending \subseteq Interfaces
    /\ target \in Interfaces \cup {NoImpl}
    /\ (pc = "keys" => target \in Interfaces /\ rest \subseteq Keys(impls, target))
    /\ rest \subseteq Index
    /\ last \in Index
    /\ map \in Seq(Index)
    /\ interfaces \in Seq(Emission)
    /\ typeDefs \in Seq([ty : Nat, interfaces : Seq(Emission)])

NewMethods(t, n) == {j \in 1 .. n : ~t.methods[j].overrides}

\* The slot the language gives the j-th method: the methods a class adds
\* follow those of its parent, each in the next slot, and overrides take none;
\* the methods of a struct or an interface sit at their position.
SlotOf(t, j) ==
    IF IsClass(t) THEN ParentLen(t) + Cardinality(NewMethods(t, j - 1))
                  ELSE j - 1

SlotsAssigned(t, n) ==
    \A j \in NewMethods(t, n) : t.methods[j].index = SlotOf(t, j)

\* Every type in the assembly, and the part of the current one that has been
\* compiled, has its new methods in consecutive slots after its parent's,
\* whatever overrides are mixed in (build_impl.rs:425-443).
SlotsCorrect ==
    /\ \A k \in DOMAIN typeDefs : SlotsAssigned(file[k], Len(file[k].methods))
    /\ pc \in Running \ {"type"} => SlotsAssigned(Ty, ind)

\* The slot assertion rejects nothing else: when it fires, the method it fires
\* on is not in its slot (build_impl.rs:432-440).
SlotPanicMeansWrongSlot ==
    pc = "slot_panic" => ~SlotsAssigned(Ty, ind + 1)

\* A TypeDef token holds the index a type has in the source, so the type must
\* land there: the k-th type pushed is the k-th of the file and its index is
\* k - 1 past the base (build_impl.rs:61-62, 120-122, 244-248).
TokensLand ==
    \A k \in DOMAIN typeDefs :
        typeDefs[k].ty = k /\ file[k].index = base + k - 1

\* Method j of type t claims to implement method key of iface.
Claims(t, j, iface, key) ==
    /\ t.methods[j].impl # NoImpl
    /\ t.methods[j].impl.iface = iface
    /\ RefersTo(t.methods[j].impl, key)

\* v is the index of the last of the first n methods with that claim.
LastClaim(t, n, iface, key, v) ==
    \E j \in 1 .. n : /\ Claims(t, j, iface, key)
                      /\ t.methods[j].index = v
                      /\ \A i \in (j + 1) .. n : ~Claims(t, i, iface, key)

\* Every entry of every vector in ifs is the last claim on its method.
Aligned(t, ifs) ==
    \A e \in DOMAIN ifs : \A p \in DOMAIN ifs[e].map :
        LastClaim(t, Len(t.methods), ifs[e].target, p - 1, ifs[e].map[p])

\* Every claim of t has an entry in a vector of its interface.
AllClaimsIn(t, ifs) ==
    \A j \in DOMAIN t.methods, i \in Interfaces, key \in Index :
        Claims(t, j, i, key) =>
            \E e \in DOMAIN ifs : ifs[e].target = i /\ key + 1 \in DOMAIN ifs[e].map

\* The runtime calls entry p of an interface's vector for method p - 1 of the
\* interface: the entry is the method that claimed it last
\* (build_impl.rs:102-118, 445-462).
MapsAligned ==
    \A k \in DOMAIN typeDefs : Aligned(file[k], typeDefs[k].interfaces)

\* Nothing a class claims is lost: every interface method it claims has an
\* entry in a vector of that interface (build_impl.rs:102-118, 445-462).
ClaimsEmitted ==
    \A k \in DOMAIN typeDefs :
        IsClass(file[k]) => AllClaimsIn(file[k], typeDefs[k].interfaces)

\* What the assertion in the emission loop is there for: it fails on a map
\* with a gap only, never on one whose keys are 0, 1, ..., n
\* (build_impl.rs:111).
GaplessMapAccepted ==
    pc = "key_panic" =>
        \A n \in Index : Keys(impls, target) # 0 .. n
============================================================================
