----------------------------- MODULE TypeTokens -----------------------------
(***************************************************************************)
(* compile_type_reference and compile_method_reference: from a reference   *)
(* in the source to a token, filling the assembly's tables of type         *)
(* references, type specifications and method specifications on the way.   *)
(* The recursion over type arguments is unrolled into an explicit stack,   *)
(* so that the tables can be watched between any two pushes.               *)
(*                                                                         *)
(* A reference is an element of Refs or MethodRefs; constant functions say *)
(* what it holds and what its name resolves to.                            *)
(***************************************************************************)
EXTENDS Integers, Sequences

CONSTANTS
    Refs,        \* type references
    MethodRefs,  \* method references, with the type they are looked up in
    Kind,        \* of a type reference: "common", or a generic parameter
    Assembly,    \* the assembly a common reference names
    Own,         \* the assembly being built
    Id,          \* a common reference's index, or that of the type its name
                 \*   resolves to; a parameter's position; a method's index
    Args,        \* the type arguments of a reference
    None,        \* "no such type", "no such method"
    MaxCalls     \* bound on the references compiled

Parameters == {"MethodGeneric", "TypeGeneric"}

ASSUME RefsAssumption ==
    /\ Refs \cap MethodRefs = {}
    /\ Kind \in [Refs -> {"common"} \cup Parameters]
    /\ Args \in [Refs \cup MethodRefs -> Seq(Refs)]
    /\ Id \in [Refs \cup MethodRefs -> Nat \cup {None}]
    /\ \A r \in Refs : Kind[r] \in Parameters => Id[r] # None
    /\ None \notin Nat /\ None \notin Refs \cup MethodRefs

VARIABLES
    pc,           \* "idle", "call": a reference is being compiled, "args":
                  \*   the reference on top of the stack goes on
    current,      \* the reference being compiled
    stack,        \* the calls suspended at their type arguments
    typeRefs,     \* assembly.type_refs
    typeSpecs,    \* assembly.type_specs
    methodSpecs,  \* assembly.method_specs
    asked,        \* the reference the compiler was last asked for
    result,       \* its token; None if there was none
    specOf,       \* history: what each type specification was pushed for
    methodOf,     \* history: the same for method specifications
    calls         \* references compiled so far, up to MaxCalls

vars == <<pc, current, stack, typeRefs, typeSpecs, methodSpecs, asked, result,
          specOf, methodOf, calls>>

tables == <<typeRefs, typeSpecs, methodSpecs, specOf, methodOf>>

Tk(ty, i) == [ty |-> ty, index |-> i]
TypeTokenKinds == {"TypeDef", "TypeRef", "TypeSpec"} \cup Parameters
TypeToken   == [ty : TypeTokenKinds, index : Nat]
MethodToken == [ty : {"Method", "MethodSpec"}, index : Nat]

\* A suspended call: the reference, the token of its TypeRef (None for a
\* method), the tokens of the type arguments compiled so far.
Frame(r, ty) == [ref |-> r, ty |-> ty, done |-> <<>>]

Top == stack[Len(stack)]
Pop == SubSeq(stack, 1, Len(stack) - 1)

Init == /\ pc = "idle" /\ current = None /\ stack = <<>>
        /\ typeRefs = <<>> /\ typeSpecs = <<>> /\ methodSpecs = <<>>
        /\ asked = None /\ result = None
        /\ specOf = <<>> /\ methodOf = <<>>
        /\ calls = 0

\* A token goes back to the caller: the suspended call on top of s, or the
\* code that asked.
Deliver(token, s) ==
    IF s = <<>>
    THEN /\ pc' = "idle" /\ stack' = s /\ result' = token
    ELSE /\ pc' = "args" /\ result' = result
         /\ stack' = [s EXCEPT ![Len(s)].done = Append(@, token)]

\* TypeNotFound, MethodNotFound: `?` leaves every suspended call.
Fail == /\ pc' = "idle" /\ stack' = <<>> /\ result' = None
        /\ UNCHANGED <<current, asked, tables, calls>>

----------------------------------------------------------------------------
AskType(r) ==
    /\ pc = "idle" /\ calls < MaxCalls
    /\ pc' = "call" /\ current' = r /\ asked' = r
    /\ calls' = calls + 1
    /\ UNCHANGED <<stack, result, tables>>

\* compile_method_reference: the item first, then the type arguments.
AskMethod(m) ==
    /\ pc = "idle" /\ calls < MaxCalls
    /\ asked' = m /\ calls' = calls + 1
    /\ IF Id[m] = None
       THEN pc' = "idle" /\ result' = None /\ UNCHANGED stack
       ELSE IF Args[m] = <<>>
       THEN pc' = "idle" /\ result' = Tk("Method", Id[m]) /\ UNCHANGED stack
       ELSE pc' = "args" /\ stack' = <<Frame(m, None)>> /\ UNCHANGED result
    /\ UNCHANGED <<current, tables>>

CompileParameter ==
    /\ pc = "call" /\ Kind[current] \in Parameters
    /\ Deliver(Tk(Kind[current], Id[current]), stack)
    /\ UNCHANGED <<current, asked, tables, calls>>

AlwaysFound(r) == TRUE
\* `index.or_else(|| resolve ..)`
Found(r) == Id[r] # None

TypeNotFound ==
    /\ pc = "call" /\ Kind[current] = "common" /\ ~Found(current)
    /\ Fail

AnyLocal(r) == Assembly[r] = Own
\* Its own assembly, and no type arguments.
IsTypeDef(r) == Assembly[r] = Own /\ Args[r] = <<>>

CompileTypeDef ==
    /\ pc = "call" /\ Kind[current] = "common" /\ Found(current)
    /\ IsTypeDef(current)
    /\ Deliver(Tk("TypeDef", Id[current]), stack)
    /\ UNCHANGED <<current, asked, tables, calls>>

TypeRefEntry(r) == [assembly |-> Assembly[r], index |-> Id[r]]

\* `assembly.add_type_ref(ty_ref)` of the assembly builder, which is not in
\* this repository: it answers the index of an equal entry, old or new.
AddTypeRef(entry, i) ==
    \/ i + 1 \in DOMAIN typeRefs /\ typeRefs[i + 1] = entry /\ UNCHANGED typeRefs
    \/ i = Len(typeRefs) /\ typeRefs' = Append(typeRefs, entry)

CompileTypeRef ==
    /\ pc = "call" /\ Kind[current] = "common" /\ Found(current)
    /\ ~IsTypeDef(current)
    /\ \E i \in 0 .. Len(typeRefs) :
          /\ AddTypeRef(TypeRefEntry(current), i)
          /\ IF Args[current] = <<>>
             THEN Deliver(Tk("TypeRef", i), stack)
             ELSE /\ stack' = Append(stack, Frame(current, Tk("TypeRef", i)))
                  /\ pc' = "args" /\ UNCHANGED result
    /\ UNCHANGED <<current, asked, typeSpecs, methodSpecs, specOf, methodOf, calls>>

StopsEarly == Len(Top.done) + 1 < Len(Args[Top.ref])
MoreArguments == Len(Top.done) < Len(Args[Top.ref])

\* `generics.iter().map(|x| self.compile_type_reference(assembly, x))`
NextArgument ==
    /\ pc = "args" /\ MoreArguments
    /\ current' = Args[Top.ref][Len(Top.done) + 1]
    /\ pc' = "call"
    /\ UNCHANGED <<stack, asked, result, tables, calls>>

\* The index of the element that is about to be pushed: `len() - 1` after it.
IndexPastEnd(table) == Len(table) + 1
PushedIndex(table) == Len(table)

PushTypeSpec ==
    /\ pc = "args" /\ ~MoreArguments /\ Top.ref \in Refs
    /\ typeSpecs' = Append(typeSpecs, [ty |-> Top.ty, generics |-> Top.done])
    /\ specOf' = Append(specOf, Top.ref)
    /\ Deliver(Tk("TypeSpec", PushedIndex(typeSpecs)), Pop)
    /\ UNCHANGED <<current, asked, typeRefs, methodSpecs, methodOf, calls>>

PushMethodSpec ==
    /\ pc = "args" /\ ~MoreArguments /\ Top.ref \in MethodRefs
    /\ methodSpecs' = Append(methodSpecs, [m |-> Id[Top.ref], generics |-> Top.done])
    /\ methodOf' = Append(methodOf, Top.ref)
    /\ Deliver(Tk("MethodSpec", PushedIndex(methodSpecs)), Pop)
    /\ UNCHANGED <<current, asked, typeRefs, typeSpecs, specOf, calls>>

Enough == pc = "idle" /\ calls = MaxCalls /\ UNCHANGED vars

Next == \/ \E r \in Refs : AskType(r)
        \/ \E m \in MethodRefs : AskMethod(m)
        \/ CompileParameter \/ TypeNotFound \/ CompileTypeDef \/ CompileTypeRef
        \/ NextArgument \/ PushTypeSpec \/ PushMethodSpec \/ Enough

Spec == Init /\ [][Next]_vars

----------------------------------------------------------------------------
(* Properties                                                              *)

TypeSpecEntry   == [ty : TypeToken, generics : Seq(TypeToken)]
MethodSpecEntry == [m : Nat, generics : Seq(TypeToken)]

\* The types of the variables (build_impl.rs:222-375).
TypeOK ==
    /\ pc \in {"idle", "call", "args"}
    /\ current \in Refs \cup {None}
    /\ pc = "call" => current \in Refs
    /\ stack \in Seq([ref : Refs \cup MethodRefs, ty : TypeToken \cup {None},
                      done : Seq(TypeToken)])
    /\ typeRefs \in Seq([assembly : {Assembly[r] : r \in Refs}, index : Nat])
    /\ typeSpecs \in Seq(TypeSpecEntry)
    /\ methodSpecs \in Seq(MethodSpecEntry)
    /\ asked \in Refs \cup MethodRefs \cup {None}
    /\ result \in TypeToken \cup MethodToken \cup {None}
    /\ specOf \in Seq(Refs) /\ Len(specOf) = Len(typeSpecs)
    /\ methodOf \in Seq(MethodRefs) /\ Len(methodOf) = Len(methodSpecs)
    /\ calls \in Nat

\* The TypeRef token tk leads to the entry for r.
RefersToEntry(tk, r) ==
    /\ tk.ty = "TypeRef"
    /\ tk.index + 1 \in DOMAIN typeRefs
    /\ typeRefs[tk.index + 1] = TypeRefEntry(r)

\* tk stands for the type reference r in the tables as they are.
Denotes(tk, r) ==
    LET common == Kind[r] = "common" IN
    /\ Kind[r] \in Parameters => tk = Tk(Kind[r], Id[r])
    /\ common /\ Args[r] # <<>> =>
          /\ tk.ty = "TypeSpec"
          /\ tk.index + 1 \in DOMAIN typeSpecs
          /\ specOf[tk.index + 1] = r
    /\ common /\ Args[r] = <<>> /\ Assembly[r] = Own => tk = Tk("TypeDef", Id[r])
    /\ common /\ Args[r] = <<>> /\ Assembly[r] # Own => RefersToEntry(tk, r)

\* The tokens ts stand for the references rs, one by one.
DenoteAll(ts, rs) ==
    /\ Len(ts) = Len(rs)
    /\ \A k \in DOMAIN ts : Denotes(ts[k], rs[k])

\* Every type specification names its generic type and, in order, its type
\* arguments, at every moment and after failures half way through: nothing
\* in it is dangling or belongs to another reference (build_impl.rs:250-275).
SpecsFaithful ==
    \A i \in DOMAIN typeSpecs :
        /\ RefersToEntry(typeSpecs[i].ty, specOf[i])
        /\ DenoteAll(typeSpecs[i].generics, Args[specOf[i]])

\* Reading a specification ends: its arguments that are specifications
\* themselves stand before it (build_impl.rs:263-275).
SpecsWellFounded ==
    \A i \in DOMAIN typeSpecs : \A k \in DOMAIN typeSpecs[i].generics :
        typeSpecs[i].generics[k].ty = "TypeSpec" =>
            typeSpecs[i].generics[k].index + 1 < i

\* The same for method specifications (build_impl.rs:355-373).
MethodSpecsFaithful ==
    \A i \in DOMAIN methodSpecs :
        /\ methodSpecs[i].m = Id[methodOf[i]]
        /\ DenoteAll(methodSpecs[i].generics, Args[methodOf[i]])

MethodDenotes(tk, m) ==
    IF Args[m] = <<>> THEN tk = Tk("Method", Id[m])
    ELSE /\ tk.ty = "MethodSpec"
         /\ tk.index + 1 \in DOMAIN methodSpecs
         /\ methodOf[tk.index + 1] = m

\* The token the compiler answers stands for the reference it was asked for
\* (build_impl.rs:222-289, 323-375).
AnswersDenote ==
    pc = "idle" /\ result # None =>
        IF asked \in Refs THEN Denotes(result, asked)
                          ELSE MethodDenotes(result, asked)
=============================================================================
