------------------------------ MODULE Lowering ------------------------------
(***************************************************************************)
(* From the source of a method to its compiled form.  First the statements *)
(* are parsed, of which the loaded constants and the integers are kept     *)
(* (Statement::parse); then compile_method translates, in this order, the  *)
(* method's signature, its statements, and its exception table, and        *)
(* compile_field the fields behind it.  Each of these units is a sequence  *)
(* of operands in the order the code compiles them; an operand that cannot *)
(* be compiled ends the build.                                             *)
(*                                                                         *)
(* A source is a record: units, locals (names), types (their declared      *)
(* types).  A type reference is atomic here and its own token (TypeTokens  *)
(* has the tokens).                                                        *)
(***************************************************************************)
EXTENDS LoadContent, Sequences, FiniteSets

CONSTANTS
    Sources,    \* methods, as they are written
    Types,      \* type references
    Fields,     \* the fields of the types that resolve, in their order:
                \*   records with name, static, id
    Methods,    \* the same for methods
    Indexed,    \* references with an index or a generic parameter: they have
                \*   a token even when they do not resolve
    Current,    \* the type being compiled
    MaxU64      \* the largest position

IsSequence(s) == Len(s) \in Nat /\ DOMAIN s = 1 .. Len(s)

ASSUME TypesAssumption ==
    /\ DOMAIN Fields \subseteq Types /\ DOMAIN Methods = DOMAIN Fields
    /\ Indexed \subseteq Types /\ Current \in DOMAIN Fields
    /\ MaxU64 \in Nat
    /\ \A t \in DOMAIN Fields :
          /\ IsSequence(Fields[t]) /\ IsSequence(Methods[t])
          /\ \A k \in DOMAIN Methods[t] : Methods[t][k].id \in 0 .. MaxU64

\* What the units of a source are: the statements there are, tokens there are
\* behind a Load (digits are no negative number), an index in the place of a
\* method's name, locations in a table.
MemberCalls == {"InstanceCall", "StaticCall", "InterfaceCall"}
Stores  == {"SetField", "SetThisField", "SetStaticField"}
Ops   == MemberCalls \cup Stores \cup
             {"signature", "entry", "field", "Load", "Check", "ReadPointerTo",
              "WritePointer", "NewObject", "NewArray", "NonPurusCall", "Throw",
              "ReturnVal", "Jump", "Nop"}
ReferenceIndex == 0 .. MaxU64 \cup {None}
Locations == [rel : BOOLEAN, loc : Nat]

WellFormed(u) ==
    /\ u.op \in Ops
    /\ u.op = "Load" => /\ "content" \in DOMAIN u /\ u.content.kind \in TokenKinds
                        /\ u.hyphens \in Nat
                        /\ u.content.kind = "Int" => u.content.value \in Nat \cup {None}
    /\ u.op = "NewObject" => u.ctor.index \in ReferenceIndex
    /\ u.op \in MemberCalls => u.method.index \in ReferenceIndex
    /\ u.op = "entry" =>
          /\ u.begin \in Nat /\ u.end \in Locations
          /\ u.filter # None => u.filter.method.index \in ReferenceIndex
          /\ u.catch \in Locations \X Locations
          /\ u.finally # None => u.finally \in Locations \X Locations
          /\ u.fault # None => u.fault \in Locations \X Locations

ASSUME SourcesAssumption ==
    \A s \in Sources : /\ DOMAIN s = {"units", "locals", "types"}
                       /\ IsSequence(s.units) /\ IsSequence(s.locals)
                       /\ \A k \in DOMAIN s.units : WellFormed(s.units[k])

VARIABLES
    source,
    pc,           \* "parse", "compile", or how it ended
    units,        \* the units parsed so far
    slots,        \* the operands of the current unit compiled so far
    out,          \* the compiled units
    strings,      \* assembly's strings
    methodSpecs   \* assembly.method_specs

vars == <<source, pc, units, slots, out, strings, methodSpecs>>

Init == /\ source \in Sources
        /\ pc = "parse" /\ units = <<>>
        /\ slots = <<>> /\ out = <<>>
        /\ strings = <<>> /\ methodSpecs = <<>>

Ended == {"built", "rejected", "failed", "panicked"}

----------------------------------------------------------------------------
(* Statement::parse                                                        *)

NextUnit == source.units[Len(units) + 1]
Parsing == pc = "parse" /\ Len(units) < Len(source.units)

Content == Parse(NextUnit.hyphens, NextUnit.content)

\* `get_value(..).unwrap()`: of a jump's target, an array's length.
BadInteger ==
    \/ NextUnit.op = "Jump" /\ NextUnit.target = None
    \/ NextUnit.op = "NewArray" /\ NextUnit.dynamic = None /\ NextUnit.static = None

ParseLoad ==
    /\ Parsing /\ NextUnit.op = "Load"
    /\ Content.kind \notin {"error", "panic"}
    /\ units' = Append(units, [NextUnit EXCEPT !.content = Content])
    /\ UNCHANGED <<source, pc, slots, out, strings, methodSpecs>>

ParseOther ==
    /\ Parsing /\ NextUnit.op # "Load" /\ ~BadInteger
    /\ units' = Append(units, NextUnit)
    /\ UNCHANGED <<source, pc, slots, out, strings, methodSpecs>>

ParseRejects ==
    /\ Parsing /\ NextUnit.op = "Load" /\ Content.kind = "error"
    /\ pc' = "rejected"
    /\ UNCHANGED <<source, units, slots, out, strings, methodSpecs>>

ParsePanics ==
    /\ Parsing
    /\ IF NextUnit.op = "Load" THEN Content.kind = "panic" ELSE BadInteger
    /\ pc' = "panicked"
    /\ UNCHANGED <<source, units, slots, out, strings, methodSpecs>>

EndParse ==
    /\ pc = "parse" /\ Len(units) = Len(source.units)
    /\ pc' = "compile"
    /\ UNCHANGED <<source, units, slots, out, strings, methodSpecs>>

----------------------------------------------------------------------------
(* The operands of a unit                                                  *)

Registers(slot, names) == [slot |-> slot, as |-> "registers", of |-> names]
Register(slot, name)   == Registers(slot, <<name>>)
TypesOf(slot, types)   == [slot |-> slot, as |-> "types", of |-> types]
TypeOf(slot, type)     == TypesOf(slot, <<type>>)
String(slot, text)     == [slot |-> slot, as |-> "string", of |-> text]
Verbatim(slot, value)  == [slot |-> slot, as |-> "verbatim", of |-> value]
Todo                   == [slot |-> "todo", as |-> "todo"]

\* A member of a type: the one named, the declared one of a variable, the
\* current one.
Field(container, static, field) ==
    [slot |-> "field", as |-> "field", of |-> field,
     in |-> container, static |-> static]
Method(container, static, method) ==
    [slot |-> "method", as |-> "method", of |-> method,
     in |-> container, static |-> static]
Named(type)        == [by |-> "type", of |-> type]
DeclaredType(name) == [by |-> "variable", of |-> name]
CurrentType        == [by |-> "type", of |-> Current]

LoadOperands(s) ==
    LET c == s.content IN
    <<Register("addr", s.var)>> \o
    CASE c.kind \in {"Number", "True", "False", "this", "arg"} ->
            <<Verbatim("content", c)>>
      [] c.kind = "String" -> <<String("content", c.text)>>
      [] c.kind \in {"Char", "ByteString", "Byte"} -> <<Todo>>
      [] c.kind = "static" ->
            <<TypeOf("ty", c.ty), Field(Named(c.ty), TRUE, c.field)>>
      [] c.kind = "field" ->
            <<Register("container", c.container),
              Field(DeclaredType(c.container), FALSE, c.field)>>
      [] c.kind = "sizeof" -> <<TypeOf("content", c.ty)>>

PointerOperands(s) ==
    IF s.op = "ReadPointerTo"
    THEN <<Register("ptr", s.ptr), Register("size", s.size),
           Register("destination", s.destination)>>
    ELSE <<Register("source", s.source), Register("size", s.size),
           Register("ptr", s.ptr)>>

CheckOperands(s) ==
    <<Register("output", s.result), Register("to_check", s.to_check)>>

NewOperands(s) ==
    IF s.op = "NewObject"
    THEN <<TypeOf("ty", s.ty), Method(Named(s.ty), FALSE, s.ctor),
           Registers("args", s.args), Register("output", s.result)>>
    ELSE <<TypeOf("element_type", s.ty), Register("output", s.result),
           IF s.dynamic # None THEN Register("len", s.dynamic)
                               ELSE Verbatim("len", s.static)>>

\* The method of an interface call is looked up in the variable's type.
CallOperands(s) ==
    (CASE s.op = "InstanceCall" ->
            <<Register("val", s.val),
              Method(DeclaredType(s.val), FALSE, s.method)>>
       [] s.op = "StaticCall" ->
            <<TypeOf("ty", s.ty), Method(Named(s.ty), TRUE, s.method)>>
       [] s.op = "InterfaceCall" ->
            <<Register("val", s.val), TypeOf("interface", s.ty),
              Method(DeclaredType(s.val), FALSE, s.method)>>
       [] s.op = "NonPurusCall" ->
            <<Register("f_pointer", s.f_pointer), Register("config", s.config)>>)
    \o <<Registers("args", s.args), Register("ret_at", s.result)>>

SetsAnyField(s) == <<Register("val", s.val)>> \o
    (IF s.op = "SetStaticField"
     THEN <<TypeOf("ty", s.ty), Field(Named(s.ty), TRUE, s.field)>>
     ELSE (IF s.op = "SetField" THEN <<Register("container", s.container)>> ELSE <<>>)
          \o <<Field(CurrentType, TRUE, s.field)>>)
\* SetField looks in the current type whatever the type of the container is.
SetOperands(s) == <<Register("val", s.val)>> \o
    (IF s.op = "SetStaticField"
     THEN <<TypeOf("ty", s.ty), Field(Named(s.ty), TRUE, s.field)>>
     ELSE (IF s.op = "SetField" THEN <<Register("container", s.container)>> ELSE <<>>)
          \o <<Field(CurrentType, FALSE, s.field)>>)

\* Throw, ReturnVal, Jump (its condition is "Unconditional" or names a
\* variable), Nop.
JumpOperands(s) ==
    CASE s.op \in {"Throw", "ReturnVal"} -> <<Register("val", s.val)>>
      [] s.op = "Jump" ->
            <<Verbatim("target", s.target)>> \o
            (IF s.condition = "Unconditional" THEN <<>>
             ELSE <<Register("condition", s.val)>>)
      [] s.op = "Nop" -> <<>>

\* A range is resolved against the entry's try_begin.
RangeOf(slot, begin, range) ==
    [slot |-> slot, as |-> "range", of |-> range, begin |-> begin]

EntryOperands(e) ==
    <<RangeOf("range", e.begin, <<[rel |-> FALSE, loc |-> e.begin], e.end>>),
      TypeOf("exception_type", e.ty)>>
    \o (IF e.filter = None THEN <<>>
        ELSE <<TypeOf("filter_type", e.filter.ty),
               Method(Named(e.filter.ty), TRUE, e.filter.method)>>)
    \o <<RangeOf("catch", e.begin, e.catch)>>
    \o (IF e.finally = None THEN <<>> ELSE <<RangeOf("finally", e.begin, e.finally)>>)
    \o (IF e.fault = None THEN <<>> ELSE <<RangeOf("fault", e.begin, e.fault)>>)

\* The name; the types of the locals (in the attribute), of the parameters,
\* of the result.
SignatureOperands(s) ==
    <<String("name", s.name), TypesOf("locals", source.types),
      TypesOf("args", s.args), TypeOf("return_type", s.ty)>>

FieldOperands(f) == <<String("name", f.name), TypeOf("ty", f.ty)>>

Operands(u) ==
    CASE u.op = "signature" -> SignatureOperands(u)
      [] u.op = "entry"     -> EntryOperands(u)
      [] u.op = "field"     -> FieldOperands(u)
      [] u.op = "Load"      -> LoadOperands(u)
      [] u.op = "Check"     -> CheckOperands(u)
      [] u.op \in {"ReadPointerTo", "WritePointer"} -> PointerOperands(u)
      [] u.op \in {"NewObject", "NewArray"} -> NewOperands(u)
      [] u.op \in MemberCalls \cup {"NonPurusCall"} -> CallOperands(u)
      [] u.op \in Stores -> SetOperands(u)
      [] OTHER -> JumpOperands(u)

----------------------------------------------------------------------------
(* Compiling an operand                                                    *)

Compiling == pc = "compile" /\ Len(out) < Len(units)
Unit == units[Len(out) + 1]
Operand == Operands(Unit)[Cardinality(DOMAIN slots) + 1]
AtOperand == Compiling /\ Cardinality(DOMAIN slots) < Len(Operands(Unit))

Positions(name) == {i \in DOMAIN source.locals : source.locals[i] = name}

\* Of a set of positions.
First(S) == CHOOSE i \in S : \A j \in S : i <= j

LastLocal(name) == CHOOSE i \in Positions(name) : \A j \in Positions(name) : j <= i
\* map_variable: `locals.iter().position(..)`
FirstLocal(name) == First(Positions(name))

\* resolve_variable_type: the declared type at the variable's register.
Container(c) == IF c.by = "type" THEN c.of ELSE source.types[FirstLocal(c.of)]

Found(type) == type \in Indexed \cup DOMAIN Fields

MembersOf(o) ==
    LET t == Container(o.in) IN
    IF t \notin DOMAIN Fields THEN <<>>
    ELSE IF o.as = "field" THEN Fields[t] ELSE Methods[t]

IsNamed(member, o) == member.name = o.of.name
\* `(x.name == rr.var) && (x.is_static() == is_static)`
IsMeant(member, o) == member.name = o.of.name /\ member.static = o.static

\* `find_map`
Meant(o) == {k \in DOMAIN MembersOf(o) : IsMeant(MembersOf(o)[k], o)}
MemberFound(o) == o.of.index # None \/ Meant(o) # {}
MemberId(o) == IF o.of.index # None THEN o.of.index ELSE MembersOf(o)[First(Meant(o))].id

AlwaysRelative(loc, begin) == loc.loc + begin
\* ExceptionLoc::resolve
Resolve(loc, begin) == IF loc.rel THEN loc.loc + begin ELSE loc.loc

Compiles(o) ==
    CASE o.as = "registers" -> \A k \in DOMAIN o.of : Positions(o.of[k]) # {}
      [] o.as = "types"     -> \A k \in DOMAIN o.of : Found(o.of[k])
      [] o.as = "field"     -> MemberFound(o)
      [] o.as = "method"    -> /\ MemberFound(o)
                               /\ \A k \in DOMAIN o.of.generics : Found(o.of.generics[k])
      [] OTHER              -> TRUE

Unfinished(o) == o.as = "todo"
\* What panics: `todo!()`, and the sum in Resolve in a debug build.
Aborts(o) ==
    \/ o.as = "todo"
    \/ o.as = "range" /\ \E k \in DOMAIN o.of : Resolve(o.of[k], o.begin) > MaxU64

Fill(value) ==
    slots' = [s \in DOMAIN slots \cup {Operand.slot} |->
                 IF s = Operand.slot THEN value ELSE slots[s]]

\* Registers, types, fields, values and ranges.
CompileOperand ==
    /\ AtOperand /\ Operand.as \notin {"string", "method"}
    /\ Compiles(Operand) /\ ~Aborts(Operand)
    /\ LET o == Operand IN
       Fill(CASE o.as = "registers" -> [k \in DOMAIN o.of |-> FirstLocal(o.of[k]) - 1]
              [] o.as = "field"     -> MemberId(o)
              [] o.as = "range"     -> [k \in DOMAIN o.of |-> Resolve(o.of[k], o.begin)]
              [] o.as \in {"types", "verbatim"} -> o.of)
    /\ UNCHANGED <<source, pc, units, out, strings, methodSpecs>>

\* `assembly.add_string(..)` of the assembly builder, which is not in this
\* repository: it answers the index of an equal string, old or new.
CompileString ==
    /\ AtOperand /\ Operand.as = "string"
    /\ \E i \in 0 .. Len(strings) :
          /\ \/ i + 1 \in DOMAIN strings /\ strings[i + 1] = Operand.of
                /\ UNCHANGED strings
             \/ i = Len(strings) /\ strings' = Append(strings, Operand.of)
          /\ Fill(i)
    /\ UNCHANGED <<source, pc, units, out, methodSpecs>>

\* The index of the element about to be pushed: `len() - 1` after it.
PushedIndex(table) == Len(table)

CompileMethod ==
    /\ AtOperand /\ Operand.as = "method" /\ Compiles(Operand)
    /\ IF Operand.of.generics = <<>>
       THEN /\ Fill([ty |-> "Method", index |-> MemberId(Operand)])
            /\ UNCHANGED methodSpecs
       ELSE /\ Fill([ty |-> "MethodSpec", index |-> PushedIndex(methodSpecs)])
            /\ methodSpecs' = Append(methodSpecs, [m |-> MemberId(Operand),
                                                   generics |-> Operand.of.generics])
    /\ UNCHANGED <<source, pc, units, out, strings>>

\* VarNotFound, TypeNotFound, FieldNotFound, MethodNotFound.
OperandFails ==
    /\ AtOperand /\ ~Compiles(Operand)
    /\ pc' = "failed"
    /\ UNCHANGED <<source, units, slots, out, strings, methodSpecs>>

OperandPanics ==
    /\ AtOperand /\ Aborts(Operand)
    /\ pc' = "panicked"
    /\ UNCHANGED <<source, units, slots, out, strings, methodSpecs>>

Emit ==
    /\ Compiling /\ ~AtOperand
    /\ out' = Append(out, [op |-> Unit.op, at |-> slots])
    /\ slots' = <<>>
    /\ UNCHANGED <<source, pc, units, strings, methodSpecs>>

Finish ==
    /\ pc = "compile" /\ Len(out) = Len(units)
    /\ pc' = "built"
    /\ UNCHANGED <<source, units, slots, out, strings, methodSpecs>>

Stopped == pc \in Ended /\ UNCHANGED vars

Next == \/ ParseLoad \/ ParseOther \/ ParseRejects \/ ParsePanics \/ EndParse
        \/ CompileOperand \/ CompileString \/ CompileMethod
        \/ OperandFails \/ OperandPanics \/ Emit \/ Finish \/ Stopped

Spec == Init /\ [][Next]_vars

----------------------------------------------------------------------------
(* Properties                                                              *)

RangeSlots == {"range", "catch", "finally", "fault"}

\* The types of the variables; nothing compiled is beyond what was parsed, no
\* location beyond the largest one (build_impl.rs:464-929).
TypeOK ==
    /\ DOMAIN source = {"units", "locals", "types"}
    /\ pc \in {"parse", "compile"} \cup Ended
    /\ Len(units) <= Len(source.units) /\ Len(out) <= Len(units)
    /\ DOMAIN slots \in SUBSET {Operands(units[Len(out) + 1])[k].slot :
                                  k \in IF Len(out) = Len(units) THEN {}
                                        ELSE DOMAIN Operands(units[Len(out) + 1])}
    /\ \A s \in DOMAIN methodSpecs : methodSpecs[s].m \in 0 .. MaxU64
    /\ \A u \in DOMAIN out :
          /\ out[u].op = units[u].op
          /\ \A slot \in DOMAIN out[u].at \cap RangeSlots :
                \A k \in {1, 2} : out[u].at[slot][k] \in 0 .. MaxU64

\* The declaration a register stands for: the first one of its name.
StandsFor(register, name) ==
    /\ register + 1 \in DOMAIN source.locals
    /\ source.locals[register + 1] = name
    /\ \A i \in 1 .. register : source.locals[i] # name

Denotes(value, o) ==
    CASE o.as = "registers" -> /\ DOMAIN value = DOMAIN o.of
                               /\ \A k \in DOMAIN o.of : StandsFor(value[k], o.of[k])
      [] o.as = "string" -> value + 1 \in DOMAIN strings /\ strings[value + 1] = o.of
      [] o.as = "method" /\ o.of.generics # <<>> ->
            /\ value.ty = "MethodSpec" /\ value.index + 1 \in DOMAIN methodSpecs
            /\ methodSpecs[value.index + 1].generics = o.of.generics
      [] OTHER -> TRUE

OperandsOf(u) == {Operands(units[u])[k] : k \in DOMAIN Operands(units[u])}

\* Every operand of every compiled unit is there, and at every later moment
\* its index still leads to what the source wrote: the string, the type
\* arguments, the variable, also when a name is declared twice
\* (build_impl.rs:366-373, 398-408, 464-866).
OperandsDenote ==
    \A u \in DOMAIN out :
        /\ DOMAIN out[u].at = {o.slot : o \in OperandsOf(u)}
        /\ \A o \in OperandsOf(u) : Denotes(out[u].at[o.slot], o)

\* The identifier a compiled member operand carries.
IdOf(value, o) ==
    IF o.as = "field" THEN value
    ELSE IF value.ty = "Method" THEN value.index
    ELSE methodSpecs[value.index + 1].m

\* The type a unit's member operand is about: that of the register which the
\* very same instruction reads, or the type it names.
Owner(u, o) ==
    IF o.in.by = "type" THEN o.in.of
    ELSE source.types[(IF "container" \in DOMAIN out[u].at
                       THEN out[u].at["container"] ELSE out[u].at["val"])[1] + 1]

\* An exception filter is a static method.
NeedsStatic(s) ==
    \/ s.op \in {"StaticCall", "SetStaticField", "entry"}
    \/ (s.op = "Load" /\ s.content.kind = "static")

\* A member named in the source is compiled to a member of that name, static
\* or not as the instruction needs it, of the declared type of the register
\* that the instruction uses; of the current type for SetField and
\* SetThisField (build_impl.rs:291-363, 409-423, 545-559, 663-738, 762-805).
MembersOfContainer ==
    \A u \in DOMAIN out : \A o \in OperandsOf(u) :
        o.as \in {"field", "method"} /\ o.of.index = None =>
            \E member \in LET t == Owner(u, o)
                              all == IF o.as = "field" THEN Fields[t] ELSE Methods[t]
                          IN {all[k] : k \in DOMAIN all} :
                /\ member.name = o.of.name
                /\ member.static = NeedsStatic(units[u])
                /\ member.id = IdOf(out[u].at[o.slot], o)

\* What is stored in a field of the current type is what is loaded from it:
\* SetField, SetThisField and Load agree on the field a name means, on a
\* variable of that type (build_impl.rs:545-559, 762-790).
LoadsWhatItStores ==
    \A u, w \in DOMAIN out :
        /\ units[u].op = "Load" /\ units[u].content.kind = "field"
        /\ source.types[FirstLocal(units[u].content.container)] = Current
        /\ units[w].op \in {"SetField", "SetThisField"}
        /\ units[w].field = units[u].content.field
        => out[w].at["field"] = out[u].at["field"]

\* Two hyphens undo each other.
InPairs(hyphens) == \E k \in 0 .. hyphens : hyphens = k + k

\* The value a Load is written with: a hyphen says nothing of an unsigned one.
WrittenValue(s) ==
    IF s.content.suffix \in Signed /\ ~InPairs(s.hyphens) THEN -s.content.value
                                                         ELSE s.content.value

ValuesOf(suffix) ==
    IF suffix \in Signed THEN -(2 ^ (Bits[suffix] - 1)) .. 2 ^ (Bits[suffix] - 1) - 1
                         ELSE 0 .. 2 ^ Bits[suffix] - 1

LoadsInt(s) == s.op = "Load" /\ s.content.kind = "Int"

\* A constant is loaded with the value that is written, sign included, and it
\* fits the type of its suffix; and a file is rejected for a constant that
\* get_value reads, with a known suffix, only if the value does not fit, or is
\* the smallest of a signed type.  Refused as well, and not judged here, is
\* every constant without a value: with an underscore (12_u8) it may fit
\* (statement.rs:428-543, build_impl.rs:502-520).
NumbersLoaded ==
    /\ \A u \in DOMAIN out :
          LET s == source.units[u] IN
          LoadsInt(s) => /\ out[u].at["content"].value = WrittenValue(s)
                         /\ WrittenValue(s) \in ValuesOf(s.content.suffix)
    /\ pc = "rejected" =>
          LET s == NextUnit IN
          LoadsInt(s) /\ s.content.value # None /\ s.content.suffix \in DOMAIN Bits =>
              \/ WrittenValue(s) \notin ValuesOf(s.content.suffix)
              \/ /\ s.content.suffix \in Signed
                 /\ WrittenValue(s) = -(2 ^ (Bits[s.content.suffix] - 1))

\* All ranges of an exception table entry count from where the entry's own
\* protected region starts, a relative location whichever range it is in, and
\* an absolute one from the start of the method (build_impl.rs:890-926, method.rs:452-460).
RangesRelative ==
    \A u \in DOMAIN out : LET e == units[u] IN e.op = "entry" =>
        LET at == out[u].at
            Place(l) == l.loc + (IF l.rel THEN at["range"][1] ELSE 0)
        IN /\ at["range"] = <<e.begin, Place(e.end)>>
           /\ at["catch"] = <<Place(e.catch[1]), Place(e.catch[2])>>
           /\ e.finally # None => at["finally"] = <<Place(e.finally[1]), Place(e.finally[2])>>
           /\ e.fault # None => at["fault"] = <<Place(e.fault[1]), Place(e.fault[2])>>
============================================================================
