---------------------------- MODULE LoweringProofs ----------------------------
(***************************************************************************)
(* Proofs about Lowering, for all sources, types and members.              *)
(*                                                                         *)
(* The invariant says of every operand that is compiled, in the units that *)
(* are out and in the current one, what it is compiled to: strings and     *)
(* method specs only ever grow, so this stays true of a unit once it is    *)
(* out.  The properties then follow from the operands that each kind of    *)
(* unit has.                                                               *)
(***************************************************************************)
EXTENDS Lowering, SequenceTheorems, FiniteSetTheorems, WellFoundedInduction, TLAPS

----------------------------------------------------------------------------
(* The invariant                                                           *)

IsSeq(s) == \E S : s \in Seq(S)

\* A unit once its content is parsed.
AsParsed(u) ==
    IF u.op = "Load" THEN [u EXCEPT !.content = Parse(u.hyphens, u.content)] ELSE u

\* Units are parsed in their order, each content is what is parsed from it.
UnitsInv ==
    /\ units \in Seq({AsParsed(source.units[k]) : k \in DOMAIN source.units})
    /\ Len(units) <= Len(source.units)
    /\ \A u \in DOMAIN units :
          /\ units[u] = AsParsed(source.units[u])
          /\ units[u].op = "Load" => units[u].content.kind \notin {"error", "panic"}

\* What an operand is compiled to.
ValueOf(value, o) ==
    /\ o.as = "registers" =>
          /\ \A k \in DOMAIN o.of : Positions(o.of[k]) # {}
          /\ value = [k \in DOMAIN o.of |-> FirstLocal(o.of[k]) - 1]
    /\ o.as \in {"types", "verbatim"} => value = o.of
    /\ o.as = "string" => value + 1 \in DOMAIN strings /\ strings[value + 1] = o.of
    /\ o.as = "field" => MemberFound(o) /\ value = MemberId(o)
    /\ o.as = "range" =>
          /\ \A k \in DOMAIN o.of : Resolve(o.of[k], o.begin) <= MaxU64
          /\ value = [k \in DOMAIN o.of |-> Resolve(o.of[k], o.begin)]
    /\ o.as = "method" =>
          /\ MemberFound(o)
          /\ IF o.of.generics = <<>>
             THEN value = [ty |-> "Method", index |-> MemberId(o)]
             ELSE /\ value.ty = "MethodSpec" /\ value.index + 1 \in DOMAIN methodSpecs
                  /\ methodSpecs[value.index + 1]
                       = [m |-> MemberId(o), generics |-> o.of.generics]

\* The first n operands of u are compiled, and at holds them.
Filled(u, at, n) ==
    /\ DOMAIN at = {Operands(u)[k].slot : k \in 1 .. n}
    /\ \A k \in 1 .. n : ValueOf(at[Operands(u)[k].slot], Operands(u)[k])

OutInv ==
    /\ IsSeq(out) /\ Len(out) <= Len(units)
    /\ \A u \in DOMAIN out :
          /\ out[u].op = units[u].op
          /\ Filled(units[u], out[u].at, Len(Operands(units[u])))

SlotsInv ==
    /\ pc = "parse" => out = <<>> /\ slots = <<>>
    /\ IsFiniteSet(DOMAIN slots)
    /\ IF Len(out) < Len(units)
       THEN LET n == Cardinality(DOMAIN slots) IN
            /\ n <= Len(Operands(units[Len(out) + 1]))
            /\ Filled(units[Len(out) + 1], slots, n)
       ELSE DOMAIN slots = {}

SpecsInv ==
    /\ IsSeq(strings) /\ IsSeq(methodSpecs)
    /\ \A s \in DOMAIN methodSpecs : methodSpecs[s].m \in 0 .. MaxU64

LowInv == /\ source \in Sources /\ pc \in {"parse", "compile"} \cup Ended
          /\ UnitsInv /\ OutInv /\ SlotsInv /\ SpecsInv

----------------------------------------------------------------------------
(* Sequences                                                               *)

\* The first of a set of positions.
LEMMA FirstIs ==
    ASSUME NEW S \in SUBSET Nat, S # {}
    PROVE  First(S) \in S /\ \A j \in S : First(S) <= j
<1>1. PICK x \in S : \A y \in S : <<y, x>> \notin OpToRel(<, Nat)
  BY NatLessThanWellFounded, WFMin
<1>2. \A y \in S : ~(y < x)
  BY <1>1 DEF OpToRel
<1>3. \A y \in S : x <= y
  BY <1>2
<1> QED
  BY <1>3 DEF First

LEMMA SeqFacts ==
    ASSUME NEW s, IsSeq(s)
    PROVE  Len(s) \in Nat /\ DOMAIN s = 1 .. Len(s)
BY DEF IsSeq

LEMMA Appended ==
    ASSUME NEW s, NEW e, IsSeq(s)
    PROVE  /\ IsSeq(Append(s, e)) /\ Len(s) \in Nat /\ DOMAIN s = 1 .. Len(s)
           /\ Len(Append(s, e)) = Len(s) + 1
           /\ DOMAIN Append(s, e) = 1 .. (Len(s) + 1)
           /\ \A k \in 1 .. Len(s) : Append(s, e)[k] = s[k]
           /\ Append(s, e)[Len(s) + 1] = e
<1>1. PICK S : s \in Seq(S)
  BY DEF IsSeq
<1>2. PICK T : T = S \cup {e}
  OBVIOUS
<1>3. s \in Seq(T) /\ e \in T
  BY <1>1, <1>2
<1>4. Append(s, e) \in Seq(T)
  BY <1>3
<1>5. IsSeq(Append(s, e))
  BY <1>4 DEF IsSeq
<1> QED
  BY <1>3, <1>4, <1>5

\* The operands ops are those of S, in some order, in a slot each.
Shape(ops, S) ==
    /\ IsSeq(ops) /\ S = {ops[k] : k \in DOMAIN ops}
    /\ \A i, j \in DOMAIN ops : ops[i].slot = ops[j].slot => i = j

LEMMA NoOperands == Shape(<<>>, {})
<1>1. <<>> \in Seq({})
  OBVIOUS
<1> QED
  BY <1>1 DEF Shape, IsSeq

LEMMA OneOperand == ASSUME NEW a PROVE Shape(<<a>>, {a})
<1>1. <<a>> \in Seq({a}) /\ DOMAIN <<a>> = {1} /\ <<a>>[1] = a
  OBVIOUS
<1> QED
  BY <1>1 DEF Shape, IsSeq

LEMMA TwoOperands ==
    ASSUME NEW a, NEW b, a.slot # b.slot
    PROVE  Shape(<<a, b>>, {a, b})
<1>1. /\ <<a, b>> \in Seq({a, b}) /\ DOMAIN <<a, b>> = {1, 2}
      /\ <<a, b>>[1] = a /\ <<a, b>>[2] = b
  OBVIOUS
<1> QED
  BY <1>1 DEF Shape, IsSeq

LEMMA ThreeOperands ==
    ASSUME NEW a, NEW b, NEW c, a.slot # b.slot, a.slot # c.slot, b.slot # c.slot
    PROVE  Shape(<<a, b, c>>, {a, b, c})
<1>1. /\ <<a, b, c>> \in Seq({a, b, c}) /\ DOMAIN <<a, b, c>> = {1, 2, 3}
      /\ <<a, b, c>>[1] = a /\ <<a, b, c>>[2] = b /\ <<a, b, c>>[3] = c
  OBVIOUS
<1>2. PICK s : s = <<a, b, c>>
  OBVIOUS
<1>3. s \in Seq({a, b, c}) /\ DOMAIN s = {1, 2, 3} /\ s[1] = a /\ s[2] = b /\ s[3] = c
  BY <1>1, <1>2, Zenon
<1>4. IsSeq(s)
  BY <1>3, Zenon DEF IsSeq
<1>5. {a, b, c} = {s[k] : k \in DOMAIN s}
  BY <1>3
<1>6. \A i, j \in DOMAIN s : s[i].slot = s[j].slot => i = j
  BY <1>3
<1>7. PICK S : S = {a, b, c}
  OBVIOUS
<1>8. Shape(s, S)
  BY <1>4, <1>5, <1>6, <1>7 DEF Shape
<1> QED
  BY <1>2, <1>7, <1>8

LEMMA Joined ==
    ASSUME NEW a, NEW b, NEW S, NEW T, Shape(a, S), Shape(b, T),
           \A x \in S, y \in T : x.slot # y.slot
    PROVE  Shape(a \o b, S \cup T)
<1>1. PICK A, B : a \in Seq(A) /\ b \in Seq(B)
  BY DEF Shape, IsSeq
<1>2. PICK U : U = A \cup B
  OBVIOUS
<1>3. a \in Seq(U) /\ b \in Seq(U)
  BY <1>1, <1>2
<1>4. PICK c : c = a \o b
  OBVIOUS
<1>5. /\ c \in Seq(U) /\ Len(a) \in Nat /\ Len(b) \in Nat
      /\ DOMAIN a = 1 .. Len(a) /\ DOMAIN b = 1 .. Len(b)
      /\ DOMAIN c = 1 .. (Len(a) + Len(b))
      /\ \A k \in 1 .. Len(a) : c[k] = a[k]
      /\ \A k \in (Len(a) + 1) .. (Len(a) + Len(b)) : c[k] = b[k - Len(a)]
  BY <1>3, <1>4
<1>6. \A k \in DOMAIN b : k + Len(a) \in DOMAIN c /\ c[k + Len(a)] = b[k]
  BY <1>5
<1>7. \A k \in DOMAIN a : k \in DOMAIN c /\ c[k] = a[k]
  BY <1>5
<1>8. \A k \in DOMAIN c : k \in DOMAIN a \/ (k - Len(a) \in DOMAIN b /\ k = k - Len(a) + Len(a))
  BY <1>5
<1>9. S \cup T = {c[k] : k \in DOMAIN c}
  BY <1>6, <1>7, <1>8 DEF Shape
<1>10. ASSUME NEW i \in DOMAIN c, NEW j \in DOMAIN c, c[i].slot = c[j].slot
       PROVE  i = j
  <2>1. CASE i \in DOMAIN a /\ j \in DOMAIN a
    BY <1>7, <1>10, <2>1 DEF Shape
  <2>2. CASE i \in DOMAIN a /\ j - Len(a) \in DOMAIN b /\ j \notin DOMAIN a
    BY <1>6, <1>7, <1>8, <1>10, <2>2 DEF Shape
  <2>3. CASE i - Len(a) \in DOMAIN b /\ i \notin DOMAIN a /\ j \in DOMAIN a
    BY <1>6, <1>7, <1>8, <1>10, <2>3 DEF Shape
  <2>4. CASE /\ i - Len(a) \in DOMAIN b /\ i \notin DOMAIN a
             /\ j - Len(a) \in DOMAIN b /\ j \notin DOMAIN a
    <3>1. b[i - Len(a)].slot = b[j - Len(a)].slot
      BY <1>6, <1>8, <1>10, <2>4
    <3>2. i - Len(a) = j - Len(a)
      BY <2>4, <3>1 DEF Shape
    <3> QED
      BY <1>5, <3>2
  <2> QED
    BY <1>8, <2>1, <2>2, <2>3, <2>4
<1>11. Shape(c, S \cup T)
  BY <1>5, <1>9, <1>10 DEF Shape, IsSeq
<1> QED
  BY <1>4, <1>11
LEMMA FourOperands ==
    ASSUME NEW a, NEW b, NEW c, NEW d, a.slot # b.slot, a.slot # c.slot,
           a.slot # d.slot, b.slot # c.slot, b.slot # d.slot, c.slot # d.slot
    PROVE  Shape(<<a, b, c, d>>, {a, b, c, d})
<1>1. PICK s : s = <<a, b, c, d>>
  OBVIOUS
<1>2. /\ DOMAIN s = {1, 2, 3, 4}
      /\ s[1] = a /\ s[2] = b /\ s[3] = c /\ s[4] = d
  BY <1>1
<1>3. s \in Seq({a, b, c, d})
  BY <1>1
<1>4. IsSeq(s)
  BY <1>3 DEF IsSeq
<1>5. {a, b, c, d} = {s[k] : k \in DOMAIN s}
  BY <1>2
<1>6. \A i, j \in DOMAIN s : s[i].slot = s[j].slot => i = j
  BY <1>2
<1> QED
  BY <1>1, <1>4, <1>5, <1>6 DEF Shape


----------------------------------------------------------------------------
(* The operands of a unit                                                  *)

\* What the proofs need to know of the operands S of a unit u: those of ranges
\* are two locations, a member is static if u needs it so, and where it is
\* looked up in a variable's type, u has an operand for that variable.
ReadFrom(r, o, S) ==
    /\ r.as = "registers" /\ r.of = <<o.in.of>>
    /\ r.slot = IF \E x \in S : x.slot = "container" THEN "container" ELSE "val"

StaticAsNeeded(u, o) == o.static = NeedsStatic(u)

OperandGood(u, o, S) ==
    /\ o.as = "range" => o.begin \in Nat /\ o.of \in Locations \X Locations
    /\ o.as = "method" => o.of.index \in ReferenceIndex
    /\ o.slot \in RangeSlots => o.as = "range"
    /\ o.as \in {"field", "method"} =>
          /\ StaticAsNeeded(u, o)
          /\ o.in.by = "type" \/ \E r \in S : ReadFrom(r, o, S)

\* The operands that the properties name.
HasRanges(u, S) ==
    /\ RangeOf("range", u.begin, <<[rel |-> FALSE, loc |-> u.begin], u.end>>) \in S
    /\ RangeOf("catch", u.begin, u.catch) \in S
    /\ u.finally # None => RangeOf("finally", u.begin, u.finally) \in S
    /\ u.fault # None => RangeOf("fault", u.begin, u.fault) \in S

HasOperands(u, S) ==
    /\ (u.op = "Load" /\ u.content.kind = "field") =>
          Field(DeclaredType(u.content.container), FALSE, u.content.field) \in S
    /\ (u.op = "Load" /\ u.content.kind = "Number") => Verbatim("content", u.content) \in S
    /\ u.op \in {"SetField", "SetThisField"} => Field(CurrentType, FALSE, u.field) \in S
    /\ u.op = "entry" => HasRanges(u, S)

UnitGood(u) == \E S : /\ Shape(Operands(u), S) /\ HasOperands(u, S)
                      /\ \A o \in S : OperandGood(u, o, S)

LEMMA StaticMembers ==
    \A u, c, x : /\ NeedsStatic(u) => /\ StaticAsNeeded(u, Field(c, TRUE, x))
                                     /\ StaticAsNeeded(u, Method(c, TRUE, x))
                 /\ ~NeedsStatic(u) => /\ StaticAsNeeded(u, Field(c, FALSE, x))
                                      /\ StaticAsNeeded(u, Method(c, FALSE, x))
<1> SUFFICES ASSUME NEW u, NEW c, NEW x
             PROVE  /\ NeedsStatic(u) => /\ StaticAsNeeded(u, Field(c, TRUE, x))
                                        /\ StaticAsNeeded(u, Method(c, TRUE, x))
                    /\ ~NeedsStatic(u) => /\ StaticAsNeeded(u, Field(c, FALSE, x))
                                         /\ StaticAsNeeded(u, Method(c, FALSE, x))
  OBVIOUS
<1>1. CASE NeedsStatic(u)
  <2>1. TRUE = NeedsStatic(u)
    BY <1>1 DEF NeedsStatic
  <2> QED
    BY <1>1, <2>1 DEF StaticAsNeeded, Field, Method
<1>2. CASE ~NeedsStatic(u)
  <2>1. FALSE = NeedsStatic(u)
    BY <1>2 DEF NeedsStatic
  <2> QED
    BY <1>2, <2>1 DEF StaticAsNeeded, Field, Method
<1> QED
  BY <1>1, <1>2

\* Nothing is to be known of an operand that is no member and no range.
PlainOperand(o) ==
    o.as \in {"registers", "types", "string", "verbatim", "todo"} /\ o.slot \notin RangeSlots

LEMMA PlainGood ==
    ASSUME NEW u, NEW S, NEW o, PlainOperand(o)
    PROVE  OperandGood(u, o, S)
BY DEF PlainOperand, OperandGood

\* A member of a type that the unit names.
LEMMA NamedGood ==
    ASSUME NEW u, NEW S, NEW o, o.as \in {"field", "method"}, o.slot \notin RangeSlots,
           StaticAsNeeded(u, o), o.in.by = "type",
           o.as = "method" => o.of.index \in ReferenceIndex
    PROVE  OperandGood(u, o, S)
BY DEF OperandGood

\* Two sequences of operands, the second of which is plain.
LEMMA OneThenOne ==
    ASSUME NEW a, NEW b, a.slot # b.slot
    PROVE  Shape(<<a>> \o <<b>>, {a, b})
<1>1. Shape(<<a>>, {a}) /\ Shape(<<b>>, {b})
  BY OneOperand
<1>2. Shape(<<a>> \o <<b>>, {a} \cup {b})
  BY <1>1, Joined
<1>3. {a} \cup {b} = {a, b}
  OBVIOUS
<1> QED
  BY <1>2, <1>3

LEMMA OneThenTwo ==
    ASSUME NEW a, NEW b, NEW c, a.slot # b.slot, a.slot # c.slot, b.slot # c.slot
    PROVE  Shape(<<a>> \o <<b, c>>, {a, b, c})
<1>1. Shape(<<a>>, {a}) /\ Shape(<<b, c>>, {b, c})
  BY OneOperand, TwoOperands
<1>2. Shape(<<a>> \o <<b, c>>, {a} \cup {b, c})
  BY <1>1, Joined
<1>3. {a} \cup {b, c} = {a, b, c}
  OBVIOUS
<1> QED
  BY <1>2, <1>3

\* The kinds of content a parsed Load has.
ContentKinds == {"Number", "True", "False", "this", "arg", "String", "Char",
                 "ByteString", "Byte", "static", "field", "sizeof"}

LEMMA OperandsAre ==
    ASSUME NEW u
    PROVE  /\ u.op = "signature" => Operands(u) = SignatureOperands(u)
           /\ u.op = "entry" => Operands(u) = EntryOperands(u)
           /\ u.op = "field" => Operands(u) = FieldOperands(u)
           /\ u.op = "Load" => Operands(u) = LoadOperands(u)
           /\ u.op = "Check" => Operands(u) = CheckOperands(u)
           /\ u.op \in {"ReadPointerTo", "WritePointer"} => Operands(u) = PointerOperands(u)
           /\ u.op \in {"NewObject", "NewArray"} => Operands(u) = NewOperands(u)
           /\ u.op \in MemberCalls \cup {"NonPurusCall"} => Operands(u) = CallOperands(u)
           /\ u.op \in Stores => Operands(u) = SetOperands(u)
           /\ u.op \in {"Throw", "ReturnVal", "Jump", "Nop"} => Operands(u) = JumpOperands(u)
BY DEF Operands, MemberCalls, Stores

LEMMA LoadGood ==
    ASSUME NEW u, u.op = "Load", u.content.kind \in ContentKinds
    PROVE  UnitGood(u)
<1> DEFINE c == u.content
           a == Register("addr", u.var)
<1>1. Operands(u) = LoadOperands(u)
  BY OperandsAre
<1>2. a.slot = "addr" /\ a.as = "registers"
  BY DEF Register, Registers
<1>3. CASE c.kind \notin {"static", "field"}
  <2>1. PICK b : /\ LoadOperands(u) = <<a>> \o <<b>>
                 /\ b.slot \in {"content", "todo"}
                 /\ b.as \in {"types", "string", "verbatim", "todo"}
                 /\ c.kind = "Number" => b = Verbatim("content", c)
    <3>1. CASE c.kind \in {"Number", "True", "False", "this", "arg"}
      <4>1. PICK b : b = Verbatim("content", c)
        OBVIOUS
      <4>2. LoadOperands(u) = <<a>> \o <<b>>
        BY <3>1, <4>1 DEF LoadOperands
      <4>3. b.slot = "content" /\ b.as = "verbatim"
        BY <4>1 DEF Verbatim
      <4> QED
        BY <4>1, <4>2, <4>3
    <3>2. CASE c.kind = "String"
      <4>1. PICK b : b = String("content", c.text)
        OBVIOUS
      <4>2. LoadOperands(u) = <<a>> \o <<b>>
        BY <3>2, <4>1 DEF LoadOperands
      <4>3. b.slot = "content" /\ b.as = "string"
        BY <4>1 DEF String
      <4> QED
        BY <3>2, <4>2, <4>3
    <3>3. CASE c.kind \in {"Char", "ByteString", "Byte"}
      <4>1. PICK b : b = Todo
        OBVIOUS
      <4>2. LoadOperands(u) = <<a>> \o <<b>>
        BY <3>3, <4>1 DEF LoadOperands
      <4>3. b.slot = "todo" /\ b.as = "todo"
        BY <4>1 DEF Todo
      <4> QED
        BY <3>3, <4>2, <4>3
    <3>4. CASE c.kind = "sizeof"
      <4>1. PICK b : b = TypeOf("content", c.ty)
        OBVIOUS
      <4>2. LoadOperands(u) = <<a>> \o <<b>>
        BY <3>4, <4>1 DEF LoadOperands
      <4>3. b.slot = "content" /\ b.as = "types"
        BY <4>1 DEF TypeOf, TypesOf
      <4> QED
        BY <3>4, <4>2, <4>3
    <3> QED
      BY <1>3, <3>1, <3>2, <3>3, <3>4 DEF ContentKinds
  <2> HIDE DEF a, c
  <2>2. Shape(Operands(u), {a, b})
    BY <1>1, <1>2, <2>1, OneThenOne
  <2>3. PlainOperand(a) /\ PlainOperand(b)
    BY <1>2, <2>1 DEF PlainOperand, RangeSlots
  <2>4. \A o \in {a, b} : OperandGood(u, o, {a, b})
    BY <2>3, PlainGood
  <2>5. HasOperands(u, {a, b})
    <3>1. /\ u.op = "Load" /\ c.kind # "field"
          /\ c.kind = "Number" => Verbatim("content", c) \in {a, b}
      BY <1>3, <2>1
    <3> QED
      BY <3>1 DEF HasOperands, c
  <2> QED
    BY <2>2, <2>4, <2>5 DEF UnitGood
<1>4. CASE c.kind = "static"
  <2>1. PICK t, f : /\ t = TypeOf("ty", c.ty)
                    /\ f = Field(Named(c.ty), TRUE, c.field)
    OBVIOUS
  <2>2. LoadOperands(u) = <<a>> \o <<t, f>>
    BY <1>4, <2>1 DEF LoadOperands
  <2>3. /\ t.slot = "ty" /\ t.as = "types" /\ f.slot = "field" /\ f.as = "field"
        /\ f.in.by = "type"
    BY <2>1 DEF TypeOf, TypesOf, Field, Named
  <2>4. StaticAsNeeded(u, f)
    <3>1. NeedsStatic(u)
      BY <1>4 DEF NeedsStatic
    <3> QED
      BY <2>1, <3>1, StaticMembers
  <2> HIDE DEF a, c
  <2>5. Shape(Operands(u), {a, t, f})
    BY <1>1, <1>2, <2>2, <2>3, OneThenTwo
  <2>6. PlainOperand(a) /\ PlainOperand(t)
    BY <1>2, <2>3 DEF PlainOperand, RangeSlots
  <2>7. OperandGood(u, f, {a, t, f})
    BY <2>3, <2>4, NamedGood DEF RangeSlots
  <2>8. \A o \in {a, t, f} : OperandGood(u, o, {a, t, f})
    BY <2>6, <2>7, PlainGood
  <2>9. HasOperands(u, {a, t, f})
    BY <1>4 DEF HasOperands, c
  <2> QED
    BY <2>5, <2>8, <2>9 DEF UnitGood
<1>5. CASE c.kind = "field"
  <2>1. PICK r, f : /\ r = Register("container", c.container)
                    /\ f = Field(DeclaredType(c.container), FALSE, c.field)
    OBVIOUS
  <2>2. LoadOperands(u) = <<a>> \o <<r, f>>
    BY <1>5, <2>1 DEF LoadOperands
  <2>3. /\ r.slot = "container" /\ r.as = "registers" /\ r.of = <<c.container>>
        /\ f.slot = "field" /\ f.as = "field"
        /\ f.in.of = c.container
    BY <2>1 DEF Register, Registers, Field, DeclaredType
  <2>4. StaticAsNeeded(u, f)
    <3>1. ~NeedsStatic(u)
      BY <1>5 DEF NeedsStatic
    <3> QED
      BY <2>1, <3>1, StaticMembers
  <2> HIDE DEF a, c
  <2>5. Shape(Operands(u), {a, r, f})
    BY <1>1, <1>2, <2>2, <2>3, OneThenTwo
  <2>6. PlainOperand(a) /\ PlainOperand(r)
    BY <1>2, <2>3 DEF PlainOperand, RangeSlots
  <2>7. ReadFrom(r, f, {a, r, f})
    BY <2>3 DEF ReadFrom
  <2>8. OperandGood(u, f, {a, r, f})
    BY <2>3, <2>4, <2>7 DEF OperandGood, RangeSlots
  <2>9. \A o \in {a, r, f} : OperandGood(u, o, {a, r, f})
    BY <2>6, <2>8, PlainGood
  <2>10. HasOperands(u, {a, r, f})
    BY <1>5, <2>1 DEF HasOperands, c
  <2> QED
    BY <2>5, <2>9, <2>10 DEF UnitGood
<1> QED
  BY <1>3, <1>4, <1>5

\* A unit whose operands are all plain.
LEMMA PlainUnit ==
    ASSUME NEW u, NEW S, Shape(Operands(u), S), \A o \in S : PlainOperand(o),
           u.op \notin {"Load", "SetField", "SetThisField", "entry"}
    PROVE  UnitGood(u)
<1>1. \A o \in S : OperandGood(u, o, S)
  BY PlainGood
<1>2. HasOperands(u, S)
  BY DEF HasOperands
<1> QED
  BY <1>1, <1>2 DEF UnitGood

LEMMA TwoThenTwo ==
    ASSUME NEW a, NEW b, NEW c, NEW d, a.slot # b.slot, a.slot # c.slot,
           a.slot # d.slot, b.slot # c.slot, b.slot # d.slot, c.slot # d.slot
    PROVE  Shape(<<a, b>> \o <<c, d>>, {a, b, c, d})
<1>1. Shape(<<a, b>>, {a, b}) /\ Shape(<<c, d>>, {c, d})
  BY TwoOperands
<1>2. Shape(<<a, b>> \o <<c, d>>, {a, b} \cup {c, d})
  BY <1>1, Joined
<1>3. {a, b} \cup {c, d} = {a, b, c, d}
  OBVIOUS
<1> QED
  BY <1>2, <1>3

LEMMA ThreeThenTwo ==
    ASSUME NEW a, NEW b, NEW e, NEW c, NEW d, a.slot # b.slot, a.slot # c.slot,
           a.slot # d.slot, b.slot # c.slot, b.slot # d.slot, c.slot # d.slot,
           a.slot # e.slot, b.slot # e.slot, e.slot # c.slot, e.slot # d.slot
    PROVE  Shape(<<a, b, e>> \o <<c, d>>, {a, b, e, c, d})
<1>1. Shape(<<a, b, e>>, {a, b, e}) /\ Shape(<<c, d>>, {c, d})
  BY TwoOperands, ThreeOperands
<1>2. Shape(<<a, b, e>> \o <<c, d>>, {a, b, e} \cup {c, d})
  BY <1>1, Joined
<1>3. {a, b, e} \cup {c, d} = {a, b, e, c, d}
  OBVIOUS
<1> QED
  BY <1>2, <1>3

LEMMA SignatureGood ==
    ASSUME NEW u, u.op \in {"signature", "field"}
    PROVE  UnitGood(u)
<1>1. CASE u.op = "signature"
  <2>1. PICK a, b, c, d : /\ a = String("name", u.name) /\ b = TypesOf("locals", source.types)
                          /\ c = TypesOf("args", u.args) /\ d = TypeOf("return_type", u.ty)
    OBVIOUS
  <2>2. Operands(u) = <<a, b, c, d>>
    <3>1. Operands(u) = SignatureOperands(u)
      BY <1>1, OperandsAre
    <3> QED
      BY <1>1, <2>1, <3>1 DEF SignatureOperands
  <2>3. /\ a.slot = "name" /\ a.as = "string" /\ b.slot = "locals" /\ b.as = "types"
        /\ c.slot = "args" /\ c.as = "types" /\ d.slot = "return_type" /\ d.as = "types"
    BY <2>1 DEF String, TypesOf, TypeOf
  <2>4. Shape(Operands(u), {a, b, c, d})
    BY <2>2, <2>3, FourOperands
  <2>5. \A o \in {a, b, c, d} : PlainOperand(o)
    BY <2>3 DEF PlainOperand, RangeSlots
  <2> QED
    BY <1>1, <2>4, <2>5, PlainUnit
<1>2. CASE u.op = "field"
  <2>1. PICK a, b : a = String("name", u.name) /\ b = TypeOf("ty", u.ty)
    OBVIOUS
  <2>2. Operands(u) = <<a, b>>
    <3>1. Operands(u) = FieldOperands(u)
      BY <1>2, OperandsAre
    <3> QED
      BY <1>2, <2>1, <3>1 DEF FieldOperands
  <2>3. a.slot = "name" /\ a.as = "string" /\ b.slot = "ty" /\ b.as = "types"
    BY <2>1 DEF String, TypesOf, TypeOf
  <2>4. Shape(Operands(u), {a, b})
    BY <2>2, <2>3, TwoOperands
  <2>5. \A o \in {a, b} : PlainOperand(o)
    BY <2>3 DEF PlainOperand, RangeSlots
  <2> QED
    BY <1>2, <2>4, <2>5, PlainUnit
<1> QED
  BY <1>1, <1>2

LEMMA PlainStatementGood ==
    ASSUME NEW u, u.op \in {"Check", "ReadPointerTo", "WritePointer", "NewArray",
                            "NonPurusCall", "Throw", "ReturnVal", "Jump", "Nop"}
    PROVE  UnitGood(u)
<1>1. CASE u.op = "Check"
  <2>1. PICK a, b : a = Register("output", u.result) /\ b = Register("to_check", u.to_check)
    OBVIOUS
  <2>2. Operands(u) = <<a, b>>
    <3>1. Operands(u) = CheckOperands(u)
      BY <1>1, OperandsAre
    <3> QED
      BY <1>1, <2>1, <3>1 DEF CheckOperands
  <2>3. /\ a.slot = "output" /\ a.as = "registers"
        /\ b.slot = "to_check" /\ b.as = "registers"
    BY <2>1 DEF Register, Registers
  <2>4. Shape(Operands(u), {a, b})
    BY <2>2, <2>3, TwoOperands
  <2>5. \A o \in {a, b} : PlainOperand(o)
    BY <2>3 DEF PlainOperand, RangeSlots
  <2> QED
    BY <1>1, <2>4, <2>5, PlainUnit
<1>2. CASE u.op = "ReadPointerTo"
  <2>1. PICK a, b, c : /\ a = Register("ptr", u.ptr) /\ b = Register("size", u.size)
                       /\ c = Register("destination", u.destination)
    OBVIOUS
  <2>2. Operands(u) = <<a, b, c>>
    <3>1. Operands(u) = PointerOperands(u)
      BY <1>2, OperandsAre
    <3> QED
      BY <1>2, <2>1, <3>1 DEF PointerOperands
  <2>3. /\ a.slot = "ptr" /\ a.as = "registers" /\ b.slot = "size" /\ b.as = "registers"
        /\ c.slot = "destination" /\ c.as = "registers"
    BY <2>1 DEF Register, Registers
  <2>4. Shape(Operands(u), {a, b, c})
    BY <2>2, <2>3, ThreeOperands
  <2>5. \A o \in {a, b, c} : PlainOperand(o)
    BY <2>3 DEF PlainOperand, RangeSlots
  <2> QED
    BY <1>2, <2>4, <2>5, PlainUnit
<1>3. CASE u.op = "WritePointer"
  <2>1. PICK a, b, c : /\ a = Register("source", u.source) /\ b = Register("size", u.size)
                       /\ c = Register("ptr", u.ptr)
    OBVIOUS
  <2>2. Operands(u) = <<a, b, c>>
    <3>1. Operands(u) = PointerOperands(u)
      BY <1>3, OperandsAre
    <3> QED
      BY <1>3, <2>1, <3>1 DEF PointerOperands
  <2>3. /\ a.slot = "source" /\ a.as = "registers" /\ b.slot = "size" /\ b.as = "registers"
        /\ c.slot = "ptr" /\ c.as = "registers"
    BY <2>1 DEF Register, Registers
  <2>4. Shape(Operands(u), {a, b, c})
    BY <2>2, <2>3, ThreeOperands
  <2>5. \A o \in {a, b, c} : PlainOperand(o)
    BY <2>3 DEF PlainOperand, RangeSlots
  <2> QED
    BY <1>3, <2>4, <2>5, PlainUnit
<1>4. CASE u.op = "NewArray"
  <2>1. PICK a, b, c : /\ a = TypeOf("element_type", u.ty) /\ b = Register("output", u.result)
                       /\ c = IF u.dynamic # None THEN Register("len", u.dynamic)
                                                  ELSE Verbatim("len", u.static)
    OBVIOUS
  <2>2. Operands(u) = <<a, b, c>>
    <3>1. Operands(u) = NewOperands(u)
      BY <1>4, OperandsAre
    <3> QED
      BY <1>4, <2>1, <3>1 DEF NewOperands
  <2>3. /\ a.slot = "element_type" /\ a.as = "types"
        /\ b.slot = "output" /\ b.as = "registers"
        /\ c.slot = "len" /\ c.as \in {"registers", "verbatim"}
    BY <2>1 DEF TypeOf, TypesOf, Register, Registers, Verbatim
  <2>4. Shape(Operands(u), {a, b, c})
    BY <2>2, <2>3, ThreeOperands
  <2>5. \A o \in {a, b, c} : PlainOperand(o)
    BY <2>3 DEF PlainOperand, RangeSlots
  <2> QED
    BY <1>4, <2>4, <2>5, PlainUnit
<1>5. CASE u.op = "NonPurusCall"
  <2>1. PICK a, b, c, d : /\ a = Register("f_pointer", u.f_pointer)
                          /\ b = Register("config", u.config)
                          /\ c = Registers("args", u.args) /\ d = Register("ret_at", u.result)
    OBVIOUS
  <2>2. Operands(u) = <<a, b>> \o <<c, d>>
    <3>1. Operands(u) = CallOperands(u)
      BY <1>5, OperandsAre
    <3> QED
      BY <1>5, <2>1, <3>1 DEF CallOperands
  <2>3. /\ a.slot = "f_pointer" /\ a.as = "registers" /\ b.slot = "config"
        /\ b.as = "registers" /\ c.slot = "args" /\ c.as = "registers"
        /\ d.slot = "ret_at" /\ d.as = "registers"
    BY <2>1 DEF Register, Registers
  <2>4. Shape(Operands(u), {a, b, c, d})
    BY <2>2, <2>3, TwoThenTwo
  <2>5. \A o \in {a, b, c, d} : PlainOperand(o)
    BY <2>3 DEF PlainOperand, RangeSlots
  <2> QED
    BY <1>5, <2>4, <2>5, PlainUnit
<1>6. CASE u.op \in {"Throw", "ReturnVal"}
  <2>1. PICK a : a = Register("val", u.val)
    OBVIOUS
  <2>2. Operands(u) = <<a>>
    <3>1. Operands(u) = JumpOperands(u)
      BY <1>6, OperandsAre
    <3> QED
      BY <1>6, <2>1, <3>1 DEF JumpOperands
  <2>3. a.slot = "val" /\ a.as = "registers"
    BY <2>1 DEF Register, Registers
  <2>4. Shape(Operands(u), {a})
    BY <2>2, OneOperand
  <2>5. \A o \in {a} : PlainOperand(o)
    BY <2>3 DEF PlainOperand, RangeSlots
  <2> QED
    BY <1>6, <2>4, <2>5, PlainUnit
<1>7. CASE u.op = "Jump"
  <2>1. PICK a, b : a = Verbatim("target", u.target) /\ b = Register("condition", u.val)
    OBVIOUS
  <2>2. Operands(u) = JumpOperands(u)
    BY <1>7, OperandsAre
  <2>3. /\ a.slot = "target" /\ a.as = "verbatim"
        /\ b.slot = "condition" /\ b.as = "registers"
    BY <2>1 DEF Register, Registers, Verbatim
  <2>4. \A o \in {a, b} : PlainOperand(o)
    BY <2>3 DEF PlainOperand, RangeSlots
  <2>5. CASE u.condition = "Unconditional"
    <3>1. Operands(u) = <<a>> \o <<>>
      BY <1>7, <2>1, <2>2, <2>5 DEF JumpOperands
    <3>2. Shape(<<a>> \o <<>>, {a} \cup {})
      BY OneOperand, NoOperands, Joined
    <3>3. \A o \in {a} \cup {} : PlainOperand(o)
      BY <2>4
    <3> QED
      BY <1>7, <3>1, <3>2, <3>3, PlainUnit
  <2>6. CASE u.condition # "Unconditional"
    <3>1. Operands(u) = <<a>> \o <<b>>
      BY <1>7, <2>1, <2>2, <2>6 DEF JumpOperands
    <3>2. Shape(Operands(u), {a, b})
      BY <2>3, <3>1, OneThenOne
    <3> QED
      BY <1>7, <2>4, <3>2, PlainUnit
  <2> QED
    BY <2>5, <2>6
<1>8. CASE u.op = "Nop"
  <2>1. Operands(u) = <<>>
    BY <1>8, OperandsAre DEF JumpOperands
  <2>2. Shape(Operands(u), {})
    BY <2>1, NoOperands
  <2> QED
    BY <1>8, <2>2, PlainUnit
<1> QED
  BY <1>1, <1>2, <1>3, <1>4, <1>5, <1>6, <1>7, <1>8

\* A method that is looked up in a type that the unit names, or in that of
\* the register in slot "val".
LEMMA NewObjectGood ==
    ASSUME NEW u, u.op = "NewObject", u.ctor.index \in ReferenceIndex
    PROVE  UnitGood(u)
<1>1. PICK a, m, c, d : /\ a = TypeOf("ty", u.ty) /\ m = Method(Named(u.ty), FALSE, u.ctor)
                        /\ c = Registers("args", u.args) /\ d = Register("output", u.result)
  OBVIOUS
<1>2. Operands(u) = <<a, m, c, d>>
  <2>1. Operands(u) = NewOperands(u)
    BY OperandsAre
  <2> QED
    BY <1>1, <2>1 DEF NewOperands
<1>3. /\ a.slot = "ty" /\ a.as = "types" /\ m.slot = "method" /\ m.as = "method"
      /\ m.of = u.ctor /\ m.in.by = "type" /\ c.slot = "args" /\ c.as = "registers"
      /\ d.slot = "output" /\ d.as = "registers"
  BY <1>1 DEF TypeOf, TypesOf, Method, Named, Register, Registers
<1>4. StaticAsNeeded(u, m)
  <2>1. ~NeedsStatic(u)
    BY DEF NeedsStatic
  <2> QED
    BY <1>1, <2>1, StaticMembers
<1>5. Shape(Operands(u), {a, m, c, d})
  BY <1>2, <1>3, FourOperands
<1>6. PlainOperand(a) /\ PlainOperand(c) /\ PlainOperand(d)
  BY <1>3 DEF PlainOperand, RangeSlots
<1>7. OperandGood(u, m, {a, m, c, d})
  BY <1>3, <1>4, NamedGood DEF RangeSlots
<1>8. \A o \in {a, m, c, d} : OperandGood(u, o, {a, m, c, d})
  BY <1>6, <1>7, PlainGood
<1>9. HasOperands(u, {a, m, c, d})
  BY DEF HasOperands
<1> QED
  BY <1>5, <1>8, <1>9 DEF UnitGood

LEMMA MemberCallGood ==
    ASSUME NEW u, u.op \in MemberCalls, u.method.index \in ReferenceIndex
    PROVE  UnitGood(u)
<1>1. PICK c, d : c = Registers("args", u.args) /\ d = Register("ret_at", u.result)
  OBVIOUS
<1>2. /\ c.slot = "args" /\ c.as = "registers"
      /\ d.slot = "ret_at" /\ d.as = "registers"
  BY <1>1 DEF Register, Registers
<1>3. PlainOperand(c) /\ PlainOperand(d)
  BY <1>2 DEF PlainOperand, RangeSlots
<1>4. Operands(u) = CallOperands(u)
  BY OperandsAre
<1>5. \A S : HasOperands(u, S)
  BY DEF HasOperands, MemberCalls
<1>6. CASE u.op = "InstanceCall"
  <2>1. PICK a, m : /\ a = Register("val", u.val)
                    /\ m = Method(DeclaredType(u.val), FALSE, u.method)
    OBVIOUS
  <2>2. Operands(u) = <<a, m>> \o <<c, d>>
    BY <1>1, <1>4, <1>6, <2>1 DEF CallOperands
  <2>3. /\ a.slot = "val" /\ a.as = "registers" /\ a.of = <<u.val>>
        /\ m.slot = "method" /\ m.as = "method" /\ m.of = u.method /\ m.in.of = u.val
    BY <2>1 DEF Register, Registers, Method, DeclaredType
  <2>4. StaticAsNeeded(u, m)
    <3>1. ~NeedsStatic(u)
      BY <1>6 DEF NeedsStatic
    <3> QED
      BY <2>1, <3>1, StaticMembers
  <2>5. Shape(Operands(u), {a, m, c, d})
    BY <1>2, <2>2, <2>3, TwoThenTwo
  <2>6. PlainOperand(a)
    BY <2>3 DEF PlainOperand, RangeSlots
  <2>7. ReadFrom(a, m, {a, m, c, d})
    BY <1>2, <2>3 DEF ReadFrom
  <2>8. OperandGood(u, m, {a, m, c, d})
    BY <2>3, <2>4, <2>7 DEF OperandGood, RangeSlots
  <2>9. \A o \in {a, m, c, d} : OperandGood(u, o, {a, m, c, d})
    BY <1>3, <2>6, <2>8, PlainGood
  <2> QED
    BY <1>5, <2>5, <2>9 DEF UnitGood
<1>7. CASE u.op = "StaticCall"
  <2>1. PICK a, m : /\ a = TypeOf("ty", u.ty) /\ m = Method(Named(u.ty), TRUE, u.method)
    OBVIOUS
  <2>2. Operands(u) = <<a, m>> \o <<c, d>>
    BY <1>1, <1>4, <1>7, <2>1 DEF CallOperands
  <2>3. /\ a.slot = "ty" /\ a.as = "types" /\ m.slot = "method" /\ m.as = "method"
        /\ m.of = u.method /\ m.in.by = "type"
    BY <2>1 DEF TypeOf, TypesOf, Method, Named
  <2>4. StaticAsNeeded(u, m)
    <3>1. NeedsStatic(u)
      BY <1>7 DEF NeedsStatic
    <3> QED
      BY <2>1, <3>1, StaticMembers
  <2>5. Shape(Operands(u), {a, m, c, d})
    BY <1>2, <2>2, <2>3, TwoThenTwo
  <2>6. PlainOperand(a)
    BY <2>3 DEF PlainOperand, RangeSlots
  <2>7. OperandGood(u, m, {a, m, c, d})
    BY <2>3, <2>4, NamedGood DEF RangeSlots
  <2>8. \A o \in {a, m, c, d} : OperandGood(u, o, {a, m, c, d})
    BY <1>3, <2>6, <2>7, PlainGood
  <2> QED
    BY <1>5, <2>5, <2>8 DEF UnitGood
<1>8. CASE u.op = "InterfaceCall"
  <2>1. PICK a, t, m : /\ a = Register("val", u.val) /\ t = TypeOf("interface", u.ty)
                       /\ m = Method(DeclaredType(u.val), FALSE, u.method)
    OBVIOUS
  <2>2. Operands(u) = <<a, t, m>> \o <<c, d>>
    BY <1>1, <1>4, <1>8, <2>1 DEF CallOperands
  <2>3. /\ a.slot = "val" /\ a.as = "registers" /\ a.of = <<u.val>>
        /\ t.slot = "interface" /\ t.as = "types"
        /\ m.slot = "method" /\ m.as = "method" /\ m.of = u.method /\ m.in.of = u.val
    BY <2>1 DEF Register, Registers, TypeOf, TypesOf, Method, DeclaredType
  <2>4. StaticAsNeeded(u, m)
    <3>1. ~NeedsStatic(u)
      BY <1>8 DEF NeedsStatic
    <3> QED
      BY <2>1, <3>1, StaticMembers
  <2>5. Shape(Operands(u), {a, t, m, c, d})
    BY <1>2, <2>2, <2>3, ThreeThenTwo
  <2>6. PlainOperand(a) /\ PlainOperand(t)
    BY <2>3 DEF PlainOperand, RangeSlots
  <2>7. ReadFrom(a, m, {a, t, m, c, d})
    BY <1>2, <2>3 DEF ReadFrom
  <2>8. OperandGood(u, m, {a, t, m, c, d})
    BY <2>3, <2>4, <2>7 DEF OperandGood, RangeSlots
  <2>9. \A o \in {a, t, m, c, d} : OperandGood(u, o, {a, t, m, c, d})
    BY <1>3, <2>6, <2>8, PlainGood
  <2> QED
    BY <1>5, <2>5, <2>9 DEF UnitGood
<1> QED
  BY <1>6, <1>7, <1>8 DEF MemberCalls

LEMMA StoreGood ==
    ASSUME NEW u, u.op \in Stores
    PROVE  UnitGood(u)
<1>1. PICK a : a = Register("val", u.val)
  OBVIOUS
<1>2. a.slot = "val" /\ a.as = "registers"
  BY <1>1 DEF Register, Registers
<1>3. PlainOperand(a)
  BY <1>2 DEF PlainOperand, RangeSlots
<1>4. Operands(u) = SetOperands(u)
  BY OperandsAre
<1>5. CASE u.op = "SetStaticField"
  <2>1. PICK t, f : t = TypeOf("ty", u.ty) /\ f = Field(Named(u.ty), TRUE, u.field)
    OBVIOUS
  <2>2. Operands(u) = <<a>> \o <<t, f>>
    BY <1>1, <1>4, <1>5, <2>1 DEF SetOperands
  <2>3. /\ t.slot = "ty" /\ t.as = "types" /\ f.slot = "field" /\ f.as = "field"
        /\ f.in.by = "type"
    BY <2>1 DEF TypeOf, TypesOf, Field, Named
  <2>4. StaticAsNeeded(u, f)
    <3>1. NeedsStatic(u)
      BY <1>5 DEF NeedsStatic
    <3> QED
      BY <2>1, <3>1, StaticMembers
  <2>5. Shape(Operands(u), {a, t, f})
    BY <1>2, <2>2, <2>3, OneThenTwo
  <2>6. PlainOperand(t)
    BY <2>3 DEF PlainOperand, RangeSlots
  <2>7. OperandGood(u, f, {a, t, f})
    BY <2>3, <2>4, NamedGood DEF RangeSlots
  <2>8. \A o \in {a, t, f} : OperandGood(u, o, {a, t, f})
    BY <1>3, <2>6, <2>7, PlainGood
  <2>9. HasOperands(u, {a, t, f})
    BY <1>5 DEF HasOperands
  <2> QED
    BY <2>5, <2>8, <2>9 DEF UnitGood
<1>6. ASSUME u.op \in {"SetField", "SetThisField"}
      PROVE  UnitGood(u)
  <2>1. PICK r, f : /\ r = Register("container", u.container)
                    /\ f = Field(CurrentType, FALSE, u.field)
    OBVIOUS
  <2>2. /\ r.slot = "container" /\ r.as = "registers" /\ f.slot = "field" /\ f.as = "field"
        /\ f.in.by = "type"
    BY <2>1 DEF Register, Registers, Field, CurrentType
  <2>3. StaticAsNeeded(u, f)
    <3>1. ~NeedsStatic(u)
      BY <1>6 DEF NeedsStatic
    <3> QED
      BY <2>1, <3>1, StaticMembers
  <2>4. PlainOperand(r)
    BY <2>2 DEF PlainOperand, RangeSlots
  <2>5. \A S : OperandGood(u, f, S)
    BY <2>2, <2>3, NamedGood DEF RangeSlots
  <2>6. \A S : f \in S => HasOperands(u, S)
    BY <1>6, <2>1 DEF HasOperands
  <2>7. CASE u.op = "SetField"
    <3>1. Operands(u) = <<a>> \o (<<r>> \o <<f>>)
      BY <1>1, <1>4, <2>1, <2>7 DEF SetOperands
    <3>2. Shape(<<r>> \o <<f>>, {r, f}) /\ Shape(<<a>>, {a})
      BY <2>2, OneThenOne, OneOperand
    <3>3. \A x \in {a}, y \in {r, f} : x.slot # y.slot
      BY <1>2, <2>2
    <3>4. Shape(Operands(u), {a} \cup {r, f})
      BY <3>1, <3>2, <3>3, Joined
    <3>5. \A o \in {a} \cup {r, f} : OperandGood(u, o, {a} \cup {r, f})
      BY <1>3, <2>4, <2>5, PlainGood
    <3> QED
      BY <2>6, <3>4, <3>5 DEF UnitGood
  <2>8. CASE u.op = "SetThisField"
    <3>1. Operands(u) = <<a>> \o (<<>> \o <<f>>)
      BY <1>1, <1>4, <2>1, <2>8 DEF SetOperands
    <3>2. Shape(<<>>, {}) /\ Shape(<<f>>, {f}) /\ Shape(<<a>>, {a})
      BY NoOperands, OneOperand
    <3>3. Shape(<<>> \o <<f>>, {} \cup {f})
      BY <3>2, Joined
    <3>4. \A x \in {a}, y \in {} \cup {f} : x.slot # y.slot
      BY <1>2, <2>2
    <3>5. Shape(Operands(u), {a} \cup ({} \cup {f}))
      BY <3>1, <3>2, <3>3, <3>4, Joined
    <3>6. \A o \in {a} \cup ({} \cup {f}) : OperandGood(u, o, {a} \cup ({} \cup {f}))
      BY <1>3, <2>5, PlainGood
    <3> QED
      BY <2>6, <3>5, <3>6 DEF UnitGood
  <2> QED
    BY <1>6, <2>7, <2>8
<1> QED
  BY <1>5, <1>6 DEF Stores

\* Operands S of a unit u, in slots of certain names, whose members are of
\* types that u names.
GoodPart(u, s, S, names) ==
    /\ Shape(s, S)
    /\ \A o \in S : o.slot \in names
    /\ \A o \in S : \A T : OperandGood(u, o, T)

LEMMA PartsJoined ==
    ASSUME NEW u, NEW a, NEW b, NEW S, NEW T, NEW M, NEW N,
           GoodPart(u, a, S, M), GoodPart(u, b, T, N), \A m \in M : m \notin N
    PROVE  GoodPart(u, a \o b, S \cup T, M \cup N)
<1>1. \A x \in S, y \in T : x.slot # y.slot
  BY DEF GoodPart
<1>2. Shape(a \o b, S \cup T)
  BY <1>1, Joined DEF GoodPart
<1> QED
  BY <1>2 DEF GoodPart

LEMMA NoPart == \A u, M : GoodPart(u, <<>>, {}, M)
BY NoOperands DEF GoodPart

LEMMA RangePart ==
    ASSUME NEW u, NEW name, NEW begin \in Nat, NEW range \in Locations \X Locations
    PROVE  GoodPart(u, <<RangeOf(name, begin, range)>>, {RangeOf(name, begin, range)}, {name})
<1>1. PICK r : r = RangeOf(name, begin, range)
  OBVIOUS
<1>2. r.slot = name /\ r.as = "range" /\ r.of = range /\ r.begin = begin
  BY <1>1 DEF RangeOf
<1>3. \A T : OperandGood(u, r, T)
  BY <1>2 DEF OperandGood
<1>4. Shape(<<r>>, {r})
  BY OneOperand
<1>5. GoodPart(u, <<r>>, {r}, {name})
  BY <1>2, <1>3, <1>4 DEF GoodPart
<1> QED
  BY <1>1, <1>5

LEMMA EntryGood ==
    ASSUME NEW u, u.op = "entry", WellFormed(u)
    PROVE  UnitGood(u)
<1>1. /\ u.begin \in Nat /\ u.end \in Locations
      /\ u.filter # None => u.filter.method.index \in ReferenceIndex
      /\ u.catch \in Locations \X Locations
      /\ u.finally # None => u.finally \in Locations \X Locations
      /\ u.fault # None => u.fault \in Locations \X Locations
  BY DEF WellFormed
<1>2. PICK r, t, c : /\ r = RangeOf("range", u.begin, <<[rel |-> FALSE, loc |-> u.begin], u.end>>)
                     /\ t = TypeOf("exception_type", u.ty)
                     /\ c = RangeOf("catch", u.begin, u.catch)
  OBVIOUS
<1>3. GoodPart(u, <<r, t>>, {r, t}, {"range", "exception_type"})
  <2>1. <<[rel |-> FALSE, loc |-> u.begin], u.end>> \in Locations \X Locations
    BY <1>1 DEF Locations
  <2>2. GoodPart(u, <<r>>, {r}, {"range"})
    BY <1>1, <1>2, <2>1, RangePart
  <2>3. r.slot = "range"
    BY <1>2 DEF RangeOf
  <2>4. t.slot = "exception_type" /\ t.as = "types"
    BY <1>2 DEF TypeOf, TypesOf
  <2>5. Shape(<<r, t>>, {r, t})
    BY <2>3, <2>4, TwoOperands
  <2>6. \A T : OperandGood(u, t, T)
    BY <2>4, PlainGood DEF PlainOperand, RangeSlots
  <2> QED
    BY <2>2, <2>3, <2>4, <2>5, <2>6 DEF GoodPart
<1>4. GoodPart(u, <<c>>, {c}, {"catch"})
  BY <1>1, <1>2, RangePart
<1>5. PICK f, F : /\ f = (IF u.filter = None THEN <<>>
                          ELSE <<TypeOf("filter_type", u.filter.ty),
                                 Method(Named(u.filter.ty), TRUE, u.filter.method)>>)
                  /\ GoodPart(u, f, F, {"filter_type", "method"})
  <2>1. CASE u.filter = None
    BY <2>1, NoPart
  <2>2. CASE u.filter # None
    <3>1. PICK a, m : /\ a = TypeOf("filter_type", u.filter.ty)
                      /\ m = Method(Named(u.filter.ty), TRUE, u.filter.method)
      OBVIOUS
    <3>2. /\ a.slot = "filter_type" /\ a.as = "types" /\ m.slot = "method" /\ m.as = "method"
          /\ m.of = u.filter.method /\ m.in.by = "type"
      BY <3>1 DEF TypeOf, TypesOf, Method, Named
    <3>3. StaticAsNeeded(u, m)
      <4>1. NeedsStatic(u)
        BY DEF NeedsStatic
      <4> QED
        BY <3>1, <4>1, StaticMembers
    <3>4. Shape(<<a, m>>, {a, m})
      BY <3>2, TwoOperands
    <3>5. \A T : OperandGood(u, a, T)
      BY <3>2, PlainGood DEF PlainOperand, RangeSlots
    <3>6. \A T : OperandGood(u, m, T)
      BY <1>1, <2>2, <3>2, <3>3, NamedGood DEF RangeSlots
    <3>7. GoodPart(u, <<a, m>>, {a, m}, {"filter_type", "method"})
      BY <3>2, <3>4, <3>5, <3>6 DEF GoodPart
    <3> QED
      BY <2>2, <3>1, <3>7
  <2> QED
    BY <2>1, <2>2
<1>6. PICK y, Y : /\ y = (IF u.finally = None THEN <<>>
                          ELSE <<RangeOf("finally", u.begin, u.finally)>>)
                  /\ GoodPart(u, y, Y, {"finally"})
                  /\ u.finally # None => RangeOf("finally", u.begin, u.finally) \in Y
  <2>1. CASE u.finally = None
    BY <2>1, NoPart
  <2>2. CASE u.finally # None
    BY <1>1, <2>2, RangePart
  <2> QED
    BY <2>1, <2>2
<1>7. PICK z, Z : /\ z = (IF u.fault = None THEN <<>>
                          ELSE <<RangeOf("fault", u.begin, u.fault)>>)
                  /\ GoodPart(u, z, Z, {"fault"})
                  /\ u.fault # None => RangeOf("fault", u.begin, u.fault) \in Z
  <2>1. CASE u.fault = None
    BY <2>1, NoPart
  <2>2. CASE u.fault # None
    BY <1>1, <2>2, RangePart
  <2> QED
    BY <2>1, <2>2
<1>8. Operands(u) = (((<<r, t>> \o f) \o <<c>>) \o y) \o z
  <2>1. Operands(u) = EntryOperands(u)
    BY OperandsAre
  <2> QED
    BY <1>2, <1>5, <1>6, <1>7, <2>1 DEF EntryOperands
<1>9. PICK N1 : N1 = {"range", "exception_type"} \cup {"filter_type", "method"}
  OBVIOUS
<1>10. GoodPart(u, <<r, t>> \o f, {r, t} \cup F, N1)
  BY <1>3, <1>5, <1>9, PartsJoined
<1>11. GoodPart(u, (<<r, t>> \o f) \o <<c>>, {r, t} \cup F \cup {c}, N1 \cup {"catch"})
  BY <1>4, <1>9, <1>10, PartsJoined
<1>12. PICK s, S, N : /\ s = ((<<r, t>> \o f) \o <<c>>) \o y
                      /\ S = {r, t} \cup F \cup {c} \cup Y
                      /\ N = N1 \cup {"catch"} \cup {"finally"}
  OBVIOUS
<1>13. GoodPart(u, s, S, N)
  BY <1>6, <1>9, <1>11, <1>12, PartsJoined
<1>14. \A m \in N : m \notin {"fault"}
  BY <1>9, <1>12
<1>15. GoodPart(u, s \o z, S \cup Z, N \cup {"fault"})
  BY <1>7, <1>13, <1>14, PartsJoined
<1>16. HasOperands(u, S \cup Z)
  BY <1>2, <1>6, <1>7, <1>12 DEF HasOperands, HasRanges
<1> QED
  BY <1>8, <1>12, <1>15, <1>16 DEF GoodPart, UnitGood

\* What a Load's content is parsed to, if it is parsed at all.
LEMMA ParsedKind ==
    ASSUME NEW hyphens, NEW tk, tk.kind \in TokenKinds,
           Parse(hyphens, tk).kind \notin {"error", "panic"}
    PROVE  Parse(hyphens, tk).kind \in ContentKinds
<1>1. CASE tk.kind \in Unsigned /\ hyphens > 0
  BY <1>1 DEF Parse, Panics, Unsigned
<1>2. CASE tk.kind = "Int"
  <2>1. Parse(hyphens, tk) = Number(hyphens, tk)
    BY <1>2 DEF Parse, Unsigned
  <2>2. Number(hyphens, tk).kind \in {"Number", "error"}
    BY DEF Number, Rejected
  <2> QED
    BY <2>1, <2>2 DEF ContentKinds
<1>3. CASE tk.kind = "Float"
  BY <1>3 DEF Parse, Panics, Unsigned
<1>4. CASE tk.kind \in {"true", "false"}
  <2>1. Parse(hyphens, tk) = Truth(hyphens, tk)
    BY <1>4 DEF Parse, Unsigned
  <2>2. Truth(hyphens, tk).kind \in {"True", "False"}
    BY DEF Truth
  <2> QED
    BY <2>1, <2>2 DEF ContentKinds
<1>5. CASE tk.kind \in {"EmptyInt", "Other"}
  BY <1>5 DEF Parse, Rejected, Unsigned
<1>6. CASE tk.kind \in Unsigned /\ ~(hyphens > 0)
  <2>1. \A kind, single : Text(kind, single, tk).kind \in {kind, "error"}
    BY DEF Text, Rejected
  <2>2. CASE tk.kind = "Char"
    <3>1. Parse(hyphens, tk) = Text("Char", TRUE, tk)
      BY <1>6, <2>2 DEF Parse, Unsigned
    <3>2. Parse(hyphens, tk).kind \in {"Char", "error"}
      BY <2>1, <3>1, Zenon
    <3> QED
      BY <3>2, Zenon DEF ContentKinds
  <2>3. CASE tk.kind = "Byte"
    <3>1. Parse(hyphens, tk) = Text("Byte", TRUE, tk)
      BY <1>6, <2>3 DEF Parse, Unsigned
    <3>2. Parse(hyphens, tk).kind \in {"Byte", "error"}
      BY <2>1, <3>1, Zenon
    <3> QED
      BY <3>2, Zenon DEF ContentKinds
  <2>4. CASE tk.kind \in {"Str", "RawStr"}
    <3>1. Parse(hyphens, tk) = Text("String", FALSE, tk)
      BY <1>6, <2>4 DEF Parse, Unsigned
    <3>2. Parse(hyphens, tk).kind \in {"String", "error"}
      BY <2>1, <3>1, Zenon
    <3> QED
      BY <3>2, Zenon DEF ContentKinds
  <2>5. CASE tk.kind \in {"ByteStr", "RawByteStr"}
    <3>1. Parse(hyphens, tk) = Text("ByteString", FALSE, tk)
      BY <1>6, <2>5 DEF Parse, Unsigned
    <3>2. Parse(hyphens, tk).kind \in {"ByteString", "error"}
      BY <2>1, <3>1, Zenon
    <3> QED
      BY <3>2, Zenon DEF ContentKinds
  <2>6. CASE tk.kind = "arg"
    <3>1. Parse(hyphens, tk) \in {tk, Panics}
      BY <1>6, <2>6 DEF Parse, Unsigned
    <3> QED
      BY <2>6, <3>1 DEF ContentKinds, Panics
  <2>7. CASE tk.kind \in {"this", "static", "field", "sizeof"}
    <3>1. Parse(hyphens, tk) = tk
      BY <1>6, <2>7 DEF Parse, Unsigned
    <3> QED
      BY <2>7, <3>1 DEF ContentKinds
  <2> QED
    BY <1>6, <2>2, <2>3, <2>4, <2>5, <2>6, <2>7 DEF Unsigned
<1> QED
  BY <1>1, <1>2, <1>3, <1>4, <1>5, <1>6 DEF TokenKinds

LEMMA ParsedUnit ==
    ASSUME NEW w, WellFormed(w)
    PROVE  /\ AsParsed(w).op = w.op
           /\ w.op # "Load" => AsParsed(w) = w
           /\ w.op = "Load" => AsParsed(w).content = Parse(w.hyphens, w.content)
BY DEF AsParsed, WellFormed

\* What a source may hold, once parsed, has the operands of its kind.
LEMMA UnitsGood ==
    ASSUME NEW w, WellFormed(w),
           AsParsed(w).op = "Load" => AsParsed(w).content.kind \notin {"error", "panic"}
    PROVE  UnitGood(AsParsed(w))
<1>1. w.op \in Ops
  BY DEF WellFormed
<1>2. CASE w.op = "Load"
  <2>1. w.content.kind \in TokenKinds
    BY <1>2 DEF WellFormed
  <2>2. AsParsed(w).op = "Load" /\ AsParsed(w).content = Parse(w.hyphens, w.content)
    BY <1>2, ParsedUnit
  <2>3. AsParsed(w).content.kind \in ContentKinds
    BY <2>1, <2>2, ParsedKind
  <2> QED
    BY <2>2, <2>3, LoadGood
<1>3. CASE w.op # "Load"
  <2>1. AsParsed(w) = w
    BY <1>3, ParsedUnit
  <2>2. w.op = "NewObject" => w.ctor.index \in ReferenceIndex
    BY DEF WellFormed
  <2>3. w.op \in MemberCalls => w.method.index \in ReferenceIndex
    BY DEF WellFormed
  <2>4. UnitGood(w)
    BY <1>1, <1>3, <2>2, <2>3, EntryGood, NewObjectGood, MemberCallGood, StoreGood,
       SignatureGood, PlainStatementGood DEF Ops
  <2> QED
    BY <2>1, <2>4
<1> QED
  BY <1>2, <1>3

----------------------------------------------------------------------------
(* The invariant is inductive                                              *)

\* The units parsed so far: each has the operands of its kind.
LEMMA AllGood ==
    ASSUME LowInv
    PROVE  /\ Len(units) \in Nat /\ DOMAIN units = 1 .. Len(units)
           /\ Len(source.units) \in Nat /\ DOMAIN source.units = 1 .. Len(source.units)
           /\ DOMAIN source = {"units", "locals", "types"}
           /\ Len(units) <= Len(source.units)
           /\ \A u \in DOMAIN units : /\ u \in DOMAIN source.units
                                      /\ WellFormed(source.units[u])
                                      /\ units[u] = AsParsed(source.units[u])
                                      /\ UnitGood(units[u])
<1>1. /\ DOMAIN source = {"units", "locals", "types"} /\ IsSequence(source.units)
      /\ \A k \in DOMAIN source.units : WellFormed(source.units[k])
  BY SourcesAssumption DEF LowInv
<1>2. /\ Len(units) \in Nat /\ DOMAIN units = 1 .. Len(units)
      /\ Len(units) <= Len(source.units)
  BY DEF LowInv, UnitsInv
<1>3. Len(source.units) \in Nat /\ DOMAIN source.units = 1 .. Len(source.units)
  BY <1>1 DEF IsSequence
<1>4. \A u \in DOMAIN units : u \in DOMAIN source.units
  BY <1>2, <1>3
<1>5. ASSUME NEW u \in DOMAIN units
      PROVE  WellFormed(source.units[u]) /\ UnitGood(units[u])
             /\ units[u] = AsParsed(source.units[u])
  <2>1. WellFormed(source.units[u])
    BY <1>1, <1>4
  <2>2. /\ units[u] = AsParsed(source.units[u])
        /\ units[u].op = "Load" => units[u].content.kind \notin {"error", "panic"}
    BY DEF LowInv, UnitsInv
  <2>3. UnitGood(AsParsed(source.units[u]))
    BY <2>1, <2>2, UnitsGood
  <2> QED
    BY <2>1, <2>2, <2>3
<1> QED
  BY <1>1, <1>2, <1>3, <1>4, <1>5

\* What is in a table stays where it is.
Kept(table, later) == \A k \in DOMAIN table : k \in DOMAIN later /\ later[k] = table[k]

LEMMA OperandsKept ==
    ASSUME source' = source
    PROVE  \A u : Operands(u)' = Operands(u)
BY DEF Operands, SignatureOperands

LEMMA MembersKept ==
    ASSUME source' = source
    PROVE  \A o : /\ (\A name : Positions(name)' = Positions(name) /\ FirstLocal(name)' = FirstLocal(name))
                  /\ MemberFound(o)' = MemberFound(o) /\ MemberId(o)' = MemberId(o)
BY DEF Positions, FirstLocal, MemberFound, MemberId, Meant, MembersOf, Container

LEMMA ValueKept ==
    ASSUME source' = source, Kept(strings, strings'), Kept(methodSpecs, methodSpecs')
    PROVE  \A value, o : ValueOf(value, o) => ValueOf(value, o)'
<1> SUFFICES ASSUME NEW value, NEW o, ValueOf(value, o) PROVE ValueOf(value, o)'
  OBVIOUS
<1>1. /\ \A name : Positions(name)' = Positions(name) /\ FirstLocal(name)' = FirstLocal(name)
      /\ MemberFound(o)' = MemberFound(o) /\ MemberId(o)' = MemberId(o)
  BY MembersKept
<1>2. (o.as = "registers" =>
          /\ \A k \in DOMAIN o.of : Positions(o.of[k]) # {}
          /\ value = [k \in DOMAIN o.of |-> FirstLocal(o.of[k]) - 1])'
  BY <1>1 DEF ValueOf
<1>3. (/\ o.as \in {"types", "verbatim"} => value = o.of
       /\ o.as = "string" => value + 1 \in DOMAIN strings /\ strings[value + 1] = o.of)'
  BY DEF ValueOf, Kept
<1>4. (o.as = "field" => MemberFound(o) /\ value = MemberId(o))'
  BY <1>1 DEF ValueOf
<1>5. (o.as = "range" =>
          /\ \A k \in DOMAIN o.of : Resolve(o.of[k], o.begin) <= MaxU64
          /\ value = [k \in DOMAIN o.of |-> Resolve(o.of[k], o.begin)])'
  BY DEF ValueOf
<1>6. (o.as = "method" =>
          /\ MemberFound(o)
          /\ IF o.of.generics = <<>>
             THEN value = [ty |-> "Method", index |-> MemberId(o)]
             ELSE /\ value.ty = "MethodSpec" /\ value.index + 1 \in DOMAIN methodSpecs
                  /\ methodSpecs[value.index + 1]
                       = [m |-> MemberId(o), generics |-> o.of.generics])'
  BY <1>1 DEF ValueOf, Kept
<1> QED
  BY <1>2, <1>3, <1>4, <1>5, <1>6 DEF ValueOf

LEMMA FilledKept ==
    ASSUME source' = source, Kept(strings, strings'), Kept(methodSpecs, methodSpecs')
    PROVE  \A u, at, n : Filled(u, at, n) => Filled(u, at, n)'
<1>1. \A u : Operands(u)' = Operands(u)
  BY OperandsKept
<1>2. \A value, o : ValueOf(value, o) => ValueOf(value, o)'
  BY ValueKept
<1> QED
  BY <1>1, <1>2 DEF Filled

\* The units that are out stay as they are.
LEMMA OutKept ==
    ASSUME LowInv, source' = source, out' = out, units' = units,
           Kept(strings, strings'), Kept(methodSpecs, methodSpecs')
    PROVE  OutInv'
<1>1. \A u : Operands(u)' = Operands(u)
  BY OperandsKept
<1>2. \A u, at, n : Filled(u, at, n) => Filled(u, at, n)'
  BY FilledKept
<1>3. /\ IsSeq(out) /\ Len(out) <= Len(units)
      /\ \A u \in DOMAIN out :
          /\ out[u].op = units[u].op
          /\ Filled(units[u], out[u].at, Len(Operands(units[u])))
  BY DEF LowInv, OutInv
<1> QED
  BY <1>1, <1>2, <1>3 DEF OutInv

\* Where the current operand is in its unit.
LEMMA AtWork ==
    ASSUME LowInv, AtOperand, NEW n, n = Cardinality(DOMAIN slots)
    PROVE  /\ n \in Nat /\ n < Len(Operands(Unit)) /\ IsFiniteSet(DOMAIN slots)
           /\ Operand = Operands(Unit)[n + 1] /\ Filled(Unit, slots, n)
           /\ Len(out) \in Nat /\ Len(units) \in Nat /\ Len(out) < Len(units)
           /\ Unit = units[Len(out) + 1] /\ Len(out) + 1 \in DOMAIN units
           /\ \E S : Shape(Operands(Unit), S) /\ \A o \in S : OperandGood(Unit, o, S)
<1>1. Len(out) < Len(units) /\ n < Len(Operands(Unit)) /\ Operand = Operands(Unit)[n + 1]
  BY DEF AtOperand, Compiling, Operand
<1>2. IsFiniteSet(DOMAIN slots) /\ Filled(Unit, slots, n)
  BY <1>1 DEF LowInv, SlotsInv, Unit
<1>3. n \in Nat
  BY <1>2, FS_CardinalityType
<1>4. Len(out) \in Nat /\ Len(units) \in Nat /\ DOMAIN units = 1 .. Len(units)
  BY AllGood, SeqFacts DEF LowInv, OutInv
<1>5. Len(out) + 1 \in DOMAIN units
  BY <1>1, <1>4
<1>6. UnitGood(units[Len(out) + 1])
  BY <1>5, AllGood
<1> QED
  BY <1>1, <1>2, <1>3, <1>4, <1>5, <1>6 DEF Unit, UnitGood

\* An operand more.
LEMMA Filling ==
    ASSUME LowInv, AtOperand, NEW v, Fill(v),
           source' = source, units' = units, out' = out, pc' = pc,
           Kept(strings, strings'), Kept(methodSpecs, methodSpecs'),
           NEW o, o = Operand, ValueOf(v, o)'
    PROVE  OutInv' /\ SlotsInv'
<1>1. OutInv'
  BY OutKept
<1>2. PICK n, w, s, ops, t : /\ n = Cardinality(DOMAIN slots) /\ w = Unit /\ s = Operand.slot
                             /\ ops = Operands(w)
                             /\ t = [x \in DOMAIN slots \cup {s} |->
                                        IF x = s THEN v ELSE slots[x]]
  OBVIOUS
<1>3. /\ n \in Nat /\ n < Len(ops) /\ IsFiniteSet(DOMAIN slots)
      /\ o = ops[n + 1] /\ Filled(w, slots, n)
      /\ Len(out) < Len(units) /\ w = units[Len(out) + 1]
  BY <1>2, AtWork
<1>4. PICK S : Shape(ops, S)
  BY <1>2, AtWork
<1>5. Len(ops) \in Nat /\ DOMAIN ops = 1 .. Len(ops)
  BY <1>4, SeqFacts DEF Shape
<1>6. DOMAIN slots = {ops[k].slot : k \in 1 .. n}
  BY <1>2, <1>3 DEF Filled
<1>7. s = ops[n + 1].slot
  BY <1>2, <1>3
<1>8. s \notin DOMAIN slots
  <2>1. ASSUME NEW k \in 1 .. n, ops[k].slot = s PROVE FALSE
    <3>1. k \in DOMAIN ops /\ n + 1 \in DOMAIN ops /\ k # n + 1
      BY <1>3, <1>5
    <3> QED
      BY <1>4, <1>7, <2>1, <3>1 DEF Shape
  <2> QED
    BY <1>6, <2>1
<1>9. /\ DOMAIN t = DOMAIN slots \cup {s} /\ t[s] = v
      /\ \A x \in DOMAIN slots : t[x] = slots[x]
  BY <1>2, <1>8
<1>10. IsFiniteSet(DOMAIN t) /\ Cardinality(DOMAIN t) = n + 1
  BY <1>2, <1>3, <1>8, <1>9, FS_AddElement
<1>11. /\ 1 .. (n + 1) = 1 .. n \cup {n + 1} /\ n + 1 <= Len(ops)
  BY <1>3, <1>5
<1>12. DOMAIN t = {ops[k].slot : k \in 1 .. (n + 1)}
  BY <1>6, <1>7, <1>9, <1>11
<1>13. (\A u : Operands(u)' = Operands(u)) /\ slots' = t
  BY <1>2, OperandsKept DEF Fill
<1>14. \A k \in 1 .. n : ops[k].slot \in DOMAIN slots /\ ValueOf(t[ops[k].slot], ops[k])
  BY <1>2, <1>3, <1>6, <1>9 DEF Filled
<1>15. \A k \in 1 .. n : ValueOf(t[ops[k].slot], ops[k])'
  <2>1. \A value, x : ValueOf(value, x) => ValueOf(value, x)'
    BY ValueKept
  <2> QED
    BY <1>14, <2>1
<1>16. \A k \in 1 .. (n + 1) : ValueOf(t[ops[k].slot], ops[k])'
  BY <1>3, <1>7, <1>9, <1>11, <1>15
<1>17. Filled(w, t, n + 1)'
  BY <1>2, <1>12, <1>13, <1>16 DEF Filled
<1>18. Len(Operands(w)') = Len(ops)
  BY <1>2, <1>13
<1>19. pc # "parse"
  BY DEF AtOperand, Compiling
<1> QED
  BY <1>1, <1>3, <1>10, <1>11, <1>13, <1>17, <1>18, <1>19 DEF SlotsInv

LEMMA InitInv == Init => LowInv
<1> SUFFICES ASSUME Init PROVE LowInv
  OBVIOUS
<1>1. /\ source \in Sources /\ pc = "parse" /\ units = <<>> /\ slots = <<>> /\ out = <<>>
      /\ strings = <<>> /\ methodSpecs = <<>>
  BY DEF Init
<1>2. IsSeq(<<>>)
  BY NoOperands DEF Shape
<1>3. Len(source.units) \in Nat
  BY <1>1, SourcesAssumption DEF IsSequence
<1>4. UnitsInv
  BY <1>1, <1>3 DEF UnitsInv
<1>5. OutInv
  BY <1>1, <1>2 DEF OutInv
<1>6. SlotsInv
  BY <1>1, FS_EmptySet DEF SlotsInv
<1>7. SpecsInv
  BY <1>1, <1>2 DEF SpecsInv
<1> QED
  BY <1>1, <1>4, <1>5, <1>6, <1>7 DEF LowInv

\* A unit more is parsed.
LEMMA Parsed ==
    ASSUME LowInv, Parsing, NEW x, x = AsParsed(NextUnit),
           x.op = "Load" => x.content.kind \notin {"error", "panic"},
           units' = Append(units, x),
           UNCHANGED <<source, pc, slots, out, strings, methodSpecs>>
    PROVE  LowInv'
<1>1. PICK n : n = Len(units)
  OBVIOUS
<1>2. /\ n \in Nat /\ DOMAIN units = 1 .. n /\ n < Len(source.units)
      /\ Len(source.units) \in Nat /\ DOMAIN source.units = 1 .. Len(source.units)
  BY <1>1, AllGood DEF Parsing
<1>3. NextUnit = source.units[n + 1] /\ n + 1 \in DOMAIN source.units
  BY <1>1, <1>2 DEF NextUnit
<1>4. PICK U : U = {AsParsed(source.units[k]) : k \in DOMAIN source.units}
  OBVIOUS
<1>5. units \in Seq(U) /\ x \in U
  BY <1>3, <1>4 DEF LowInv, UnitsInv
<1>6. /\ units' \in Seq(U) /\ Len(units') = n + 1 /\ DOMAIN units' = 1 .. (n + 1)
      /\ \A k \in 1 .. n : units'[k] = units[k]
      /\ units'[n + 1] = x
  BY <1>1, <1>5
<1>7. \A u \in DOMAIN units :
          /\ units[u] = AsParsed(source.units[u])
          /\ units[u].op = "Load" => units[u].content.kind \notin {"error", "panic"}
  BY DEF LowInv, UnitsInv
<1>8. 1 .. (n + 1) = 1 .. n \cup {n + 1} /\ n + 1 <= Len(source.units)
  BY <1>2
<1>9. \A u \in DOMAIN units' :
          /\ units'[u] = AsParsed(source.units[u])
          /\ units'[u].op = "Load" => units'[u].content.kind \notin {"error", "panic"}
  BY <1>2, <1>3, <1>6, <1>7, <1>8
<1>10. UnitsInv'
  <2>1. source' = source /\ Len(units') <= Len(source.units)
    BY <1>6, <1>8
  <2>2. units' \in Seq({AsParsed(source.units[k]) : k \in DOMAIN source.units})
    BY <1>4, <1>6
  <2> QED
    BY <1>9, <2>1, <2>2 DEF UnitsInv
<1>11. /\ pc = "parse" /\ out = <<>> /\ slots = <<>>
  BY DEF LowInv, SlotsInv, Parsing
<1>12. OutInv'
  <2>1. IsSeq(<<>>)
    BY NoOperands DEF Shape
  <2> QED
    BY <1>2, <1>6, <1>11, <2>1 DEF OutInv
<1>13. SlotsInv'
  <2>1. DOMAIN slots = {} /\ Cardinality({}) = 0 /\ IsFiniteSet({})
    BY <1>11, FS_EmptySet
  <2>2. \A u : Filled(u, slots, 0)'
    BY <2>1 DEF Filled
  <2>3. \A u : Operands(u)' = Operands(u)
    BY OperandsKept
  <2>4. Operands(x)' = Operands(x) /\ Len(Operands(x)) \in Nat
    <3>1. UnitGood(x)
      <4>1. WellFormed(source.units[n + 1])
        BY <1>3, SourcesAssumption DEF LowInv
      <4> QED
        BY <1>3, <4>1, UnitsGood
    <3> QED
      BY <2>3, <3>1, SeqFacts DEF UnitGood, Shape
  <2> QED
    BY <1>1, <1>2, <1>6, <1>11, <2>1, <2>2, <2>4 DEF SlotsInv
<1>14. SpecsInv'
  BY DEF LowInv, SpecsInv
<1> QED
  BY <1>10, <1>12, <1>13, <1>14 DEF LowInv

LEMMA ParseKeeps == LowInv /\ (ParseLoad \/ ParseOther) => LowInv'
<1>1. ASSUME LowInv, ParseLoad PROVE LowInv'
  <2>1. PICK x : x = [NextUnit EXCEPT !.content = Content]
    OBVIOUS
  <2>2. /\ Parsing /\ NextUnit.op = "Load" /\ Content.kind \notin {"error", "panic"}
        /\ units' = Append(units, x)
        /\ UNCHANGED <<source, pc, slots, out, strings, methodSpecs>>
    BY <1>1, <2>1 DEF ParseLoad
  <2>3. x = AsParsed(NextUnit)
    BY <2>1, <2>2 DEF AsParsed, Content
  <2>4. WellFormed(NextUnit)
    <3>1. Len(units) + 1 \in DOMAIN source.units
      BY <1>1, <2>2, AllGood DEF Parsing
    <3> QED
      BY <1>1, <3>1, SourcesAssumption DEF NextUnit, LowInv
  <2>5. x.content = Content
    BY <2>2, <2>3, <2>4, ParsedUnit DEF Content
  <2> QED
    BY <1>1, <2>2, <2>3, <2>5, Parsed
<1>2. ASSUME LowInv, ParseOther PROVE LowInv'
  <2>1. PICK x : x = NextUnit
    OBVIOUS
  <2>2. /\ Parsing /\ x.op # "Load"
        /\ units' = Append(units, x)
        /\ UNCHANGED <<source, pc, slots, out, strings, methodSpecs>>
    BY <1>2, <2>1 DEF ParseOther
  <2>3. x = AsParsed(NextUnit)
    BY <2>1, <2>2 DEF AsParsed
  <2> QED
    BY <1>2, <2>2, <2>3, Parsed
<1> QED
  BY <1>1, <1>2

\* Steps of the program counter alone.
LEMMA PcKeeps ==
    ASSUME LowInv, UNCHANGED <<source, units, slots, out, strings, methodSpecs>>,
           pc' \in {pc, "compile"} \cup Ended
    PROVE  LowInv'
<1>1. Kept(strings, strings') /\ Kept(methodSpecs, methodSpecs')
  BY DEF Kept
<1>2. OutInv'
  BY <1>1, OutKept
<1>3. /\ \A u, at, n : Filled(u, at, n) => Filled(u, at, n)'
      /\ \A u : Operands(u)' = Operands(u)
  BY <1>1, FilledKept, OperandsKept
<1>4. UnitsInv'
  BY DEF LowInv, UnitsInv, AsParsed
<1>5. pc' = "parse" => pc = "parse"
  BY DEF Ended
<1>6. SlotsInv'
  BY <1>3, <1>5 DEF LowInv, SlotsInv
<1>7. SpecsInv' /\ source' \in Sources
  BY DEF LowInv, SpecsInv
<1>8. pc' \in {"parse", "compile"} \cup Ended
  BY DEF LowInv
<1> QED
  BY <1>2, <1>4, <1>6, <1>7, <1>8 DEF LowInv

\* `find_map` over the members of a type that resolves.
LEMMA MemberIs ==
    ASSUME NEW o, MemberFound(o), o.of.index = None, o.as \in {"field", "method"}
    PROVE  \E all, k :
              /\ Container(o.in) \in DOMAIN Fields
              /\ all = IF o.as = "field" THEN Fields[Container(o.in)]
                                         ELSE Methods[Container(o.in)]
              /\ k \in DOMAIN all /\ IsMeant(all[k], o) /\ MemberId(o) = all[k].id
<1>1. PICK t : t = Container(o.in)
  OBVIOUS
<1>2. Meant(o) # {}
  BY DEF MemberFound
<1>3. t \in DOMAIN Fields
  <2>1. CASE t \notin DOMAIN Fields
    <3>1. MembersOf(o) = <<>>
      BY <1>1, <2>1 DEF MembersOf
    <3>2. DOMAIN <<>> = {}
      OBVIOUS
    <3> QED
      BY <1>2, <3>1, <3>2 DEF Meant
  <2> QED
    BY <2>1
<1>4. PICK all : all = MembersOf(o)
  OBVIOUS
<1>5. all = IF o.as = "field" THEN Fields[t] ELSE Methods[t]
  BY <1>1, <1>3, <1>4 DEF MembersOf
<1>6. IsSequence(all)
  BY <1>3, <1>5, TypesAssumption
<1>7. Meant(o) \subseteq DOMAIN all /\ \A k \in Meant(o) : IsMeant(all[k], o)
  BY <1>4 DEF Meant
<1>8. Meant(o) \in SUBSET Nat
  BY <1>6, <1>7 DEF IsSequence
<1>9. PICK k : k = First(Meant(o))
  OBVIOUS
<1>10. k \in Meant(o)
  BY <1>2, <1>8, <1>9, FirstIs
<1>11. MemberId(o) = all[k].id
  BY <1>4, <1>9 DEF MemberId
<1> QED
  BY <1>1, <1>3, <1>5, <1>7, <1>10, <1>11

LEMMA MethodId ==
    ASSUME NEW o, MemberFound(o), o.as = "method", o.of.index \in ReferenceIndex
    PROVE  MemberId(o) \in 0 .. MaxU64
<1>1. CASE o.of.index # None
  BY <1>1 DEF MemberId, ReferenceIndex
<1>2. CASE o.of.index = None
  <2>1. PICK all, k : /\ Container(o.in) \in DOMAIN Fields
                      /\ all = Methods[Container(o.in)]
                      /\ k \in DOMAIN all /\ MemberId(o) = all[k].id
    BY <1>2, MemberIs
  <2> QED
    BY <2>1, TypesAssumption
<1> QED
  BY <1>1, <1>2

LEMMA OperandIs ==
    ASSUME LowInv, AtOperand
    PROVE  /\ Operand.as = "range" => Operand.begin \in Nat /\ Operand.of \in Locations \X Locations
           /\ Operand.as = "method" => Operand.of.index \in ReferenceIndex
<1>1. PICK n, S : /\ n \in Nat /\ n < Len(Operands(Unit)) /\ Operand = Operands(Unit)[n + 1]
                  /\ Shape(Operands(Unit), S) /\ \A o \in S : OperandGood(Unit, o, S)
  BY AtWork
<1>2. n + 1 \in DOMAIN Operands(Unit)
  BY <1>1, SeqFacts DEF Shape
<1>3. Operand \in S
  BY <1>1, <1>2 DEF Shape
<1> QED
  BY <1>1, <1>3 DEF OperandGood

LEMMA CompileOperandKeeps == LowInv /\ CompileOperand => LowInv'
<1> SUFFICES ASSUME LowInv, CompileOperand PROVE LowInv'
  OBVIOUS
<1>1. PICK o : o = Operand
  OBVIOUS
<1>2. PICK v : v = CASE o.as = "registers" -> [k \in DOMAIN o.of |-> FirstLocal(o.of[k]) - 1]
                     [] o.as = "field"     -> MemberId(o)
                     [] o.as = "range"     -> [k \in DOMAIN o.of |-> Resolve(o.of[k], o.begin)]
                     [] o.as \in {"types", "verbatim"} -> o.of
  OBVIOUS
<1>3. /\ AtOperand /\ o.as \notin {"string", "method"} /\ Compiles(o) /\ ~Aborts(o)
      /\ UNCHANGED <<source, pc, units, out, strings, methodSpecs>>
  BY <1>1 DEF CompileOperand
<1>4. Fill(v)
  BY <1>1, <1>2 DEF CompileOperand
<1>5. Kept(strings, strings') /\ Kept(methodSpecs, methodSpecs')
  BY <1>3 DEF Kept
<1>6. ValueOf(v, o)
  <2>1. CASE o.as = "registers"
    BY <1>2, <1>3, <2>1 DEF ValueOf, Compiles
  <2>2. CASE o.as = "field"
    BY <1>2, <1>3, <2>2 DEF ValueOf, Compiles
  <2>3. CASE o.as = "range"
    <3>1. o.begin \in Nat /\ o.of \in Locations \X Locations
      BY <1>1, <1>3, <2>3, OperandIs
    <3>2. \A k \in DOMAIN o.of : ~(Resolve(o.of[k], o.begin) > MaxU64)
      BY <1>3, <2>3 DEF Aborts
    <3>3. DOMAIN o.of = {1, 2} /\ o.of[1] \in Locations /\ o.of[2] \in Locations
      BY <3>1
    <3>4. \A k \in DOMAIN o.of : Resolve(o.of[k], o.begin) \in Nat
      BY <3>1, <3>3 DEF Resolve, Locations
    <3>5. \A k \in DOMAIN o.of : Resolve(o.of[k], o.begin) <= MaxU64
      BY <3>2, <3>4, TypesAssumption
    <3> QED
      BY <1>2, <2>3, <3>5 DEF ValueOf
  <2>4. CASE o.as \in {"types", "verbatim"}
    <3>1. v = o.of
      BY <1>2, <2>4
    <3> QED
      BY <2>4, <3>1 DEF ValueOf
  <2>5. CASE o.as \notin {"registers", "field", "range", "types", "verbatim"}
    BY <1>3, <2>5 DEF ValueOf
  <2> QED
    BY <2>1, <2>2, <2>3, <2>4, <2>5
<1>7. ValueOf(v, o)'
  BY <1>3, <1>5, <1>6, ValueKept
<1>8. OutInv' /\ SlotsInv'
  BY <1>1, <1>3, <1>4, <1>5, <1>7, Filling
<1>9. UnitsInv' /\ SpecsInv' /\ source' \in Sources /\ pc' \in {"parse", "compile"} \cup Ended
  BY <1>3 DEF LowInv, UnitsInv, SpecsInv, AsParsed
<1> QED
  BY <1>8, <1>9 DEF LowInv

LEMMA CompileStringKeeps == LowInv /\ CompileString => LowInv'
<1> SUFFICES ASSUME LowInv, CompileString PROVE LowInv'
  OBVIOUS
<1>1. PICK o : o = Operand
  OBVIOUS
<1>2. /\ AtOperand /\ o.as = "string"
      /\ UNCHANGED <<source, pc, units, out, methodSpecs>>
  BY <1>1 DEF CompileString
<1>3. PICK i \in 0 .. Len(strings) :
          /\ \/ i + 1 \in DOMAIN strings /\ strings[i + 1] = o.of /\ UNCHANGED strings
             \/ i = Len(strings) /\ strings' = Append(strings, o.of)
          /\ Fill(i)
  BY <1>1 DEF CompileString
<1>4. IsSeq(strings)
  BY DEF LowInv, SpecsInv
<1>5. Kept(strings, strings') /\ IsSeq(strings') /\ i + 1 \in DOMAIN strings' /\ strings'[i + 1] = o.of
  <2>1. CASE i + 1 \in DOMAIN strings /\ strings[i + 1] = o.of /\ UNCHANGED strings
    BY <1>4, <2>1 DEF Kept
  <2>2. CASE i = Len(strings) /\ strings' = Append(strings, o.of)
    <3>1. PICK e : e = o.of
      OBVIOUS
    <3>2. /\ IsSeq(strings') /\ Len(strings) \in Nat /\ DOMAIN strings = 1 .. Len(strings)
          /\ DOMAIN strings' = 1 .. (Len(strings) + 1)
          /\ \A k \in 1 .. Len(strings) : strings'[k] = strings[k]
          /\ strings'[Len(strings) + 1] = e
      BY <1>4, <2>2, <3>1, Appended
    <3> QED
      BY <2>2, <3>1, <3>2 DEF Kept
  <2> QED
    BY <1>3, <2>1, <2>2
<1>6. Kept(methodSpecs, methodSpecs')
  BY <1>2 DEF Kept
<1>7. ValueOf(i, o)'
  BY <1>2, <1>5 DEF ValueOf
<1>8. OutInv' /\ SlotsInv'
  BY <1>1, <1>2, <1>3, <1>5, <1>6, <1>7, Filling
<1>9. UnitsInv' /\ SpecsInv' /\ source' \in Sources /\ pc' \in {"parse", "compile"} \cup Ended
  BY <1>2, <1>5 DEF LowInv, UnitsInv, SpecsInv, AsParsed
<1> QED
  BY <1>8, <1>9 DEF LowInv

LEMMA CompileMethodKeeps == LowInv /\ CompileMethod => LowInv'
<1> SUFFICES ASSUME LowInv, CompileMethod PROVE LowInv'
  OBVIOUS
<1>1. PICK o : o = Operand
  OBVIOUS
<1>2. /\ AtOperand /\ o.as = "method" /\ Compiles(o)
      /\ UNCHANGED <<source, pc, units, out, strings>>
  BY <1>1 DEF CompileMethod
<1>3. MemberFound(o) /\ MemberFound(o)' /\ MemberId(o)' = MemberId(o)
  BY <1>2, MembersKept DEF Compiles
<1>4. MemberId(o) \in 0 .. MaxU64
  BY <1>1, <1>2, <1>3, OperandIs, MethodId
<1>5. /\ IsSeq(strings) /\ IsSeq(methodSpecs)
      /\ \A s \in DOMAIN methodSpecs : methodSpecs[s].m \in 0 .. MaxU64
  BY DEF LowInv, SpecsInv
<1>6. Kept(strings, strings')
  BY <1>2 DEF Kept
<1>7. PICK v : /\ Fill(v) /\ ValueOf(v, o)' /\ Kept(methodSpecs, methodSpecs')
               /\ IsSeq(methodSpecs')
               /\ \A s \in DOMAIN methodSpecs' : methodSpecs'[s].m \in 0 .. MaxU64
  <2>1. CASE o.of.generics = <<>>
    <3>1. PICK v : v = [ty |-> "Method", index |-> MemberId(o)]
      OBVIOUS
    <3>2. Fill(v) /\ UNCHANGED methodSpecs
      BY <1>1, <2>1, <3>1 DEF CompileMethod
    <3>3. ValueOf(v, o)'
      BY <1>2, <1>3, <2>1, <3>1 DEF ValueOf
    <3>4. Kept(methodSpecs, methodSpecs')
      BY <3>2 DEF Kept
    <3> QED
      BY <1>5, <3>2, <3>3, <3>4
  <2>2. CASE o.of.generics # <<>>
    <3>1. PICK v, e, n : /\ v = [ty |-> "MethodSpec", index |-> PushedIndex(methodSpecs)]
                         /\ e = [m |-> MemberId(o), generics |-> o.of.generics]
                         /\ n = Len(methodSpecs)
      OBVIOUS
    <3>2. Fill(v) /\ methodSpecs' = Append(methodSpecs, e)
      BY <1>1, <2>2, <3>1 DEF CompileMethod
    <3>3. v.ty = "MethodSpec" /\ v.index = n /\ e.m = MemberId(o)
      BY <3>1 DEF PushedIndex
    <3>4. /\ IsSeq(methodSpecs') /\ n \in Nat /\ DOMAIN methodSpecs = 1 .. n
          /\ DOMAIN methodSpecs' = 1 .. (n + 1)
          /\ \A k \in 1 .. n : methodSpecs'[k] = methodSpecs[k]
          /\ methodSpecs'[n + 1] = e
      BY <1>5, <3>1, <3>2, Appended
    <3>5. Kept(methodSpecs, methodSpecs')
      BY <3>4 DEF Kept
    <3>6. n + 1 \in DOMAIN methodSpecs' /\ 1 .. (n + 1) = 1 .. n \cup {n + 1}
      BY <3>4
    <3>7. \A s \in DOMAIN methodSpecs' : methodSpecs'[s].m \in 0 .. MaxU64
      BY <1>4, <1>5, <3>3, <3>4, <3>6
    <3>8. ValueOf(v, o)'
      BY <1>2, <1>3, <2>2, <3>1, <3>3, <3>4, <3>6 DEF ValueOf
    <3> QED
      BY <3>2, <3>4, <3>5, <3>7, <3>8
  <2> QED
    BY <2>1, <2>2
<1>8. OutInv' /\ SlotsInv'
  BY <1>1, <1>2, <1>6, <1>7, Filling
<1>9. SpecsInv'
  BY <1>2, <1>5, <1>7 DEF SpecsInv
<1>10. UnitsInv' /\ source' \in Sources /\ pc' \in {"parse", "compile"} \cup Ended
  BY <1>2 DEF LowInv, UnitsInv, AsParsed
<1> QED
  BY <1>8, <1>9, <1>10 DEF LowInv

LEMMA EmitKeeps == LowInv /\ Emit => LowInv'
<1> SUFFICES ASSUME LowInv, Emit PROVE LowInv'
  OBVIOUS
<1>1. PICK m, w, e, n : /\ m = Len(out) /\ w = Unit /\ e = [op |-> Unit.op, at |-> slots]
                        /\ n = Cardinality(DOMAIN slots)
  OBVIOUS
<1>2. /\ Compiling /\ ~AtOperand /\ out' = Append(out, e) /\ slots' = <<>>
      /\ UNCHANGED <<source, pc, units, strings, methodSpecs>>
  BY <1>1 DEF Emit
<1>3. Kept(strings, strings') /\ Kept(methodSpecs, methodSpecs')
  BY <1>2 DEF Kept
<1>4. /\ \A u, at, k : Filled(u, at, k) => Filled(u, at, k)'
      /\ \A u : Operands(u)' = Operands(u)
  BY <1>2, <1>3, FilledKept, OperandsKept
<1>5. IsSeq(out) /\ m < Len(units) /\ pc = "compile"
  BY <1>1, <1>2 DEF LowInv, OutInv, Compiling
<1>6. /\ IsSeq(out') /\ m \in Nat /\ DOMAIN out = 1 .. m /\ Len(out') = m + 1
      /\ DOMAIN out' = 1 .. (m + 1) /\ \A k \in 1 .. m : out'[k] = out[k]
      /\ out'[m + 1] = e
  BY <1>1, <1>2, <1>5, Appended
<1>7. /\ Len(units) \in Nat /\ DOMAIN units = 1 .. Len(units) /\ w = units[m + 1]
      /\ m + 1 <= Len(units) /\ 1 .. (m + 1) = 1 .. m \cup {m + 1}
  BY <1>1, <1>5, <1>6, AllGood DEF Unit
<1>8. \A u \in DOMAIN units : IsSeq(Operands(units[u])) /\ Len(Operands(units[u])) \in Nat
  BY AllGood, SeqFacts DEF UnitGood, Shape
<1>9. n = Len(Operands(w)) /\ Filled(w, slots, n)
  <2>1. /\ n <= Len(Operands(w)) /\ Filled(w, slots, n) /\ IsFiniteSet(DOMAIN slots)
    BY <1>1, <1>5, <1>7 DEF LowInv, SlotsInv
  <2>2. ~(n < Len(Operands(w)))
    BY <1>1, <1>2 DEF AtOperand
  <2>3. n \in Nat /\ Len(Operands(w)) \in Nat
    <3>1. m + 1 \in DOMAIN units
      BY <1>6, <1>7
    <3> QED
      BY <1>1, <1>7, <1>8, <2>1, <3>1, FS_CardinalityType
  <2> QED
    BY <2>1, <2>2, <2>3
<1>10. OutInv'
  <2>1. \A u \in DOMAIN out :
          /\ out[u].op = units[u].op
          /\ Filled(units[u], out[u].at, Len(Operands(units[u])))
    BY DEF LowInv, OutInv
  <2>2. e.op = w.op /\ e.at = slots
    BY <1>1
  <2>3. \A u \in DOMAIN out' :
          /\ out'[u].op = units[u].op
          /\ Filled(units[u], out'[u].at, Len(Operands(units[u])))
    BY <1>6, <1>7, <1>9, <2>1, <2>2
  <2> QED
    BY <1>2, <1>4, <1>6, <1>7, <2>3 DEF OutInv
<1>11. SlotsInv'
  <2>1. DOMAIN slots' = {} /\ Cardinality(DOMAIN slots') = 0 /\ IsFiniteSet(DOMAIN slots')
    BY <1>2, FS_EmptySet
  <2>2. \A u : Filled(u, slots, 0)'
    BY <2>1 DEF Filled
  <2>3. CASE m + 1 < Len(units)
    <3>1. PICK x : x = units[m + 2]
      OBVIOUS
    <3>2. m + 2 \in DOMAIN units /\ m + 2 = m + 1 + 1
      BY <1>6, <1>7, <2>3
    <3>3. Operands(x)' = Operands(x) /\ Len(Operands(x)) \in Nat
      BY <1>4, <1>8, <3>1, <3>2
    <3> QED
      BY <1>2, <1>5, <1>6, <2>1, <2>2, <2>3, <3>1, <3>2, <3>3 DEF SlotsInv
  <2>4. CASE ~(m + 1 < Len(units))
    BY <1>2, <1>5, <1>6, <2>1, <2>4 DEF SlotsInv
  <2> QED
    BY <2>3, <2>4
<1>12. UnitsInv' /\ SpecsInv' /\ source' \in Sources /\ pc' \in {"parse", "compile"} \cup Ended
  BY <1>2 DEF LowInv, UnitsInv, SpecsInv, AsParsed
<1> QED
  BY <1>10, <1>11, <1>12 DEF LowInv

LEMMA NextKeeps == LowInv /\ [Next]_vars => LowInv'
<1> SUFFICES ASSUME LowInv, [Next]_vars PROVE LowInv'
  OBVIOUS
<1>1. CASE ParseLoad \/ ParseOther
  BY <1>1, ParseKeeps
<1>2. CASE CompileOperand
  BY <1>2, CompileOperandKeeps
<1>3. CASE CompileString
  BY <1>3, CompileStringKeeps
<1>4. CASE CompileMethod
  BY <1>4, CompileMethodKeeps
<1>5. CASE Emit
  BY <1>5, EmitKeeps
<1>6. CASE \/ ParseRejects \/ ParsePanics \/ EndParse \/ OperandFails
           \/ OperandPanics \/ Finish \/ Stopped \/ UNCHANGED vars
  <2>1. /\ UNCHANGED <<source, units, slots, out, strings, methodSpecs>>
        /\ pc' \in {pc, "compile"} \cup Ended
    BY <1>6 DEF ParseRejects, ParsePanics, EndParse, OperandFails, OperandPanics,
                Finish, Stopped, vars, Ended
  <2> QED
    BY <2>1, PcKeeps
<1> QED
  BY <1>1, <1>2, <1>3, <1>4, <1>5, <1>6 DEF Next

LEMMA Invariant == Spec => []LowInv
BY InitInv, NextKeeps, PTL DEF Spec

----------------------------------------------------------------------------
(* The properties                                                          *)

\* A unit that is out: all its operands are compiled.
LEMMA Compiled ==
    ASSUME LowInv, NEW u \in DOMAIN out
    PROVE  /\ u \in DOMAIN units /\ out[u].op = units[u].op
           /\ units[u] = AsParsed(source.units[u]) /\ WellFormed(source.units[u])
           /\ \E S : /\ Shape(Operands(units[u]), S) /\ S = OperandsOf(u)
                     /\ HasOperands(units[u], S)
                     /\ \A o \in S : OperandGood(units[u], o, S)
           /\ DOMAIN out[u].at = {o.slot : o \in OperandsOf(u)}
           /\ \A o \in OperandsOf(u) : ValueOf(out[u].at[o.slot], o)
<1>1. /\ Len(units) \in Nat /\ DOMAIN units = 1 .. Len(units)
      /\ Len(out) <= Len(units) /\ Len(out) \in Nat /\ DOMAIN out = 1 .. Len(out)
  BY AllGood, SeqFacts DEF LowInv, OutInv
<1>2. u \in DOMAIN units
  BY <1>1
<1>3. WellFormed(source.units[u]) /\ UnitGood(units[u]) /\ units[u] = AsParsed(source.units[u])
  BY <1>2, AllGood
<1>4. out[u].op = units[u].op /\ Filled(units[u], out[u].at, Len(Operands(units[u])))
  BY DEF LowInv, OutInv
<1>5. PICK ops : ops = Operands(units[u])
  OBVIOUS
<1>6. PICK S : /\ Shape(ops, S) /\ HasOperands(units[u], S)
               /\ \A o \in S : OperandGood(units[u], o, S)
  BY <1>3, <1>5 DEF UnitGood
<1>7. S = {ops[k] : k \in DOMAIN ops} /\ DOMAIN ops = 1 .. Len(ops)
  BY <1>6, SeqFacts DEF Shape
<1>8. S = OperandsOf(u)
  BY <1>5, <1>7 DEF OperandsOf
<1>9. /\ DOMAIN out[u].at = {o.slot : o \in S}
      /\ \A o \in S : ValueOf(out[u].at[o.slot], o)
  BY <1>4, <1>5, <1>7 DEF Filled
<1> QED
  BY <1>2, <1>3, <1>4, <1>5, <1>6, <1>8, <1>9

\* `locals.iter().position(..)`
LEMMA FirstStands ==
    ASSUME LowInv, NEW name, Positions(name) # {}
    PROVE  /\ FirstLocal(name) \in DOMAIN source.locals
           /\ source.locals[FirstLocal(name)] = name
           /\ StandsFor(FirstLocal(name) - 1, name)
<1>1. IsSequence(source.locals)
  BY SourcesAssumption DEF LowInv
<1>2. PICK i, n : i = FirstLocal(name) /\ n = Len(source.locals)
  OBVIOUS
<1>3. n \in Nat /\ DOMAIN source.locals = 1 .. n
  BY <1>1, <1>2 DEF IsSequence
<1>4. Positions(name) \in SUBSET Nat
  BY <1>3 DEF Positions
<1>5. i \in Positions(name) /\ \A j \in Positions(name) : i <= j
  BY <1>2, <1>4, FirstIs DEF FirstLocal
<1>6. i \in 1 .. n /\ source.locals[i] = name
  BY <1>3, <1>5 DEF Positions
<1>7. \A j \in 1 .. (i - 1) : j \in 1 .. n /\ ~(i <= j)
  BY <1>3, <1>6
<1>8. \A j \in 1 .. (i - 1) : source.locals[j] # name
  BY <1>3, <1>5, <1>7 DEF Positions
<1>9. i - 1 + 1 = i
  BY <1>6
<1>10. StandsFor(i - 1, name)
  BY <1>3, <1>6, <1>8, <1>9 DEF StandsFor
<1> QED
  BY <1>2, <1>3, <1>6, <1>10

\* The index of every compiled operand leads to what the source wrote, then
\* and ever after (compile_method, Assembly::add_string, method_specs).
THEOREM OperandsCompiled == Spec => []OperandsDenote
<1>1. ASSUME LowInv PROVE OperandsDenote
  <2>1. ASSUME NEW u \in DOMAIN out, NEW o \in OperandsOf(u)
        PROVE  Denotes(out[u].at[o.slot], o)
    <3>1. PICK value : value = out[u].at[o.slot]
      OBVIOUS
    <3>2. ValueOf(value, o)
      BY <1>1, <2>1, <3>1, Compiled
    <3>3. CASE o.as = "registers"
      <4>1. /\ \A k \in DOMAIN o.of : Positions(o.of[k]) # {}
            /\ value = [k \in DOMAIN o.of |-> FirstLocal(o.of[k]) - 1]
        BY <3>2, <3>3 DEF ValueOf
      <4>2. \A k \in DOMAIN o.of : StandsFor(value[k], o.of[k])
        BY <1>1, <4>1, FirstStands
      <4> QED
        BY <3>1, <3>3, <4>1, <4>2 DEF Denotes
    <3>4. CASE o.as = "string"
      BY <3>1, <3>2, <3>4 DEF ValueOf, Denotes
    <3>5. CASE o.as = "method" /\ o.of.generics # <<>>
      <4>1. /\ value.ty = "MethodSpec" /\ value.index + 1 \in DOMAIN methodSpecs
            /\ methodSpecs[value.index + 1]
                       = [m |-> MemberId(o), generics |-> o.of.generics]
        BY <3>2, <3>5 DEF ValueOf
      <4>2. methodSpecs[value.index + 1].generics = o.of.generics
        BY <4>1
      <4> QED
        BY <3>1, <3>5, <4>1, <4>2 DEF Denotes
    <3>6. CASE /\ o.as \notin {"registers", "string"}
               /\ ~(o.as = "method" /\ o.of.generics # <<>>)
      BY <3>6 DEF Denotes
    <3> QED
      BY <3>3, <3>4, <3>5, <3>6
  <2>2. \A u \in DOMAIN out : DOMAIN out[u].at = {o.slot : o \in OperandsOf(u)}
    BY <1>1, Compiled
  <2> QED
    BY <2>1, <2>2 DEF OperandsDenote
<1> QED
  BY <1>1, Invariant, PTL

\* A range is compiled to two positions.
LEMMA RangeValue ==
    ASSUME LowInv, NEW u \in DOMAIN out, NEW o \in OperandsOf(u), o.as = "range"
    PROVE  /\ o.begin \in Nat /\ o.of \in Locations \X Locations
           /\ out[u].at[o.slot] = <<Resolve(o.of[1], o.begin), Resolve(o.of[2], o.begin)>>
           /\ \A k \in {1, 2} : /\ Resolve(o.of[k], o.begin) \in 0 .. MaxU64
                                /\ out[u].at[o.slot][k] = Resolve(o.of[k], o.begin)
<1>1. PICK v : v = out[u].at[o.slot]
  OBVIOUS
<1>2. ValueOf(v, o)
  BY <1>1, Compiled
<1>3. /\ \A k \in DOMAIN o.of : Resolve(o.of[k], o.begin) <= MaxU64
      /\ v = [k \in DOMAIN o.of |-> Resolve(o.of[k], o.begin)]
  BY <1>2 DEF ValueOf
<1>4. o.begin \in Nat /\ o.of \in Locations \X Locations
  BY Compiled DEF OperandGood
<1>5. DOMAIN o.of = {1, 2} /\ o.of[1] \in Locations /\ o.of[2] \in Locations
  BY <1>4
<1>6. \A k \in {1, 2} : Resolve(o.of[k], o.begin) \in Nat
  BY <1>4, <1>5 DEF Resolve, Locations
<1>7. PICK a, b : a = Resolve(o.of[1], o.begin) /\ b = Resolve(o.of[2], o.begin)
  OBVIOUS
<1>8. v = [k \in {1, 2} |-> IF k = 1 THEN a ELSE b]
  BY <1>3, <1>5, <1>7
<1>9. v = <<a, b>>
  BY <1>8
<1>10. \A k \in {1, 2} : Resolve(o.of[k], o.begin) \in 0 .. MaxU64
  BY <1>3, <1>5, <1>6, TypesAssumption
<1> QED
  BY <1>1, <1>3, <1>4, <1>5, <1>7, <1>9, <1>10

\* What is compiled is what was parsed, no location is beyond the largest one
\* (compile_method, ExceptionLoc::resolve).
THEOREM TypeCorrect == Spec => []TypeOK
<1>1. ASSUME LowInv PROVE TypeOK
  <2>1. /\ DOMAIN source = {"units", "locals", "types"}
        /\ pc \in {"parse", "compile"} \cup Ended
        /\ Len(units) <= Len(source.units) /\ Len(out) <= Len(units)
        /\ \A s \in DOMAIN methodSpecs : methodSpecs[s].m \in 0 .. MaxU64
    BY <1>1, AllGood DEF LowInv, OutInv, SpecsInv
  <2>2. DOMAIN slots \in SUBSET {Operands(units[Len(out) + 1])[k].slot :
                                  k \in IF Len(out) = Len(units) THEN {}
                                        ELSE DOMAIN Operands(units[Len(out) + 1])}
    <3>1. Len(out) \in Nat /\ Len(units) \in Nat /\ DOMAIN units = 1 .. Len(units)
      BY <1>1, AllGood, SeqFacts DEF LowInv, OutInv
    <3>2. CASE Len(out) = Len(units)
      BY <1>1, <3>1, <3>2 DEF LowInv, SlotsInv
    <3>3. CASE Len(out) # Len(units)
      <4>1. Len(out) < Len(units) /\ Len(out) + 1 \in DOMAIN units
        BY <2>1, <3>1, <3>3
      <4>2. PICK ops, n : ops = Operands(units[Len(out) + 1]) /\ n = Cardinality(DOMAIN slots)
        OBVIOUS
      <4>3. /\ n <= Len(ops) /\ DOMAIN slots = {ops[k].slot : k \in 1 .. n} /\ n \in Nat
        BY <1>1, <4>1, <4>2, FS_CardinalityType DEF LowInv, SlotsInv, Filled
      <4>4. Len(ops) \in Nat /\ DOMAIN ops = 1 .. Len(ops)
        BY <1>1, <4>1, <4>2, AllGood, SeqFacts DEF UnitGood, Shape
      <4>5. \A k \in 1 .. n : k \in DOMAIN ops
        BY <4>3, <4>4
      <4> QED
        BY <3>3, <4>2, <4>3, <4>5
    <3> QED
      BY <3>2, <3>3
  <2>3. ASSUME NEW u \in DOMAIN out
        PROVE  /\ out[u].op = units[u].op
               /\ \A slot \in DOMAIN out[u].at \cap RangeSlots :
                     \A k \in {1, 2} : out[u].at[slot][k] \in 0 .. MaxU64
    <3>1. out[u].op = units[u].op
      BY <1>1, Compiled
    <3>2. ASSUME NEW slot \in DOMAIN out[u].at, slot \in RangeSlots, NEW k \in {1, 2}
          PROVE  out[u].at[slot][k] \in 0 .. MaxU64
      <4>1. PICK o \in OperandsOf(u) : o.slot = slot
        BY <1>1, Compiled
      <4>2. o.as = "range"
        BY <1>1, <3>2, <4>1, Compiled DEF OperandGood
      <4> QED
        BY <1>1, <4>1, <4>2, RangeValue
    <3> QED
      BY <3>1, <3>2
  <2> QED
    BY <2>1, <2>2, <2>3 DEF TypeOK
<1> QED
  BY <1>1, Invariant, PTL

\* A location of an entry, from where the entry's protected region starts
\* (ExceptionLoc::resolve, compile_exception_table).
THEOREM RangesFromBegin == Spec => []RangesRelative
<1>1. ASSUME LowInv, NEW u \in DOMAIN out, units[u].op = "entry"
      PROVE  LET at == out[u].at
                 e  == units[u]
                 Place(l) == l.loc + (IF l.rel THEN at["range"][1] ELSE 0)
             IN /\ at["range"] = <<e.begin, Place(e.end)>>
                /\ at["catch"] = <<Place(e.catch[1]), Place(e.catch[2])>>
                /\ e.finally # None => at["finally"] = <<Place(e.finally[1]), Place(e.finally[2])>>
                /\ e.fault # None => at["fault"] = <<Place(e.fault[1]), Place(e.fault[2])>>
  <2>1. PICK e, at, b : e = units[u] /\ at = out[u].at /\ b = e.begin
    OBVIOUS
  <2>2. HasRanges(e, OperandsOf(u))
    BY <1>1, <2>1, Compiled DEF HasOperands
  <2>3. PICK r, c, y, z :
           /\ r = RangeOf("range", e.begin, <<[rel |-> FALSE, loc |-> e.begin], e.end>>)
           /\ c = RangeOf("catch", e.begin, e.catch)
           /\ y = RangeOf("finally", e.begin, e.finally)
           /\ z = RangeOf("fault", e.begin, e.fault)
    OBVIOUS
  <2>4. /\ r \in OperandsOf(u) /\ c \in OperandsOf(u)
        /\ e.finally # None => y \in OperandsOf(u)
        /\ e.fault # None => z \in OperandsOf(u)
    BY <2>2, <2>3 DEF HasRanges
  <2>5. /\ r.slot = "range" /\ r.as = "range" /\ r.begin = b
        /\ r.of[1] = [rel |-> FALSE, loc |-> b] /\ r.of[2] = e.end
        /\ c.slot = "catch" /\ c.as = "range" /\ c.begin = b /\ c.of = e.catch
        /\ y.slot = "finally" /\ y.as = "range" /\ y.begin = b /\ y.of = e.finally
        /\ z.slot = "fault" /\ z.as = "range" /\ z.begin = b /\ z.of = e.fault
    BY <2>1, <2>3 DEF RangeOf
  <2>6. /\ at["range"] = <<Resolve(r.of[1], b), Resolve(r.of[2], b)>>
        /\ b \in Nat /\ r.of[2] \in Locations
    BY <1>1, <2>1, <2>4, <2>5, RangeValue
  <2>7. Resolve(r.of[1], b) = b
    BY <2>5 DEF Resolve
  <2>8. at["range"][1] = b
    BY <2>6, <2>7
  <2>9. \A l \in Locations : Resolve(l, b) = l.loc + (IF l.rel THEN at["range"][1] ELSE 0)
    BY <2>6, <2>8 DEF Resolve, Locations
  <2>10. /\ at["catch"] = <<Resolve(e.catch[1], b), Resolve(e.catch[2], b)>>
         /\ e.catch[1] \in Locations /\ e.catch[2] \in Locations
    BY <1>1, <2>1, <2>4, <2>5, RangeValue
  <2>11. e.finally # None =>
            /\ at["finally"] = <<Resolve(e.finally[1], b), Resolve(e.finally[2], b)>>
            /\ e.finally[1] \in Locations /\ e.finally[2] \in Locations
    BY <1>1, <2>1, <2>4, <2>5, RangeValue
  <2>12. e.fault # None =>
            /\ at["fault"] = <<Resolve(e.fault[1], b), Resolve(e.fault[2], b)>>
            /\ e.fault[1] \in Locations /\ e.fault[2] \in Locations
    BY <1>1, <2>1, <2>4, <2>5, RangeValue
  <2>13. at["range"] = <<b, Resolve(e.end, b)>> /\ e.end \in Locations
    BY <2>5, <2>6, <2>7
  <2>14. PICK P : P = [l \in Locations |-> l.loc + (IF l.rel THEN at["range"][1] ELSE 0)]
    OBVIOUS
  <2>15. \A l \in Locations : Resolve(l, b) = P[l]
    BY <2>9, <2>14, Zenon
  <2>16. /\ at["range"] = <<b, P[e.end]>>
         /\ at["catch"] = <<P[e.catch[1]], P[e.catch[2]]>>
         /\ e.finally # None => at["finally"] = <<P[e.finally[1]], P[e.finally[2]]>>
         /\ e.fault # None => at["fault"] = <<P[e.fault[1]], P[e.fault[2]]>>
    BY <2>10, <2>11, <2>12, <2>13, <2>15, Zenon
  <2> QED
    BY <2>1, <2>10, <2>11, <2>12, <2>13, <2>14, <2>16, Zenon
<1>2. LowInv => RangesRelative
  BY <1>1 DEF RangesRelative
<1> QED
  BY <1>2, Invariant, PTL

\* The identifier that a member operand is compiled to.
LEMMA MemberCompiled ==
    ASSUME LowInv, NEW u \in DOMAIN out, NEW o \in OperandsOf(u), o.as \in {"field", "method"}
    PROVE  MemberFound(o) /\ IdOf(out[u].at[o.slot], o) = MemberId(o)
<1>1. PICK v : v = out[u].at[o.slot]
  OBVIOUS
<1>2. ValueOf(v, o)
  BY <1>1, Compiled
<1>3. CASE o.as = "field"
  BY <1>1, <1>2, <1>3 DEF ValueOf, IdOf
<1>4. CASE o.as = "method" /\ o.of.generics = <<>>
  <2>1. MemberFound(o) /\ v = [ty |-> "Method", index |-> MemberId(o)]
    BY <1>2, <1>4 DEF ValueOf
  <2>2. v.ty = "Method" /\ v.index = MemberId(o)
    BY <2>1
  <2> QED
    BY <1>1, <1>4, <2>1, <2>2 DEF IdOf
<1>5. CASE o.as = "method" /\ o.of.generics # <<>>
  <2>1. /\ MemberFound(o) /\ v.ty = "MethodSpec"
        /\ methodSpecs[v.index + 1] = [m |-> MemberId(o), generics |-> o.of.generics]
    BY <1>2, <1>5 DEF ValueOf
  <2>2. methodSpecs[v.index + 1].m = MemberId(o)
    BY <2>1
  <2> QED
    BY <1>1, <1>5, <2>1, <2>2 DEF IdOf
<1> QED
  BY <1>3, <1>4, <1>5

\* The type in which a member is looked up is that of the register which the
\* instruction itself reads.
LEMMA OwnerIs ==
    ASSUME LowInv, NEW u \in DOMAIN out, NEW o \in OperandsOf(u), o.as \in {"field", "method"}
    PROVE  Owner(u, o) = Container(o.in)
<1>1. CASE o.in.by = "type"
  BY <1>1 DEF Owner, Container
<1>2. CASE o.in.by # "type"
  <2>1. PICK S : S = OperandsOf(u)
    OBVIOUS
  <2>2. PICK r \in S : ReadFrom(r, o, S)
    BY <1>2, <2>1, Compiled DEF OperandGood
  <2>3. /\ r.as = "registers" /\ r.of = <<o.in.of>>
        /\ r.slot = IF "container" \in DOMAIN out[u].at THEN "container" ELSE "val"
    <3>1. DOMAIN out[u].at = {x.slot : x \in S}
      BY <2>1, Compiled
    <3> QED
      BY <2>2, <3>1 DEF ReadFrom
  <2>4. PICK v : v = out[u].at[r.slot]
    OBVIOUS
  <2>5. ValueOf(v, r)
    BY <2>1, <2>2, <2>4, Compiled
  <2>6. 1 \in DOMAIN r.of /\ r.of[1] = o.in.of
    BY <2>3
  <2>7. Positions(o.in.of) # {} /\ v[1] = FirstLocal(o.in.of) - 1
    BY <2>3, <2>5, <2>6 DEF ValueOf
  <2>8. FirstLocal(o.in.of) \in Nat
    <3>1. FirstLocal(o.in.of) \in DOMAIN source.locals /\ IsSequence(source.locals)
      BY <2>7, FirstStands, SourcesAssumption DEF LowInv
    <3> QED
      BY <3>1 DEF IsSequence
  <2>9. v[1] + 1 = FirstLocal(o.in.of)
    BY <2>7, <2>8
  <2> QED
    BY <1>2, <2>3, <2>4, <2>9 DEF Owner, Container
<1> QED
  BY <1>1, <1>2

\* A member named in the source is compiled to one of that name, static or not
\* as the instruction needs it, of the type of the register which the
\* instruction reads (compile_method_reference, compile_field_reference,
\* resolve_variable_type).
THEOREM MembersFound == Spec => []MembersOfContainer
<1>1. ASSUME LowInv PROVE MembersOfContainer
  <2>1. ASSUME NEW u \in DOMAIN out, NEW o \in OperandsOf(u),
               o.as \in {"field", "method"}, o.of.index = None,
               NEW t, t = Owner(u, o), NEW all,
               all = IF o.as = "field" THEN Fields[t] ELSE Methods[t]
        PROVE  \E k \in DOMAIN all :
                  /\ all[k].name = o.of.name /\ all[k].static = NeedsStatic(units[u])
                  /\ all[k].id = IdOf(out[u].at[o.slot], o)
    <3>1. MemberFound(o) /\ IdOf(out[u].at[o.slot], o) = MemberId(o)
      BY <1>1, <2>1, MemberCompiled
    <3>2. t = Container(o.in)
      BY <1>1, <2>1, OwnerIs
    <3>3. PICK k \in DOMAIN all : IsMeant(all[k], o) /\ MemberId(o) = all[k].id
      BY <2>1, <3>1, <3>2, MemberIs
    <3>4. StaticAsNeeded(units[u], o)
      BY <1>1, <2>1, Compiled DEF OperandGood
    <3>5. o.static = NeedsStatic(units[u])
      BY <3>4 DEF StaticAsNeeded
    <3>6. all[k].name = o.of.name /\ all[k].static = o.static
      BY <3>3 DEF IsMeant
    <3> QED
      BY <3>1, <3>3, <3>5, <3>6
  <2> QED
    BY <2>1 DEF MembersOfContainer
<1> QED
  BY <1>1, Invariant, PTL

\* A field of the current type is stored under the identifier it is loaded by
\* (compile_field_reference, in the instructions of compile_method).
THEOREM StoredIsLoaded == Spec => []LoadsWhatItStores
<1>1. ASSUME LowInv, NEW u \in DOMAIN out, NEW w \in DOMAIN out,
             units[u].op = "Load", units[u].content.kind = "field",
             source.types[FirstLocal(units[u].content.container)] = Current,
             units[w].op \in {"SetField", "SetThisField"},
             units[w].field = units[u].content.field
      PROVE  out[w].at["field"] = out[u].at["field"]
  <2>1. PICK f, g : /\ f = Field(DeclaredType(units[u].content.container), FALSE,
                                 units[u].content.field)
                    /\ g = Field(CurrentType, FALSE, units[w].field)
    OBVIOUS
  <2>2. f \in OperandsOf(u) /\ g \in OperandsOf(w)
    BY <1>1, <2>1, Compiled DEF HasOperands
  <2>3. /\ f.slot = "field" /\ f.as = "field" /\ f.of = units[u].content.field
        /\ f.in.by = "variable" /\ f.in.of = units[u].content.container /\ f.static = FALSE
        /\ g.slot = "field" /\ g.as = "field" /\ g.of = units[w].field
        /\ g.in.by = "type" /\ g.in.of = Current /\ g.static = FALSE
    BY <2>1 DEF Field, DeclaredType, CurrentType
  <2>4. /\ ValueOf(out[u].at["field"], f) /\ ValueOf(out[w].at["field"], g)
    BY <1>1, <2>2, <2>3, Compiled
  <2>5. out[u].at["field"] = MemberId(f) /\ out[w].at["field"] = MemberId(g)
    BY <2>3, <2>4 DEF ValueOf
  <2>6. Container(f.in) = Container(g.in)
    BY <1>1, <2>3 DEF Container
  <2>7. MembersOf(f) = MembersOf(g)
    BY <2>3, <2>6 DEF MembersOf
  <2>8. f.of = g.of
    BY <1>1, <2>3
  <2>9. Meant(f) = Meant(g)
    BY <2>3, <2>7, <2>8 DEF Meant, IsMeant
  <2>10. MemberId(f) = MemberId(g)
    BY <2>7, <2>8, <2>9 DEF MemberId
  <2> QED
    BY <2>5, <2>10
<1>2. LowInv => LoadsWhatItStores
  BY <1>1 DEF LoadsWhatItStores
<1> QED
  BY <1>2, Invariant, PTL

\* What was rejected is a constant that Number does not take.
RejectedInv ==
    pc = "rejected" => /\ Len(units) < Len(source.units)
                       /\ NextUnit.op = "Load" /\ Content.kind = "error"

\* A file is rejected where its parse stops, and nothing moves after that
\* (Statement::parse, the `?` of each constant).
LEMMA RejectedInductive == Spec => []RejectedInv
<1>1. Init => RejectedInv
  BY DEF Init, RejectedInv
<1>2. ASSUME RejectedInv, [Next]_vars PROVE RejectedInv'
  <2>1. CASE ParseRejects
    BY <2>1 DEF ParseRejects, Parsing, RejectedInv, NextUnit, Content
  <2>2. CASE ParseLoad \/ ParseOther
    BY <2>2 DEF ParseLoad, ParseOther, Parsing, RejectedInv
  <2>3. CASE ParsePanics \/ EndParse \/ OperandFails \/ OperandPanics \/ Finish
    <3>1. pc' # "rejected"
      BY <2>3 DEF ParsePanics, EndParse, OperandFails, OperandPanics, Finish
    <3> QED
      BY <3>1 DEF RejectedInv
  <2>4. CASE CompileOperand \/ CompileString \/ CompileMethod \/ Emit
    <3>1. pc' = pc /\ pc = "compile"
      BY <2>4 DEF CompileOperand, CompileString, CompileMethod, Emit, AtOperand, Compiling
    <3> QED
      BY <3>1 DEF RejectedInv
  <2>5. CASE Stopped \/ UNCHANGED vars
    BY <1>2, <2>5 DEF Stopped, vars, RejectedInv, NextUnit, Content
  <2> QED
    BY <1>2, <2>1, <2>2, <2>3, <2>4, <2>5 DEF Next
<1> QED
  BY <1>1, <1>2, PTL DEF Spec

\* `Some(!is_negative.unwrap_or(false))`, over and over.
LEMMA HyphensInPairs ==
    ASSUME NEW h \in Nat
    PROVE  Negative(h) <=> ~InPairs(h)
<1>1. ASSUME NEW k \in 0 .. h, h = k + k PROVE h % 2 = 0
  BY <1>1
<1>2. ASSUME h % 2 = 0 PROVE \E k \in 0 .. h : h = k + k
  <2>1. h \div 2 \in 0 .. h /\ h = h \div 2 + h \div 2
    BY <1>2
  <2> QED
    BY <2>1
<1>3. h % 2 = 0 \/ h % 2 = 1
  OBVIOUS
<1> QED
  BY <1>1, <1>2, <1>3 DEF Negative, InPairs

\* What a number is loaded as, and when it is refused.
LEMMA NumberIs ==
    ASSUME NEW s, s.hyphens \in Nat, s.content.kind = "Int",
           s.content.value \in Nat \cup {None}
    PROVE  LET c == Parse(s.hyphens, s.content) IN
           /\ c.kind \notin {"error", "panic"} =>
                 /\ c.kind = "Number" /\ c.value = WrittenValue(s)
                 /\ WrittenValue(s) \in ValuesOf(s.content.suffix)
           /\ c.kind = "error" /\ s.content.value # None /\ s.content.suffix \in DOMAIN Bits =>
                 \/ WrittenValue(s) \notin ValuesOf(s.content.suffix)
                 \/ /\ s.content.suffix \in Signed
                    /\ WrittenValue(s) = -(2 ^ (Bits[s.content.suffix] - 1))
<1> DEFINE c == Parse(s.hyphens, s.content)
           v == s.content.value
           sx == s.content.suffix
           b == Bits[sx]
<1>1. c = Number(s.hyphens, s.content)
  BY DEF Parse, Unsigned
<1>2. Negative(s.hyphens) <=> ~InPairs(s.hyphens)
  BY HyphensInPairs
<1>3. ASSUME sx \in DOMAIN Bits, v # None, sx \in Signed
      PROVE  LET m == 2 ^ (b - 1) IN
             /\ m \in Int /\ Largest(sx) = m - 1 /\ ValuesOf(sx) = -m .. m - 1
             /\ WrittenValue(s) = IF Negative(s.hyphens) THEN -v ELSE v
  <2>1. b \in Nat \ {0}
    BY <1>3, BitsAssumption
  <2>2. 2 ^ (b - 1) \in Int
    BY <2>1
  <2>3. Largest(sx) = 2 ^ (b - 1) - 1 /\ ValuesOf(sx) = -(2 ^ (b - 1)) .. 2 ^ (b - 1) - 1
    BY <1>3 DEF Largest, ValuesOf
  <2>4. WrittenValue(s) = IF Negative(s.hyphens) THEN -v ELSE v
    BY <1>2, <1>3 DEF WrittenValue
  <2> QED
    BY <2>2, <2>3, <2>4
<1>4. ASSUME sx \in DOMAIN Bits, v # None, sx \notin Signed
      PROVE  LET m == 2 ^ b IN
             /\ m \in Int /\ Largest(sx) = m - 1 /\ ValuesOf(sx) = 0 .. m - 1
             /\ WrittenValue(s) = v
  <2>1. b \in Nat \ {0}
    BY <1>4, BitsAssumption
  <2>2. 2 ^ b \in Int
    BY <2>1
  <2>3. b - 0 = b
    BY <2>1
  <2>4. Largest(sx) = 2 ^ b - 1
    BY <1>4, <2>3 DEF Largest
  <2>5. ValuesOf(sx) = 0 .. 2 ^ b - 1 /\ WrittenValue(s) = v
    BY <1>4 DEF ValuesOf, WrittenValue
  <2> QED
    BY <2>2, <2>4, <2>5
<1>5. ASSUME sx \in DOMAIN Bits, v # None, v <= Largest(sx)
      PROVE  c.kind = "Number" /\ c.value = WrittenValue(s) /\ WrittenValue(s) \in ValuesOf(sx)
  <2>1. c = [kind |-> "Number", type |-> NumberType(sx),
             value |-> IF sx \in Signed /\ Negative(s.hyphens) THEN -v ELSE v]
    BY <1>1, <1>5 DEF Number
  <2>2. CASE sx \in Signed
    <3>1. PICK m : /\ m \in Int /\ Largest(sx) = m - 1 /\ ValuesOf(sx) = -m .. m - 1
                   /\ WrittenValue(s) = IF Negative(s.hyphens) THEN -v ELSE v
      BY <1>3, <1>5, <2>2
    <3>2. v \in Nat /\ v <= m - 1
      BY <1>5, <3>1
    <3> QED
      BY <2>1, <2>2, <3>1, <3>2
  <2>3. CASE sx \notin Signed
    <3>1. PICK m : /\ m \in Int /\ Largest(sx) = m - 1 /\ ValuesOf(sx) = 0 .. m - 1
                   /\ WrittenValue(s) = v
      BY <1>4, <1>5, <2>3
    <3>2. v \in Nat /\ v <= m - 1
      BY <1>5, <3>1
    <3> QED
      BY <2>1, <2>3, <3>1, <3>2
  <2> QED
    BY <2>2, <2>3
<1>6. ASSUME ~(sx \in DOMAIN Bits /\ v # None /\ v <= Largest(sx))
      PROVE  c.kind = "error"
  BY <1>1, <1>6 DEF Number, Rejected
<1>7. ASSUME c.kind = "error", v # None, sx \in DOMAIN Bits
      PROVE  \/ WrittenValue(s) \notin ValuesOf(sx)
             \/ sx \in Signed /\ WrittenValue(s) = -(2 ^ (b - 1))
  <2>1. ~(v <= Largest(sx)) /\ v \in Nat
    BY <1>5, <1>7
  <2>2. CASE sx \in Signed
    <3>1. PICK m : /\ m = 2 ^ (b - 1) /\ m \in Int /\ Largest(sx) = m - 1
                   /\ ValuesOf(sx) = -m .. m - 1
                   /\ WrittenValue(s) = IF Negative(s.hyphens) THEN -v ELSE v
      BY <1>3, <1>7, <2>2
    <3>2. v >= m
      BY <2>1, <3>1
    <3>3. WrittenValue(s) \notin -m .. m - 1 \/ WrittenValue(s) = -m
      <4>1. CASE Negative(s.hyphens)
        <5>1. WrittenValue(s) = -v
          BY <3>1, <4>1, Zenon
        <5>2. PICK y : y = v
          OBVIOUS
        <5>3. y \in Int /\ y >= m /\ m \in Int
          BY <2>1, <3>1, <3>2, <5>2
        <5>4. -y \notin -m .. m - 1 \/ -y = -m
          BY <5>3
        <5> QED
          BY <5>1, <5>2, <5>4, Zenon
      <4>2. CASE ~Negative(s.hyphens)
        <5>1. WrittenValue(s) = v
          BY <3>1, <4>2, Zenon
        <5>2. PICK y : y = v
          OBVIOUS
        <5>3. y \in Int /\ y >= m /\ m \in Int
          BY <2>1, <3>1, <3>2, <5>2
        <5>4. y \notin -m .. m - 1
          BY <5>3
        <5> QED
          BY <5>1, <5>2, <5>4, Zenon
      <4> QED
        BY <4>1, <4>2
    <3> QED
      BY <2>2, <3>1, <3>3
  <2>3. CASE sx \notin Signed
    <3>1. PICK m : /\ m \in Int /\ Largest(sx) = m - 1 /\ ValuesOf(sx) = 0 .. m - 1
                   /\ WrittenValue(s) = v
      BY <1>4, <1>7, <2>3
    <3> QED
      BY <2>1, <3>1
  <2> QED
    BY <2>2, <2>3
<1> HIDE DEF c
<1>8. c.kind \notin {"error", "panic"} =>
         c.kind = "Number" /\ c.value = WrittenValue(s) /\ WrittenValue(s) \in ValuesOf(sx)
  BY <1>5, <1>6
<1> QED
  BY <1>7, <1>8 DEF c

\* A constant is loaded with the value that is written, its sign included, and a
\* file is rejected for a constant that get_value reads, with a known suffix, only
\* if its value does not fit the type, or is the smallest of a signed one
\* (statement.rs:428-543, build_impl.rs:502-520).
THEOREM ConstantsLoaded == Spec => []NumbersLoaded
<1>1. ASSUME LowInv, NEW u \in DOMAIN out, LoadsInt(source.units[u])
      PROVE  /\ out[u].at["content"].value = WrittenValue(source.units[u])
             /\ WrittenValue(source.units[u]) \in ValuesOf(source.units[u].content.suffix)
  <2>1. PICK s : s = source.units[u]
    OBVIOUS
  <2>2. /\ s.op = "Load" /\ s.content.kind = "Int" /\ WellFormed(s)
        /\ u \in DOMAIN units /\ units[u] = AsParsed(s)
    BY <1>1, <2>1, Compiled DEF LoadsInt
  <2>3. s.hyphens \in Nat /\ s.content.value \in Nat \cup {None}
    BY <2>2 DEF WellFormed
  <2>4. units[u].op = "Load" /\ units[u].content = Parse(s.hyphens, s.content)
    BY <2>2, ParsedUnit
  <2>5. units[u].content.kind \notin {"error", "panic"}
    BY <1>1, <2>2, <2>4 DEF LowInv, UnitsInv
  <2>6. /\ units[u].content.kind = "Number"
        /\ units[u].content.value = WrittenValue(s)
        /\ WrittenValue(s) \in ValuesOf(s.content.suffix)
    BY <2>2, <2>3, <2>4, <2>5, NumberIs
  <2>7. PICK o : o = Verbatim("content", units[u].content)
    OBVIOUS
  <2>8. o.slot = "content" /\ o.as = "verbatim" /\ o.of = units[u].content
    BY <2>7 DEF Verbatim
  <2>9. o \in OperandsOf(u)
    BY <1>1, <2>4, <2>6, <2>7, Compiled DEF HasOperands
  <2>10. ValueOf(out[u].at["content"], o)
    BY <1>1, <2>8, <2>9, Compiled
  <2>11. out[u].at["content"] = units[u].content
    BY <2>8, <2>10 DEF ValueOf
  <2> QED
    BY <2>1, <2>6, <2>11
<1>2. ASSUME LowInv, RejectedInv, pc = "rejected", LoadsInt(NextUnit),
             NextUnit.content.value # None, NextUnit.content.suffix \in DOMAIN Bits
      PROVE  \/ WrittenValue(NextUnit) \notin ValuesOf(NextUnit.content.suffix)
             \/ /\ NextUnit.content.suffix \in Signed
                /\ WrittenValue(NextUnit) = -(2 ^ (Bits[NextUnit.content.suffix] - 1))
  <2>1. PICK s : s = NextUnit
    OBVIOUS
  <2>2. Len(units) < Len(source.units) /\ Parse(s.hyphens, s.content).kind = "error"
    BY <1>2, <2>1 DEF RejectedInv, Content
  <2>3. Len(units) + 1 \in DOMAIN source.units
    BY <1>2, <2>2, AllGood
  <2>4. WellFormed(s)
    BY <1>2, <2>1, <2>3, SourcesAssumption DEF LowInv, NextUnit
  <2>5. s.op = "Load" /\ s.content.kind = "Int"
    BY <1>2, <2>1 DEF LoadsInt
  <2>6. s.hyphens \in Nat /\ s.content.value \in Nat \cup {None}
    BY <2>4, <2>5 DEF WellFormed
  <2> QED
    BY <1>2, <2>1, <2>2, <2>5, <2>6, NumberIs
<1>3. LowInv /\ RejectedInv => NumbersLoaded
  BY <1>1, <1>2 DEF NumbersLoaded
<1> QED
  BY <1>3, Invariant, RejectedInductive, PTL
===============================================================================
