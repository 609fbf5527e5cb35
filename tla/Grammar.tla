------------------------------ MODULE Grammar ------------------------------
(***************************************************************************)
(* crates/ast's `parse`: a file's types, with their fields, methods and    *)
(* statements, read from the tokens of the lexer.                          *)
(*                                                                         *)
(* The parse functions only ever look at the next token.  What they and    *)
(* their callers still have to read is `want`, a stack of terminals (the   *)
(* kinds of tokens) and of "<parts>"; a rule says what a part becomes when *)
(* the next token is of a kind.  What is kept of the tree is the list of   *)
(* its leaves, in the order they are read (`nodes`).                       *)
(*                                                                         *)
(* A token is [form, text]: a "word" is an identifier before `edit`, a     *)
(* "string" terminated and with good escapes ("bad_string": with a bad     *)
(* one), "raw" a raw identifier, "empty_int" a base without digits, "char" *)
(* any character or byte literal, "special" a SpecialChar.  "table" stands *)
(* for a whole exception table (module ExceptionTable).                    *)
(***************************************************************************)
EXTENDS Integers, Sequences, FiniteSets, Keywords

CONSTANTS
    Inputs,           \* the files, as sequences of tokens
    Samples,          \* those of the sample program
    ValueOf,          \* of the text of an integer: get_value, None if there is none
    Loadable,         \* the texts of integers with a suffix that `Load` knows
    MaxIndex,         \* u32::MAX
    None,
    DebugAssertions   \* cfg!(debug_assertions)

Special == {"(", ")", "[", "]", "{", "}", "<", ">", ":", ";", ",", ".", "!", "+",
            "#", "-", "->"}

Forms == {"word", "string", "bad_string", "raw", "int", "empty_int", "float", "char",
          "table", "special"}

ASSUME GrammarAssumption ==
    /\ Inputs \subseteq Seq([form : Forms, text : STRING])
    /\ \A ts \in Inputs : \A i \in DOMAIN ts :
          /\ ts[i].form = "int" => ts[i].text \in DOMAIN ValueOf
          /\ ts[i].form = "empty_int" => ts[i].text \in DOMAIN ValueOf
                                           /\ ValueOf[ts[i].text] = None
          /\ ts[i].form = "special" => ts[i].text \in Special
    /\ \A x \in DOMAIN ValueOf : ValueOf[x] \in Nat \cup {None}
    /\ None \notin Nat /\ MaxIndex \in Nat
    /\ DebugAssertions \in BOOLEAN

VARIABLES
    tokens,
    pos,       \* the next token
    pc,
    want,
    attr,      \* the attribute list being read
    generics,  \* `ty_generics` and `method_generics`
    saved,     \* where the reference tried last starts
    nodes

vars == <<tokens, pos, pc, want, attr, generics, saved, nodes>>

Finished == {"done", "error", "panic"}

\* `edit` and `Identifier::parse`: what a token counts as.
Kind(t) ==
    CASE t.form = "word" /\ t.text \in Keywords \cup StatementKeywords -> t.text
      [] t.form = "special"                  -> t.text
      [] t.form \in {"word", "string", "raw"} -> "name"
      [] t.form = "empty_int"                -> "int"
      [] OTHER                               -> t.form

AtEnd == pos > Len(tokens)
Token == IF AtEnd THEN "eof" ELSE Kind(tokens[pos])
Form  == IF AtEnd THEN "eof" ELSE tokens[pos].form
Text  == tokens[pos].text

----------------------------------------------------------------------------
(* Rules                                                                   *)

Rule(of, first, to) == [of |-> of, first |-> first, to |-> to]

\* A part that is there if its first token is.
Optional(of, to) == Rule(of, Head(to), to)

\* uni_parser's `punctuated`: items between commas; more is what is left
\* after an item.
Punctuated(list, more, firsts, item) ==
    {Rule(list, f, <<item, more>>) : f \in firsts} \cup {Rule(more, ",", <<",", list>>)}

TypeFirsts == {"[", "name"}
References == {Rule("<item>", "int", <<"<u32>">>), Rule("<item>", "name", <<"<name>">>)}
MethodReference == <<"<item>", "<references?>">>
MethodReferences == {Optional("<references?>", <<"[", "<references>", "]">>)}

TypeReferences ==
    {Rule("<type>", "[", <<"[", "<assembly>", "]", "<name>", "<arguments?>">>),
     Rule("<assembly>", "!", <<"!">>), Rule("<assembly>", "name", <<"<name>">>),
     Optional("<arguments?>", <<"<", "<arguments>", ">">>)}
      \cup Punctuated("<arguments>", "<more_arguments>", TypeFirsts, "<type>")

GenericLists ==
    {Optional("<type_generics?>", <<"[", "<type_generics>", "<infinite?>", "]">>),
     Optional("<method_generics?>", <<"[", "<method_generics>", "<infinite?>", "]">>),
     Optional("<infinite?>", <<"+">>)}

\* What an item begins with.
Header(keyword, list, close) == <<keyword, "[", list, close>>

ClassDef ==
    Header("class", "<class_attr>", "]") \o
    <<"<main?>", "<name>", "<type_generics?>", "<parent?>", "<where?>", "{", "<items>">>

ClassDefRules == {Optional("<main?>", <<"__MAIN", "(", "<u32>", ")">>),
                  Optional("<parent?>", <<":", "<type>">>)}

\* `ch_bracket_close` is a BraceCloseChar.
StructDef ==
    Header("struct", "<struct_attr>", "}") \o
    <<"<name>", "<type_generics?>", "<where?>", "{", "<items>">>

InterfaceDef ==
    Header("interface", "<interface_attr>", "]") \o
    <<"<name>", "<type_generics?>", "<required?>", "<where?>", "{", "<interface_items>">>

InterfaceDefRules ==
    {Optional("<required?>", <<":", "<required>">>)}
      \cup Punctuated("<required>", "<more_required>", TypeFirsts, "<type>")

\* A release build does not run the `stream.consume()` inside debug_assert!.
Field ==
    (IF DebugAssertions THEN Header("field", "<field_attr>", "]")
                        ELSE Tail(Header("field", "<field_attr>", "]")))
      \o <<"<name>", ":", "<type>", ";">>

Method ==
    Header("method", "<method_attr>", "]") \o
    <<"<name>", "<method_generics?>", "(", "<parameters>", ")", "->", "<type>", "<impl?>",
      "<where?>", "{", "<locals?>", "<table?>", "<statements>">>

Impl == Optional("<impl?>", <<"impl">> \o MethodReference \o <<"in", "<type>">>)

Parameters ==
    {Rule("<parameter>", "[", <<"[", "<refs>", "]", "<type>">>),
     Rule("<refs>", "ref", <<"ref", "<refs>">>)}
      \cup Punctuated("<parameters>", "<more_parameters>", {"["}, "<parameter>")

OneLocal == {Optional("<locals?>", <<"locals", "(", "<locals>", ")">>),
             Rule("<locals>", "name", <<"<name>", ":", "<type>">>)}
Locals == {Optional("<locals?>", <<"locals", "(", "<locals>", ")">>),
           Rule("<locals>", "name", <<"<name>", ":", "<type>", "<locals>">>)}

MethodRules == Parameters \cup Locals \cup {Impl, Optional("<table?>", <<"table">>)}

FileRules == {Rule("<file>", "class", ClassDef \o <<"<file>">>),
              Rule("<file>", "struct", StructDef \o <<"<file>">>),
              Rule("<file>", "interface", InterfaceDef \o <<"<file>">>)}

ItemRules == {Rule("<items>", "}", <<"}">>),
              Rule("<items>", "method", Method \o <<"<items>">>),
              Rule("<items>", "field", Field \o <<"<items>">>),
              Rule("<interface_items>", "}", <<"}">>),
              Rule("<interface_items>", "method", Method \o <<"<interface_items>">>)}

----------------------------------------------------------------------------
(* Statements                                                              *)

Into == <<"->", "<name>", ";">>
Call == <<"(", "<args>", ")">> \o Into

StatementRule(keyword, rest) ==
    Rule("<statements>", keyword, <<keyword>> \o rest \o <<"<statements>">>)

StatementRules ==
    {Rule("<statements>", "}", <<"}">>),
     StatementRule("Load", <<"<content>">> \o Into),
     StatementRule("ReadPointerTo", <<"<name>", "<name>">> \o Into),
     StatementRule("WritePointer", <<"<name>", "<name>">> \o Into),
     StatementRule("Check", <<"__all_zero", "<name>">> \o Into),
     StatementRule("NewObject", <<"<type>">> \o MethodReference \o Call),
     StatementRule("NewArray", <<"<type>", "<length>">> \o Into),
     StatementRule("InstanceCall", <<"<name>">> \o MethodReference \o Call),
     StatementRule("InterfaceCall",
                   <<"<name>", "as", "<type>">> \o MethodReference \o Call),
     StatementRule("StaticCall", <<"<type>">> \o MethodReference \o Call),
     StatementRule("NonPurusCall", <<"#", "<name>", "<name>">> \o Call),
     StatementRule("SetField", <<"<name>", "->", "<name>", ".", "<item>", ";">>),
     StatementRule("SetThisField", <<"<name>", "->", "<item>", ";">>),
     StatementRule("SetStaticField", <<"<name>", "->", "<type>", "<item>", ";">>),
     StatementRule("Throw", <<"<name>", ";">>),
     StatementRule("ReturnVal", <<"<name>", ";">>),
     StatementRule("Jump", <<"<condition?>", "<target>", "<u64>", ";">>),
     StatementRule("Nop", <<";">>)}

\* JumpCondition, JumpTargetType, ArrayLen and common_args.
OperandRules ==
    {Optional("<condition?>", <<"if", "<name>">>),
     Optional("<condition?>", <<"success", "__all_zero", "<name>">>),
     Optional("<condition?>", <<"failure", "__all_zero", "<name>">>),
     Rule("<length>", "int", <<"<u64>">>), Rule("<length>", "name", <<"<name>">>)}
      \cup {Rule("<target>", t, <<t>>) : t \in {"__absolute", "__forward", "__backward"}}
      \cup Punctuated("<args>", "<more_args>", {"name"}, "<name>")

\* LoadableContent::parse; "<negated>" is a content with `is_negative` set.
ContentRules ==
    {Rule("<content>", "-", <<"-", "<negated>">>),
     Rule("<negated>", "-", <<"-", "<negated>">>),
     Rule("<content>", "__arg", <<"__arg", "(", "<u64>", ")">>),
     Rule("<content>", "static", <<"static", "(", "<type>", "<item>", ")">>),
     Rule("<content>", "__field", <<"__field", "(", "<name>", "<item>", ")">>),
     Rule("<content>", "sizeof", <<"sizeof", "(", "<type>", ")">>)}

Rules == References \cup MethodReferences \cup TypeReferences \cup GenericLists
           \cup ClassDefRules \cup InterfaceDefRules \cup MethodRules \cup FileRules
           \cup ItemRules \cup StatementRules \cup OperandRules \cup ContentRules

RulesFor == [s \in {r.of : r \in Rules} |-> {r \in Rules : r.of = s}]

\* The parts that may be missing, and the loops that end at any other token.
Skippable ==
    {"<references?>", "<arguments?>", "<arguments>", "<more_arguments>",
     "<type_generics?>", "<method_generics?>", "<type_generics>", "<method_generics>",
     "<infinite?>", "<main?>", "<parent?>", "<required?>", "<required>",
     "<more_required>", "<impl?>", "<where?>", "<refs>", "<parameters>",
     "<more_parameters>", "<locals?>", "<locals>", "<table?>", "<condition?>",
     "<args>", "<more_args>"}

\* The attribute lists, and the modifiers they are made of.
Modifiers == [l \in {"<class_attr>", "<struct_attr>", "<interface_attr>",
                     "<field_attr>", "<method_attr>"} |->
                 CASE l = "<class_attr>"     -> ClassModifiers
                   [] l = "<struct_attr>"    -> StructModifiers
                   [] l = "<interface_attr>" -> InterfaceModifiers
                   [] l = "<field_attr>"     -> FieldModifiers
                   [] l = "<method_attr>"    -> MethodModifiers]

AttrLists == DOMAIN Modifiers

----------------------------------------------------------------------------
(* Actions                                                                 *)

Running == pc = "run" /\ want # <<>>
Part    == Head(want)

Node(as, at, value, mods) == [as |-> as, at |-> at, value |-> value, mods |-> mods]
Leaf(as, value) == Append(nodes, Node(as, pos, value, {}))

FreshAttr   == [index |-> 0, mods |-> {"private"}]
NoGenerics  == [type |-> <<>>, method |-> <<>>]

Init == /\ tokens \in Inputs
        /\ pos = 1 /\ pc = "run" /\ want = <<"<file>">>
        /\ attr = FreshAttr /\ generics = NoGenerics
        /\ saved = [pos |-> 1, nodes |-> 0] /\ nodes = <<>>

\* A terminal that is there.
Take ==
    /\ Running /\ Token = Part
    /\ pos' = pos + 1 /\ want' = Tail(want)
    /\ nodes' = IF Token \in Special THEN nodes ELSE Leaf(Token, None)
    /\ UNCHANGED <<tokens, pc, attr, generics, saved>>

\* The generics that are passed on: a field gets none of a method, a method
\* none of the method before it.
Scope(keyword) ==
    CASE keyword \in TypeKeywords   -> NoGenerics
      [] keyword \in MemberKeywords -> [generics EXCEPT !.method = <<>>]
      [] OTHER                      -> generics

Applicable == IF Part \in DOMAIN RulesFor
              THEN {r \in RulesFor[Part] : r.first = Token} ELSE {}

Expand ==
    /\ Running
    /\ \E r \in Applicable :
          /\ want' = r.to \o Tail(want)
          /\ generics' = Scope(r.first)
          /\ attr' = IF r.first \in TypeKeywords \cup MemberKeywords THEN FreshAttr
                                                                     ELSE attr
    /\ UNCHANGED <<tokens, pos, pc, saved, nodes>>

GenericsOf(list) == IF list = "<type_generics>" THEN "type" ELSE "method"
DeclaresGeneric == Part \in {"<type_generics>", "<method_generics>"} /\ Token = "name"

\* `expect(Keyword::Where)`: todo!
WhereIsTodo == Part = "<where?>" /\ Token = "where"

Skip ==
    /\ Running /\ Part \in Skippable
    /\ Applicable = {} /\ ~DeclaresGeneric /\ ~WhereIsTodo
    /\ want' = Tail(want)
    /\ UNCHANGED <<tokens, pos, pc, attr, generics, saved, nodes>>

TakeName ==
    /\ Running /\ Part = "<name>" /\ Token = "name"
    /\ pos' = pos + 1 /\ want' = Tail(want)
    /\ nodes' = Leaf("name", None)
    /\ UNCHANGED <<tokens, pc, attr, generics, saved>>

DeclareGeneric ==
    /\ Running /\ DeclaresGeneric
    /\ generics' = [generics EXCEPT ![GenericsOf(Part)] = Append(@, Text)]
    /\ pos' = pos + 1
    /\ nodes' = Leaf(Part, None)
    /\ UNCHANGED <<tokens, pc, want, attr, saved>>

\* `position`: of the first generic with the name.
Names(list, x) == \E i \in DOMAIN list : list[i] = x
Position(list, x) ==
    CHOOSE i \in DOMAIN list : list[i] = x /\ \A j \in 1 .. (i - 1) : list[j] # x

MethodFirst == IF Names(generics.method, Text) THEN "method" ELSE "type"
\* Whose generic a bare name is: the type's come first.
Owner == IF Names(generics.type, Text) THEN "type" ELSE "method"

GenericNode == [type |-> "type_generic", method |-> "method_generic"]

InScope == Token = "name" /\ Names(generics[Owner], Text)

ResolveGeneric ==
    /\ Running /\ Part = "<type>" /\ InScope
    /\ pos' = pos + 1 /\ want' = Tail(want)
    /\ nodes' = Leaf(GenericNode[Owner], Position(generics[Owner], Text) - 1)
    /\ UNCHANGED <<tokens, pc, attr, generics, saved>>

HasValue(text, part) == ValueOf[text] # None
Fits(text, part) == /\ ValueOf[text] # None
                    /\ part = "<u32>" => ValueOf[text] <= MaxIndex

TakeInteger ==
    /\ Running /\ Part \in {"<u32>", "<u64>"} /\ Token = "int" /\ Fits(Text, Part)
    /\ pos' = pos + 1 /\ want' = Tail(want)
    /\ nodes' = Leaf("int", ValueOf[Text])
    /\ UNCHANGED <<tokens, pc, attr, generics, saved>>

\* An attribute list: modifiers and integers in any order.  A visibility, or a
\* call convention, replaces the one before it.
Group(modifier) == CASE modifier \in Visibility      -> Visibility
                     [] modifier \in CallConventions -> CallConventions
                     [] OTHER                        -> {modifier}

InAttr(list) == Token \in Modifiers[list] \/ Form = "int"

AttrModifier ==
    /\ Running /\ Part \in AttrLists /\ Token \in Modifiers[Part]
    /\ attr' = [attr EXCEPT !.mods = (@ \ Group(Token)) \cup {Token}]
    /\ pos' = pos + 1
    /\ UNCHANGED <<tokens, pc, want, generics, saved, nodes>>

FirstIndex == IF attr.index = 0 THEN pos ELSE attr.index
LastIndex == pos

AttrInteger ==
    /\ Running /\ Part \in AttrLists /\ Form = "int"
    /\ attr' = [attr EXCEPT !.index = LastIndex]
    /\ pos' = pos + 1
    /\ UNCHANGED <<tokens, pc, want, generics, saved, nodes>>

HasIndex == attr.index # 0
IndexText == tokens[attr.index].text

EndAttr ==
    /\ Running /\ Part \in AttrLists /\ ~InAttr(Part)
    /\ HasIndex /\ Fits(IndexText, "<u32>")
    /\ want' = Tail(want)
    /\ nodes' = Append(nodes, Node(Part, attr.index, ValueOf[IndexText], attr.mods))
    /\ UNCHANGED <<tokens, pos, pc, attr, generics, saved>>

\* The generics of a method reference: `while let Ok(g) = stream.call(..)`.
TryReference ==
    /\ Running /\ Part = "<references>"
    /\ want' = <<"<type>", "<again>">> \o Tail(want)
    /\ saved' = [pos |-> pos, nodes |-> Len(nodes)]
    /\ UNCHANGED <<tokens, pos, pc, attr, generics, nodes>>

NextReference ==
    /\ Running /\ Part = "<again>"
    /\ want' = <<"<references>">> \o Tail(want)
    /\ UNCHANGED <<tokens, pos, pc, attr, generics, saved, nodes>>

NumberOrTruth == (Form = "int" /\ Text \in Loadable) \/ Token \in {"true", "false"}

IsConstant == \/ Part \in {"<content>", "<negated>"} /\ NumberOrTruth
              \/ Part = "<content>" /\ (Token = "this" \/ Form \in {"string", "char"})

TakeConstant ==
    /\ Running /\ IsConstant
    /\ pos' = pos + 1 /\ want' = Tail(want)
    /\ nodes' = Leaf("constant", None)
    /\ UNCHANGED <<tokens, pc, attr, generics, saved>>

OpenBodies == {"<items>", "<interface_items>", "<statements>"}
\* The braces of a type may be left open: `let Some(&current) = stream.current()`.
OpenTypes == {"<items>", "<interface_items>"}

LoopAgain == want
AfterLoop == Tail(want)

EndOfFileInType ==
    /\ Running /\ Part \in OpenTypes /\ AtEnd
    /\ want' = AfterLoop
    /\ UNCHANGED <<tokens, pos, pc, attr, generics, saved, nodes>>

Finish ==
    /\ Running /\ Part = "<file>" /\ AtEnd
    /\ pc' = "done" /\ want' = <<>>
    /\ UNCHANGED <<tokens, pos, attr, generics, saved, nodes>>

----------------------------------------------------------------------------
(* Errors and panics                                                       *)

TypeAttrs == {"<class_attr>", "<struct_attr>", "<interface_attr>"}

\* `unwrap`, `todo!` and `assert!(is_negative.is_none())`.  The index of a type
\* is unwrapped, the one of a member is not.
Panics ==
    \/ WhereIsTodo
    \/ Part \in {"<u32>", "<u64>"} /\ Token = "int" /\ ~Fits(Text, Part)
    \/ Part \in TypeAttrs /\ ~InAttr(Part) /\ HasIndex /\ ~Fits(IndexText, "<u32>")
    \/ Part \in {"<content>", "<negated>"} /\ Form = "float"
    \/ /\ Part = "<negated>"
       /\ \/ Token \in {"this", "__arg", "static", "__field", "sizeof"}
          \/ Form \in {"string", "bad_string", "char"}

Panic ==
    /\ Running /\ Panics
    /\ pc' = "panic"
    /\ UNCHANGED <<tokens, pos, want, attr, generics, saved, nodes>>

OtherParts == {"<file>", "<items>", "<interface_items>", "<statements>", "<name>", "<type>",
               "<assembly>", "<item>", "<references>", "<again>", "<u32>", "<u64>",
               "<where?>", "<parameter>", "<content>", "<negated>", "<length>", "<target>"}
Parts == Skippable \cup AttrLists \cup OtherParts
\* What may stand in want.
Symbols == Parts \cup Special \cup Keywords \cup StatementKeywords \cup {"table"}

\* The part cannot start with the next token.
Fails ==
    \/ Part \notin Parts /\ Token # Part
    \/ Part = "<name>" /\ Token # "name"
    \/ Part \in {"<u32>", "<u64>"} /\ Token # "int"
    \/ /\ Part \in AttrLists /\ ~InAttr(Part)
       /\ HasIndex => Part \notin TypeAttrs /\ ~Fits(IndexText, "<u32>")
    \/ Part = "<type>" /\ Token # "[" /\ ~InScope
    \/ /\ Part \in {"<content>", "<negated>"}
       /\ Applicable = {} /\ ~IsConstant /\ ~Panics
    \/ /\ Part \in {"<item>", "<assembly>", "<length>", "<target>", "<statements>"}
       /\ Applicable = {}
    \/ Part \in {"<items>", "<interface_items>", "<file>"} /\ Applicable = {} /\ ~AtEnd
    \* Whether a list with `true` may be empty is up to uni_parser.
    \/ Part = "<required>" /\ Applicable = {}

Caught == \E k \in DOMAIN want : want[k] = "<again>"

Fail ==
    /\ Running /\ Fails /\ ~Caught
    /\ pc' = "error"
    /\ UNCHANGED <<tokens, pos, want, attr, generics, saved, nodes>>

\* The error of a type in the generics of a method reference ends the loop.
\* uni_parser's `call` puts the stream back where it was: an unknown name is
\* consumed before it is found to be unknown.
Unwind ==
    /\ Running /\ Fails /\ Caught
    /\ LET k == CHOOSE k \in DOMAIN want : want[k] = "<again>" IN
       want' = SubSeq(want, k + 1, Len(want))
    /\ pos' = saved.pos
    /\ nodes' = SubSeq(nodes, 1, saved.nodes)
    /\ UNCHANGED <<tokens, pc, attr, generics, saved>>

Terminated == pc \in Finished /\ UNCHANGED vars

Next == \/ Take \/ Expand \/ Skip \/ TakeName \/ DeclareGeneric \/ ResolveGeneric
        \/ TakeInteger \/ AttrModifier \/ AttrInteger \/ EndAttr
        \/ TryReference \/ NextReference \/ TakeConstant
        \/ EndOfFileInType \/ Finish \/ Panic \/ Fail \/ Unwind \/ Terminated

Spec == Init /\ [][Next]_vars

\* One thread, no waiting.
FairSpec == Spec /\ WF_vars(Next)

----------------------------------------------------------------------------
(* Properties                                                              *)

\* The types of the variables; nothing is read past the end, the place a
\* failed reference goes back to is behind the stream, and an index is a u32.
TypeOK ==
    /\ tokens \in Seq([form : Forms, text : STRING])
    /\ pos \in 1 .. (Len(tokens) + 1)
    /\ pc \in {"run"} \cup Finished
    /\ want \in Seq(Symbols)
    /\ attr.index \in 0 .. (pos - 1) /\ attr.mods \subseteq Keywords
    /\ generics \in [{"type", "method"} -> Seq(STRING)]
    /\ saved.pos \in 1 .. pos /\ saved.nodes \in 0 .. Len(nodes)
    /\ \A k \in DOMAIN nodes :
          /\ nodes[k].at < pos
          /\ nodes[k].value \in IF nodes[k].as \in AttrLists THEN 0 .. MaxIndex
                                                           ELSE Nat \cup {None}

\* What closes the bracket a behind c: the header of a struct is closed by a brace.
Closer(c, a) ==
    CASE a = "(" -> ")"
      [] a = "{" -> "}"
      [] a = "<" -> ">"
      [] a = "[" -> IF c = "struct" THEN "}" ELSE "]"

\* What is open, innermost first, once a was read behind c.
Reading(c, a, open) ==
    CASE a \in {"(", "{", "<", "["} -> <<Closer(c, a)>> \o open
      [] a \in {")", "}", ">", "]"} ->
            IF open # <<>> /\ Head(open) = a THEN Tail(open) ELSE <<"mismatch">>
      [] OTHER -> open

\* What the brackets of s leave open.
Unclosed(s) ==
    LET open[i \in 0 .. Len(s)] ==
            IF i = 0 THEN <<>>
                     ELSE Reading(IF i = 1 THEN "begin" ELSE s[i - 1], s[i], open[i - 1])
    IN open[Len(s)]

Read    == [i \in 1 .. (pos - 1) |-> Kind(tokens[i])]
Awaited == [i \in DOMAIN want |->
               IF want[i] \in {"<items>", "<interface_items>", "<statements>"}
               THEN "}" ELSE want[i]]

\* What was read and what the parser waits for form one text whose brackets
\* match; so in an accepted file every bracket is closed by its own, but for the
\* last type's brace, which the end of the file may stand for, and for the
\* header of a struct (class.rs:76-90, struct.rs:35, method.rs:94-152).
BracketsMatch ==
    pc \in {"run", "done"} =>
        \/ Unclosed(Read \o Awaited) = <<>>
        \/ AtEnd /\ Unclosed(Read \o Awaited) = <<"}">>

\* The last token before p that is one of the keywords, 0 if there is none.
LastBefore(p, keywords) ==
    LET S == {i \in 1 .. (p - 1) : Kind(tokens[i]) \in keywords} IN
    IF S = {} THEN 0 ELSE CHOOSE i \in S : \A j \in S : j <= i

\* Where the generics of a list are declared between two positions.
Declared(list, from, to) ==
    {p \in from .. to : \E k \in DOMAIN nodes : nodes[k].as = list /\ nodes[k].at = p}

\* n stands for the first generic with its name of those declared at the places S.
Means(n, S) ==
    \E p \in S : /\ tokens[p].text = tokens[n.at].text
                 /\ \A q \in S : q < p => tokens[q].text # tokens[n.at].text
                 /\ n.value = Cardinality({q \in S : q < p})

\* A bare name that is read as a type means the generic of that name of the type
\* it is written in, or, if there is none, of the method it is written in, and
\* of no other type or method (ty.rs:147-161).
GenericsResolved ==
    pc = "done" => \A k \in DOMAIN nodes :
        LET n      == nodes[k]
            type   == LastBefore(n.at, TypeKeywords)
            member == LastBefore(n.at, TypeKeywords \cup MemberKeywords)
            ofType == Declared("<type_generics>", type, n.at)
        IN /\ n.as = "type_generic" => Means(n, ofType)
           /\ n.as = "method_generic" =>
                 /\ Kind(tokens[member]) = "method"
                 /\ Means(n, Declared("<method_generics>", member, n.at))
                 /\ \A p \in ofType : tokens[p].text # tokens[n.at].text

\* The attribute list of the item at p is p + 2 .. ListEnd(p) - 1.
ListEnd(p) == CHOOSE q \in (p + 2) .. Len(tokens) :
                  /\ Kind(tokens[q]) \in {"]", "}"}
                  /\ \A i \in (p + 2) .. (q - 1) : Kind(tokens[i]) \notin {"]", "}"}

\* The modifiers in force: of a group the last one written, and private where
\* no visibility is.
Written(p, q) ==
    {Kind(tokens[i]) : i \in {i \in p .. q :
        /\ Kind(tokens[i]) # "int"
        /\ \A j \in (i + 1) .. q : Kind(tokens[j]) \notin Group(Kind(tokens[i]))}}
      \cup (IF \E i \in p .. q : Kind(tokens[i]) \in Visibility THEN {} ELSE {"private"})

\* The one node of the item's list: its index is the last integer written.
ItemFaithful(p) ==
    LET q == ListEnd(p)
        S == {k \in DOMAIN nodes : nodes[k].at \in (p + 2) .. (q - 1)}
    IN \E k \in S :
          /\ S = {k}
          /\ \A i \in (nodes[k].at + 1) .. (q - 1) : Kind(tokens[i]) # "int"
          /\ nodes[k].value = ValueOf[tokens[nodes[k].at].text]
          /\ nodes[k].mods = Written(p + 2, q - 1)

\* An accepted file is read whole: its nodes are in the order of the source,
\* every name is read exactly once, none was dropped with a reference that
\* failed, and every type, field and method has the index and the modifiers
\* written in its own list (lib.rs:30-34, ty.rs:171-273, field.rs:75-125,
\* method.rs:44-48, 295-377).
FileFaithful ==
    pc = "done" =>
        /\ \A j, k \in DOMAIN nodes : j < k => nodes[j].at < nodes[k].at
        /\ \A p \in DOMAIN tokens : Kind(tokens[p]) \in {"name", "bad_string"} =>
              \E k \in DOMAIN nodes : nodes[k].at = p
        /\ \A p \in DOMAIN tokens :
              Kind(tokens[p]) \in TypeKeywords \cup MemberKeywords => ItemFaithful(p)

\* The sample program is accepted, every token of it (MsgboxTest/src/Program.plir:1-92).
SampleAccepted == pc \in {"error", "panic"} => tokens \notin Samples

\* The parser ends on every file, complete or not, whose exception tables are
\* read: a table is one token here.  Inside one the parser may hang (module
\* ExceptionTable).
ParserEnds == <>(pc \in Finished)
============================================================================
