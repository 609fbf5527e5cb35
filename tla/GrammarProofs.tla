--------------------------- MODULE GrammarProofs ---------------------------
(***************************************************************************)
(* Proofs about Grammar, for all files.                                    *)
(*                                                                         *)
(* What the parser does next depends on the top of its stack alone, so     *)
(* every invariant needs the shape of the stack: what begins an item       *)
(* stands at the top only, and only what a type consists of stands over    *)
(* "<again>".  The rules keep the shape because each of them puts symbols  *)
(* of few sorts in the place of one.                                       *)
(*                                                                         *)
(* Three invariants are proved: GrammarInv, what was read of the items and *)
(* their lists, ScopeInv, which generics are in scope, and BracketInv,     *)
(* that the stack closes what was opened.                                  *)
(***************************************************************************)
EXTENDS Grammar, SequenceTheorems, FiniteSetTheorems, WellFoundedInduction, TLAPS

----------------------------------------------------------------------------
(* Sorts of symbols                                                        *)

ItemKeywords == TypeKeywords \cup MemberKeywords
Closers == {"]", "}"}
Items == {"<items>", "<interface_items>", "<file>"}

\* What stands neither in the header of an item nor over a reference.
Ordinary == Symbols \ (ItemKeywords \cup AttrLists \cup {"<again>"})

\* What stands nowhere but in the header of a method.
MethodGenerics == {"<method_generics?>", "<method_generics>"}

\* What neither begins an item nor is a method's.
Plain == Ordinary \ (Items \cup MethodGenerics)
Settled == Ordinary \ MethodGenerics

\* What a type consists of.
TypeSymbols == {"[", "]", "<", ">", ",", "!", "<type>", "<assembly>", "<name>",
                "<arguments?>", "<arguments>", "<more_arguments>"}

\* What a rule may be of.
Nonterminals == Parts \ (AttrLists \cup {"<again>"})

LEMMA ListSymbols == AttrLists = {"<class_attr>", "<struct_attr>", "<interface_attr>",
                            "<field_attr>", "<method_attr>"}
BY DEF AttrLists, Modifiers

LEMMA SpecialOrdinary == Special \subseteq Ordinary
<1>1. \A s \in Special : s \notin ItemKeywords \cup AttrLists \cup {"<again>"}
  BY ListSymbols, Zenon DEF Special, ItemKeywords, TypeKeywords, MemberKeywords
<1> QED
  BY <1>1, Zenon DEF Ordinary, Symbols

LEMMA PartsOrdinary == Nonterminals \subseteq Ordinary
<1>1. \A s \in Skippable \cup OtherParts : s \notin ItemKeywords
  BY DEF Skippable, OtherParts, ItemKeywords, TypeKeywords, MemberKeywords
<1> QED
  BY <1>1 DEF Ordinary, Symbols, Nonterminals, Parts

LEMMA SortsOfParts ==
    /\ Skippable \cup (OtherParts \ {"<again>"}) \subseteq Nonterminals
    /\ \A s \in Nonterminals : s \notin Special \cup ItemKeywords
<1>1. \A s \in Skippable \cup OtherParts : s \notin AttrLists
  BY ListSymbols DEF Skippable, OtherParts
<1>2. "<again>" \notin Skippable
  BY DEF Skippable
<1>3. \A s \in Skippable \cup OtherParts : s \notin Special \cup ItemKeywords
  <2>1. \A s \in Skippable : s \notin Special
    BY ZenonT(30) DEF Skippable, Special
  <2>2. \A s \in Skippable : s \notin ItemKeywords
    BY Zenon DEF Skippable, ItemKeywords, TypeKeywords, MemberKeywords
  <2>3. \A s \in OtherParts : s \notin Special
    BY ZenonT(30) DEF OtherParts, Special
  <2>4. \A s \in OtherParts : s \notin ItemKeywords
    BY Zenon DEF OtherParts, ItemKeywords, TypeKeywords, MemberKeywords
  <2> QED
    BY <2>1, <2>2, <2>3, <2>4, Zenon
<1> QED
  BY <1>1, <1>2, <1>3 DEF Nonterminals, Parts

\* The words that a rule asks for.
Words == StatementKeywords \cup
    {"__MAIN", "impl", "in", "ref", "locals", "table", "__all_zero", "as", "if",
     "success", "failure", "__absolute", "__forward", "__backward", "__arg",
     "static", "__field", "sizeof"}

LEMMA WordsOrdinary == Words \subseteq Ordinary
<1>1. \A s \in Words : s \notin ItemKeywords \cup AttrLists \cup {"<again>"}
  BY ListSymbols DEF Words, StatementKeywords, ItemKeywords, TypeKeywords, MemberKeywords
<1>2. Words \subseteq Symbols
  BY DEF Words, Symbols, Keywords, ClassModifiers, StructModifiers, JumpKeywords, LoadKeywords
<1> QED
  BY <1>1, <1>2 DEF Ordinary

LEMMA SortsOfSymbols ==
    /\ Plain \subseteq Ordinary \ Items /\ Plain \subseteq Settled
    /\ Settled \subseteq Ordinary
BY DEF Plain, Settled

LEMMA SpecialPlain == Special \subseteq Plain
<1>1. \A s \in Items \cup MethodGenerics : s \notin Special
  BY Zenon DEF Items, MethodGenerics, Special
<1> QED
  BY <1>1, SpecialOrdinary DEF Plain

LEMMA WordsPlain == Words \subseteq Plain
<1>1. \A s \in Words : s \notin Items \cup MethodGenerics
  BY DEF Words, StatementKeywords, Items, MethodGenerics
<1> QED
  BY <1>1, WordsOrdinary DEF Plain

LEMMA TypeSymbolsPlain == TypeSymbols \subseteq Plain
<1>1. TypeSymbols \subseteq Special \cup Nonterminals
  <2>1. {"<type>", "<assembly>", "<name>", "<arguments?>", "<arguments>", "<more_arguments>"}
          \subseteq Nonterminals
    BY SortsOfParts DEF Skippable, OtherParts
  <2>2. {"[", "]", "<", ">", ",", "!"} \subseteq Special
    BY Zenon DEF Special
  <2> QED
    BY <2>1, <2>2, Zenon DEF TypeSymbols
<1>2. \A s \in TypeSymbols : s \notin Items \cup MethodGenerics
  BY Zenon DEF TypeSymbols, Items, MethodGenerics
<1> QED
  BY <1>1, <1>2, SpecialOrdinary, PartsOrdinary DEF Plain

LEMMA TypeSymbolsOrdinary == TypeSymbols \subseteq Ordinary
BY TypeSymbolsPlain, SortsOfSymbols

----------------------------------------------------------------------------
(* Sequences                                                               *)

LEMMA Tuple1 == ASSUME NEW S, NEW a \in S PROVE <<a>> \in Seq(S) /\ <<a>> # <<>>
OBVIOUS
LEMMA Tuple2 ==
    ASSUME NEW S, NEW a \in S, NEW b \in S PROVE <<a, b>> \in Seq(S) /\ <<a, b>> # <<>>
OBVIOUS
LEMMA Tuple3 ==
    ASSUME NEW S, NEW a \in S, NEW b \in S, NEW c \in S
    PROVE  <<a, b, c>> \in Seq(S) /\ <<a, b, c>> # <<>>
OBVIOUS
LEMMA Tuple4 ==
    ASSUME NEW S, NEW a \in S, NEW b \in S, NEW c \in S, NEW d \in S
    PROVE  <<a, b, c, d>> \in Seq(S) /\ <<a, b, c, d>> # <<>>
OBVIOUS
LEMMA Tuple5 ==
    ASSUME NEW S, NEW a \in S, NEW b \in S, NEW c \in S, NEW d \in S, NEW e \in S
    PROVE  <<a, b, c, d, e>> \in Seq(S) /\ <<a, b, c, d, e>> # <<>>
OBVIOUS
LEMMA Tuple6 ==
    ASSUME NEW S, NEW a \in S, NEW b \in S, NEW c \in S, NEW d \in S, NEW e \in S, NEW f \in S
    PROVE  <<a, b, c, d, e, f>> \in Seq(S) /\ <<a, b, c, d, e, f>> # <<>>
OBVIOUS
LEMMA Tuple7 ==
    ASSUME NEW S, NEW a \in S, NEW b \in S, NEW c \in S, NEW d \in S, NEW e \in S, NEW f \in S,
           NEW g \in S
    PROVE  <<a, b, c, d, e, f, g>> \in Seq(S) /\ <<a, b, c, d, e, f, g>> # <<>>
OBVIOUS

LEMMA Join ==
    ASSUME NEW S, NEW s \in Seq(S), NEW t \in Seq(S), s # <<>> \/ t # <<>>
    PROVE  s \o t \in Seq(S) /\ s \o t # <<>>
OBVIOUS

----------------------------------------------------------------------------
(* The rules                                                               *)

OrdinaryRule(r) ==
    /\ r.first \notin ItemKeywords
    /\ r.to # <<>>
    /\ r.to \in Seq(Plain) \/ (r.of \in MethodGenerics /\ r.to \in Seq(Ordinary \ Items))
    /\ r.of \in TypeSymbols => r.to \in Seq(TypeSymbols)

\* The header of an item from its k-th last piece but one on: the list is the
\* k-th symbol of w.
HeadAt(w, k) ==
    /\ w \in Seq(Symbols) /\ k \in 1 .. 3 /\ k < Len(w)
    /\ w[k] \in AttrLists /\ w[k + 1] \in Closers
    /\ k > 1 => w[k - 1] = "["
    /\ k > 2 => w[1] \in ItemKeywords
    /\ \A i \in (k + 1) .. Len(w) : w[i] \in Ordinary

\* A release build does not ask for the keyword of a field.
ItemRule(r) ==
    /\ r.of \in Items /\ r.first \in ItemKeywords
    /\ \E k \in {2, 3} : HeadAt(r.to, k) /\ (k = 3 => r.to[1] = r.first)
    /\ \A i \in DOMAIN r.to : r.to[i] \in MethodGenerics =>
          r.to[1] = "method" /\ \A j \in 1 .. (i - 1) : r.to[j] \notin Items

RuleGood(r) == r.of \in Nonterminals /\ (OrdinaryRule(r) \/ ItemRule(r))
LEMMA Punctuation ==
    /\ "(" \in Plain /\ ")" \in Plain /\ "[" \in Plain /\ "]" \in Plain
    /\ "{" \in Plain /\ "}" \in Plain /\ "<" \in Plain /\ ">" \in Plain
    /\ ":" \in Plain /\ ";" \in Plain /\ "," \in Plain /\ "." \in Plain
    /\ "!" \in Plain /\ "+" \in Plain /\ "#" \in Plain /\ "-" \in Plain
    /\ "->" \in Plain
BY SpecialPlain, Zenon DEF Special

LEMMA PartSymbols ==
    /\ "<references?>" \in Plain /\ "<arguments?>" \in Plain
    /\ "<arguments>" \in Plain /\ "<more_arguments>" \in Plain
    /\ "<type_generics?>" \in Plain /\ "<method_generics?>" \in Ordinary
    /\ "<type_generics>" \in Plain /\ "<method_generics>" \in Ordinary
    /\ "<infinite?>" \in Plain /\ "<main?>" \in Plain
    /\ "<parent?>" \in Plain /\ "<required?>" \in Plain
    /\ "<required>" \in Plain /\ "<more_required>" \in Plain
    /\ "<impl?>" \in Plain /\ "<where?>" \in Plain /\ "<refs>" \in Plain
    /\ "<parameters>" \in Plain /\ "<more_parameters>" \in Plain
    /\ "<locals?>" \in Plain /\ "<locals>" \in Plain /\ "<table?>" \in Plain
    /\ "<condition?>" \in Plain /\ "<args>" \in Plain
    /\ "<more_args>" \in Plain /\ "<file>" \in Ordinary /\ "<items>" \in Ordinary
    /\ "<interface_items>" \in Ordinary /\ "<statements>" \in Plain
    /\ "<name>" \in Plain /\ "<type>" \in Plain /\ "<assembly>" \in Plain
    /\ "<item>" \in Plain /\ "<references>" \in Plain /\ "<u32>" \in Plain
    /\ "<u64>" \in Plain /\ "<parameter>" \in Plain /\ "<content>" \in Plain
    /\ "<negated>" \in Plain /\ "<length>" \in Plain /\ "<target>" \in Plain
BY PartsOrdinary, SortsOfParts DEF Skippable, OtherParts, Plain, Items, MethodGenerics

LEMMA WordSymbols ==
    /\ "__MAIN" \in Plain /\ "impl" \in Plain /\ "in" \in Plain
    /\ "ref" \in Plain /\ "locals" \in Plain /\ "table" \in Plain
    /\ "__all_zero" \in Plain /\ "as" \in Plain /\ "if" \in Plain
    /\ "success" \in Plain /\ "failure" \in Plain /\ "__absolute" \in Plain
    /\ "__forward" \in Plain /\ "__backward" \in Plain /\ "__arg" \in Plain
    /\ "static" \in Plain /\ "__field" \in Plain /\ "sizeof" \in Plain
BY WordsPlain DEF Words

\* A rule of a part that no type consists of.
LEMMA Ordinarily ==
    ASSUME NEW of \in Nonterminals, NEW first, NEW to \in Seq(Plain), to # <<>>,
           of \notin TypeSymbols, first \notin ItemKeywords
    PROVE  RuleGood(Rule(of, first, to))
BY DEF RuleGood, OrdinaryRule, Rule

LEMMA InType ==
    ASSUME NEW of \in Nonterminals, NEW first, NEW to \in Seq(TypeSymbols), to # <<>>,
           first \notin ItemKeywords
    PROVE  RuleGood(Rule(of, first, to))
<1>1. to \in Seq(Plain)
  BY TypeSymbolsPlain
<1> QED
  BY <1>1 DEF RuleGood, OrdinaryRule, Rule

LEMMA Optionally ==
    ASSUME NEW of \in Nonterminals, NEW to \in Seq(Plain), to # <<>>,
           of \notin TypeSymbols
    PROVE  RuleGood(Optional(of, to))
<1>1. Head(to) \in Plain
  OBVIOUS
<1>2. Head(to) \notin ItemKeywords
  BY <1>1 DEF Plain, Ordinary
<1> QED
  BY <1>2, Ordinarily DEF Optional

LEMMA PunctuatedGood ==
    ASSUME NEW list \in Nonterminals, NEW more \in Nonterminals, NEW item \in Plain,
           list \in Plain, more \in Plain, list \notin TypeSymbols, more \notin TypeSymbols,
           NEW firsts, \A f \in firsts : f \notin ItemKeywords
    PROVE  \A r \in Punctuated(list, more, firsts, item) : RuleGood(r)
<1>1. ASSUME NEW f \in firsts PROVE RuleGood(Rule(list, f, <<item, more>>))
  BY Tuple2, Ordinarily
<1>2. "," \in Plain /\ "," \notin ItemKeywords
  BY Punctuation, Zenon DEF Plain, Ordinary
<1>3. <<",", list>> \in Seq(Plain) /\ <<",", list>> # <<>>
  BY <1>2, Tuple2, Zenon
<1>4. RuleGood(Rule(more, ",", <<",", list>>))
  BY <1>2, <1>3, Ordinarily, Zenon
<1> QED
  BY <1>1, <1>4, Zenon DEF Punctuated

\* What the rules ask the next token to be.
LEMMA Firsts ==
    /\ "int" \notin ItemKeywords /\ "name" \notin ItemKeywords
    /\ \A s \in Ordinary : s \notin ItemKeywords
    /\ \A s \in Plain : s \notin ItemKeywords
BY DEF Plain, Ordinary, ItemKeywords, TypeKeywords, MemberKeywords

\* The parts that are none of a type's.
LEMMA OtherSorts ==
    \A s \in {"<item>", "<references?>", "<type_generics?>", "<method_generics?>",
              "<infinite?>", "<main?>", "<parent?>", "<required?>", "<required>",
              "<more_required>", "<impl?>", "<refs>", "<parameters>", "<parameter>",
              "<more_parameters>", "<locals?>", "<locals>", "<table?>", "<statements>",
              "<condition?>", "<length>", "<target>", "<args>", "<more_args>",
              "<content>", "<negated>"} :
        s \in Nonterminals /\ s \notin TypeSymbols
<1>1. ASSUME NEW s \in {"<item>", "<references?>", "<type_generics?>", "<method_generics?>",
              "<infinite?>", "<main?>", "<parent?>", "<required?>", "<required>",
              "<more_required>", "<impl?>", "<refs>", "<parameters>", "<parameter>",
              "<more_parameters>", "<locals?>", "<locals>", "<table?>", "<statements>",
              "<condition?>", "<length>", "<target>", "<args>", "<more_args>",
              "<content>", "<negated>"}
      PROVE  s \in Skippable \cup (OtherParts \ {"<again>"})
  BY DEF Skippable, OtherParts
<1> QED
  BY <1>1, SortsOfParts, Zenon DEF TypeSymbols

LEMMA ReferencesGood == \A r \in References \cup MethodReferences : RuleGood(r)
<1>1. RuleGood(Rule("<item>", "int", <<"<u32>">>))
  BY PartSymbols, OtherSorts, Firsts, Tuple1, Ordinarily
<1>2. RuleGood(Rule("<item>", "name", <<"<name>">>))
  BY PartSymbols, OtherSorts, Firsts, Tuple1, Ordinarily
<1>3. RuleGood(Optional("<references?>", <<"[", "<references>", "]">>))
  <2>1. /\ "[" \in Plain /\ "]" \in Plain /\ "<references>" \in Plain
        /\ "<references?>" \in Nonterminals /\ "<references?>" \notin TypeSymbols
    BY Punctuation, PartSymbols, OtherSorts, Zenon
  <2> QED
    BY <2>1, Tuple3, Optionally
<1> QED
  BY <1>1, <1>2, <1>3 DEF References, MethodReferences

\* The symbols of types by name.
LEMMA TypeSymbol ==
    /\ "[" \in TypeSymbols /\ "]" \in TypeSymbols /\ "<" \in TypeSymbols
    /\ ">" \in TypeSymbols /\ "," \in TypeSymbols /\ "!" \in TypeSymbols
    /\ "<type>" \in TypeSymbols /\ "<assembly>" \in TypeSymbols
    /\ "<name>" \in TypeSymbols /\ "<arguments?>" \in TypeSymbols
    /\ "<arguments>" \in TypeSymbols /\ "<more_arguments>" \in TypeSymbols
    /\ \A s \in TypeSymbols : s \notin ItemKeywords
<1>1. \A s \in TypeSymbols : s \notin ItemKeywords
  BY TypeSymbolsPlain, Firsts
<1> QED
  BY <1>1, Zenon DEF TypeSymbols

LEMMA TypeNonterminals ==
    /\ "<type>" \in Nonterminals /\ "<assembly>" \in Nonterminals
    /\ "<arguments?>" \in Nonterminals /\ "<arguments>" \in Nonterminals
    /\ "<more_arguments>" \in Nonterminals
BY SortsOfParts DEF Skippable, OtherParts

LEMMA HeadOfType ==
    ASSUME NEW to \in Seq(TypeSymbols), to # <<>>
    PROVE  Head(to) \notin ItemKeywords
<1>1. Head(to) \in TypeSymbols
  OBVIOUS
<1> QED
  BY <1>1, TypeSymbol, Zenon

LEMMA TypeReferencesGood == \A r \in TypeReferences : RuleGood(r)
<1>1. RuleGood(Rule("<type>", "[", <<"[", "<assembly>", "]", "<name>", "<arguments?>">>))
  BY TypeSymbol, TypeNonterminals, Tuple5, InType
<1>2. RuleGood(Rule("<assembly>", "!", <<"!">>))
  BY TypeSymbol, TypeNonterminals, Tuple1, InType, Zenon
<1>3. RuleGood(Rule("<assembly>", "name", <<"<name>">>))
  BY TypeSymbol, TypeNonterminals, Firsts, Tuple1, InType, Zenon
<1>4. RuleGood(Optional("<arguments?>", <<"<", "<arguments>", ">">>))
  <2>1. /\ <<"<", "<arguments>", ">">> \in Seq(TypeSymbols)
        /\ <<"<", "<arguments>", ">">> # <<>>
    BY TypeSymbol, Tuple3, Zenon
  <2>2. Head(<<"<", "<arguments>", ">">>) \notin ItemKeywords
    BY <2>1, HeadOfType, Zenon
  <2> QED
    BY <2>1, <2>2, TypeNonterminals, InType, Zenon DEF Optional
<1>5. \A f \in TypeFirsts : RuleGood(Rule("<arguments>", f, <<"<type>", "<more_arguments>">>))
  <2>1. \A f \in TypeFirsts : f \notin ItemKeywords
    BY Firsts, TypeSymbol, Zenon DEF TypeFirsts
  <2> QED
    BY <2>1, TypeSymbol, TypeNonterminals, Tuple2, InType, Zenon
<1>6. RuleGood(Rule("<more_arguments>", ",", <<",", "<arguments>">>))
  BY TypeSymbol, TypeNonterminals, Tuple2, InType, Zenon
<1> QED
  BY <1>1, <1>2, <1>3, <1>4, <1>5, <1>6, Zenon DEF TypeReferences, Punctuated

LEMMA GenericListsGood == \A r \in GenericLists : RuleGood(r)
<1>1. RuleGood(Optional("<type_generics?>", <<"[", "<type_generics>", "<infinite?>", "]">>))
  <2>1. /\ <<"[", "<type_generics>", "<infinite?>", "]">> \in Seq(Plain)
        /\ <<"[", "<type_generics>", "<infinite?>", "]">> # <<>>
    BY Punctuation, PartSymbols, Tuple4, Zenon
  <2>2. "<type_generics?>" \in Nonterminals /\ "<type_generics?>" \notin TypeSymbols
    BY OtherSorts, Zenon
  <2> QED
    BY <2>1, <2>2, Optionally, Zenon
<1>2. RuleGood(Optional("<method_generics?>", <<"[", "<method_generics>", "<infinite?>", "]">>))
  <2>1. "[" \in Ordinary \ Items /\ "<method_generics>" \in Ordinary \ Items
          /\ "<infinite?>" \in Ordinary \ Items /\ "]" \in Ordinary \ Items
    <3>1. "<method_generics>" \notin Items
      BY DEF Items
    <3> QED
      BY <3>1, Punctuation, PartSymbols, SortsOfSymbols, Zenon
  <2>2. "<method_generics?>" \in Nonterminals /\ "<method_generics?>" \notin TypeSymbols
          /\ "<method_generics?>" \in MethodGenerics
    BY OtherSorts, Zenon DEF MethodGenerics
  <2>3. ASSUME NEW of \in Nonterminals, of \notin TypeSymbols, of \in MethodGenerics,
               NEW a \in Ordinary \ Items, NEW b \in Ordinary \ Items,
               NEW c \in Ordinary \ Items, NEW d \in Ordinary \ Items
        PROVE  RuleGood(Optional(of, <<a, b, c, d>>))
    <3>1. <<a, b, c, d>> \in Seq(Ordinary \ Items) /\ <<a, b, c, d>> # <<>>
      BY Tuple4
    <3>2. Head(<<a, b, c, d>>) \notin ItemKeywords
      BY Firsts
    <3> QED
      BY <2>3, <3>1, <3>2 DEF RuleGood, OrdinaryRule, Optional, Rule
  <2> QED
    BY <2>1, <2>2, <2>3, Zenon
<1>3. RuleGood(Optional("<infinite?>", <<"+">>))
  BY Punctuation, OtherSorts, Tuple1, Optionally, Zenon
<1> QED
  BY <1>1, <1>2, <1>3, Zenon DEF GenericLists

LEMMA ClassDefRulesGood == \A r \in ClassDefRules : RuleGood(r)
<1>1. RuleGood(Optional("<main?>", <<"__MAIN", "(", "<u32>", ")">>))
  BY Punctuation, PartSymbols, WordSymbols, OtherSorts, Tuple4, Optionally, Zenon
<1>2. RuleGood(Optional("<parent?>", <<":", "<type>">>))
  BY Punctuation, PartSymbols, OtherSorts, Tuple2, Optionally, Zenon
<1> QED
  BY <1>1, <1>2, Zenon DEF ClassDefRules

LEMMA InterfaceDefRulesGood == \A r \in InterfaceDefRules : RuleGood(r)
<1>1. RuleGood(Optional("<required?>", <<":", "<required>">>))
  BY Punctuation, PartSymbols, OtherSorts, Tuple2, Optionally, Zenon
<1>2. \A f \in TypeFirsts : f \notin ItemKeywords
  BY Firsts, TypeSymbol, Zenon DEF TypeFirsts
<1>3. \A r \in Punctuated("<required>", "<more_required>", TypeFirsts, "<type>") : RuleGood(r)
  BY <1>2, PartSymbols, OtherSorts, PunctuatedGood, Zenon
<1> QED
  BY <1>1, <1>3, Zenon DEF InterfaceDefRules

LEMMA Fragments ==
    /\ Into \in Seq(Plain) /\ Call \in Seq(Plain)
    /\ MethodReference \in Seq(Plain) /\ Into # <<>>
<1>1. Into \in Seq(Plain) /\ Into # <<>>
  BY Punctuation, PartSymbols, Tuple3, Zenon DEF Into
<1>2. <<"(", "<args>", ")">> \in Seq(Plain)
  BY Punctuation, PartSymbols, Tuple3, Zenon
<1>3. MethodReference \in Seq(Plain)
  BY PartSymbols, Tuple2, Zenon DEF MethodReference
<1> QED
  BY <1>1, <1>2, <1>3, Join, Zenon DEF Call

LEMMA MethodRulesGood == \A r \in MethodRules : RuleGood(r)
<1>1. RuleGood(Rule("<parameter>", "[", <<"[", "<refs>", "]", "<type>">>))
  BY Punctuation, PartSymbols, OtherSorts, Firsts, Tuple4, Ordinarily, Zenon
<1>2. RuleGood(Rule("<refs>", "ref", <<"ref", "<refs>">>))
  BY PartSymbols, WordSymbols, OtherSorts, Firsts, Tuple2, Ordinarily, Zenon
<1>3. \A r \in Punctuated("<parameters>", "<more_parameters>", {"["}, "<parameter>") :
        RuleGood(r)
  <2>1. \A f \in {"["} : f \notin ItemKeywords
    BY Punctuation, Firsts, Zenon
  <2> QED
    BY <2>1, PartSymbols, OtherSorts, PunctuatedGood, Zenon
<1>4. RuleGood(Optional("<locals?>", <<"locals", "(", "<locals>", ")">>))
  BY Punctuation, PartSymbols, WordSymbols, OtherSorts, Tuple4, Optionally, Zenon
<1>5. RuleGood(Rule("<locals>", "name", <<"<name>", ":", "<type>", "<locals>">>))
  BY Punctuation, PartSymbols, OtherSorts, Firsts, Tuple4, Ordinarily, Zenon
<1>6. RuleGood(Impl)
  <2>1. <<"impl">> \o MethodReference \in Seq(Plain) /\ <<"impl">> \o MethodReference # <<>>
    BY WordSymbols, Fragments, Tuple1, Join, Zenon
  <2>2. <<"in", "<type>">> \in Seq(Plain)
    BY WordSymbols, PartSymbols, Tuple2, Zenon
  <2>3. \A to : to = <<"impl">> \o MethodReference \o <<"in", "<type>">> =>
          to \in Seq(Plain) /\ to # <<>>
    BY <2>1, <2>2, Join, Zenon
  <2> QED
    BY <2>3, OtherSorts, Optionally, Zenon DEF Impl
<1>7. RuleGood(Optional("<table?>", <<"table">>))
  BY WordSymbols, OtherSorts, Tuple1, Optionally, Zenon
<1>8. \A r \in Parameters : RuleGood(r)
  BY <1>1, <1>2, <1>3, Zenon DEF Parameters
<1>9. \A r \in Locals : RuleGood(r)
  BY <1>4, <1>5, Zenon DEF Locals
<1> QED
  BY <1>6, <1>7, <1>8, <1>9, Zenon DEF MethodRules

LEMMA OperandRulesGood == \A r \in OperandRules : RuleGood(r)
<1>1. RuleGood(Optional("<condition?>", <<"if", "<name>">>))
  BY PartSymbols, WordSymbols, OtherSorts, Tuple2, Optionally, Zenon
<1>2. \A s \in {"success", "failure"} :
        RuleGood(Optional("<condition?>", <<s, "__all_zero", "<name>">>))
  BY PartSymbols, WordSymbols, OtherSorts, Tuple3, Optionally, Zenon
<1>3. RuleGood(Rule("<length>", "int", <<"<u64>">>))
  BY PartSymbols, OtherSorts, Firsts, Tuple1, Ordinarily, Zenon
<1>4. RuleGood(Rule("<length>", "name", <<"<name>">>))
  BY PartSymbols, OtherSorts, Firsts, Tuple1, Ordinarily, Zenon
<1>5. \A t \in {"__absolute", "__forward", "__backward"} : RuleGood(Rule("<target>", t, <<t>>))
  BY WordSymbols, OtherSorts, Firsts, Tuple1, Ordinarily, Zenon
<1>6. \A r \in Punctuated("<args>", "<more_args>", {"name"}, "<name>") : RuleGood(r)
  <2>1. \A f \in {"name"} : f \notin ItemKeywords
    BY Firsts, Zenon
  <2> QED
    BY <2>1, PartSymbols, OtherSorts, PunctuatedGood, Zenon
<1> QED
  BY <1>1, <1>2, <1>3, <1>4, <1>5, <1>6, Zenon DEF OperandRules

LEMMA ContentRulesGood == \A r \in ContentRules : RuleGood(r)
<1>1. \A s \in {"<content>", "<negated>"} : RuleGood(Rule(s, "-", <<"-", "<negated>">>))
  BY Punctuation, PartSymbols, OtherSorts, Firsts, Tuple2, Ordinarily, Zenon
<1>2. RuleGood(Rule("<content>", "__arg", <<"__arg", "(", "<u64>", ")">>))
  BY Punctuation, PartSymbols, WordSymbols, OtherSorts, Firsts, Tuple4, Ordinarily, Zenon
<1>3. RuleGood(Rule("<content>", "static", <<"static", "(", "<type>", "<item>", ")">>))
  BY Punctuation, PartSymbols, WordSymbols, OtherSorts, Firsts, Tuple5, Ordinarily, Zenon
<1>4. RuleGood(Rule("<content>", "__field", <<"__field", "(", "<name>", "<item>", ")">>))
  BY Punctuation, PartSymbols, WordSymbols, OtherSorts, Firsts, Tuple5, Ordinarily, Zenon
<1>5. RuleGood(Rule("<content>", "sizeof", <<"sizeof", "(", "<type>", ")">>))
  BY Punctuation, PartSymbols, WordSymbols, OtherSorts, Firsts, Tuple4, Ordinarily, Zenon
<1> QED
  BY <1>1, <1>2, <1>3, <1>4, <1>5, Zenon DEF ContentRules

LEMMA StatementGood ==
    ASSUME NEW keyword \in StatementKeywords, NEW rest \in Seq(Plain)
    PROVE  RuleGood(StatementRule(keyword, rest))
<1>1. keyword \in Plain /\ keyword \notin ItemKeywords
  BY WordsPlain, Firsts DEF Words
<1>2. \A to : to = <<keyword>> \o rest \o <<"<statements>">> =>
        to \in Seq(Plain) /\ to # <<>>
  BY <1>1, PartSymbols
<1> QED
  BY <1>1, <1>2, OtherSorts, Ordinarily, Zenon DEF StatementRule

LEMMA StatementRulesGood == \A r \in StatementRules : RuleGood(r)
<1>1. RuleGood(Rule("<statements>", "}", <<"}">>))
  BY Punctuation, OtherSorts, Firsts, Tuple1, Ordinarily, Zenon
<1>2. ASSUME NEW keyword \in StatementKeywords, NEW s \in Seq(Plain), NEW t \in Seq(Plain)
      PROVE  RuleGood(StatementRule(keyword, s \o t))
  <2>1. s \o t \in Seq(Plain)
    OBVIOUS
  <2> QED
    BY <2>1, StatementGood, Zenon
<1>3. ASSUME NEW keyword \in StatementKeywords, NEW s \in Seq(Plain)
      PROVE  /\ RuleGood(StatementRule(keyword, s \o Into))
             /\ RuleGood(StatementRule(keyword, s \o Call))
             /\ RuleGood(StatementRule(keyword, s \o MethodReference \o Call))
  <2>1. s \o MethodReference \in Seq(Plain)
    BY Fragments
  <2> QED
    BY <1>2, <2>1, Fragments
<1>4. /\ <<"<content>">> \in Seq(Plain) /\ <<"<name>">> \in Seq(Plain)
      /\ <<"<type>">> \in Seq(Plain)
  BY PartSymbols, Tuple1
<1>5. /\ <<"<name>", "<name>">> \in Seq(Plain)
      /\ <<"__all_zero", "<name>">> \in Seq(Plain)
      /\ <<"<type>", "<length>">> \in Seq(Plain)
      /\ <<"<name>", "as", "<type>">> \in Seq(Plain)
  BY PartSymbols, WordSymbols, Tuple2, Tuple3
<1>6. <<"#", "<name>", "<name>">> \in Seq(Plain)
  BY Punctuation, PartSymbols, Tuple3, Zenon
<1>7. /\ <<"<name>", "->", "<name>", ".", "<item>", ";">> \in Seq(Plain)
      /\ <<"<name>", "->", "<item>", ";">> \in Seq(Plain)
      /\ <<"<name>", "->", "<type>", "<item>", ";">> \in Seq(Plain)
  BY Punctuation, PartSymbols, Tuple4, Tuple5, Tuple6, Zenon
<1>8. /\ <<"<name>", ";">> \in Seq(Plain) /\ <<";">> \in Seq(Plain)
      /\ <<"<condition?>", "<target>", "<u64>", ";">> \in Seq(Plain)
  BY Punctuation, PartSymbols, Tuple1, Tuple2, Tuple4, Zenon
<1>9. /\ "Load" \in StatementKeywords /\ "ReadPointerTo" \in StatementKeywords
      /\ "WritePointer" \in StatementKeywords /\ "Check" \in StatementKeywords
      /\ "NewObject" \in StatementKeywords /\ "NewArray" \in StatementKeywords
      /\ "InstanceCall" \in StatementKeywords /\ "StaticCall" \in StatementKeywords
      /\ "InterfaceCall" \in StatementKeywords /\ "NonPurusCall" \in StatementKeywords
      /\ "SetField" \in StatementKeywords /\ "SetThisField" \in StatementKeywords
      /\ "SetStaticField" \in StatementKeywords /\ "Throw" \in StatementKeywords
      /\ "ReturnVal" \in StatementKeywords /\ "Jump" \in StatementKeywords
      /\ "Nop" \in StatementKeywords
  BY DEF StatementKeywords
<1>10. /\ RuleGood(StatementRule("Load", <<"<content>">> \o Into))
       /\ RuleGood(StatementRule("ReadPointerTo", <<"<name>", "<name>">> \o Into))
       /\ RuleGood(StatementRule("WritePointer", <<"<name>", "<name>">> \o Into))
       /\ RuleGood(StatementRule("Check", <<"__all_zero", "<name>">> \o Into))
       /\ RuleGood(StatementRule("NewArray", <<"<type>", "<length>">> \o Into))
  BY <1>3, <1>4, <1>5, <1>9, Zenon
<1>11. /\ RuleGood(StatementRule("NewObject", <<"<type>">> \o MethodReference \o Call))
       /\ RuleGood(StatementRule("InstanceCall", <<"<name>">> \o MethodReference \o Call))
       /\ RuleGood(StatementRule("InterfaceCall",
                                 <<"<name>", "as", "<type>">> \o MethodReference \o Call))
       /\ RuleGood(StatementRule("StaticCall", <<"<type>">> \o MethodReference \o Call))
       /\ RuleGood(StatementRule("NonPurusCall", <<"#", "<name>", "<name>">> \o Call))
  BY <1>3, <1>4, <1>5, <1>6, <1>9, Zenon
<1>12. /\ RuleGood(StatementRule("SetField",
                                 <<"<name>", "->", "<name>", ".", "<item>", ";">>))
       /\ RuleGood(StatementRule("SetThisField", <<"<name>", "->", "<item>", ";">>))
       /\ RuleGood(StatementRule("SetStaticField",
                                 <<"<name>", "->", "<type>", "<item>", ";">>))
       /\ RuleGood(StatementRule("Throw", <<"<name>", ";">>))
       /\ RuleGood(StatementRule("ReturnVal", <<"<name>", ";">>))
       /\ RuleGood(StatementRule("Jump", <<"<condition?>", "<target>", "<u64>", ";">>))
       /\ RuleGood(StatementRule("Nop", <<";">>))
  BY <1>7, <1>8, <1>9, StatementGood, Zenon
<1> QED
  BY <1>1, <1>10, <1>11, <1>12, Zenon DEF StatementRules

LEMMA Concatenated ==
    ASSUME NEW S, NEW s \in Seq(S), NEW t \in Seq(S)
    PROVE  /\ s \o t \in Seq(S) /\ Len(s \o t) = Len(s) + Len(t)
           /\ \A i \in 1 .. Len(s) : (s \o t)[i] = s[i]
           /\ \A i \in (Len(s) + 1) .. Len(s \o t) : (s \o t)[i] = t[i - Len(s)]
OBVIOUS

\* Four symbols, or the last three of them, before others.
LEMMA Before ==
    ASSUME NEW a, NEW b, NEW c, NEW d, NEW R, NEW body \in Seq(R)
    PROVE  /\ \A w : w = <<a, b, c, d>> \o body =>
                /\ Len(w) = 4 + Len(body)
                /\ w[1] = a /\ w[2] = b /\ w[3] = c /\ w[4] = d
                /\ \A i \in 5 .. Len(w) : w[i] \in R
           /\ \A w : w = Tail(<<a, b, c, d>>) \o body =>
                /\ Len(w) = 3 + Len(body)
                /\ w[1] = b /\ w[2] = c /\ w[3] = d
                /\ \A i \in 4 .. Len(w) : w[i] \in R
<1>1. ASSUME NEW w, w = <<a, b, c, d>> \o body
      PROVE  /\ Len(w) = 4 + Len(body)
             /\ w[1] = a /\ w[2] = b /\ w[3] = c /\ w[4] = d
             /\ \A i \in 5 .. Len(w) : w[i] \in R
  BY <1>1
<1>2. Tail(<<a, b, c, d>>) = <<b, c, d>>
  OBVIOUS
<1>3. ASSUME NEW w, w = <<b, c, d>> \o body
      PROVE  /\ Len(w) = 3 + Len(body)
             /\ w[1] = b /\ w[2] = c /\ w[3] = d
             /\ \A i \in 4 .. Len(w) : w[i] \in R
  BY <1>3
<1> QED
  BY <1>1, <1>2, <1>3, Zenon

\* The header of an item before what is ordinary, with its keyword and without.
LEMMA HeaderShape ==
    ASSUME NEW keyword \in ItemKeywords, NEW list \in AttrLists, NEW close \in Closers,
           NEW body \in Seq(Ordinary)
    PROVE  /\ HeadAt(Header(keyword, list, close) \o body, 3)
           /\ (Header(keyword, list, close) \o body)[1] = keyword
           /\ HeadAt(Tail(Header(keyword, list, close)) \o body, 2)
<1>1. close \in Ordinary /\ Len(body) \in Nat
  <2>1. close \in Ordinary
    BY Punctuation, SortsOfSymbols, Zenon DEF Closers
  <2> QED
    BY <2>1
<1>2. PICK open : open = "["
  OBVIOUS
<1>3. /\ keyword \in Symbols /\ open \in Symbols /\ list \in Symbols /\ close \in Symbols
      /\ body \in Seq(Symbols)
  <2>1. "[" \in Ordinary
    BY Punctuation, SortsOfSymbols, Zenon
  <2> QED
    BY <1>1, <1>2, <2>1 DEF Ordinary, Symbols, Parts, ItemKeywords, Keywords
<1>4. Header(keyword, list, close) = <<keyword, open, list, close>>
  BY <1>2, Zenon DEF Header
<1>5. ASSUME NEW w, w = <<keyword, open, list, close>> \o body
      PROVE  HeadAt(w, 3) /\ w[1] = keyword
  <2>1. /\ Len(w) = 4 + Len(body)
        /\ w[1] = keyword /\ w[2] = open /\ w[3] = list /\ w[4] = close
        /\ \A i \in 5 .. Len(w) : w[i] \in Ordinary
    BY <1>5, Before
  <2>2. \A i \in 4 .. Len(w) : w[i] \in Ordinary
    BY <1>1, <2>1
  <2>3. w \in Seq(Symbols)
    BY <1>5, <1>3
  <2> QED
    BY <1>1, <1>2, <2>1, <2>2, <2>3 DEF HeadAt
<1>6. ASSUME NEW w, w = Tail(<<keyword, open, list, close>>) \o body
      PROVE  HeadAt(w, 2)
  <2>1. /\ Len(w) = 3 + Len(body) /\ w[1] = open /\ w[2] = list /\ w[3] = close
        /\ \A i \in 4 .. Len(w) : w[i] \in Ordinary
    BY <1>6, Before
  <2>2. \A i \in 3 .. Len(w) : w[i] \in Ordinary
    BY <1>1, <2>1
  <2>3. w \in Seq(Symbols)
    BY <1>6, <1>3
  <2> QED
    BY <1>1, <1>2, <2>1, <2>2, <2>3 DEF HeadAt
<1> QED
  BY <1>4, <1>5, <1>6, Zenon

LEMMA ItemsNonterminals == Items \subseteq Nonterminals
BY SortsOfParts DEF Items, OtherParts

LEMMA ItemGood ==
    ASSUME NEW of \in Items, NEW keyword \in ItemKeywords, NEW list \in AttrLists,
           NEW close \in Closers, NEW body \in Seq(Ordinary), NEW rest \in Seq(Settled)
    PROVE  /\ keyword = "method" /\ body \in Seq(Ordinary \ Items) =>
                RuleGood(Rule(of, keyword, (Header(keyword, list, close) \o body) \o rest))
           /\ body \in Seq(Settled) =>
                /\ RuleGood(Rule(of, keyword, (Header(keyword, list, close) \o body) \o rest))
                /\ RuleGood(Rule(of, keyword,
                                 (Tail(Header(keyword, list, close)) \o body) \o rest))
<1>1. rest \in Seq(Ordinary)
  BY SortsOfSymbols
<1>2. body \o rest \in Seq(Ordinary)
  BY <1>1
<1>3. PICK h, b : h = Header(keyword, list, close) /\ b = body \o rest
  OBVIOUS
<1>4. PICK open : open = "["
  OBVIOUS
<1>5. h = <<keyword, open, list, close>>
  BY <1>3, <1>4, Zenon DEF Header
<1>6. (h \o body) \o rest = h \o b /\ (Tail(h) \o body) \o rest = Tail(h) \o b
  <2>1. Tail(h) = <<open, list, close>>
    BY <1>5
  <2>2. /\ (<<keyword, open, list, close>> \o body) \o rest
             = <<keyword, open, list, close>> \o (body \o rest)
        /\ (<<open, list, close>> \o body) \o rest = <<open, list, close>> \o (body \o rest)
    BY <1>1
  <2> QED
    BY <1>3, <1>5, <2>1, <2>2, Zenon
<1>7. HeadAt(h \o b, 3) /\ (h \o b)[1] = keyword /\ HeadAt(Tail(h) \o b, 2)
  BY <1>2, <1>3, HeaderShape
<1>8. keyword \notin MethodGenerics /\ open \notin MethodGenerics /\ list \notin MethodGenerics
        /\ close \notin MethodGenerics
  <2>1. open \notin MethodGenerics /\ close \notin MethodGenerics
    BY <1>4, Zenon DEF Closers, MethodGenerics
  <2>2. keyword \notin MethodGenerics /\ list \notin MethodGenerics
    BY ListSymbols DEF ItemKeywords, TypeKeywords, MemberKeywords, MethodGenerics
  <2> QED
    BY <2>1, <2>2
<1>9. keyword \notin Items /\ open \notin Items /\ list \notin Items /\ close \notin Items
  <2>1. open \notin Items /\ close \notin Items
    BY <1>4, Zenon DEF Closers, Items
  <2>2. keyword \notin Items /\ list \notin Items
    BY ListSymbols DEF ItemKeywords, TypeKeywords, MemberKeywords, Items
  <2> QED
    BY <2>1, <2>2
<1>10. \A s \in Settled : s \notin MethodGenerics
  BY DEF Settled
<1>11. ASSUME body \in Seq(Settled), NEW w, w = h \o b \/ w = Tail(h) \o b
       PROVE  \A i \in DOMAIN w : w[i] \notin MethodGenerics
  <2>1. b \in Seq(Settled)
    BY <1>3, <1>11
  <2>2. /\ w = h \o b => /\ Len(w) = 4 + Len(b)
                         /\ w[1] = keyword /\ w[2] = open /\ w[3] = list /\ w[4] = close
                         /\ \A i \in 5 .. Len(w) : w[i] \in Settled
        /\ w = Tail(h) \o b => /\ Len(w) = 3 + Len(b)
                               /\ w[1] = open /\ w[2] = list /\ w[3] = close
                               /\ \A i \in 4 .. Len(w) : w[i] \in Settled
    <3>1. PICK x, y, z, v : x = keyword /\ y = open /\ z = list /\ v = close
      OBVIOUS
    <3>2. ASSUME w = h \o b
          PROVE  /\ Len(w) = 4 + Len(b) /\ w[1] = x /\ w[2] = y /\ w[3] = z /\ w[4] = v
                 /\ \A i \in 5 .. Len(w) : w[i] \in Settled
      <4>1. w = <<x, y, z, v>> \o b
        BY <1>5, <3>1, <3>2
      <4> QED
        BY <2>1, <4>1, Before
    <3>3. ASSUME w = Tail(h) \o b
          PROVE  /\ Len(w) = 3 + Len(b) /\ w[1] = y /\ w[2] = z /\ w[3] = v
                 /\ \A i \in 4 .. Len(w) : w[i] \in Settled
      <4>1. w = Tail(<<x, y, z, v>>) \o b
        BY <1>5, <3>1, <3>3
      <4> QED
        BY <2>1, <4>1, Before
    <3> QED
      BY <3>1, <3>2, <3>3
  <2>3. DOMAIN w = 1 .. Len(w) /\ Len(w) \in Nat
    BY <1>7, <1>11 DEF HeadAt
  <2>4. ASSUME w = h \o b, NEW i \in DOMAIN w PROVE w[i] \notin MethodGenerics
    <3>1. i \in {1, 2, 3, 4} \/ i \in 5 .. Len(w)
      BY <2>3
    <3> QED
      BY <1>8, <1>10, <2>2, <2>4, <3>1
  <2>5. ASSUME w = Tail(h) \o b, NEW i \in DOMAIN w PROVE w[i] \notin MethodGenerics
    <3>1. i \in {1, 2, 3} \/ i \in 4 .. Len(w)
      BY <2>3
    <3> QED
      BY <1>8, <1>10, <2>2, <2>5, <3>1
  <2> QED
    BY <1>11, <2>4, <2>5
<1>12. ASSUME keyword = "method", body \in Seq(Ordinary \ Items), NEW w, w = h \o b
       PROVE  \A i \in DOMAIN w : w[i] \in MethodGenerics =>
                 \A j \in 1 .. (i - 1) : w[j] \notin Items
  <2>1. /\ Len(b) = Len(body) + Len(rest) /\ Len(body) \in Nat /\ Len(rest) \in Nat
        /\ \A i \in 1 .. Len(body) : b[i] \in Ordinary \ Items
        /\ \A i \in (Len(body) + 1) .. Len(b) : b[i] \in Settled
    <3>1. /\ Len(b) = Len(body) + Len(rest) /\ Len(body) \in Nat /\ Len(rest) \in Nat
          /\ \A i \in 1 .. Len(body) : b[i] = body[i]
          /\ \A i \in (Len(body) + 1) .. Len(b) : b[i] = rest[i - Len(body)]
      BY <1>1, <1>3, Concatenated
    <3>2. \A i \in 1 .. Len(body) : body[i] \in Ordinary \ Items
      BY <1>12
    <3>3. \A i \in 1 .. Len(rest) : rest[i] \in Settled
      OBVIOUS
    <3>4. \A i \in (Len(body) + 1) .. Len(b) : i - Len(body) \in 1 .. Len(rest)
      BY <3>1
    <3> QED
      BY <3>1, <3>2, <3>3, <3>4
  <2>2. /\ Len(w) = 4 + Len(b) /\ DOMAIN w = 1 .. Len(w)
        /\ w[1] = keyword /\ w[2] = open /\ w[3] = list /\ w[4] = close
        /\ \A i \in 5 .. Len(w) : w[i] = b[i - 4]
    BY <1>2, <1>3, <1>5, <1>12
  <2> SUFFICES ASSUME NEW i \in DOMAIN w, w[i] \in MethodGenerics,
                      NEW j \in 1 .. (i - 1)
               PROVE  w[j] \notin Items
    OBVIOUS
  <2>3. i \in 5 .. Len(w)
    <3>1. i \in {1, 2, 3, 4} \/ i \in 5 .. Len(w)
      BY <2>1, <2>2
    <3> QED
      BY <1>8, <2>2, <3>1
  <2>4. i - 4 \in 1 .. Len(body)
    <3>1. w[i] = b[i - 4] /\ i - 4 \in 1 .. Len(b)
      BY <2>1, <2>2, <2>3
    <3>2. b[i - 4] \notin Settled
      BY <1>10, <3>1
    <3> QED
      BY <2>1, <3>1, <3>2
  <2>5. CASE j \in {1, 2, 3, 4}
    BY <1>9, <2>2, <2>5
  <2>6. CASE j \in 5 .. Len(w)
    <3>1. w[j] = b[j - 4] /\ j - 4 \in 1 .. Len(body)
      BY <2>1, <2>2, <2>4, <2>6
    <3> QED
      BY <2>1, <3>1
  <2> QED
    BY <2>1, <2>2, <2>3, <2>5, <2>6
<1>13. ASSUME NEW to, (HeadAt(to, 3) /\ to[1] = keyword) \/ HeadAt(to, 2),
              \A i \in DOMAIN to : to[i] \in MethodGenerics =>
                 to[1] = "method" /\ \A j \in 1 .. (i - 1) : to[j] \notin Items
       PROVE  RuleGood(Rule(of, keyword, to))
  <2>1. PICK r : r = Rule(of, keyword, to)
    OBVIOUS
  <2>2. r.of = of /\ r.first = keyword /\ r.to = to
    BY <2>1 DEF Rule
  <2>3. ItemRule(r)
    BY <1>13, <2>2 DEF ItemRule
  <2> QED
    BY <2>1, <2>2, <2>3, ItemsNonterminals DEF RuleGood
<1>14. ASSUME keyword = "method", body \in Seq(Ordinary \ Items)
       PROVE  RuleGood(Rule(of, keyword, h \o b))
  BY <1>7, <1>12, <1>13, <1>14
<1>15. ASSUME body \in Seq(Settled)
       PROVE  RuleGood(Rule(of, keyword, h \o b)) /\ RuleGood(Rule(of, keyword, Tail(h) \o b))
  BY <1>7, <1>11, <1>13, <1>15
<1> QED
  BY <1>3, <1>6, <1>14, <1>15

LEMMA Thirteen ==
    ASSUME NEW S, NEW a \in S, NEW b \in S, NEW c \in S, NEW d \in S, NEW e \in S, NEW f \in S,
           NEW g \in S, NEW h \in S, NEW i \in S, NEW j \in S, NEW k \in S, NEW l \in S,
           NEW m \in S
    PROVE  <<a, b, c, d, e, f, g, h, i, j, k, l, m>> \in Seq(S)
OBVIOUS

LEMMA ItemSorts ==
    /\ "<file>" \in Items /\ "<items>" \in Items /\ "<interface_items>" \in Items
    /\ "class" \in ItemKeywords /\ "struct" \in ItemKeywords /\ "interface" \in ItemKeywords
    /\ "method" \in ItemKeywords /\ "field" \in ItemKeywords
    /\ "<class_attr>" \in AttrLists /\ "<struct_attr>" \in AttrLists
    /\ "<interface_attr>" \in AttrLists /\ "<field_attr>" \in AttrLists
    /\ "<method_attr>" \in AttrLists
    /\ "]" \in Closers /\ "}" \in Closers
<1>1. "]" \in Closers /\ "}" \in Closers
  BY Zenon DEF Closers
<1>2. /\ "<file>" \in Items /\ "<items>" \in Items /\ "<interface_items>" \in Items
      /\ "class" \in ItemKeywords /\ "struct" \in ItemKeywords /\ "interface" \in ItemKeywords
      /\ "method" \in ItemKeywords /\ "field" \in ItemKeywords
      /\ "<class_attr>" \in AttrLists /\ "<struct_attr>" \in AttrLists
      /\ "<interface_attr>" \in AttrLists /\ "<field_attr>" \in AttrLists
      /\ "<method_attr>" \in AttrLists
  BY ListSymbols DEF Items, ItemKeywords, TypeKeywords, MemberKeywords
<1> QED
  BY <1>1, <1>2, Zenon

LEMMA SettledSymbols ==
    /\ "<items>" \in Settled /\ "<interface_items>" \in Settled /\ "<file>" \in Settled
    /\ \A s \in Plain : s \in Settled /\ s \in Ordinary \ Items
    /\ \A s \in Settled : s \in Ordinary
    /\ "<method_generics?>" \in Ordinary \ Items
<1>1. Items \cap MethodGenerics = {} /\ "<method_generics?>" \notin Items
  BY DEF Items, MethodGenerics
<1>2. "<items>" \in Items /\ "<interface_items>" \in Items /\ "<file>" \in Items
  BY DEF Items
<1> QED
  BY <1>1, <1>2, PartSymbols, SortsOfSymbols DEF Settled

LEMMA FileRulesGood == \A r \in FileRules : RuleGood(r)
<1>1. <<"<file>">> \in Seq(Settled)
  BY SettledSymbols, Tuple1
<1>2. \A body \in Seq(Settled) : body \in Seq(Ordinary)
  BY SortsOfSymbols
<1>3. RuleGood(Rule("<file>", "class", ClassDef \o <<"<file>">>))
  <2>1. <<"<main?>", "<name>", "<type_generics?>", "<parent?>", "<where?>", "{", "<items>">>
          \in Seq(Settled)
    BY Punctuation, PartSymbols, SettledSymbols, Tuple7, Zenon
  <2> QED
    BY <1>1, <1>2, <2>1, ItemSorts, ItemGood, Zenon DEF ClassDef
<1>4. RuleGood(Rule("<file>", "struct", StructDef \o <<"<file>">>))
  <2>1. <<"<name>", "<type_generics?>", "<where?>", "{", "<items>">> \in Seq(Settled)
    BY Punctuation, PartSymbols, SettledSymbols, Tuple5, Zenon
  <2> QED
    BY <1>1, <1>2, <2>1, ItemSorts, ItemGood, Zenon DEF StructDef
<1>5. RuleGood(Rule("<file>", "interface", InterfaceDef \o <<"<file>">>))
  <2>1. <<"<name>", "<type_generics?>", "<required?>", "<where?>", "{", "<interface_items>">>
          \in Seq(Settled)
    BY Punctuation, PartSymbols, SettledSymbols, Tuple6, Zenon
  <2> QED
    BY <1>1, <1>2, <2>1, ItemSorts, ItemGood, Zenon DEF InterfaceDef
<1> QED
  BY <1>3, <1>4, <1>5, Zenon DEF FileRules

LEMMA ItemRulesGood == \A r \in ItemRules : RuleGood(r)
<1>1. ASSUME NEW of \in Items, NEW rest \in Seq(Settled)
      PROVE  /\ RuleGood(Rule(of, "method", Method \o rest))
             /\ RuleGood(Rule(of, "field", Field \o rest))
  <2>1. <<"<name>", "<method_generics?>", "(", "<parameters>", ")", "->", "<type>", "<impl?>",
          "<where?>", "{", "<locals?>", "<table?>", "<statements>">> \in Seq(Ordinary \ Items)
    BY Punctuation, PartSymbols, SettledSymbols, Thirteen, Zenon
  <2>2. \A body \in Seq(Ordinary \ Items) : body \in Seq(Ordinary)
    OBVIOUS
  <2>3. RuleGood(Rule(of, "method", Method \o rest))
    BY <2>1, <2>2, ItemSorts, ItemGood, Zenon DEF Method
  <2>4. <<"<name>", ":", "<type>", ";">> \in Seq(Settled)
    BY Punctuation, PartSymbols, SettledSymbols, Tuple4, Zenon
  <2>5. \A body \in Seq(Settled) : body \in Seq(Ordinary)
    BY SortsOfSymbols
  <2>6. CASE DebugAssertions
    BY <2>3, <2>4, <2>5, <2>6, ItemSorts, ItemGood, Zenon DEF Field
  <2>7. CASE ~DebugAssertions
    BY <2>3, <2>4, <2>5, <2>7, ItemSorts, ItemGood, Zenon DEF Field
  <2> QED
    BY <2>3, <2>6, <2>7
<1>2. \A s \in {"<items>", "<interface_items>"} : s \in Items /\ <<s>> \in Seq(Settled)
  BY SettledSymbols, Tuple1, ItemSorts, Zenon
<1>3. \A s \in {"<items>", "<interface_items>"} : RuleGood(Rule(s, "}", <<"}">>))
  <2>1. ASSUME NEW s \in Items, NEW c \in Plain, s \notin TypeSymbols
        PROVE  RuleGood(Rule(s, c, <<c>>))
    BY <2>1, ItemsNonterminals, Tuple1, Firsts, Ordinarily
  <2>2. "<items>" \notin TypeSymbols /\ "<interface_items>" \notin TypeSymbols
    BY Zenon DEF TypeSymbols
  <2> QED
    BY <1>2, <2>1, <2>2, Punctuation, Zenon
<1> QED
  BY <1>1, <1>2, <1>3, Zenon DEF ItemRules

\* Every rule keeps the shape of the stack.
LEMMA RulesGood == \A r \in Rules : RuleGood(r)
BY ReferencesGood, TypeReferencesGood, GenericListsGood, ClassDefRulesGood,
   InterfaceDefRulesGood, MethodRulesGood, FileRulesGood, ItemRulesGood, StatementRulesGood,
   OperandRulesGood, ContentRulesGood, Zenon DEF Rules

----------------------------------------------------------------------------
(* The invariant                                                           *)

NameKinds == {"name", "bad_string"}
ListWords == UNION {Modifiers[l] : l \in AttrLists}

\* Of the tokens ts: the i-th may stand in a list, one at q is the end of the
\* list of the item at x, and what is written there.
Listable(ts, i) == ts[i].form = "int" \/ Kind(ts[i]) \in ListWords

Ends(ts, x, q) ==
    /\ q >= x + 2 /\ Kind(ts[q]) \in Closers
    /\ \A i \in (x + 2) .. (q - 1) : Kind(ts[i]) \notin Closers

InForce(ts, p, q) ==
    {Kind(ts[i]) : i \in {i \in p .. q :
        /\ Kind(ts[i]) # "int"
        /\ \A j \in (i + 1) .. q : Kind(ts[j]) \notin Group(Kind(ts[i]))}}
      \cup (IF \E i \in p .. q : Kind(ts[i]) \in Visibility THEN {} ELSE {"private"})

\* The node n is of the list of the item at x that ends at q.
OfList(ts, n, x, q) ==
    /\ n.at \in (x + 2) .. (q - 1)
    /\ \A i \in (n.at + 1) .. (q - 1) : Kind(ts[i]) # "int"
    /\ n.value = ValueOf[ts[n.at].text]
    /\ n.mods = InForce(ts, x + 2, q - 1)

\* What the first m of the nodes ns say of the tokens before place e.
InOrder(ns, e, m) ==
    /\ \A k \in 1 .. m : ns[k].at \in 1 .. (e - 1)
    /\ \A j, k \in 1 .. m : j < k => ns[j].at < ns[k].at

NamesRead(ts, ns, e, m) ==
    \A p \in 1 .. (e - 1) : Kind(ts[p]) \in NameKinds => \E k \in 1 .. m : ns[k].at = p

ItemRead(ts, ns, x, e, m) ==
    \E q \in (x + 2) .. (e - 1) :
        /\ Ends(ts, x, q)
        /\ \E k \in 1 .. m : /\ OfList(ts, ns[k], x, q)
                             /\ \A j \in 1 .. m : ns[j].at \in (x + 2) .. (q - 1) => j = k

ItemsRead(ts, ns, e, m) ==
    \A x \in 1 .. (e - 1) : Kind(ts[x]) \in ItemKeywords => ItemRead(ts, ns, x, e, m)

ReadBy(ts, ns, e, m) ==
    InOrder(ns, e, m) /\ NamesRead(ts, ns, e, m) /\ ItemsRead(ts, ns, e, m)

\* The header of the item at x is being read, and only its last s nodes are of
\* that item.
ReadBut(ts, ns, x, e, m) ==
    /\ InOrder(ns, e, m) /\ NamesRead(ts, ns, e, m) /\ ItemsRead(ts, ns, x, m)
    /\ x \in 1 .. (e - 1) /\ Kind(ts[x]) \in ItemKeywords
    /\ \A i \in (x + 1) .. (e - 1) : Kind(ts[i]) \notin ItemKeywords

\* What is read of the list of the item at x.
ListInv(ts, a, x, e) ==
    /\ \A i \in (x + 2) .. (e - 1) : Listable(ts, i)
    /\ a.mods = InForce(ts, x + 2, e - 1)
    /\ IF a.index = 0
       THEN \A i \in (x + 2) .. (e - 1) : Kind(ts[i]) # "int"
       ELSE /\ a.index \in (x + 2) .. (e - 1) /\ ts[a.index].form = "int"
            /\ \A i \in (a.index + 1) .. (e - 1) : Kind(ts[i]) # "int"

AtKeyword ==
    /\ HeadAt(want, 3) /\ Token = want[1] /\ attr = FreshAttr
    /\ ReadBy(tokens, nodes, pos, Len(nodes))

\* In a release build the keyword of a field may still be the next token.
AtBracket ==
    /\ HeadAt(want, 2) /\ attr = FreshAttr
    /\ \/ Token \in ItemKeywords /\ ReadBy(tokens, nodes, pos, Len(nodes))
       \/ ReadBut(tokens, nodes, pos - 1, pos, Len(nodes))

InList ==
    /\ HeadAt(want, 1)
    /\ \E x \in 1 .. (pos - 2) :
          /\ ReadBut(tokens, nodes, x, pos, Len(nodes))
          /\ ListInv(tokens, attr, x, pos)
          /\ \A k \in DOMAIN nodes : nodes[k].at <= x

ListRead ==
    /\ want \in Seq(Ordinary) /\ want # <<>> /\ want[1] \in Closers /\ nodes # <<>>
    /\ \E x \in 1 .. (pos - 2) :
          /\ ReadBut(tokens, nodes, x, pos, Len(nodes))
          /\ \A i \in (x + 2) .. (pos - 1) : Listable(tokens, i)
          /\ OfList(tokens, nodes[Len(nodes)], x, pos)
          /\ \A k \in 1 .. (Len(nodes) - 1) : nodes[k].at <= x

Between == want \in Seq(Ordinary) /\ ReadBy(tokens, nodes, pos, Len(nodes))

\* A type is tried as an argument of a reference.
TryShape(w) ==
    \E k \in DOMAIN w : /\ w[k] = "<again>"
                        /\ \A i \in 1 .. (k - 1) : w[i] \in TypeSymbols
                        /\ \A i \in (k + 1) .. Len(w) : w[i] \in Ordinary

Trying ==
    /\ TryShape(want)
    /\ ReadBy(tokens, nodes, pos, Len(nodes))
    /\ ReadBy(tokens, nodes, saved.pos, saved.nodes)
    /\ attr.index < saved.pos

Stage == AtKeyword \/ AtBracket \/ InList \/ ListRead \/ Between \/ Trying

IsSeq(s) == \E S : s \in Seq(S)

\* What TypeOK leaves open.
Typed == /\ tokens \in Inputs /\ IsSeq(nodes)
         /\ attr \in [index : Nat, mods : SUBSET Keywords]

GrammarInv == /\ Typed /\ TypeOK /\ Stage
              /\ pc = "done" => AtEnd /\ want = <<>>

----------------------------------------------------------------------------
(* Kinds of tokens                                                         *)

LEMMA ListWordsAre ==
    /\ ListWords \subseteq Keywords
    /\ \A s \in ListWords : s \notin ItemKeywords \cup NameKinds \cup Closers \cup {"int", "eof"}
<1>1. \A l \in AttrLists :
        Modifiers[l] \subseteq ClassModifiers \cup StructModifiers \cup MethodModifiers
  BY ListSymbols DEF AttrLists, Modifiers, InterfaceModifiers, FieldModifiers,
                     ClassModifiers, StructModifiers, MethodModifiers
<1>2. ListWords \subseteq ClassModifiers \cup StructModifiers \cup MethodModifiers
  BY <1>1 DEF ListWords
<1>3. \A s \in ClassModifiers \cup StructModifiers \cup MethodModifiers :
        s \notin ItemKeywords \cup NameKinds \cup {"int", "eof"}
  BY DEF ClassModifiers, StructModifiers, MethodModifiers, Visibility, CallConventions,
         ItemKeywords, TypeKeywords, MemberKeywords, NameKinds
<1>4. \A s \in ClassModifiers \cup StructModifiers \cup MethodModifiers : s \notin Closers
  BY Zenon DEF ClassModifiers, StructModifiers, MethodModifiers, Visibility,
               CallConventions, Closers
<1> QED
  BY <1>2, <1>3, <1>4 DEF Keywords

LEMMA IntKind == \A t : t.form = "int" => Kind(t) = "int"
BY DEF Kind

LEMMA IntOther == "int" \notin ItemKeywords \cup NameKinds \cup Closers \cup ListWords
<1>1. "int" \notin Closers
  BY Zenon DEF Closers
<1> QED
  BY <1>1, ListWordsAre DEF ItemKeywords, TypeKeywords, MemberKeywords, NameKinds

\* What stands in a list ends none, is no name and begins no item.
LEMMA ListableIs ==
    ASSUME NEW ts, NEW i, Listable(ts, i)
    PROVE  Kind(ts[i]) \notin ItemKeywords \cup NameKinds \cup Closers
BY ListWordsAre, IntKind, IntOther DEF Listable

LEMMA CloserIs == \A s \in Closers : s \notin ItemKeywords \cup NameKinds
BY Zenon DEF Closers, ItemKeywords, TypeKeywords, MemberKeywords, NameKinds

----------------------------------------------------------------------------
(* What was read stays read                                                *)

LEMMA ItemKept ==
    ASSUME NEW ts, NEW ns, NEW os, NEW x \in Nat, NEW e \in Nat, NEW f \in Nat, e <= f,
           NEW m \in Nat, NEW n \in Nat, m <= n,
           \A k \in 1 .. m : os[k] = ns[k],
           \A k \in (m + 1) .. n : os[k].at \in Nat /\ os[k].at >= e,
           ItemRead(ts, ns, x, e, m)
    PROVE  ItemRead(ts, os, x, f, n)
<1>1. PICK q \in (x + 2) .. (e - 1) :
        /\ Ends(ts, x, q)
        /\ \E k \in 1 .. m : /\ OfList(ts, ns[k], x, q)
                             /\ \A j \in 1 .. m : ns[j].at \in (x + 2) .. (q - 1) => j = k
  BY DEF ItemRead
<1>2. PICK k \in 1 .. m : /\ OfList(ts, ns[k], x, q)
                          /\ \A j \in 1 .. m : ns[j].at \in (x + 2) .. (q - 1) => j = k
  BY <1>1
<1>3. k \in 1 .. n /\ OfList(ts, os[k], x, q)
  BY <1>2
<1>4. ASSUME NEW j \in 1 .. n, os[j].at \in (x + 2) .. (q - 1) PROVE j = k
  <2>1. j \in 1 .. m
    BY <1>4
  <2> QED
    BY <1>2, <1>4, <2>1
<1>5. q \in (x + 2) .. (f - 1)
  BY <1>1
<1> QED
  BY <1>1, <1>3, <1>4, <1>5 DEF ItemRead

LEMMA ReadSame ==
    ASSUME NEW ts, NEW ns, NEW os, NEW e \in Nat, NEW m \in Nat,
           \A k \in 1 .. m : os[k] = ns[k], ReadBy(ts, ns, e, m)
    PROVE  ReadBy(ts, os, e, m)
<1>1. InOrder(os, e, m) /\ NamesRead(ts, os, e, m)
  BY DEF ReadBy, InOrder, NamesRead
<1>2. ItemsRead(ts, os, e, m)
  <2> SUFFICES ASSUME NEW x \in 1 .. (e - 1), Kind(ts[x]) \in ItemKeywords
               PROVE  ItemRead(ts, os, x, e, m)
    BY DEF ItemsRead
  <2>1. ItemRead(ts, ns, x, e, m)
    BY DEF ReadBy, ItemsRead
  <2> QED
    BY <2>1, ItemKept
<1> QED
  BY <1>1, <1>2 DEF ReadBy

\* A token is read that begins no item; a name gets its node.
LEMMA ReadOn ==
    ASSUME NEW ts, NEW ns, NEW os, NEW e \in Nat \ {0}, NEW m \in Nat, NEW n \in Nat,
           ReadBy(ts, ns, e, m), Kind(ts[e]) \notin ItemKeywords,
           \A k \in 1 .. m : os[k] = ns[k],
           \/ n = m /\ Kind(ts[e]) \notin NameKinds
           \/ n = m + 1 /\ os[n].at = e
    PROVE  ReadBy(ts, os, e + 1, n)
<1>1. InOrder(os, e + 1, n)
  BY DEF ReadBy, InOrder
<1>2. NamesRead(ts, os, e + 1, n)
  <2> SUFFICES ASSUME NEW p \in 1 .. e, Kind(ts[p]) \in NameKinds
               PROVE  \E k \in 1 .. n : os[k].at = p
    BY DEF NamesRead
  <2>1. CASE p = e
    BY <2>1
  <2>2. CASE p # e
    <3>1. PICK k \in 1 .. m : ns[k].at = p
      BY <2>2 DEF ReadBy, NamesRead
    <3> QED
      BY <3>1
  <2> QED
    BY <2>1, <2>2
<1>3. ItemsRead(ts, os, e + 1, n)
  <2> SUFFICES ASSUME NEW x \in 1 .. e, Kind(ts[x]) \in ItemKeywords
               PROVE  ItemRead(ts, os, x, e + 1, n)
    BY DEF ItemsRead
  <2>1. x \in 1 .. (e - 1)
    OBVIOUS
  <2>2. ItemRead(ts, ns, x, e, m)
    BY <2>1 DEF ReadBy, ItemsRead
  <2>3. \A k \in (m + 1) .. n : os[k].at \in Nat /\ os[k].at >= e
    OBVIOUS
  <2> QED
    BY <2>2, <2>3, ItemKept
<1> QED
  BY <1>1, <1>2, <1>3 DEF ReadBy

\* The keyword of an item is read.
LEMMA ReadKeyword ==
    ASSUME NEW ts, NEW ns, NEW os, NEW e \in Nat \ {0}, NEW m \in Nat,
           ReadBy(ts, ns, e, m), Kind(ts[e]) \in ItemKeywords,
           \A k \in 1 .. m : os[k] = ns[k], os[m + 1].at = e
    PROVE  ReadBut(ts, os, e, e + 1, m + 1)
<1>1. InOrder(os, e + 1, m + 1)
  BY DEF ReadBy, InOrder
<1>2. NamesRead(ts, os, e + 1, m + 1)
  <2> SUFFICES ASSUME NEW p \in 1 .. e, Kind(ts[p]) \in NameKinds
               PROVE  \E k \in 1 .. (m + 1) : os[k].at = p
    BY DEF NamesRead
  <2>1. "name" \notin ItemKeywords /\ "bad_string" \notin ItemKeywords
    BY DEF ItemKeywords, TypeKeywords, MemberKeywords
  <2>2. p # e
    BY <2>1 DEF NameKinds
  <2>3. PICK k \in 1 .. m : ns[k].at = p
    BY <2>2 DEF ReadBy, NamesRead
  <2> QED
    BY <2>3
<1>3. ItemsRead(ts, os, e, m + 1)
  <2> SUFFICES ASSUME NEW x \in 1 .. (e - 1), Kind(ts[x]) \in ItemKeywords
               PROVE  ItemRead(ts, os, x, e, m + 1)
    BY DEF ItemsRead
  <2>1. ItemRead(ts, ns, x, e, m)
    BY DEF ReadBy, ItemsRead
  <2> QED
    BY <2>1, ItemKept
<1> QED
  BY <1>1, <1>2, <1>3 DEF ReadBut

\* A token of the header is read that needs no node.
LEMMA ReadHeader ==
    ASSUME NEW ts, NEW ns, NEW x \in Nat, NEW e \in Nat, NEW m \in Nat,
           ReadBut(ts, ns, x, e, m), Kind(ts[e]) \notin ItemKeywords \cup NameKinds
    PROVE  ReadBut(ts, ns, x, e + 1, m)
<1>1. InOrder(ns, e + 1, m) /\ NamesRead(ts, ns, e + 1, m)
  BY DEF ReadBut, InOrder, NamesRead
<1> QED
  BY <1>1 DEF ReadBut

\* The list gets its node.
LEMMA ReadList ==
    ASSUME NEW ts, NEW ns, NEW os, NEW x \in Nat, NEW e \in Nat, NEW m \in Nat,
           ReadBut(ts, ns, x, e, m), \A k \in 1 .. m : ns[k].at <= x,
           \A k \in 1 .. m : os[k] = ns[k], os[m + 1].at \in (x + 2) .. (e - 1)
    PROVE  ReadBut(ts, os, x, e, m + 1)
<1>1. InOrder(os, e, m + 1)
  BY DEF ReadBut, InOrder
<1>2. NamesRead(ts, os, e, m + 1)
  <2> SUFFICES ASSUME NEW p \in 1 .. (e - 1), Kind(ts[p]) \in NameKinds
               PROVE  \E k \in 1 .. (m + 1) : os[k].at = p
    BY DEF NamesRead
  <2>1. PICK k \in 1 .. m : ns[k].at = p
    BY DEF ReadBut, NamesRead
  <2> QED
    BY <2>1
<1>3. ItemsRead(ts, os, x, m + 1)
  <2> SUFFICES ASSUME NEW y \in 1 .. (x - 1), Kind(ts[y]) \in ItemKeywords
               PROVE  ItemRead(ts, os, y, x, m + 1)
    BY DEF ItemsRead
  <2>1. ItemRead(ts, ns, y, x, m)
    BY DEF ReadBut, ItemsRead
  <2> QED
    BY <2>1, ItemKept
<1> QED
  BY <1>1, <1>2, <1>3 DEF ReadBut

\* The closer of the list is read.
LEMMA ReadCloser ==
    ASSUME NEW ts, NEW ns, NEW x \in Nat, NEW e \in Nat, NEW m \in Nat \ {0}, x + 2 <= e,
           ReadBut(ts, ns, x, e, m), \A k \in 1 .. (m - 1) : ns[k].at <= x,
           \A i \in (x + 2) .. (e - 1) : Listable(ts, i), Kind(ts[e]) \in Closers,
           OfList(ts, ns[m], x, e)
    PROVE  ReadBy(ts, ns, e + 1, m)
<1>1. Kind(ts[e]) \notin ItemKeywords \cup NameKinds
  BY CloserIs
<1>2. InOrder(ns, e + 1, m) /\ NamesRead(ts, ns, e + 1, m)
  BY <1>1, ReadHeader DEF ReadBut
<1>3. Ends(ts, x, e)
  BY ListableIs DEF Ends
<1>4. ItemRead(ts, ns, x, e + 1, m)
  <2>1. \A j \in 1 .. m : ns[j].at \in (x + 2) .. (e - 1) => j = m
    BY DEF ReadBut, InOrder
  <2>2. e \in (x + 2) .. ((e + 1) - 1) /\ m \in 1 .. m
    OBVIOUS
  <2> QED
    BY <1>3, <2>1, <2>2 DEF ItemRead
<1>5. ItemsRead(ts, ns, e + 1, m)
  <2> SUFFICES ASSUME NEW y \in 1 .. e, Kind(ts[y]) \in ItemKeywords
               PROVE  ItemRead(ts, ns, y, e + 1, m)
    BY DEF ItemsRead
  <2>1. CASE y = x
    BY <1>4, <2>1
  <2>2. CASE y # x
    <3>1. y \in 1 .. (x - 1)
      BY <1>1, <2>2 DEF ReadBut
    <3>2. ItemRead(ts, ns, y, x, m)
      BY <3>1 DEF ReadBut, ItemsRead
    <3>3. x <= e + 1 /\ \A k \in (m + 1) .. m : ns[k].at \in Nat /\ ns[k].at >= x
      OBVIOUS
    <3> QED
      BY <3>2, <3>3, ItemKept
  <2> QED
    BY <2>1, <2>2
<1> QED
  BY <1>2, <1>5 DEF ReadBy

----------------------------------------------------------------------------
(* Attribute lists                                                         *)

LEMMA Groups ==
    /\ \A v, w : v \in Group(w) => w \in Group(v)
    /\ \A v : "private" \in Group(v) <=> v \in Visibility
    /\ \A v : v # "int" => "int" \notin Group(v)
    /\ "int" \notin Visibility
<1>1. /\ \A v : v \notin Visibility \/ v \notin CallConventions
      /\ "int" \notin Visibility \cup CallConventions /\ "private" \in Visibility
  BY DEF Visibility, CallConventions
<1>2. ASSUME NEW v
      PROVE  Group(v) = IF v \in Visibility THEN Visibility
                        ELSE IF v \in CallConventions THEN CallConventions ELSE {v}
  BY <1>1 DEF Group
<1> QED
  BY <1>1, <1>2

\* The modifiers written from p to q, and who of them is in force.
LEMMA InForceIs ==
    ASSUME NEW ts, NEW p, NEW q, NEW s
    PROVE  s \in InForce(ts, p, q) <=>
             \/ \E i \in p .. q : /\ s = Kind(ts[i]) /\ s # "int"
                                  /\ \A j \in (i + 1) .. q : Kind(ts[j]) \notin Group(s)
             \/ s = "private" /\ \A i \in p .. q : Kind(ts[i]) \notin Visibility
BY DEF InForce

LEMMA InForceModifier ==
    ASSUME NEW ts, NEW p \in Nat, NEW e \in Nat, p <= e, Kind(ts[e]) # "int"
    PROVE  InForce(ts, p, e)
             = (InForce(ts, p, e - 1) \ Group(Kind(ts[e]))) \cup {Kind(ts[e])}
<1> DEFINE w == Kind(ts[e])
<1>1. p .. e = p .. (e - 1) \cup {e} /\ e \notin p .. (e - 1)
  OBVIOUS
<1>2. \A i \in p .. (e - 1) : (i + 1) .. e = (i + 1) .. (e - 1) \cup {e}
  OBVIOUS
<1>3. w \in InForce(ts, p, e)
  <2>1. \A j \in (e + 1) .. e : Kind(ts[j]) \notin Group(w)
    OBVIOUS
  <2> QED
    BY <1>1, <2>1, InForceIs
<1>4. ASSUME NEW s, s # w PROVE s \in InForce(ts, p, e) <=> s \in InForce(ts, p, e - 1) \ Group(w)
  <2>1. ASSUME NEW i \in p .. e, s = Kind(ts[i]), s # "int",
               \A j \in (i + 1) .. e : Kind(ts[j]) \notin Group(s)
        PROVE  s \in InForce(ts, p, e - 1) \ Group(w)
    <3>1. i \in p .. (e - 1)
      BY <1>1, <1>4, <2>1
    <3>2. w \notin Group(s) /\ \A j \in (i + 1) .. (e - 1) : Kind(ts[j]) \notin Group(s)
      BY <1>2, <2>1, <3>1
    <3> QED
      BY <2>1, <3>1, <3>2, InForceIs, Groups
  <2>2. ASSUME s = "private", \A i \in p .. e : Kind(ts[i]) \notin Visibility
        PROVE  s \in InForce(ts, p, e - 1) \ Group(w)
    BY <1>1, <2>2, InForceIs, Groups
  <2>3. ASSUME NEW i \in p .. (e - 1), s = Kind(ts[i]), s # "int", s \notin Group(w),
               \A j \in (i + 1) .. (e - 1) : Kind(ts[j]) \notin Group(s)
        PROVE  s \in InForce(ts, p, e)
    <3>1. \A j \in (i + 1) .. e : Kind(ts[j]) \notin Group(s)
      BY <1>2, <2>3, Groups
    <3> QED
      BY <1>1, <2>3, <3>1, InForceIs
  <2>4. ASSUME s = "private", s \notin Group(w),
               \A i \in p .. (e - 1) : Kind(ts[i]) \notin Visibility
        PROVE  s \in InForce(ts, p, e)
    BY <1>1, <2>4, InForceIs, Groups
  <2>5. ASSUME s \in InForce(ts, p, e) PROVE s \in InForce(ts, p, e - 1) \ Group(w)
    BY <2>1, <2>2, <2>5, InForceIs
  <2>6. ASSUME s \in InForce(ts, p, e - 1) \ Group(w) PROVE s \in InForce(ts, p, e)
    BY <2>3, <2>4, <2>6, InForceIs
  <2> QED
    BY <2>5, <2>6
<1> QED
  BY <1>3, <1>4

LEMMA InForceInteger ==
    ASSUME NEW ts, NEW p \in Nat, NEW e \in Nat, p <= e, Kind(ts[e]) = "int"
    PROVE  InForce(ts, p, e) = InForce(ts, p, e - 1)
<1>1. p .. e = p .. (e - 1) \cup {e} /\ e \notin p .. (e - 1)
  OBVIOUS
<1>2. \A i \in p .. (e - 1) : (i + 1) .. e = (i + 1) .. (e - 1) \cup {e}
  OBVIOUS
<1>3. ASSUME NEW s, s # "int", NEW i \in p .. (e - 1)
      PROVE  (\A j \in (i + 1) .. e : Kind(ts[j]) \notin Group(s))
               <=> (\A j \in (i + 1) .. (e - 1) : Kind(ts[j]) \notin Group(s))
  BY <1>2, <1>3, Groups
<1>4. (\A i \in p .. e : Kind(ts[i]) \notin Visibility)
        <=> (\A i \in p .. (e - 1) : Kind(ts[i]) \notin Visibility)
  BY <1>1, Groups
<1>5. ASSUME NEW s PROVE s \in InForce(ts, p, e) <=> s \in InForce(ts, p, e - 1)
  <2>1. (\E i \in p .. e : /\ s = Kind(ts[i]) /\ s # "int"
                           /\ \A j \in (i + 1) .. e : Kind(ts[j]) \notin Group(s))
          <=> \E i \in p .. (e - 1) :
                /\ s = Kind(ts[i]) /\ s # "int"
                /\ \A j \in (i + 1) .. (e - 1) : Kind(ts[j]) \notin Group(s)
    BY <1>1, <1>3
  <2> QED
    BY <1>4, <2>1, InForceIs
<1> QED
  BY <1>5

LEMMA ListBegins ==
    ASSUME NEW ts, NEW x \in Nat PROVE ListInv(ts, FreshAttr, x, x + 2)
<1>1. (x + 2) .. ((x + 2) - 1) = {}
  OBVIOUS
<1>2. InForce(ts, x + 2, (x + 2) - 1) = {"private"}
  BY <1>1 DEF InForce
<1> QED
  BY <1>1, <1>2 DEF ListInv, FreshAttr

LEMMA ListModifier ==
    ASSUME NEW ts, NEW a, NEW b, NEW x \in Nat, NEW e \in Nat, x + 2 <= e,
           ListInv(ts, a, x, e), Kind(ts[e]) \in ListWords,
           b.mods = (a.mods \ Group(Kind(ts[e]))) \cup {Kind(ts[e])}, b.index = a.index
    PROVE  ListInv(ts, b, x, e + 1)
<1>1. Kind(ts[e]) # "int" /\ Listable(ts, e)
  BY ListWordsAre DEF Listable
<1>2. (x + 2) .. ((e + 1) - 1) = (x + 2) .. (e - 1) \cup {e} /\ (e + 1) - 1 = e
  OBVIOUS
<1>3. b.mods = InForce(ts, x + 2, (e + 1) - 1)
  <2>1. a.mods = InForce(ts, x + 2, e - 1)
    BY DEF ListInv
  <2> QED
    BY <1>1, <1>2, <2>1, InForceModifier
<1>4. \A i \in (x + 2) .. ((e + 1) - 1) : Listable(ts, i)
  BY <1>1, <1>2 DEF ListInv
<1>5. IF b.index = 0
      THEN \A i \in (x + 2) .. ((e + 1) - 1) : Kind(ts[i]) # "int"
      ELSE /\ b.index \in (x + 2) .. ((e + 1) - 1) /\ ts[b.index].form = "int"
           /\ \A i \in (b.index + 1) .. ((e + 1) - 1) : Kind(ts[i]) # "int"
  <2>1. CASE b.index = 0
    BY <1>1, <1>2, <2>1 DEF ListInv
  <2>2. CASE b.index # 0
    <3>1. /\ b.index \in (x + 2) .. (e - 1) /\ ts[b.index].form = "int"
          /\ \A i \in (b.index + 1) .. (e - 1) : Kind(ts[i]) # "int"
      BY <2>2 DEF ListInv
    <3> QED
      BY <1>1, <2>2, <3>1
  <2> QED
    BY <2>1, <2>2
<1> QED
  BY <1>3, <1>4, <1>5 DEF ListInv

LEMMA ListInteger ==
    ASSUME NEW ts, NEW a, NEW b, NEW x \in Nat, NEW e \in Nat, x + 2 <= e,
           ListInv(ts, a, x, e), ts[e].form = "int", b.mods = a.mods, b.index = e
    PROVE  ListInv(ts, b, x, e + 1)
<1>1. Kind(ts[e]) = "int" /\ Listable(ts, e)
  BY IntKind DEF Listable
<1>2. (x + 2) .. ((e + 1) - 1) = (x + 2) .. (e - 1) \cup {e} /\ (e + 1) - 1 = e
  OBVIOUS
<1>3. b.mods = InForce(ts, x + 2, (e + 1) - 1)
  <2>1. a.mods = InForce(ts, x + 2, e - 1)
    BY DEF ListInv
  <2> QED
    BY <1>1, <1>2, <2>1, InForceInteger
<1>4. \A i \in (x + 2) .. ((e + 1) - 1) : Listable(ts, i)
  BY <1>1, <1>2 DEF ListInv
<1>5. /\ b.index # 0 /\ b.index \in (x + 2) .. ((e + 1) - 1)
      /\ \A i \in (b.index + 1) .. ((e + 1) - 1) : Kind(ts[i]) # "int"
  OBVIOUS
<1> QED
  BY <1>3, <1>4, <1>5 DEF ListInv

----------------------------------------------------------------------------
(* The shape of the stack                                                  *)

LEMMA AgainNowhere ==
    "<again>" \notin Ordinary \cup TypeSymbols \cup ItemKeywords \cup AttrLists
<1>1. "<again>" \notin Ordinary /\ "<again>" \notin TypeSymbols
  BY TypeSymbolsOrdinary DEF Ordinary
<1> QED
  BY <1>1, ListSymbols DEF ItemKeywords, TypeKeywords, MemberKeywords

LEMMA AgainSymbol == "<again>" \in Symbols
BY DEF Symbols, Parts, OtherParts

LEMMA Within ==
    ASSUME NEW S, NEW T, NEW t \in Seq(S), \A i \in 1 .. Len(t) : t[i] \in T
    PROVE  t \in Seq(T)
OBVIOUS

LEMMA TailHead ==
    ASSUME NEW w, NEW k \in 1 .. 2, HeadAt(w, k + 1)
    PROVE  HeadAt(Tail(w), k)
<1>1. /\ w \in Seq(Symbols) /\ k + 1 < Len(w) /\ w[k + 1] \in AttrLists
      /\ w[(k + 1) + 1] \in Closers /\ w[(k + 1) - 1] = "["
      /\ \A i \in ((k + 1) + 1) .. Len(w) : w[i] \in Ordinary
  BY DEF HeadAt
<1>2. PICK t : t = Tail(w)
  OBVIOUS
<1>3. /\ t \in Seq(Symbols) /\ Len(t) = Len(w) - 1
      /\ \A i \in 1 .. Len(t) : t[i] = w[i + 1]
  <2>1. w # <<>>
    BY <1>1
  <2> QED
    BY <1>1, <1>2, <2>1
<1>4. /\ k < Len(t) /\ t[k] \in AttrLists /\ t[k + 1] \in Closers
  BY <1>1, <1>3
<1>5. \A i \in (k + 1) .. Len(t) : t[i] \in Ordinary
  BY <1>1, <1>3
<1>6. k > 1 => t[k - 1] = "["
  BY <1>1, <1>3
<1> QED
  BY <1>2, <1>3, <1>4, <1>5, <1>6 DEF HeadAt

LEMMA TailList ==
    ASSUME NEW w, HeadAt(w, 1)
    PROVE  Tail(w) \in Seq(Ordinary) /\ Tail(w) # <<>> /\ Tail(w)[1] \in Closers
<1>1. /\ w \in Seq(Symbols) /\ 1 < Len(w) /\ w[2] \in Closers
      /\ \A i \in 2 .. Len(w) : w[i] \in Ordinary
  BY DEF HeadAt
<1>2. PICK t : t = Tail(w)
  OBVIOUS
<1>3. /\ t \in Seq(Symbols) /\ Len(t) = Len(w) - 1
      /\ \A i \in 1 .. Len(t) : t[i] = w[i + 1]
  <2>1. w # <<>>
    BY <1>1
  <2> QED
    BY <1>1, <1>2, <2>1
<1>4. \A i \in 1 .. Len(t) : t[i] \in Ordinary
  BY <1>1, <1>3
<1>5. t \in Seq(Ordinary) /\ t # <<>> /\ t[1] \in Closers
  BY <1>1, <1>3, <1>4
<1> QED
  BY <1>2, <1>5

LEMMA HeadJoin ==
    ASSUME NEW w, NEW k, NEW v \in Seq(Ordinary), HeadAt(w, k)
    PROVE  HeadAt(w \o v, k) /\ (w \o v)[1] = w[1]
<1>1. /\ w \in Seq(Symbols) /\ k \in 1 .. 3 /\ k < Len(w) /\ w[k] \in AttrLists
      /\ w[k + 1] \in Closers /\ (k > 1 => w[k - 1] = "[") /\ (k > 2 => w[1] \in ItemKeywords)
      /\ \A i \in (k + 1) .. Len(w) : w[i] \in Ordinary
  BY DEF HeadAt
<1>2. v \in Seq(Symbols)
  BY DEF Ordinary
<1>3. PICK u : u = w \o v
  OBVIOUS
<1>4. /\ u \in Seq(Symbols) /\ Len(u) = Len(w) + Len(v)
      /\ \A i \in 1 .. Len(w) : u[i] = w[i]
      /\ \A i \in (Len(w) + 1) .. Len(u) : u[i] = v[i - Len(w)]
  BY <1>1, <1>2, <1>3, Concatenated
<1>5. \A i \in (k + 1) .. Len(u) : u[i] \in Ordinary
  <2> SUFFICES ASSUME NEW i \in (k + 1) .. Len(u) PROVE u[i] \in Ordinary
    OBVIOUS
  <2>1. CASE i <= Len(w)
    BY <1>1, <1>4, <2>1
  <2>2. CASE i > Len(w)
    <3>1. i - Len(w) \in 1 .. Len(v)
      BY <1>1, <1>4, <2>2
    <3>2. i \in (Len(w) + 1) .. Len(u)
      BY <1>1, <2>2
    <3> QED
      BY <1>4, <3>1, <3>2
  <2> QED
    BY <1>1, <2>1, <2>2
<1>6. /\ k < Len(u) /\ u[k] \in AttrLists /\ u[k + 1] \in Closers /\ u[1] = w[1]
      /\ (k > 1 => u[k - 1] = "[") /\ (k > 2 => u[1] \in ItemKeywords)
  BY <1>1, <1>4
<1> QED
  BY <1>1, <1>3, <1>4, <1>5, <1>6 DEF HeadAt

LEMMA TryTail ==
    ASSUME NEW w \in Seq(Symbols), TryShape(w), w[1] # "<again>"
    PROVE  TryShape(Tail(w)) /\ w # <<>> /\ w[1] \in TypeSymbols
<1>1. PICK k \in DOMAIN w : /\ w[k] = "<again>"
                            /\ \A i \in 1 .. (k - 1) : w[i] \in TypeSymbols
                            /\ \A i \in (k + 1) .. Len(w) : w[i] \in Ordinary
  BY DEF TryShape
<1>2. w # <<>> /\ k \in 2 .. Len(w)
  BY <1>1
<1>3. PICK t : t = Tail(w)
  OBVIOUS
<1>4. /\ t \in Seq(Symbols) /\ Len(t) = Len(w) - 1
      /\ \A i \in 1 .. Len(t) : t[i] = w[i + 1]
  BY <1>2, <1>3
<1>5. k - 1 \in DOMAIN t /\ t[k - 1] = "<again>"
  BY <1>1, <1>2, <1>4
<1>6. \A i \in 1 .. ((k - 1) - 1) : t[i] \in TypeSymbols
  BY <1>1, <1>2, <1>4
<1>7. \A i \in ((k - 1) + 1) .. Len(t) : t[i] \in Ordinary
  BY <1>1, <1>2, <1>4
<1>8. TryShape(t)
  BY <1>5, <1>6, <1>7 DEF TryShape
<1> QED
  BY <1>1, <1>2, <1>3, <1>8

LEMMA TryJoin ==
    ASSUME NEW w \in Seq(Symbols), TryShape(w), NEW u \in Seq(TypeSymbols)
    PROVE  TryShape(u \o w) /\ u \o w \in Seq(Symbols)
<1>1. PICK k \in DOMAIN w : /\ w[k] = "<again>"
                            /\ \A i \in 1 .. (k - 1) : w[i] \in TypeSymbols
                            /\ \A i \in (k + 1) .. Len(w) : w[i] \in Ordinary
  BY DEF TryShape
<1>2. u \in Seq(Symbols)
  BY TypeSymbolsOrdinary DEF Ordinary
<1>3. PICK j : j = u \o w
  OBVIOUS
<1>4. /\ j \in Seq(Symbols) /\ Len(j) = Len(u) + Len(w)
      /\ \A i \in 1 .. Len(u) : j[i] = u[i]
      /\ \A i \in (Len(u) + 1) .. Len(j) : j[i] = w[i - Len(u)]
  BY <1>2, <1>3, Concatenated
<1>5. Len(u) \in Nat /\ Len(w) \in Nat /\ k \in 1 .. Len(w)
  OBVIOUS
<1>6. Len(u) + k \in DOMAIN j /\ j[Len(u) + k] = "<again>"
  <2>1. Len(u) + k \in (Len(u) + 1) .. Len(j) /\ (Len(u) + k) - Len(u) = k
    BY <1>4, <1>5
  <2>2. DOMAIN j = 1 .. Len(j)
    BY <1>4
  <2> QED
    BY <1>1, <1>4, <1>5, <2>1, <2>2
<1>7. ASSUME NEW i \in 1 .. ((Len(u) + k) - 1) PROVE j[i] \in TypeSymbols
  <2>1. CASE i <= Len(u)
    <3>1. i \in 1 .. Len(u) /\ u[i] \in TypeSymbols
      BY <1>5, <2>1
    <3> QED
      BY <1>4, <3>1, Zenon
  <2>2. CASE i > Len(u)
    <3>1. i \in (Len(u) + 1) .. Len(j) /\ i - Len(u) \in 1 .. (k - 1)
      BY <1>4, <1>5, <2>2
    <3> QED
      BY <1>1, <1>4, <3>1
  <2> QED
    BY <1>5, <2>1, <2>2
<1>8. ASSUME NEW i \in ((Len(u) + k) + 1) .. Len(j) PROVE j[i] \in Ordinary
  <2>1. i \in (Len(u) + 1) .. Len(j) /\ i - Len(u) \in (k + 1) .. Len(w)
    BY <1>4, <1>5
  <2> QED
    BY <1>1, <1>4, <2>1
<1>9. TryShape(j)
  BY <1>6, <1>7, <1>8 DEF TryShape
<1> QED
  BY <1>3, <1>4, <1>9

LEMMA TryBegins ==
    ASSUME NEW v \in Seq(Ordinary)
    PROVE  TryShape(<<"<type>", "<again>">> \o v) /\ <<"<type>", "<again>">> \o v \in Seq(Symbols)
<1>1. PICK u, again : u = <<"<type>">> /\ again = <<"<again>">>
  OBVIOUS
<1>2. v \in Seq(Symbols) /\ again \in Seq(Symbols)
  BY <1>1, AgainSymbol DEF Ordinary
<1>3. PICK w : w = again \o v
  OBVIOUS
<1>4. /\ w \in Seq(Symbols) /\ Len(w) = 1 + Len(v) /\ w[1] = "<again>"
      /\ \A i \in 2 .. Len(w) : w[i] = v[i - 1]
  BY <1>1, <1>2, <1>3
<1>5. \A i \in (1 + 1) .. Len(w) : w[i] \in Ordinary
  BY <1>4
<1>6. TryShape(w)
  <2>1. 1 \in DOMAIN w /\ w[1] = "<again>" /\ \A i \in 1 .. (1 - 1) : w[i] \in TypeSymbols
    BY <1>4
  <2> QED
    BY <1>5, <2>1 DEF TryShape
<1>7. u \in Seq(TypeSymbols)
  <2>1. "<type>" \in TypeSymbols
    BY TypeSymbol, Zenon
  <2> QED
    BY <1>1, <2>1
<1>8. u \o w = <<"<type>", "<again>">> \o v
  BY <1>1, <1>2, <1>3
<1> QED
  BY <1>4, <1>6, <1>7, <1>8, TryJoin

LEMMA TryEnds ==
    ASSUME NEW w \in Seq(Symbols), TryShape(w), NEW k \in DOMAIN w, w[k] = "<again>"
    PROVE  SubSeq(w, k + 1, Len(w)) \in Seq(Ordinary)
<1>1. PICK n \in DOMAIN w : /\ w[n] = "<again>"
                            /\ \A i \in 1 .. (n - 1) : w[i] \in TypeSymbols
                            /\ \A i \in (n + 1) .. Len(w) : w[i] \in Ordinary
  BY DEF TryShape
<1>2. n = k
  BY <1>1, AgainNowhere
<1>3. PICK t : t = SubSeq(w, k + 1, Len(w))
  OBVIOUS
<1>4. t \in Seq(Symbols) /\ Len(t) = Len(w) - k /\ \A i \in 1 .. Len(t) : t[i] = w[k + i]
  BY <1>3
<1>5. \A i \in 1 .. Len(t) : t[i] \in Ordinary
  BY <1>1, <1>2, <1>4
<1> QED
  BY <1>3, <1>4, <1>5, Within

----------------------------------------------------------------------------
(* The steps                                                               *)

LEMMA Appended ==
    ASSUME NEW s, IsSeq(s), NEW n
    PROVE  /\ IsSeq(Append(s, n)) /\ Len(s) \in Nat /\ DOMAIN s = 1 .. Len(s)
           /\ Len(Append(s, n)) = Len(s) + 1 /\ DOMAIN Append(s, n) = 1 .. (Len(s) + 1)
           /\ Append(s, n)[Len(s) + 1] = n /\ \A k \in 1 .. Len(s) : Append(s, n)[k] = s[k]
<1>1. PICK S : s \in Seq(S)
  BY DEF IsSeq
<1>2. s \in Seq(S \cup {n})
  BY <1>1
<1>3. Append(s, n) \in Seq(S \cup {n})
  BY <1>2
<1>4. IsSeq(Append(s, n))
  BY <1>3 DEF IsSeq
<1> QED
  BY <1>1, <1>4

LEMMA Sorts ==
    /\ \A s \in Nonterminals :
          s \notin ItemKeywords \cup AttrLists \cup Closers \cup {"[", "<again>"}
    /\ \A s \in AttrLists :
          s \notin ItemKeywords \cup Closers \cup Ordinary \cup TypeSymbols \cup {"[", "<again>"}
    /\ "<again>" \notin Closers \cup {"["}
<1>1. Closers \subseteq Special /\ "[" \in Special /\ "<again>" \notin Closers \cup {"["}
  BY Zenon DEF Closers, Special
<1>2. \A s \in AttrLists : s \notin ItemKeywords
  BY ListSymbols DEF ItemKeywords, TypeKeywords, MemberKeywords
<1>3. \A s \in AttrLists : s \notin Ordinary
  BY DEF Ordinary
<1>4. Closers \subseteq Ordinary /\ "[" \in Ordinary
  BY <1>1, SpecialOrdinary
<1> QED
  BY <1>1, <1>2, <1>3, <1>4, SortsOfParts, AgainNowhere, TypeSymbolsOrdinary DEF Nonterminals

LEMMA HeadOfStack ==
    ASSUME TypeOK, want # <<>>
    PROVE  /\ want \in Seq(Symbols) /\ Part = want[1] /\ 1 \in DOMAIN want
           /\ Tail(want) \in Seq(Symbols)
BY DEF TypeOK, Part

\* What is on top tells the stage.
LEMMA Surface ==
    ASSUME GrammarInv, want # <<>>
    PROVE  /\ Part \in Nonterminals => Between \/ (Trying /\ Part \in TypeSymbols)
           /\ Part \in AttrLists => InList
           /\ Part = "<again>" => Trying
           /\ Trying => Part = "<again>" \/ Part \in TypeSymbols
           /\ (\E k \in DOMAIN want : want[k] = "<again>") => Trying
<1>1. want \in Seq(Symbols) /\ Part = want[1] /\ 1 \in DOMAIN want
  BY HeadOfStack DEF GrammarInv
<1>2. AtKeyword => Part \in ItemKeywords /\ \A k \in DOMAIN want : want[k] # "<again>"
  BY <1>1, AgainNowhere, Sorts DEF AtKeyword, HeadAt
<1>3. AtBracket => Part = "[" /\ \A k \in DOMAIN want : want[k] # "<again>"
  BY <1>1, AgainNowhere, Sorts DEF AtBracket, HeadAt
<1>4. InList => Part \in AttrLists /\ \A k \in DOMAIN want : want[k] # "<again>"
  BY <1>1, AgainNowhere, Sorts DEF InList, HeadAt
<1>5. ListRead => Part \in Closers /\ \A k \in DOMAIN want : want[k] # "<again>"
  BY <1>1, AgainNowhere DEF ListRead
<1>6. Between => Part \in Ordinary /\ \A k \in DOMAIN want : want[k] # "<again>"
  BY <1>1, AgainNowhere DEF Between
<1>7. Trying => Part = "<again>" \/ Part \in TypeSymbols
  BY <1>1, TryTail DEF Trying
<1>8. Stage
  BY DEF GrammarInv
<1> QED
  BY <1>2, <1>3, <1>4, <1>5, <1>6, <1>7, <1>8, Sorts, AgainNowhere DEF Stage

NodesTyped(ns, p) ==
    \A k \in DOMAIN ns :
        /\ ns[k].at < p
        /\ ns[k].value \in IF ns[k].as \in AttrLists THEN 0 .. MaxIndex ELSE Nat \cup {None}

Bounds == /\ tokens \in Seq([form : Forms, text : STRING])
          /\ pos \in 1 .. (Len(tokens) + 1) /\ pc \in {"run"} \cup Finished
          /\ attr.index \in 0 .. (pos - 1) /\ attr.mods \subseteq Keywords
          /\ saved.pos \in 1 .. pos /\ saved.nodes \in 0 .. Len(nodes)

GenericsTyped == generics \in [{"type", "method"} -> Seq(STRING)]
WantTyped == want \in Seq(Symbols)

LEMMA TypeParts ==
    TypeOK <=> Bounds /\ GenericsTyped /\ WantTyped /\ NodesTyped(nodes, pos)
BY DEF TypeOK, Bounds, GenericsTyped, WantTyped, NodesTyped

LEMMA Positions ==
    ASSUME Bounds
    PROVE  /\ pos \in Nat \ {0} /\ Len(tokens) \in Nat /\ pos <= Len(tokens) + 1
           /\ saved.pos \in Nat \ {0} /\ saved.pos <= pos /\ saved.nodes \in Nat
           /\ attr.index \in Nat /\ attr.index < pos
           /\ ~AtEnd => pos <= Len(tokens) /\ Token = Kind(tokens[pos])
                                          /\ Form = tokens[pos].form
BY DEF Bounds, AtEnd, Token, Form

\* The nodes os are ns with a node for the token at e, which is of kind t, or
\* without if it is no name.
Noted(ns, os, e, t) ==
    \/ os = ns /\ t \notin NameKinds
    \/ \E n : /\ os = Append(ns, n) /\ n.at = e /\ n.as \notin AttrLists
             /\ n.value \in Nat \cup {None}

LEMMA NotedIs ==
    ASSUME NEW ns, IsSeq(ns), NEW os, NEW e, NEW t, Noted(ns, os, e, t)
    PROVE  /\ IsSeq(os) /\ Len(ns) \in Nat /\ Len(os) \in Nat /\ Len(ns) <= Len(os)
           /\ \A k \in 1 .. Len(ns) : os[k] = ns[k]
           /\ DOMAIN ns = 1 .. Len(ns) /\ DOMAIN os = 1 .. Len(os)
           /\ \/ Len(os) = Len(ns) /\ t \notin NameKinds
              \/ /\ Len(os) = Len(ns) + 1 /\ os[Len(os)].at = e
                 /\ os[Len(os)].as \notin AttrLists
                 /\ os[Len(os)].value \in Nat \cup {None}
<1>1. CASE os = ns /\ t \notin NameKinds
  BY <1>1, Appended
<1>2. ASSUME NEW n, os = Append(ns, n), n.at = e, n.as \notin AttrLists,
             n.value \in Nat \cup {None}
      PROVE  /\ IsSeq(os) /\ Len(ns) \in Nat /\ Len(os) = Len(ns) + 1
             /\ \A k \in 1 .. Len(ns) : os[k] = ns[k]
             /\ DOMAIN ns = 1 .. Len(ns) /\ DOMAIN os = 1 .. Len(os)
             /\ os[Len(os)] = n
  BY <1>2, Appended
<1> QED
  BY <1>1, <1>2 DEF Noted

LEMMA NotedTyped ==
    ASSUME NEW ns, IsSeq(ns), NEW os, NEW e \in Nat, NEW t, Noted(ns, os, e, t),
           NodesTyped(ns, e), InOrder(ns, e, Len(ns))
    PROVE  NodesTyped(os, e + 1)
<1> SUFFICES ASSUME NEW k \in DOMAIN os
             PROVE  /\ os[k].at < e + 1
                    /\ os[k].value \in IF os[k].as \in AttrLists THEN 0 .. MaxIndex
                                                              ELSE Nat \cup {None}
  BY DEF NodesTyped
<1>1. CASE k \in 1 .. Len(ns)
  <2>1. k \in DOMAIN ns /\ os[k] = ns[k]
    BY <1>1, NotedIs
  <2>2. ns[k].at \in 1 .. (e - 1)
    BY <1>1 DEF InOrder
  <2> QED
    BY <2>1, <2>2 DEF NodesTyped
<1>2. CASE k \notin 1 .. Len(ns)
  <2>1. k = Len(os) /\ Len(os) = Len(ns) + 1
    BY <1>2, NotedIs
  <2>2. os[Len(os)].at = e /\ os[Len(os)].as \notin AttrLists
          /\ os[Len(os)].value \in Nat \cup {None}
    BY <2>1, NotedIs
  <2> QED
    BY <2>1, <2>2
<1> QED
  BY <1>1, <1>2

LEMMA NotedRead ==
    ASSUME NEW ts, NEW ns, IsSeq(ns), NEW os, NEW e \in Nat \ {0},
           Noted(ns, os, e, Kind(ts[e])), Kind(ts[e]) \notin ItemKeywords,
           ReadBy(ts, ns, e, Len(ns))
    PROVE  ReadBy(ts, os, e + 1, Len(os))
BY NotedIs, ReadOn

LEMMA NotedKept ==
    ASSUME NEW ts, NEW ns, IsSeq(ns), NEW os, NEW e, NEW t, Noted(ns, os, e, t),
           NEW p \in Nat, NEW m \in 0 .. Len(ns), ReadBy(ts, ns, p, m)
    PROVE  ReadBy(ts, os, p, m)
<1>1. Len(ns) \in Nat /\ \A k \in 1 .. Len(ns) : os[k] = ns[k]
  BY NotedIs
<1>2. m \in Nat /\ \A k \in 1 .. m : os[k] = ns[k]
  BY <1>1
<1> QED
  BY <1>2, ReadSame


----------------------------------------------------------------------------
(* A token is read                                                         *)

LEMMA ReadTypes ==
    ASSUME GrammarInv, Running, ~AtEnd, InOrder(nodes, pos, Len(nodes)),
           pos' = pos + 1, tokens' = tokens, pc' = pc, saved' = saved,
           attr' \in [index : 0 .. pos, mods : SUBSET Keywords],
           WantTyped', GenericsTyped', NEW t, Noted(nodes, nodes', pos, t)
    PROVE  TypeOK' /\ Typed'
<1>1. Bounds /\ NodesTyped(nodes, pos) /\ IsSeq(nodes)
  BY TypeParts DEF GrammarInv, Typed
<1>2. pos \in Nat \ {0} /\ pos <= Len(tokens) /\ Len(tokens) \in Nat
  BY <1>1, Positions
<1>3. IsSeq(nodes') /\ Len(nodes) \in Nat /\ Len(nodes') \in Nat /\ Len(nodes) <= Len(nodes')
  BY <1>1, NotedIs
<1>4. NodesTyped(nodes', pos + 1)
  BY <1>1, <1>2, NotedTyped
<1>5. Bounds'
  <2>1. pos + 1 \in 1 .. (Len(tokens) + 1)
    BY <1>2
  <2>2. attr'.index \in 0 .. ((pos + 1) - 1) /\ attr'.mods \subseteq Keywords
    BY <1>2
  <2>3. saved.pos \in 1 .. (pos + 1)
    BY <1>1, Positions DEF Bounds
  <2>4. saved.nodes \in 0 .. Len(nodes')
    BY <1>1, <1>3 DEF Bounds
  <2>5. tokens \in Seq([form : Forms, text : STRING]) /\ pc \in {"run"} \cup Finished
    BY <1>1 DEF Bounds
  <2> QED
    BY <2>1, <2>2, <2>3, <2>4, <2>5, Zenon DEF Bounds
<1>6. TypeOK'
  BY <1>4, <1>5, Zenon DEF TypeOK, Bounds, WantTyped, GenericsTyped, NodesTyped
<1>7. attr' \in [index : Nat, mods : SUBSET Keywords]
  BY <1>2
<1>8. Typed'
  BY <1>3, <1>7 DEF GrammarInv, Typed
<1> QED
  BY <1>6, <1>8

LEMMA AttrTyped ==
    ASSUME GrammarInv PROVE attr \in [index : 0 .. pos, mods : SUBSET Keywords]
<1>1. Bounds /\ attr \in [index : Nat, mods : SUBSET Keywords]
  BY TypeParts DEF GrammarInv, Typed
<1>2. attr.index \in Nat /\ attr.index < pos /\ pos \in Nat
  BY <1>1, Positions
<1> QED
  BY <1>1, <1>2

\* A token that begins no item is read between items.
LEMMA Reads ==
    ASSUME GrammarInv, Running, ~AtEnd, Token \notin ItemKeywords,
           Between \/ (Trying /\ Part # "<again>"),
           pos' = pos + 1, want' = want \/ want' = Tail(want),
           tokens' = tokens, pc' = pc, attr' = attr, saved' = saved, GenericsTyped',
           Noted(nodes, nodes', pos, Token)
    PROVE  GrammarInv'
<1>1. /\ Bounds /\ WantTyped /\ IsSeq(nodes)
  BY TypeParts DEF GrammarInv, Typed
<1>2. /\ want # <<>> /\ Part = want[1] /\ want' \in Seq(Symbols)
  BY <1>1 DEF Running, Part, WantTyped
<1>3. Token = Kind(tokens[pos]) /\ pos \in Nat \ {0}
  BY <1>1, Positions
<1>4. ReadBy(tokens, nodes, pos, Len(nodes))
  BY DEF Between, Trying
<1>5. ReadBy(tokens, nodes', pos + 1, Len(nodes'))
  BY <1>1, <1>3, <1>4, NotedRead
<1>6. ASSUME Between PROVE Stage'
  <2>1. want \in Seq(Ordinary)
    BY <1>6 DEF Between
  <2>2. Tail(want) \in Seq(Ordinary)
    BY <1>2, <2>1
  <2>3. want' \in Seq(Ordinary)
    BY <2>1, <2>2
  <2> QED
    BY <1>5, <2>3 DEF Between, Stage
<1>7. ASSUME Trying, Part # "<again>" PROVE Stage'
  <2>1. TryShape(want')
    BY <1>1, <1>2, <1>7, TryTail DEF Trying, WantTyped
  <2>2. saved.nodes \in 0 .. Len(nodes) /\ saved.pos \in Nat
    BY <1>1, Positions DEF Bounds
  <2>3. ReadBy(tokens, nodes', saved.pos, saved.nodes)
    BY <1>1, <1>7, <2>2, NotedKept DEF Trying
  <2> QED
    BY <1>5, <1>7, <2>1, <2>3 DEF Trying, Stage
<1>8. TypeOK' /\ Typed'
  BY <1>2, <1>4, AttrTyped, ReadTypes DEF ReadBy, WantTyped
<1> QED
  BY <1>6, <1>7, <1>8 DEF GrammarInv, Running

\* What tokens count as.
LEMMA KindIs ==
    ASSUME NEW t, t.form \in Forms, t.form = "special" => t.text \in Special
    PROVE  Kind(t) \in Keywords \cup StatementKeywords \cup Special \cup Forms \cup {"name", "int"}
BY DEF Kind

LEMMA KindsAre ==
    ASSUME NEW s \in Keywords \cup StatementKeywords \cup Special \cup Forms \cup {"name", "int"}
    PROVE  /\ s \notin Parts /\ s # "eof"
           /\ s \in Symbols => s \notin NameKinds \cup {"int"}
<1> DEFINE Worded == Keywords \cup StatementKeywords \cup Forms \cup {"name", "int"}
<1>1. ASSUME s \in Worded PROVE s \notin Parts \cup {"eof"}
  BY <1>1, ListSymbols DEF Parts, Skippable, OtherParts, Keywords, StatementKeywords, Forms,
     ClassModifiers, StructModifiers, MethodModifiers, Visibility, CallConventions,
     ExceptionKeywords, JumpKeywords, LoadKeywords, TypeKeywords, MemberKeywords
<1>2. ASSUME s \in Special PROVE s \notin Parts \cup {"eof"} \cup NameKinds \cup {"int"}
  <2>1. s \notin Nonterminals \cup AttrLists \cup {"<again>"}
    BY <1>2, SpecialOrdinary, Sorts, AgainNowhere, SortsOfParts
  <2>2. s \notin {"eof", "name", "bad_string", "int"}
    BY <1>2, Zenon DEF Special
  <2> QED
    BY <2>1, <2>2 DEF Nonterminals, NameKinds
<1>3. ASSUME s \in NameKinds \cup {"int"}
      PROVE  s \notin Keywords \cup StatementKeywords \cup {"table"}
  BY <1>3 DEF NameKinds, Keywords, StatementKeywords,
     ClassModifiers, StructModifiers, MethodModifiers, Visibility, CallConventions,
     ExceptionKeywords, JumpKeywords, LoadKeywords, TypeKeywords, MemberKeywords
<1> QED
  BY <1>1, <1>2, <1>3 DEF Symbols

----------------------------------------------------------------------------
(* The actions that read a token between items                             *)

LEMMA Facts ==
    ASSUME GrammarInv, Running
    PROVE  /\ Bounds /\ WantTyped /\ GenericsTyped /\ NodesTyped(nodes, pos) /\ IsSeq(nodes)
           /\ tokens \in Inputs /\ pos \in Nat \ {0} /\ pc = "run"
           /\ want # <<>> /\ Part = want[1] /\ Part \in Symbols
BY TypeParts, HeadOfStack, Positions DEF GrammarInv, Typed, Running, WantTyped

LEMMA TokenIs ==
    ASSUME GrammarInv, Running, ~AtEnd
    PROVE  /\ Token = Kind(tokens[pos]) /\ Form = tokens[pos].form /\ Form \in Forms
           /\ Text = tokens[pos].text /\ Text \in STRING /\ pos \in DOMAIN tokens
           /\ Token \notin Parts
           /\ Token \in Symbols => Token \notin NameKinds \cup {"int"}
<1>1. /\ Token = Kind(tokens[pos]) /\ Form = tokens[pos].form /\ pos \in Nat \ {0}
      /\ Len(tokens) \in Nat /\ pos <= Len(tokens) /\ tokens \in Inputs
  BY Facts, Positions
<1>2. tokens[pos] \in [form : Forms, text : STRING] /\ pos \in DOMAIN tokens
  <2> DEFINE T == [form : Forms, text : STRING]
  <2>1. tokens \in Seq(T) /\ pos \in 1 .. Len(tokens)
    BY <1>1, Facts DEF Bounds
  <2> HIDE DEF T
  <2>2. tokens[pos] \in T /\ pos \in DOMAIN tokens
    BY <2>1
  <2> QED
    BY <2>2 DEF T
<1>3. tokens[pos].form = "special" => tokens[pos].text \in Special
  BY <1>1, <1>2, GrammarAssumption
<1>4. Token \in Keywords \cup StatementKeywords \cup Special \cup Forms \cup {"name", "int"}
  BY <1>1, <1>2, <1>3, KindIs
<1> QED
  BY <1>1, <1>2, <1>4, KindsAre DEF Text

LEMMA EofIs == "eof" \notin Symbols \cup ItemKeywords \cup ListWords \cup Forms
<1>1. "eof" \notin Special
  BY Zenon DEF Special
<1> QED
  BY <1>1, ListSymbols, ListWordsAre DEF Symbols, Parts, Skippable, OtherParts, ItemKeywords,
     Forms, Keywords, StatementKeywords, ClassModifiers, StructModifiers, MethodModifiers,
     Visibility, CallConventions, ExceptionKeywords, JumpKeywords, LoadKeywords,
     TypeKeywords, MemberKeywords

LEMMA EndIs == AtEnd => Token = "eof" /\ Form = "eof"
BY DEF Token, Form

LEMMA LeafNoted ==
    ASSUME NEW as, as \notin AttrLists, NEW value \in Nat \cup {None}, NEW t
    PROVE  Noted(nodes, Leaf(as, value), pos, t)
<1>1. PICK n : n = Node(as, pos, value, {})
  OBVIOUS
<1>2. n.at = pos /\ n.as = as /\ n.value = value
  BY <1>1 DEF Node
<1> QED
  BY <1>1, <1>2 DEF Noted, Leaf

LEMMA NamesKinds ==
    /\ "name" \notin ItemKeywords /\ "int" \notin ItemKeywords /\ "char" \notin ItemKeywords
    /\ {"true", "false", "this"} \cap ItemKeywords = {}
    /\ {"name", "type_generic", "method_generic", "int", "constant", "<type_generics>",
        "<method_generics>"} \cap AttrLists = {}
BY ListSymbols DEF ItemKeywords, TypeKeywords, MemberKeywords

LEMMA ReadParts ==
    /\ {"<name>", "<type_generics>", "<method_generics>", "<type>", "<u32>", "<u64>",
        "<content>", "<negated>"} \subseteq Nonterminals
BY SortsOfParts DEF Skippable, OtherParts

LEMMA TakeNameInv == ASSUME GrammarInv, TakeName PROVE GrammarInv'
<1>1. Running /\ Token = "name" /\ Part = "<name>"
  BY DEF TakeName
<1>2. ~AtEnd
  BY <1>1, EndIs
<1>3. Between \/ (Trying /\ Part # "<again>")
  BY <1>1, Facts, Surface, ReadParts, Sorts
<1>4. Noted(nodes, nodes', pos, Token)
  BY LeafNoted, NamesKinds DEF TakeName
<1>5. GenericsTyped'
  BY <1>1, Facts DEF GenericsTyped, TakeName
<1> QED
  BY <1>1, <1>2, <1>3, <1>4, <1>5, NamesKinds, Reads DEF TakeName

LEMMA DeclareGenericInv == ASSUME GrammarInv, DeclareGeneric PROVE GrammarInv'
<1>1. Running /\ Token = "name" /\ Part \in {"<type_generics>", "<method_generics>"}
  BY DEF DeclareGeneric, DeclaresGeneric
<1>2. ~AtEnd
  BY <1>1, EndIs
<1>3. Between \/ (Trying /\ Part # "<again>")
  BY <1>1, Facts, Surface, ReadParts, Sorts
<1>4. Noted(nodes, nodes', pos, Token)
  BY <1>1, LeafNoted, NamesKinds DEF DeclareGeneric
<1>5. GenericsTyped'
  <2>1. Text \in STRING /\ generics \in [{"type", "method"} -> Seq(STRING)]
    BY <1>1, <1>2, TokenIs, Facts DEF GenericsTyped
  <2>2. GenericsOf(Part) \in {"type", "method"}
    BY DEF GenericsOf
  <2>3. Append(generics[GenericsOf(Part)], Text) \in Seq(STRING)
    BY <2>1, <2>2
  <2> QED
    BY <2>1, <2>2, <2>3 DEF GenericsTyped, DeclareGeneric
<1> QED
  BY <1>1, <1>2, <1>3, <1>4, <1>5, NamesKinds, Reads DEF DeclareGeneric

LEMMA LeastNatural ==
    ASSUME NEW S \in SUBSET Nat, S # {}
    PROVE  \E x \in S : \A y \in S : ~(y < x)
<1>1. PICK x \in S : \A y \in S : <<y, x>> \notin OpToRel(<, Nat)
  BY NatLessThanWellFounded, WFMin
<1> QED
  BY <1>1 DEF OpToRel

\* There is a first one.
LEMMA PositionIs ==
    ASSUME NEW S, NEW list \in Seq(S), NEW x, Names(list, x)
    PROVE  /\ Position(list, x) \in 1 .. Len(list) /\ list[Position(list, x)] = x
           /\ \A j \in 1 .. (Position(list, x) - 1) : list[j] # x
<1> DEFINE I == {i \in Nat : i \in DOMAIN list /\ list[i] = x}
<1>1. I \in SUBSET Nat /\ I # {}
  BY DEF Names
<1>2. PICK i \in I : \A j \in I : ~(j < i)
  BY <1>1, LeastNatural
<1>3. \A j \in 1 .. (i - 1) : list[j] # x
  BY <1>2
<1>4. \E k \in DOMAIN list : list[k] = x /\ \A j \in 1 .. (k - 1) : list[j] # x
  BY <1>2, <1>3
<1>5. PICK k : k = Position(list, x)
  OBVIOUS
<1>6. k \in DOMAIN list /\ list[k] = x /\ \A j \in 1 .. (k - 1) : list[j] # x
  BY <1>4, <1>5 DEF Position
<1> QED
  BY <1>5, <1>6

LEMMA ResolveGenericInv == ASSUME GrammarInv, ResolveGeneric PROVE GrammarInv'
<1>1. Running /\ Token = "name" /\ Part = "<type>" /\ Names(generics[Owner], Text)
  BY DEF ResolveGeneric, InScope
<1>2. ~AtEnd
  BY <1>1, EndIs
<1>3. Between \/ (Trying /\ Part # "<again>")
  BY <1>1, Facts, Surface, ReadParts, Sorts
<1>4. Owner \in {"type", "method"}
  BY DEF Owner
<1>5. generics[Owner] \in Seq(STRING)
  BY <1>1, <1>4, Facts DEF GenericsTyped
<1>6. Position(generics[Owner], Text) - 1 \in Nat
  BY <1>1, <1>5, PositionIs
<1>7. GenericNode[Owner] \notin AttrLists
  BY <1>4, NamesKinds DEF GenericNode
<1>8. Noted(nodes, nodes', pos, Token)
  BY <1>6, <1>7, LeafNoted DEF ResolveGeneric
<1>9. GenericsTyped'
  BY <1>1, Facts DEF GenericsTyped, ResolveGeneric
<1> QED
  BY <1>1, <1>2, <1>3, <1>8, <1>9, NamesKinds, Reads DEF ResolveGeneric

\* A token that counts as an integer has a value or none.
LEMMA IntText ==
    ASSUME NEW ts \in Inputs, NEW i \in DOMAIN ts, Kind(ts[i]) = "int"
    PROVE  ts[i].text \in DOMAIN ValueOf /\ ValueOf[ts[i].text] \in Nat \cup {None}
<1>1. ts[i].form = "special" => ts[i].text \in Special
  BY GrammarAssumption
<1>2. "int" \notin Special /\ "int" \notin Keywords \cup StatementKeywords
  <2>1. "int" \notin Special
    BY Zenon DEF Special
  <2> QED
    BY <2>1 DEF Keywords, StatementKeywords, ClassModifiers, StructModifiers,
       MethodModifiers, Visibility, CallConventions, ExceptionKeywords, JumpKeywords,
       LoadKeywords, TypeKeywords, MemberKeywords
<1>3. ts[i].form \in {"int", "empty_int"}
  BY <1>1, <1>2 DEF Kind
<1> QED
  BY <1>3, GrammarAssumption

LEMMA TakeIntegerInv == ASSUME GrammarInv, TakeInteger PROVE GrammarInv'
<1>1. Running /\ Token = "int" /\ Part \in {"<u32>", "<u64>"} /\ Fits(Text, Part)
  BY DEF TakeInteger
<1>2. ~AtEnd
  BY <1>1, EndIs
<1>3. Between \/ (Trying /\ Part # "<again>")
  BY <1>1, Facts, Surface, ReadParts, Sorts
<1>4. ValueOf[Text] \in Nat \cup {None}
  BY <1>1, <1>2, TokenIs, Facts, IntText
<1>5. Noted(nodes, nodes', pos, Token)
  BY <1>4, LeafNoted, NamesKinds DEF TakeInteger
<1>6. GenericsTyped'
  BY <1>1, Facts DEF GenericsTyped, TakeInteger
<1> QED
  BY <1>1, <1>2, <1>3, <1>5, <1>6, NamesKinds, Reads DEF TakeInteger

LEMMA TakeConstantInv == ASSUME GrammarInv, TakeConstant PROVE GrammarInv'
<1>1. Running /\ Part \in {"<content>", "<negated>"}
  BY DEF TakeConstant, IsConstant
<1>2. \/ Form \in {"int", "string", "char"}
      \/ Token \in {"true", "false", "this"}
  BY DEF TakeConstant, IsConstant, NumberOrTruth
<1>3. ~AtEnd
  BY <1>2, EndIs
<1>4. Between \/ (Trying /\ Part # "<again>")
  BY <1>1, Facts, Surface, ReadParts, Sorts
<1>5. Token \notin ItemKeywords
  <2>1. Form \in {"int", "string", "char"} => Token \in {"int", "name", "char"}
    BY <1>1, <1>3, TokenIs DEF Kind
  <2> QED
    BY <1>2, <2>1, NamesKinds
<1>6. Noted(nodes, nodes', pos, Token)
  BY LeafNoted, NamesKinds DEF TakeConstant
<1>7. GenericsTyped'
  BY <1>1, Facts DEF GenericsTyped, TakeConstant
<1> QED
  BY <1>1, <1>3, <1>4, <1>5, <1>6, <1>7, Reads DEF TakeConstant

----------------------------------------------------------------------------
(* The actions that read nothing                                           *)

LEMMA FreshTyped ==
    /\ FreshAttr \in [index : Nat, mods : SUBSET Keywords] /\ FreshAttr.index = 0
    /\ FreshAttr.mods \subseteq Keywords
BY DEF FreshAttr, Keywords, ClassModifiers, Visibility

LEMMA StayTypes ==
    ASSUME GrammarInv, Running, pos' = pos, tokens' = tokens, nodes' = nodes,
           pc' \in {"run"} \cup Finished,
           saved'.pos \in 1 .. pos, saved'.nodes \in 0 .. Len(nodes),
           attr' = attr \/ attr' = FreshAttr, WantTyped', GenericsTyped'
    PROVE  TypeOK' /\ Typed'
<1>1. Bounds /\ NodesTyped(nodes, pos) /\ IsSeq(nodes) /\ pos \in Nat \ {0}
        /\ attr \in [index : Nat, mods : SUBSET Keywords] /\ tokens \in Inputs
  BY Facts DEF GrammarInv, Typed
<1>2. attr' \in [index : Nat, mods : SUBSET Keywords]
  BY <1>1, FreshTyped
<1>3. Typed'
  BY <1>1, <1>2 DEF Typed
<1>4. attr'.index \in 0 .. (pos - 1) /\ attr'.mods \subseteq Keywords
  <2>1. attr.index \in 0 .. (pos - 1) /\ attr.mods \subseteq Keywords
    BY <1>1 DEF Bounds
  <2>2. 0 \in 0 .. (pos - 1)
    BY <1>1
  <2> QED
    BY <2>1, <2>2, FreshTyped
<1>5. Bounds'
  <2>1. /\ tokens \in Seq([form : Forms, text : STRING]) /\ pos \in 1 .. (Len(tokens) + 1)
    BY <1>1 DEF Bounds
  <2> QED
    BY <1>4, <2>1, Zenon DEF Bounds
<1>6. TypeOK'
  BY <1>1, <1>5, Zenon DEF TypeOK, Bounds, WantTyped, GenericsTyped, NodesTyped
<1> QED
  BY <1>3, <1>6

LEMMA SavedTyped ==
    ASSUME GrammarInv, Running, saved' = saved
    PROVE  saved'.pos \in 1 .. pos /\ saved'.nodes \in 0 .. Len(nodes)
BY Facts DEF Bounds

\* A part that is done with.
LEMMA Drops ==
    ASSUME GrammarInv, Running, Part \in Nonterminals, want' = Tail(want),
           UNCHANGED <<tokens, pos, pc, attr, generics, saved, nodes>>
    PROVE  GrammarInv'
<1>1. Bounds /\ WantTyped /\ GenericsTyped /\ want # <<>> /\ Part = want[1] /\ pc = "run"
  BY Facts
<1>2. WantTyped'
  BY <1>1 DEF WantTyped
<1>3. GenericsTyped'
  BY <1>1 DEF GenericsTyped
<1>4. TypeOK' /\ Typed'
  BY <1>1, <1>2, <1>3, SavedTyped, StayTypes DEF Finished
<1>5. Between \/ (Trying /\ Part # "<again>")
  BY <1>1, Surface, Sorts
<1>6. ASSUME Between PROVE Stage'
  <2>1. want \in Seq(Ordinary)
    BY <1>6 DEF Between
  <2>2. want' \in Seq(Ordinary)
    BY <1>1, <2>1
  <2> QED
    BY <1>6, <2>2 DEF Between, Stage
<1>7. ASSUME Trying, Part # "<again>" PROVE Stage'
  <2>1. TryShape(want')
    BY <1>1, <1>7, TryTail DEF Trying, WantTyped
  <2> QED
    BY <1>7, <2>1 DEF Trying, Stage
<1> QED
  BY <1>1, <1>4, <1>5, <1>6, <1>7 DEF GrammarInv

LEMMA SkipInv == ASSUME GrammarInv, Skip PROVE GrammarInv'
BY SortsOfParts, Drops DEF Skip

LEMMA EndOfFileInTypeInv == ASSUME GrammarInv, EndOfFileInType PROVE GrammarInv'
<1>1. OpenTypes \subseteq Nonterminals
  BY SortsOfParts DEF OpenTypes, OtherParts
<1> QED
  BY <1>1, Drops DEF EndOfFileInType, AfterLoop

LEMMA TryReferenceInv == ASSUME GrammarInv, TryReference PROVE GrammarInv'
<1>1. Running /\ Part = "<references>"
  BY DEF TryReference
<1>2. Bounds /\ GenericsTyped /\ want # <<>> /\ Part = want[1] /\ pc = "run" /\ IsSeq(nodes)
        /\ pos \in Nat \ {0}
  BY <1>1, Facts
<1>3. "<references>" \in Nonterminals /\ "<references>" \notin TypeSymbols
  BY SortsOfParts, Zenon DEF OtherParts, TypeSymbols
<1>4. Between
  BY <1>1, <1>2, <1>3, Surface
<1>5. want \in Seq(Ordinary)
  BY <1>4 DEF Between
<1>6. Tail(want) \in Seq(Ordinary)
  BY <1>2, <1>5
<1>7. TryShape(want') /\ want' \in Seq(Symbols)
  BY <1>6, TryBegins DEF TryReference
<1>8. GenericsTyped' /\ WantTyped'
  BY <1>2, <1>7 DEF GenericsTyped, WantTyped, TryReference
<1>9. saved'.pos = pos /\ saved'.nodes = Len(nodes) /\ Len(nodes) \in Nat
  BY <1>2, Appended DEF TryReference
<1>10. saved'.pos \in 1 .. pos /\ saved'.nodes \in 0 .. Len(nodes)
  BY <1>2, <1>9
<1>11. TypeOK' /\ Typed'
  BY <1>1, <1>2, <1>8, <1>10, StayTypes DEF TryReference, Finished
<1>12. Stage'
  <2>1. attr.index < pos
    BY <1>2, Positions
  <2> QED
    BY <1>4, <1>7, <1>9, <2>1 DEF Between, Trying, Stage, TryReference
<1> QED
  BY <1>2, <1>11, <1>12 DEF GrammarInv, TryReference

LEMMA NextReferenceInv == ASSUME GrammarInv, NextReference PROVE GrammarInv'
<1>1. Running /\ Part = "<again>"
  BY DEF NextReference
<1>2. WantTyped /\ GenericsTyped /\ want # <<>> /\ Part = want[1] /\ pc = "run"
  BY <1>1, Facts
<1>3. Trying
  BY <1>1, <1>2, Surface
<1>4. Tail(want) \in Seq(Ordinary)
  <2>1. want \in Seq(Symbols) /\ 1 \in DOMAIN want
    BY <1>2 DEF WantTyped
  <2>2. Tail(want) = SubSeq(want, 1 + 1, Len(want))
    BY <1>2, <2>1
  <2> QED
    BY <1>1, <1>2, <1>3, <2>1, <2>2, TryEnds DEF Trying
<1>5. want' \in Seq(Ordinary)
  <2>1. "<references>" \in Ordinary
    BY PartSymbols, SortsOfSymbols, Zenon
  <2> QED
    BY <1>4, <2>1, Tuple1, Join DEF NextReference
<1>6. GenericsTyped' /\ WantTyped'
  BY <1>2, <1>5 DEF GenericsTyped, WantTyped, NextReference, Ordinary
<1>7. TypeOK' /\ Typed'
  BY <1>1, <1>2, <1>6, SavedTyped, StayTypes DEF NextReference, Finished
<1>8. Stage'
  BY <1>3, <1>5 DEF Trying, Between, Stage, NextReference
<1> QED
  BY <1>2, <1>7, <1>8 DEF GrammarInv, NextReference

LEMMA Prefix ==
    ASSUME NEW s, IsSeq(s), NEW n \in 0 .. Len(s)
    PROVE  /\ IsSeq(SubSeq(s, 1, n)) /\ Len(SubSeq(s, 1, n)) = n
           /\ DOMAIN SubSeq(s, 1, n) = 1 .. n
           /\ \A k \in 1 .. n : SubSeq(s, 1, n)[k] = s[k]
<1>1. PICK S : s \in Seq(S)
  BY DEF IsSeq
<1>2. 1 \in 1 .. (Len(s) + 1) /\ n \in (1 - 1) .. Len(s) /\ n \in Nat
  BY <1>1
<1>3. PICK t : t = SubSeq(s, 1, n)
  OBVIOUS
<1>4. t \in Seq(S) /\ Len(t) = n
  BY <1>1, <1>2, <1>3, SubSeqProperties
<1>5. \A k \in 1 .. n : t[k] = s[k]
  BY <1>1, <1>2, <1>3, SubSeqProperties
<1>6. IsSeq(t) /\ DOMAIN t = 1 .. n
  BY <1>4 DEF IsSeq
<1> QED
  BY <1>3, <1>4, <1>5, <1>6

LEMMA UnwindInv == ASSUME GrammarInv, Unwind PROVE GrammarInv'
<1>1. Running /\ \E k \in DOMAIN want : want[k] = "<again>"
  BY DEF Unwind, Caught
<1>2. /\ Bounds /\ WantTyped /\ GenericsTyped /\ NodesTyped(nodes, pos) /\ want # <<>>
      /\ pc = "run" /\ IsSeq(nodes) /\ tokens \in Inputs
  BY <1>1, Facts
<1>3. /\ saved.pos \in Nat \ {0} /\ saved.pos <= pos /\ saved.nodes \in 0 .. Len(nodes)
      /\ pos \in Nat /\ Len(tokens) \in Nat /\ pos <= Len(tokens) + 1
  BY <1>2, Positions DEF Bounds
<1>4. Trying
  BY <1>1, <1>2, Surface
<1>5. want' \in Seq(Ordinary)
  <2> DEFINE k == CHOOSE k \in DOMAIN want : want[k] = "<again>"
  <2>1. k \in DOMAIN want /\ want[k] = "<again>"
    BY <1>1
  <2>2. want' = SubSeq(want, k + 1, Len(want))
    BY DEF Unwind
  <2>3. want \in Seq(Symbols)
    BY <1>2 DEF WantTyped
  <2> HIDE DEF k
  <2> QED
    BY <1>4, <2>1, <2>2, <2>3, TryEnds DEF Trying
<1>6. /\ IsSeq(nodes') /\ Len(nodes') = saved.nodes /\ DOMAIN nodes' = 1 .. saved.nodes
      /\ \A k \in 1 .. saved.nodes : nodes'[k] = nodes[k]
  <2>1. nodes' = SubSeq(nodes, 1, saved.nodes)
    BY DEF Unwind
  <2>2. PICK n : n = saved.nodes
    OBVIOUS
  <2>3. n \in 0 .. Len(nodes)
    BY <1>3, <2>2
  <2> QED
    BY <1>2, <2>1, <2>2, <2>3, Prefix
<1>7. ReadBy(tokens, nodes', saved.pos, Len(nodes'))
  BY <1>3, <1>4, <1>6, ReadSame DEF Trying
<1>8. NodesTyped(nodes', saved.pos)
  <2> SUFFICES ASSUME NEW k \in DOMAIN nodes'
               PROVE  /\ nodes'[k].at < saved.pos
                      /\ nodes'[k].value \in IF nodes'[k].as \in AttrLists
                                             THEN 0 .. MaxIndex ELSE Nat \cup {None}
    BY DEF NodesTyped
  <2>1. nodes'[k].at \in 1 .. (saved.pos - 1)
    BY <1>6, <1>7 DEF ReadBy, InOrder
  <2>2. k \in DOMAIN nodes /\ nodes'[k] = nodes[k]
    BY <1>2, <1>3, <1>6, Appended
  <2> QED
    BY <1>2, <1>3, <2>1, <2>2 DEF NodesTyped
<1>9. Bounds'
  <2>1. saved.pos \in 1 .. (Len(tokens) + 1) /\ saved.pos \in 1 .. saved.pos
          /\ saved.nodes \in 0 .. Len(nodes')
    BY <1>3, <1>6
  <2>2. attr.index \in 0 .. (saved.pos - 1)
    BY <1>2, <1>3, <1>4, Positions DEF Trying
  <2>3. tokens \in Seq([form : Forms, text : STRING]) /\ pc \in {"run"} \cup Finished
          /\ attr.mods \subseteq Keywords
    BY <1>2 DEF Bounds
  <2>4. /\ pos' = saved.pos /\ tokens' = tokens /\ pc' = pc /\ attr' = attr
        /\ saved' = saved
    BY DEF Unwind
  <2> QED
    BY <2>1, <2>2, <2>3, <2>4, Zenon DEF Bounds
<1>10. want' \in Seq(Symbols) /\ GenericsTyped'
  BY <1>2, <1>5 DEF GenericsTyped, Ordinary, Unwind
<1>11. TypeOK'
  <2>1. pos' = saved.pos
    BY DEF Unwind
  <2> QED
    BY <1>8, <1>9, <1>10, <2>1, Zenon DEF TypeOK, Bounds, GenericsTyped, NodesTyped
<1>12. Typed'
  BY <1>6 DEF GrammarInv, Typed, Unwind
<1>13. Stage'
  BY <1>5, <1>7 DEF Between, Stage, Unwind
<1> QED
  BY <1>2, <1>11, <1>12, <1>13 DEF GrammarInv, Unwind

----------------------------------------------------------------------------
(* A rule is applied                                                       *)

LEMMA NoGenericsTyped == NoGenerics \in [{"type", "method"} -> Seq(STRING)]
<1>1. NoGenerics = [x \in {"type", "method"} |-> <<>>]
  BY DEF NoGenerics
<1>2. <<>> \in Seq(STRING)
  OBVIOUS
<1> QED
  BY <1>1, <1>2, Zenon

LEMMA ScopeTyped ==
    ASSUME GenericsTyped, NEW s
    PROVE  /\ Scope(s) \in [{"type", "method"} -> Seq(STRING)]
           /\ s \notin ItemKeywords => Scope(s) = generics
<1>1. generics \in [{"type", "method"} -> Seq(STRING)]
  BY DEF GenericsTyped
<1>2. NoGenerics \in [{"type", "method"} -> Seq(STRING)]
  BY NoGenericsTyped
<1>3. [generics EXCEPT !.method = <<>>] \in [{"type", "method"} -> Seq(STRING)]
  <2>1. ASSUME NEW K, NEW S, NEW f \in [K -> S], NEW k, NEW e \in S
        PROVE  [f EXCEPT ![k] = e] \in [K -> S]
    OBVIOUS
  <2>2. <<>> \in Seq(STRING)
    OBVIOUS
  <2> QED
    BY <1>1, <2>1, <2>2, Zenon
<1>4. TypeKeywords \cap MemberKeywords = {}
  BY DEF TypeKeywords, MemberKeywords
<1> QED
  BY <1>1, <1>2, <1>3, <1>4 DEF Scope, ItemKeywords

LEMMA ExpandInv == ASSUME GrammarInv, Expand PROVE GrammarInv'
<1>1. PICK r \in Applicable :
        /\ want' = r.to \o Tail(want) /\ generics' = Scope(r.first)
        /\ attr' = IF r.first \in ItemKeywords THEN FreshAttr ELSE attr
  BY DEF Expand, ItemKeywords
<1>2. Running /\ pc = "run" /\ pc' = pc /\ tokens' = tokens /\ pos' = pos /\ nodes' = nodes
        /\ saved' = saved
  BY DEF Expand, Running
<1>3. WantTyped /\ GenericsTyped /\ want # <<>> /\ Part = want[1] /\ Tail(want) \in Seq(Symbols)
  BY <1>2, Facts DEF WantTyped
<1>4. r \in Rules /\ r.of = Part /\ r.first = Token
  BY DEF Applicable, RulesFor
<1>5. Part \in Nonterminals /\ (OrdinaryRule(r) \/ ItemRule(r))
  BY <1>4, RulesGood DEF RuleGood
<1>6. Between \/ (Trying /\ Part \in TypeSymbols)
  BY <1>3, <1>5, Surface
<1>7. ASSUME Between PROVE Tail(want) \in Seq(Ordinary)
  <2>1. want \in Seq(Ordinary)
    BY <1>7 DEF Between
  <2> QED
    BY <1>3, <2>1
<1>8. ASSUME OrdinaryRule(r), Between PROVE want' \in Seq(Symbols) /\ Stage'
  <2>1. r.to \in Seq(Ordinary) /\ r.to # <<>>
    <3>1. r.to # <<>> /\ (r.to \in Seq(Plain) \/ r.to \in Seq(Ordinary \ Items))
      BY <1>8 DEF OrdinaryRule
    <3>2. \A s \in Seq(Plain) : s \in Seq(Ordinary)
      BY SortsOfSymbols
    <3>3. \A s \in Seq(Ordinary \ Items) : s \in Seq(Ordinary)
      OBVIOUS
    <3> QED
      BY <3>1, <3>2, <3>3
  <2>2. r.to \o Tail(want) \in Seq(Ordinary)
    BY <1>7, <1>8, <2>1, Join
  <2>3. want' \in Seq(Ordinary)
    BY <1>1, <2>2
  <2> QED
    BY <1>2, <1>8, <2>3 DEF Between, Stage, Ordinary
<1>9. ASSUME OrdinaryRule(r), Trying, Part \in TypeSymbols
      PROVE  want' \in Seq(Symbols) /\ Stage'
  <2>1. r.to \in Seq(TypeSymbols) /\ r.first \notin ItemKeywords
    BY <1>4, <1>9 DEF OrdinaryRule
  <2>2. TryShape(Tail(want))
    BY <1>3, <1>5, <1>9, Sorts, TryTail DEF Trying, WantTyped
  <2>3. TryShape(want') /\ want' \in Seq(Symbols)
    BY <1>1, <1>3, <2>1, <2>2, TryJoin
  <2> QED
    BY <1>1, <1>2, <1>9, <2>1, <2>3 DEF Trying, Stage
<1>10. ASSUME ItemRule(r) PROVE want' \in Seq(Symbols) /\ Stage'
  <2>1. Items \cap TypeSymbols = {}
    BY Zenon DEF Items, TypeSymbols
  <2>2. Between /\ Token \in ItemKeywords
    BY <1>4, <1>6, <1>10, <2>1 DEF ItemRule
  <2>3. ReadBy(tokens, nodes, pos, Len(nodes)) /\ Tail(want) \in Seq(Ordinary)
    BY <1>7, <2>2 DEF Between
  <2>4. PICK k \in {2, 3} : HeadAt(r.to, k) /\ (k = 3 => r.to[1] = r.first)
    BY <1>10 DEF ItemRule
  <2>5. HeadAt(want', k) /\ want'[1] = r.to[1]
    BY <1>1, <2>3, <2>4, HeadJoin
  <2>6. want' \in Seq(Symbols)
    BY <2>5 DEF HeadAt
  <2>7. attr' = FreshAttr
    BY <1>1, <1>4, <2>2
  <2>8. Token' = Token
    BY <1>2 DEF Token, AtEnd
  <2>9. ReadBy(tokens, nodes, pos, Len(nodes))'
    BY <1>2, <2>3
  <2>10. CASE k = 3
    <3>1. Token' = want'[1]
      BY <1>4, <2>4, <2>5, <2>8, <2>10
    <3>2. HeadAt(want', 3)
      BY <2>5, <2>10
    <3>3. AtKeyword'
      BY <2>7, <2>9, <3>1, <3>2 DEF AtKeyword
    <3> QED
      BY <2>6, <3>3 DEF Stage
  <2>11. CASE k = 2
    <3>1. HeadAt(want', 2) /\ Token' \in ItemKeywords
      BY <2>2, <2>5, <2>8, <2>11
    <3>2. AtBracket'
      BY <2>7, <2>9, <3>1 DEF AtBracket
    <3> QED
      BY <2>6, <3>2 DEF Stage
  <2> QED
    BY <2>4, <2>10, <2>11
<1>11. want' \in Seq(Symbols) /\ Stage'
  BY <1>5, <1>6, <1>8, <1>9, <1>10
<1>12. WantTyped' /\ GenericsTyped'
  BY <1>1, <1>3, <1>11, ScopeTyped DEF WantTyped, GenericsTyped
<1>13. TypeOK' /\ Typed'
  BY <1>1, <1>2, <1>12, SavedTyped, StayTypes DEF Finished
<1> QED
  BY <1>2, <1>11, <1>13 DEF GrammarInv

----------------------------------------------------------------------------
(* A terminal is read                                                      *)

LEMMA HeaderSorts ==
    /\ \A s \in ItemKeywords : s \notin Special \cup AttrLists
    /\ \A s \in Closers \cup {"["} : s \in Special /\ s \notin ItemKeywords \cup NameKinds
    /\ AttrLists \subseteq Parts /\ "<again>" \in Parts
<1>1. \A s \in Closers \cup {"["} : s \in Special /\ s \notin NameKinds
  BY Zenon DEF Closers, Special, NameKinds
<1>2. \A s \in Special : s \notin ItemKeywords
  BY SpecialOrdinary DEF Ordinary
<1>3. AttrLists \subseteq Parts /\ "<again>" \in Parts
  BY DEF Parts, OtherParts
<1> QED
  BY <1>1, <1>2, <1>3, Sorts

LEMMA TakeInv == ASSUME GrammarInv, Take PROVE GrammarInv'
<1>1. Running /\ Token = Part
  BY DEF Take
<1>2. /\ Bounds /\ WantTyped /\ GenericsTyped /\ IsSeq(nodes) /\ pos \in Nat \ {0}
      /\ pc = "run" /\ want # <<>> /\ Part = want[1] /\ Part \in Symbols
  BY <1>1, Facts
<1>3. ~AtEnd
  BY <1>1, <1>2, EndIs, EofIs
<1>4. Token = Kind(tokens[pos]) /\ Token \notin Parts \cup NameKinds
  BY <1>1, <1>2, <1>3, TokenIs
<1>5. /\ pos' = pos + 1 /\ want' = Tail(want) /\ tokens' = tokens /\ pc' = pc /\ attr' = attr
      /\ generics' = generics /\ saved' = saved
      /\ nodes' = IF Token \in Special THEN nodes ELSE Leaf(Token, None)
  BY DEF Take
<1>6. Noted(nodes, nodes', pos, Token)
  <2>1. CASE Token \in Special
    BY <1>4, <1>5, <2>1 DEF Noted
  <2>2. CASE Token \notin Special
    BY <1>4, <1>5, <2>2, HeaderSorts, LeafNoted
  <2> QED
    BY <2>1, <2>2
<1>7. GenericsTyped' /\ WantTyped'
  BY <1>2, <1>5 DEF GenericsTyped, WantTyped
<1>8. ASSUME InOrder(nodes, pos, Len(nodes)) PROVE TypeOK' /\ Typed'
  BY <1>1, <1>3, <1>5, <1>6, <1>7, <1>8, AttrTyped, ReadTypes
<1>9. ASSUME Between PROVE GrammarInv'
  <2>1. Part \in Ordinary
    BY <1>2, <1>9 DEF Between
  <2>2. Token \notin ItemKeywords
    BY <1>1, <2>1 DEF Ordinary
  <2> QED
    BY <1>1, <1>3, <1>5, <1>6, <1>7, <1>9, <2>2, Reads
<1>10. ASSUME Trying PROVE GrammarInv'
  <2>1. Part # "<again>" /\ Part \in TypeSymbols
    BY <1>1, <1>2, <1>4, <1>10, HeaderSorts, Surface
  <2>2. Token \notin ItemKeywords
    BY <1>1, <2>1, TypeSymbolsOrdinary DEF Ordinary
  <2> QED
    BY <1>1, <1>3, <1>5, <1>6, <1>7, <1>10, <2>1, <2>2, Reads
<1>11. ASSUME AtKeyword PROVE GrammarInv'
  <2>1. HeadAt(want, 3) /\ attr = FreshAttr /\ ReadBy(tokens, nodes, pos, Len(nodes))
    BY <1>11 DEF AtKeyword
  <2>2. Token \in ItemKeywords
    BY <1>1, <1>2, <2>1 DEF HeadAt
  <2>3. nodes' = Leaf(Token, None)
    BY <1>5, <2>2, HeaderSorts
  <2>4. PICK n : nodes' = Append(nodes, n) /\ n.at = pos
    BY <2>3 DEF Leaf, Node
  <2>5. /\ Len(nodes) \in Nat /\ Len(nodes') = Len(nodes) + 1
        /\ nodes'[Len(nodes) + 1].at = pos /\ \A k \in 1 .. Len(nodes) : nodes'[k] = nodes[k]
    BY <1>2, <2>4, Appended
  <2>6. ReadBut(tokens, nodes', pos, pos + 1, Len(nodes) + 1)
    BY <1>2, <1>4, <2>1, <2>2, <2>5, ReadKeyword
  <2>7. HeadAt(want', 2)
    <3>1. HeadAt(Tail(want), 2)
      BY <2>1, TailHead
    <3> QED
      BY <1>5, <3>1
  <2>8. AtBracket'
    <3>1. ReadBut(tokens, nodes', (pos + 1) - 1, pos + 1, Len(nodes'))
      BY <1>2, <2>5, <2>6
    <3> QED
      BY <1>5, <2>1, <2>7, <3>1 DEF AtBracket
  <2> QED
    BY <1>2, <1>5, <1>8, <2>1, <2>8 DEF GrammarInv, Stage, ReadBy
<1>12. ASSUME AtBracket PROVE GrammarInv'
  <2>1. HeadAt(want, 2) /\ attr = FreshAttr
    BY <1>12 DEF AtBracket
  <2>2. Part = "["
    BY <1>2, <2>1 DEF HeadAt
  <2>3. Token \notin ItemKeywords \cup NameKinds /\ nodes' = nodes
    BY <1>1, <1>5, <2>2, HeaderSorts
  <2>4. ReadBut(tokens, nodes, pos - 1, pos, Len(nodes))
    BY <1>12, <2>3 DEF AtBracket
  <2>5. InOrder(nodes, pos, Len(nodes)) /\ pos - 1 \in 1 .. (pos - 1)
    BY <2>4 DEF ReadBut
  <2>6. Len(nodes) \in Nat /\ DOMAIN nodes = 1 .. Len(nodes)
    BY <1>2, Appended
  <2>7. ReadBut(tokens, nodes, pos - 1, pos + 1, Len(nodes))
    <3>1. pos - 1 \in Nat /\ pos \in Nat
      BY <1>2
    <3> QED
      BY <1>4, <2>3, <2>4, <2>6, <3>1, ReadHeader
  <2>8. ListInv(tokens, attr, pos - 1, pos + 1)
    <3>1. pos - 1 \in Nat /\ (pos - 1) + 2 = pos + 1
      BY <1>2
    <3>2. ListInv(tokens, FreshAttr, pos - 1, (pos - 1) + 2)
      BY <3>1, ListBegins
    <3> QED
      BY <2>1, <3>1, <3>2
  <2>9. \A k \in DOMAIN nodes : nodes[k].at <= pos - 1
    BY <1>2, <2>5, <2>6 DEF InOrder
  <2>10. pos - 1 \in 1 .. ((pos + 1) - 2)
    BY <1>2, <2>5
  <2>11. HeadAt(want', 1)
    <3>1. HeadAt(Tail(want), 1)
      BY <2>1, TailHead
    <3> QED
      BY <1>5, <3>1
  <2>12. InList'
    BY <1>5, <2>3, <2>7, <2>8, <2>9, <2>10, <2>11 DEF InList
  <2> QED
    BY <1>2, <1>5, <1>8, <2>5, <2>12 DEF GrammarInv, Stage
<1>13. ~InList
  BY <1>1, <1>2, <1>4, HeaderSorts DEF InList, HeadAt
<1>14. ASSUME ListRead PROVE GrammarInv'
  <2>1. want \in Seq(Ordinary) /\ Part \in Closers /\ nodes # <<>>
    BY <1>2, <1>14 DEF ListRead
  <2>2. PICK x \in 1 .. (pos - 2) :
          /\ ReadBut(tokens, nodes, x, pos, Len(nodes))
          /\ \A i \in (x + 2) .. (pos - 1) : Listable(tokens, i)
          /\ OfList(tokens, nodes[Len(nodes)], x, pos)
          /\ \A k \in 1 .. (Len(nodes) - 1) : nodes[k].at <= x
    BY <1>14 DEF ListRead
  <2>3. nodes' = nodes /\ Kind(tokens[pos]) \in Closers
    BY <1>1, <1>4, <1>5, <2>1, HeaderSorts
  <2>4. Len(nodes) \in Nat \ {0}
    <3>1. PICK S : nodes \in Seq(S)
      BY <1>2 DEF IsSeq
    <3> QED
      BY <2>1, <3>1
  <2>5. x \in Nat /\ pos \in Nat /\ x + 2 <= pos
    BY <1>2
  <2>6. ReadBy(tokens, nodes, pos + 1, Len(nodes))
    BY <2>2, <2>3, <2>4, <2>5, ReadCloser
  <2>7. want' \in Seq(Ordinary)
    BY <1>2, <1>5, <2>1
  <2>8. Between'
    BY <1>5, <2>3, <2>6, <2>7 DEF Between
  <2> QED
    BY <1>2, <1>5, <1>8, <2>2, <2>8 DEF GrammarInv, Stage, ReadBut
<1> QED
  BY <1>9, <1>10, <1>11, <1>12, <1>13, <1>14 DEF GrammarInv, Stage

----------------------------------------------------------------------------
(* An attribute list is read                                               *)

LEMMA AttrModifierInv == ASSUME GrammarInv, AttrModifier PROVE GrammarInv'
<1>1. Running /\ Part \in AttrLists /\ Token \in Modifiers[Part]
  BY DEF AttrModifier
<1>2. /\ GenericsTyped /\ WantTyped /\ IsSeq(nodes) /\ pos \in Nat \ {0} /\ want # <<>>
      /\ pc = "run" /\ attr \in [index : 0 .. pos, mods : SUBSET Keywords]
  BY <1>1, Facts, AttrTyped
<1>3. /\ Token \in ListWords /\ Token \in Keywords
      /\ Token \notin ItemKeywords \cup NameKinds \cup {"eof"}
  <2>1. Token \in ListWords
    BY <1>1 DEF ListWords
  <2> QED
    BY <2>1, ListWordsAre
<1>4. ~AtEnd /\ Token = Kind(tokens[pos])
  BY <1>1, <1>3, EndIs, TokenIs
<1>5. /\ pos' = pos + 1 /\ want' = want /\ tokens' = tokens /\ pc' = pc /\ nodes' = nodes
      /\ generics' = generics /\ saved' = saved
      /\ attr' = [attr EXCEPT !.mods = (@ \ Group(Token)) \cup {Token}]
  BY DEF AttrModifier
<1>6. attr'.mods = (attr.mods \ Group(Token)) \cup {Token} /\ attr'.index = attr.index
  BY <1>2, <1>5
<1>7. attr' \in [index : 0 .. pos, mods : SUBSET Keywords]
  BY <1>2, <1>3, <1>5
<1>8. HeadAt(want, 1) /\ InList
  BY <1>1, <1>2, Surface DEF InList
<1>9. PICK x \in 1 .. (pos - 2) :
        /\ ReadBut(tokens, nodes, x, pos, Len(nodes)) /\ ListInv(tokens, attr, x, pos)
        /\ \A k \in DOMAIN nodes : nodes[k].at <= x
  BY <1>8 DEF InList
<1>10. x \in Nat /\ pos \in Nat /\ x + 2 <= pos /\ x \in 1 .. ((pos + 1) - 2) /\ Len(nodes) \in Nat
  BY <1>2, Appended
<1>11. ListInv(tokens, attr', x, pos + 1)
  <2>1. PICK b : b = attr'
    OBVIOUS
  <2>2. b.mods = (attr.mods \ Group(Kind(tokens[pos]))) \cup {Kind(tokens[pos])}
          /\ b.index = attr.index /\ Kind(tokens[pos]) \in ListWords
    BY <1>3, <1>4, <1>6, <2>1
  <2> QED
    BY <1>9, <1>10, <2>1, <2>2, ListModifier
<1>12. ReadBut(tokens, nodes, x, pos + 1, Len(nodes))
  BY <1>3, <1>4, <1>9, <1>10, ReadHeader
<1>13. InList'
  BY <1>5, <1>8, <1>9, <1>10, <1>11, <1>12 DEF InList
<1>14. Noted(nodes, nodes', pos, Token) /\ InOrder(nodes, pos, Len(nodes))
  BY <1>3, <1>5, <1>9 DEF Noted, ReadBut
<1>15. GenericsTyped' /\ WantTyped'
  BY <1>2, <1>5 DEF GenericsTyped, WantTyped
<1>16. TypeOK' /\ Typed'
  BY <1>1, <1>4, <1>5, <1>7, <1>14, <1>15, ReadTypes
<1> QED
  BY <1>2, <1>5, <1>13, <1>16 DEF GrammarInv, Stage

LEMMA AttrIntegerInv == ASSUME GrammarInv, AttrInteger PROVE GrammarInv'
<1>1. Running /\ Part \in AttrLists /\ Form = "int"
  BY DEF AttrInteger
<1>2. /\ GenericsTyped /\ WantTyped /\ IsSeq(nodes) /\ pos \in Nat \ {0} /\ want # <<>>
      /\ pc = "run" /\ attr \in [index : 0 .. pos, mods : SUBSET Keywords]
  BY <1>1, Facts, AttrTyped
<1>3. /\ ~AtEnd /\ Token = Kind(tokens[pos]) /\ tokens[pos].form = "int"
      /\ Token \notin ItemKeywords \cup NameKinds
  BY <1>1, EndIs, TokenIs, IntKind, IntOther
<1>4. /\ pos' = pos + 1 /\ want' = want /\ tokens' = tokens /\ pc' = pc /\ nodes' = nodes
      /\ generics' = generics /\ saved' = saved
      /\ attr' = [attr EXCEPT !.index = pos]
  BY DEF AttrInteger, LastIndex
<1>5. attr'.mods = attr.mods /\ attr'.index = pos
  BY <1>2, <1>4
<1>6. attr' \in [index : 0 .. pos, mods : SUBSET Keywords]
  BY <1>2, <1>4
<1>7. HeadAt(want, 1) /\ InList
  BY <1>1, <1>2, Surface DEF InList
<1>8. PICK x \in 1 .. (pos - 2) :
        /\ ReadBut(tokens, nodes, x, pos, Len(nodes)) /\ ListInv(tokens, attr, x, pos)
        /\ \A k \in DOMAIN nodes : nodes[k].at <= x
  BY <1>7 DEF InList
<1>9. x \in Nat /\ pos \in Nat /\ x + 2 <= pos /\ x \in 1 .. ((pos + 1) - 2) /\ Len(nodes) \in Nat
  BY <1>2, Appended
<1>10. ListInv(tokens, attr', x, pos + 1)
  BY <1>3, <1>5, <1>8, <1>9, ListInteger
<1>11. ReadBut(tokens, nodes, x, pos + 1, Len(nodes))
  BY <1>3, <1>8, <1>9, ReadHeader
<1>12. InList'
  BY <1>4, <1>7, <1>8, <1>9, <1>10, <1>11 DEF InList
<1>13. Noted(nodes, nodes', pos, Token) /\ InOrder(nodes, pos, Len(nodes))
  BY <1>3, <1>4, <1>8 DEF Noted, ReadBut
<1>14. GenericsTyped' /\ WantTyped'
  BY <1>2, <1>4 DEF GenericsTyped, WantTyped
<1>15. TypeOK' /\ Typed'
  BY <1>1, <1>3, <1>4, <1>6, <1>13, <1>14, ReadTypes
<1> QED
  BY <1>2, <1>4, <1>12, <1>15 DEF GrammarInv, Stage

LEMMA EndAttrInv == ASSUME GrammarInv, EndAttr PROVE GrammarInv'
<1>1. Running /\ Part \in AttrLists /\ attr.index # 0 /\ Fits(tokens[attr.index].text, "<u32>")
  BY DEF EndAttr, HasIndex, IndexText
<1>2. /\ Bounds /\ GenericsTyped /\ WantTyped /\ IsSeq(nodes) /\ pos \in Nat \ {0}
      /\ want # <<>> /\ pc = "run" /\ NodesTyped(nodes, pos) /\ tokens \in Inputs
  BY <1>1, Facts
<1>3. PICK n : n = Node(Part, attr.index, ValueOf[tokens[attr.index].text], attr.mods)
  OBVIOUS
<1>4. /\ pos' = pos /\ want' = Tail(want) /\ tokens' = tokens /\ pc' = pc /\ attr' = attr
      /\ generics' = generics /\ saved' = saved /\ nodes' = Append(nodes, n)
  BY <1>3 DEF EndAttr, IndexText
<1>5. /\ n.as = Part /\ n.at = attr.index /\ n.value = ValueOf[tokens[attr.index].text]
      /\ n.mods = attr.mods
  BY <1>3 DEF Node
<1>6. HeadAt(want, 1) /\ InList
  BY <1>1, <1>2, Surface DEF InList
<1>7. PICK x \in 1 .. (pos - 2) :
        /\ ReadBut(tokens, nodes, x, pos, Len(nodes)) /\ ListInv(tokens, attr, x, pos)
        /\ \A k \in DOMAIN nodes : nodes[k].at <= x
  BY <1>6 DEF InList
<1>8. /\ attr.index \in (x + 2) .. (pos - 1) /\ tokens[attr.index].form = "int"
      /\ \A i \in (attr.index + 1) .. (pos - 1) : Kind(tokens[i]) # "int"
      /\ \A i \in (x + 2) .. (pos - 1) : Listable(tokens, i)
      /\ attr.mods = InForce(tokens, x + 2, pos - 1)
  BY <1>1, <1>7 DEF ListInv
<1>9. /\ IsSeq(nodes') /\ Len(nodes) \in Nat /\ DOMAIN nodes = 1 .. Len(nodes)
      /\ Len(nodes') = Len(nodes) + 1 /\ DOMAIN nodes' = 1 .. (Len(nodes) + 1)
      /\ nodes'[Len(nodes) + 1] = n /\ \A k \in 1 .. Len(nodes) : nodes'[k] = nodes[k]
  BY <1>2, <1>4, Appended
<1>10. x \in Nat /\ pos \in Nat
  BY <1>2
<1>11. ReadBut(tokens, nodes', x, pos, Len(nodes) + 1)
  BY <1>5, <1>7, <1>8, <1>9, <1>10, ReadList
<1>12. OfList(tokens, n, x, pos)
  BY <1>5, <1>8 DEF OfList
<1>13. Tail(want) \in Seq(Ordinary) /\ Tail(want) # <<>> /\ Tail(want)[1] \in Closers
  BY <1>6, TailList
<1>14. ListRead'
  <2>1. nodes' # <<>>
    BY <1>9
  <2>2. \A k \in 1 .. (Len(nodes') - 1) : nodes'[k].at <= x
    BY <1>7, <1>9
  <2>3. OfList(tokens, nodes'[Len(nodes')], x, pos) /\ ReadBut(tokens, nodes', x, pos, Len(nodes'))
    BY <1>9, <1>11, <1>12
  <2> QED
    BY <1>4, <1>8, <1>13, <2>1, <2>2, <2>3 DEF ListRead
<1>15. n.at < pos /\ n.value \in 0 .. MaxIndex
  <2>1. attr.index \in DOMAIN tokens /\ attr.index < pos
    <3>1. PICK i, l : i = attr.index /\ l = Len(tokens)
      OBVIOUS
    <3>2. i < pos /\ i \in Nat /\ i # 0 /\ pos <= l + 1 /\ l \in Nat
      BY <1>1, <1>2, <3>1, Positions
    <3>3. DOMAIN tokens = 1 .. l
      BY <1>2, <3>1 DEF Bounds
    <3>4. i \in 1 .. l
      BY <1>10, <3>2
    <3> QED
      BY <3>1, <3>2, <3>3, <3>4
  <2>2. ValueOf[tokens[attr.index].text] \in Nat \cup {None}
    BY <1>2, <1>8, <2>1, IntKind, IntText
  <2>3. ValueOf[tokens[attr.index].text] # None /\ ValueOf[tokens[attr.index].text] <= MaxIndex
    BY <1>1 DEF Fits
  <2>4. MaxIndex \in Nat
    BY GrammarAssumption
  <2>5. PICK v : v = ValueOf[tokens[attr.index].text]
    OBVIOUS
  <2>6. v \in 0 .. MaxIndex
    BY <2>2, <2>3, <2>4, <2>5
  <2> QED
    BY <1>5, <2>1, <2>5, <2>6
<1>16. NodesTyped(nodes', pos)
  <2> SUFFICES ASSUME NEW k \in DOMAIN nodes'
               PROVE  /\ nodes'[k].at < pos
                      /\ nodes'[k].value \in IF nodes'[k].as \in AttrLists
                                             THEN 0 .. MaxIndex ELSE Nat \cup {None}
    BY DEF NodesTyped
  <2>1. k \in 1 .. Len(nodes) \/ k = Len(nodes) + 1
    BY <1>9
  <2>2. CASE k \in 1 .. Len(nodes)
    BY <1>2, <1>9, <2>2 DEF NodesTyped
  <2>3. CASE k = Len(nodes) + 1
    BY <1>1, <1>5, <1>9, <1>15, <2>3
  <2> QED
    BY <2>1, <2>2, <2>3
<1>17. WantTyped' /\ GenericsTyped'
  BY <1>2, <1>4, <1>13 DEF WantTyped, GenericsTyped, Ordinary
<1>18. Bounds'
  <2>1. saved.nodes \in 0 .. Len(nodes')
    BY <1>2, <1>9 DEF Bounds
  <2>2. /\ tokens \in Seq([form : Forms, text : STRING]) /\ pos \in 1 .. (Len(tokens) + 1)
        /\ pc \in {"run"} \cup Finished /\ attr.index \in 0 .. (pos - 1)
        /\ attr.mods \subseteq Keywords /\ saved.pos \in 1 .. pos
    BY <1>2 DEF Bounds
  <2> QED
    BY <1>4, <2>1, <2>2, Zenon DEF Bounds
<1>19. TypeOK'
  BY <1>4, <1>16, <1>17, <1>18, Zenon DEF TypeOK, Bounds, WantTyped, GenericsTyped, NodesTyped
<1>20. Typed'
  BY <1>4, <1>9 DEF GrammarInv, Typed
<1> QED
  BY <1>2, <1>4, <1>14, <1>19, <1>20 DEF GrammarInv, Stage

----------------------------------------------------------------------------
(* The end, and the theorems                                               *)

LEMMA StageStays ==
    ASSUME Stage, UNCHANGED <<tokens, pos, want, attr, saved, nodes>> PROVE Stage'
<1>1. Token' = Token
  BY DEF Token, AtEnd
<1>2. CASE AtKeyword
  BY <1>1, <1>2 DEF AtKeyword, Stage
<1>3. CASE AtBracket
  BY <1>1, <1>3 DEF AtBracket, Stage
<1>4. CASE InList
  BY <1>4 DEF InList, Stage
<1>5. CASE ListRead
  BY <1>5 DEF ListRead, Stage
<1>6. CASE Between
  BY <1>6 DEF Between, Stage
<1>7. CASE Trying
  BY <1>7 DEF Trying, Stage
<1> QED
  BY <1>2, <1>3, <1>4, <1>5, <1>6, <1>7 DEF Stage

LEMMA FinishInv == ASSUME GrammarInv, Finish PROVE GrammarInv'
<1>1. Running /\ Part = "<file>" /\ AtEnd
  BY DEF Finish
<1>2. GenericsTyped /\ want # <<>>
  BY <1>1, Facts
<1>3. "<file>" \in Nonterminals /\ "<file>" \notin TypeSymbols
  BY SortsOfParts, Zenon DEF OtherParts, TypeSymbols
<1>4. Between
  BY <1>1, <1>2, <1>3, Surface
<1>5. want' \in Seq(Ordinary) /\ want' \in Seq(Symbols) /\ want' = <<>>
  BY DEF Finish
<1>6. WantTyped' /\ GenericsTyped'
  BY <1>2, <1>5 DEF WantTyped, GenericsTyped, Finish
<1>7. TypeOK' /\ Typed'
  BY <1>1, <1>6, SavedTyped, StayTypes DEF Finish, Finished
<1>8. Stage'
  BY <1>4, <1>5 DEF Between, Stage, Finish
<1>9. AtEnd'
  BY <1>1 DEF AtEnd, Finish
<1> QED
  BY <1>5, <1>7, <1>8, <1>9 DEF GrammarInv

LEMMA StopInv ==
    ASSUME GrammarInv, Running, pc' \in {"error", "panic"},
           UNCHANGED <<tokens, pos, want, attr, generics, saved, nodes>>
    PROVE  GrammarInv'
<1>1. WantTyped' /\ GenericsTyped'
  BY Facts DEF WantTyped, GenericsTyped
<1>2. TypeOK' /\ Typed'
  BY <1>1, SavedTyped, StayTypes DEF Finished
<1>3. Stage'
  BY StageStays DEF GrammarInv
<1> QED
  BY <1>2, <1>3 DEF GrammarInv

LEMMA StutterInv == ASSUME GrammarInv, UNCHANGED vars PROVE GrammarInv'
<1>1. Stage'
  BY StageStays DEF GrammarInv, vars
<1>2. TypeOK' /\ Typed'
  BY Zenon DEF GrammarInv, vars, TypeOK, Typed
<1> QED
  BY <1>1, <1>2 DEF GrammarInv, vars, AtEnd

LEMMA InitInv == ASSUME Init PROVE GrammarInv
<1>1. /\ tokens \in Inputs /\ pos = 1 /\ pc = "run" /\ want = <<"<file>">>
      /\ attr = FreshAttr /\ generics = NoGenerics
      /\ saved.pos = 1 /\ saved.nodes = 0 /\ nodes = <<>>
  BY DEF Init
<1>2. tokens \in Seq([form : Forms, text : STRING]) /\ Len(tokens) \in Nat
  <2>1. Inputs \subseteq Seq([form : Forms, text : STRING])
    BY GrammarAssumption, Zenon
  <2>2. \A S : tokens \in Seq(S) => Len(tokens) \in Nat
    OBVIOUS
  <2> QED
    BY <1>1, <2>1, <2>2, Zenon
<1>3. want \in Seq(Ordinary)
  BY <1>1, PartSymbols, Tuple1
<1>4. IsSeq(nodes) /\ Len(nodes) = 0 /\ DOMAIN nodes = {}
  <2>1. nodes \in Seq({})
    BY <1>1
  <2> QED
    BY <1>1, <2>1 DEF IsSeq
<1>5. ReadBy(tokens, nodes, 1, 0)
  BY DEF ReadBy, InOrder, NamesRead, ItemsRead
<1>6. GenericsTyped
  BY <1>1, NoGenericsTyped DEF GenericsTyped
<1>7. WantTyped /\ NodesTyped(nodes, pos)
  BY <1>3, <1>4 DEF WantTyped, NodesTyped, Ordinary
<1>8. Bounds
  <2>1. pos \in 1 .. (Len(tokens) + 1) /\ attr.index \in 0 .. (pos - 1)
          /\ saved.pos \in 1 .. pos /\ saved.nodes \in 0 .. Len(nodes)
    BY <1>1, <1>2, <1>4, FreshTyped
  <2>2. attr.mods \subseteq Keywords /\ pc \in {"run"} \cup Finished
    BY <1>1, FreshTyped
  <2> QED
    BY <1>2, <2>1, <2>2 DEF Bounds
<1>9. TypeOK
  BY <1>6, <1>7, <1>8, TypeParts
<1>10. Typed
  BY <1>1, <1>4, FreshTyped DEF Typed
<1>11. Stage
  BY <1>1, <1>3, <1>4, <1>5 DEF Between, Stage
<1> QED
  BY <1>1, <1>9, <1>10, <1>11 DEF GrammarInv

LEMMA NextInv == ASSUME GrammarInv, [Next]_vars PROVE GrammarInv'
<1>1. CASE Take
  BY <1>1, TakeInv
<1>2. CASE Expand
  BY <1>2, ExpandInv
<1>3. CASE Skip
  BY <1>3, SkipInv
<1>4. CASE TakeName
  BY <1>4, TakeNameInv
<1>5. CASE DeclareGeneric
  BY <1>5, DeclareGenericInv
<1>6. CASE ResolveGeneric
  BY <1>6, ResolveGenericInv
<1>7. CASE TakeInteger
  BY <1>7, TakeIntegerInv
<1>8. CASE AttrModifier
  BY <1>8, AttrModifierInv
<1>9. CASE AttrInteger
  BY <1>9, AttrIntegerInv
<1>10. CASE EndAttr
  BY <1>10, EndAttrInv
<1>11. CASE TryReference
  BY <1>11, TryReferenceInv
<1>12. CASE NextReference
  BY <1>12, NextReferenceInv
<1>13. CASE TakeConstant
  BY <1>13, TakeConstantInv
<1>14. CASE EndOfFileInType
  BY <1>14, EndOfFileInTypeInv
<1>15. CASE Finish
  BY <1>15, FinishInv
<1>16. CASE Panic
  BY <1>16, StopInv DEF Panic
<1>17. CASE Fail
  BY <1>17, StopInv DEF Fail
<1>18. CASE Unwind
  BY <1>18, UnwindInv
<1>19. CASE Terminated
  BY <1>19, StutterInv DEF Terminated
<1>20. CASE UNCHANGED vars
  BY <1>20, StutterInv
<1> QED
  BY <1>1, <1>2, <1>3, <1>4, <1>5, <1>6, <1>7, <1>8, <1>9, <1>10, <1>11, <1>12, <1>13,
     <1>14, <1>15, <1>16, <1>17, <1>18, <1>19, <1>20 DEF Next

\* The parser of types, fields, methods and statements keeps GrammarInv.
THEOREM GrammarInductive == Spec => []GrammarInv
<1>1. Init => GrammarInv
  BY InitInv
<1>2. GrammarInv /\ [Next]_vars => GrammarInv'
  BY NextInv
<1> QED
  BY <1>1, <1>2, PTL DEF Spec

\* Nothing is read past the end of the file, a reference that fails goes back to
\* a place behind the stream and to a number of nodes there were, the parser only
\* waits for parts and tokens it knows, and the index of every attribute list is
\* a u32 (ty.rs:147-161, 171-273, field.rs:75-125, method.rs:44-48, 295-377).
THEOREM TypeCorrect == Spec => []TypeOK
<1>1. GrammarInv => TypeOK
  BY DEF GrammarInv
<1> QED
  BY <1>1, GrammarInductive, PTL

LEMMA ListEndIs ==
    ASSUME NEW p \in Nat, NEW q \in (p + 2) .. Len(tokens), Ends(tokens, p, q)
    PROVE  ListEnd(p) = q
<1>1. ListEnd(p) = CHOOSE r \in (p + 2) .. Len(tokens) :
                      /\ Kind(tokens[r]) \in Closers
                      /\ \A i \in (p + 2) .. (r - 1) : Kind(tokens[i]) \notin Closers
  BY Zenon DEF ListEnd, Closers
<1>2. ASSUME NEW r \in (p + 2) .. Len(tokens), Kind(tokens[r]) \in Closers,
             \A i \in (p + 2) .. (r - 1) : Kind(tokens[i]) \notin Closers
      PROVE  r = q
  <2>1. ~(r < q)
    BY <1>2 DEF Ends
  <2>2. ~(q < r)
    BY <1>2 DEF Ends
  <2> QED
    BY <2>1, <2>2
<1>3. Kind(tokens[q]) \in Closers /\ \A i \in (p + 2) .. (q - 1) : Kind(tokens[i]) \notin Closers
  BY DEF Ends
<1> QED
  BY <1>1, <1>2, <1>3

LEMMA ItemIs ==
    ASSUME IsSeq(nodes), NEW p \in Nat, ItemRead(tokens, nodes, p, Len(tokens) + 1, Len(nodes)),
           Len(tokens) \in Nat
    PROVE  ItemFaithful(p)
<1>1. PICK q \in (p + 2) .. Len(tokens) :
        /\ Ends(tokens, p, q)
        /\ \E k \in 1 .. Len(nodes) :
              /\ OfList(tokens, nodes[k], p, q)
              /\ \A j \in 1 .. Len(nodes) : nodes[j].at \in (p + 2) .. (q - 1) => j = k
  BY DEF ItemRead
<1>2. PICK k \in 1 .. Len(nodes) :
        /\ OfList(tokens, nodes[k], p, q)
        /\ \A j \in 1 .. Len(nodes) : nodes[j].at \in (p + 2) .. (q - 1) => j = k
  BY <1>1
<1>3. ListEnd(p) = q
  BY <1>1, ListEndIs
<1>4. DOMAIN nodes = 1 .. Len(nodes)
  BY Appended
<1>5. /\ nodes[k].at \in (p + 2) .. (q - 1)
      /\ \A i \in (nodes[k].at + 1) .. (q - 1) : Kind(tokens[i]) # "int"
      /\ nodes[k].value = ValueOf[tokens[nodes[k].at].text]
      /\ nodes[k].mods = InForce(tokens, p + 2, q - 1)
  BY <1>2 DEF OfList
<1>6. InForce(tokens, p + 2, q - 1) = Written(p + 2, q - 1)
  BY Zenon DEF InForce, Written
<1>7. {j \in DOMAIN nodes : nodes[j].at \in (p + 2) .. (q - 1)} = {k}
  BY <1>2, <1>4, <1>5
<1> QED
  BY <1>3, <1>5, <1>6, <1>7 DEF ItemFaithful

\* An accepted file is read whole: its nodes are in the order of the source,
\* every name is read exactly once, none was dropped with a reference that
\* failed, and every type, field and method has the index and the modifiers
\* written in its own list (lib.rs:30-34, ty.rs:171-273, field.rs:75-125,
\* method.rs:44-48, 295-377).
THEOREM FileRead == Spec => []FileFaithful
<1>1. ASSUME GrammarInv PROVE FileFaithful
  <2> SUFFICES ASSUME pc = "done" PROVE FileFaithful
    BY DEF FileFaithful
  <2>1. /\ Bounds /\ IsSeq(nodes) /\ want = <<>> /\ AtEnd /\ Stage
    BY <1>1, TypeParts DEF GrammarInv, Typed
  <2>2. pos = Len(tokens) + 1 /\ Len(tokens) \in Nat /\ DOMAIN tokens = 1 .. Len(tokens)
    <3>1. pos \in Nat /\ Len(tokens) \in Nat /\ pos <= Len(tokens) + 1
      BY <2>1, Positions
    <3>2. pos > Len(tokens)
      BY <2>1 DEF AtEnd
    <3>3. DOMAIN tokens = 1 .. Len(tokens)
      BY <2>1 DEF Bounds
    <3> QED
      BY <3>1, <3>2, <3>3
  <2>3. Between
    <3>1. Len(want) = 0 /\ DOMAIN want = {}
      BY <2>1
    <3>2. ~AtKeyword /\ ~AtBracket /\ ~InList
      BY <3>1 DEF AtKeyword, AtBracket, InList, HeadAt
    <3>3. ~ListRead /\ ~Trying
      BY <2>1, <3>1 DEF ListRead, Trying, TryShape
    <3> QED
      BY <2>1, <3>2, <3>3 DEF Stage
  <2>4. ReadBy(tokens, nodes, Len(tokens) + 1, Len(nodes))
    BY <2>2, <2>3 DEF Between
  <2>5. DOMAIN nodes = 1 .. Len(nodes)
    BY <2>1, Appended
  <2>6. \A j, k \in DOMAIN nodes : j < k => nodes[j].at < nodes[k].at
    BY <2>4, <2>5 DEF ReadBy, InOrder
  <2>7. \A p \in DOMAIN tokens : Kind(tokens[p]) \in {"name", "bad_string"} =>
          \E k \in DOMAIN nodes : nodes[k].at = p
    BY <2>2, <2>4, <2>5 DEF ReadBy, NamesRead, NameKinds
  <2>8. \A p \in DOMAIN tokens :
          Kind(tokens[p]) \in TypeKeywords \cup MemberKeywords => ItemFaithful(p)
    BY <2>1, <2>2, <2>4, ItemIs DEF ReadBy, ItemsRead, ItemKeywords
  <2> QED
    BY <2>6, <2>7, <2>8 DEF FileFaithful
<1> QED
  BY <1>1, GrammarInductive, PTL

----------------------------------------------------------------------------
(* Generics in scope                                                       *)

\* The last token before e whose kind is in K, 0 if there is none.
Greatest(S) == IF S = {} THEN 0 ELSE CHOOSE i \in S : \A j \in S : j <= i
Latest(ts, e, K) == Greatest({i \in 1 .. (e - 1) : Kind(ts[i]) \in K})

\* Where the first m nodes declare generics of a list from a place on.
Places(ns, m, list, from) ==
    {ns[k].at : k \in {k \in 1 .. m : ns[k].as = list /\ from <= ns[k].at}}

TypePlaces(ts, ns, e, m) == Places(ns, m, "<type_generics>", Latest(ts, e, TypeKeywords))
MethodPlaces(ts, ns, e, m) == Places(ns, m, "<method_generics>", Latest(ts, e, ItemKeywords))

\* What stands at the places D, in their order, are the names g.
Enumerates(ts, D, g) ==
    \E f \in [1 .. Len(g) -> D] :
        /\ \A i, j \in 1 .. Len(g) : i < j => f[i] < f[j]
        /\ \A p \in D : \E i \in 1 .. Len(g) : f[i] = p
        /\ \A i \in 1 .. Len(g) : ts[f[i]].text = g[i]

\* n stands for the first of the places D with its name.
Chooses(ts, D, n) ==
    \E p \in D : /\ ts[p].text = ts[n.at].text
                 /\ \A q \in D : q < p => ts[q].text # ts[n.at].text
                 /\ n.value = Cardinality({q \in D : q < p})

\* The k-th node means a generic of the nodes before it.
ResolvedAt(ts, ns, k) ==
    LET n == ns[k] IN
    /\ n.as = "type_generic" => Chooses(ts, TypePlaces(ts, ns, n.at, k), n)
    /\ n.as = "method_generic" =>
          /\ Kind(ts[Latest(ts, n.at, ItemKeywords)]) = "method"
          /\ Chooses(ts, MethodPlaces(ts, ns, n.at, k), n)
          /\ \A p \in TypePlaces(ts, ns, n.at, k) : ts[p].text # ts[n.at].text

\* The generics g are those in scope at e, and only a method has its own, read
\* or still to be read.
AsksGenerics(w) == \E i \in DOMAIN w : w[i] \in MethodGenerics

Scoped(ts, ns, g, w, e, m) ==
    /\ Enumerates(ts, TypePlaces(ts, ns, e, m), g.type)
    /\ Enumerates(ts, MethodPlaces(ts, ns, e, m), g.method)
    /\ g.method # <<>> \/ AsksGenerics(w) => Kind(ts[Latest(ts, e, ItemKeywords)]) = "method"

\* The generics of a method are asked for before the next item.
Shape(w) ==
    \A i \in DOMAIN w : w[i] \in MethodGenerics => \A j \in 1 .. (i - 1) : w[j] \notin Items

\* The keyword of an item counts as soon as its rule is applied; where a
\* release build meets the keyword of a field instead of a bracket, it is stuck.
Entered == IF want # <<>> /\ Part \in ItemKeywords THEN pos + 1 ELSE pos
Stuck == want # <<>> /\ Part = "[" /\ Token \in ItemKeywords

ScopeInv ==
    /\ Shape(want)
    /\ \A k \in 1 .. Len(nodes) : ResolvedAt(tokens, nodes, k)
    /\ ~Stuck => Scoped(tokens, nodes, generics, want, Entered, Len(nodes))
    /\ Caught => Scoped(tokens, nodes, generics, want, saved.pos, saved.nodes)


Declarations == {"<type_generics>", "<method_generics>"}
Uses == {"type_generic", "method_generic"}

LEMMA LatestKept ==
    ASSUME NEW ts, NEW e \in Nat \ {0}, NEW K, Kind(ts[e]) \notin K
    PROVE  Latest(ts, e + 1, K) = Latest(ts, e, K)
<1>1. {i \in 1 .. ((e + 1) - 1) : Kind(ts[i]) \in K} = {i \in 1 .. (e - 1) : Kind(ts[i]) \in K}
  <2>1. 1 .. ((e + 1) - 1) = 1 .. (e - 1) \cup {e}
    OBVIOUS
  <2> QED
    BY <2>1
<1> QED
  BY <1>1 DEF Latest

LEMMA LatestHere ==
    ASSUME NEW ts, NEW e \in Nat \ {0}, NEW K, Kind(ts[e]) \in K
    PROVE  Latest(ts, e + 1, K) = e
<1> DEFINE S == {i \in 1 .. ((e + 1) - 1) : Kind(ts[i]) \in K}
<1>1. e \in S /\ S \subseteq Nat /\ \A j \in S : j <= e
  OBVIOUS
<1>2. Latest(ts, e + 1, K) = CHOOSE i \in S : \A j \in S : j <= i
  BY <1>1, Zenon DEF Latest, Greatest
<1> HIDE DEF S
<1>3. \A i \in S : (\A j \in S : j <= i) => i = e
  BY <1>1
<1>4. PICK l : l = CHOOSE i \in S : \A j \in S : j <= i
  OBVIOUS
<1>5. l \in S /\ \A j \in S : j <= l
  BY <1>1, <1>4
<1> QED
  BY <1>2, <1>3, <1>4, <1>5

LEMMA PlacesKept ==
    ASSUME NEW ns, NEW os, NEW m \in Nat, NEW n \in Nat, m <= n,
           \A k \in 1 .. m : os[k] = ns[k], NEW list, NEW from,
           \A k \in (m + 1) .. n : os[k].as # list
    PROVE  Places(os, n, list, from) = Places(ns, m, list, from)
<1>1. 1 .. n = 1 .. m \cup (m + 1) .. n
  OBVIOUS
<1> QED
  BY <1>1 DEF Places

LEMMA PlacesNone ==
    ASSUME NEW ns, NEW e \in Nat, NEW m \in Nat, InOrder(ns, e, m), NEW list
    PROVE  Places(ns, m, list, e) = {}
BY DEF Places, InOrder

LEMMA PlacesBefore ==
    ASSUME NEW ns, NEW e \in Nat, NEW m \in Nat, InOrder(ns, e, m), NEW list, NEW from
    PROVE  \A p \in Places(ns, m, list, from) : p \in Nat /\ p < e
BY DEF Places, InOrder

LEMMA EnumeratesNone == ASSUME NEW ts PROVE Enumerates(ts, {}, <<>>)
<1>1. [x \in {} |-> 0] \in [1 .. Len(<<>>) -> {}]
  OBVIOUS
<1> QED
  BY <1>1 DEF Enumerates

\* One more generic, behind the others.
LEMMA EnumeratesMore ==
    ASSUME NEW ts, NEW D \in SUBSET Nat, NEW g \in Seq(STRING), Enumerates(ts, D, g),
           NEW e \in Nat, \A p \in D : p < e, NEW x \in STRING, ts[e].text = x
    PROVE  Enumerates(ts, D \cup {e}, Append(g, x))
<1>1. PICK f \in [1 .. Len(g) -> D] :
        /\ \A i, j \in 1 .. Len(g) : i < j => f[i] < f[j]
        /\ \A p \in D : \E i \in 1 .. Len(g) : f[i] = p
        /\ \A i \in 1 .. Len(g) : ts[f[i]].text = g[i]
  BY DEF Enumerates
<1>2. PICK l, h : l = Len(g) /\ h = Append(g, x)
  OBVIOUS
<1>3. /\ l \in Nat /\ Len(h) = l + 1 /\ \A i \in 1 .. l : h[i] = g[i]
      /\ h[l + 1] = x
  BY <1>2
<1>4. PICK F : F = [i \in 1 .. (l + 1) |-> IF i = l + 1 THEN e ELSE f[i]]
  OBVIOUS
<1>5. F[l + 1] = e /\ \A i \in 1 .. l : F[i] = f[i] /\ f[i] \in D
  BY <1>1, <1>2, <1>3, <1>4
<1>6. \A i \in 1 .. (l + 1) : i \in 1 .. l \/ i = l + 1
  BY <1>3
<1>7. F \in [1 .. Len(h) -> D \cup {e}]
  BY <1>3, <1>4, <1>5, <1>6
<1>8. ASSUME NEW i \in 1 .. (l + 1), NEW j \in 1 .. (l + 1), i < j PROVE F[i] < F[j]
  <2>1. i \in 1 .. l
    BY <1>3, <1>8
  <2>2. CASE j \in 1 .. l
    BY <1>1, <1>2, <1>5, <1>8, <2>1, <2>2
  <2>3. CASE j = l + 1
    BY <1>5, <2>1, <2>3
  <2> QED
    BY <1>6, <2>2, <2>3
<1>9. ASSUME NEW p \in D \cup {e} PROVE \E i \in 1 .. (l + 1) : F[i] = p
  <2>1. CASE p = e
    BY <1>3, <1>5, <2>1
  <2>2. CASE p \in D
    <3>1. PICK i \in 1 .. l : f[i] = p
      BY <1>1, <1>2, <2>2
    <3>2. i \in 1 .. (l + 1) /\ F[i] = p
      BY <1>3, <1>5, <3>1
    <3> QED
      BY <3>2
  <2> QED
    BY <2>1, <2>2
<1>10. ASSUME NEW i \in 1 .. (l + 1) PROVE ts[F[i]].text = h[i]
  <2>1. CASE i \in 1 .. l
    BY <1>1, <1>2, <1>3, <1>5, <2>1
  <2>2. CASE i = l + 1
    BY <1>3, <1>5, <2>2
  <2> QED
    BY <1>6, <2>1, <2>2
<1>11. /\ \A i, j \in 1 .. Len(h) : i < j => F[i] < F[j]
       /\ \A p \in D \cup {e} : \E i \in 1 .. Len(h) : F[i] = p
       /\ \A i \in 1 .. Len(h) : ts[F[i]].text = h[i]
  BY <1>3, <1>8, <1>9, <1>10
<1>12. Enumerates(ts, D \cup {e}, h)
  BY <1>7, <1>11, Zenon DEF Enumerates
<1> QED
  BY <1>2, <1>12

LEMMA EnumeratesAbsent ==
    ASSUME NEW ts, NEW D, NEW g, Enumerates(ts, D, g), NEW x, ~Names(g, x), DOMAIN g = 1 .. Len(g)
    PROVE  \A p \in D : ts[p].text # x
BY DEF Enumerates, Names

\* A generic is known by how many are declared before it.
LEMMA EnumeratesFirst ==
    ASSUME NEW ts, NEW D \in SUBSET Nat, NEW g \in Seq(STRING), Enumerates(ts, D, g), NEW n,
           NEW x, ts[n.at].text = x, Names(g, x), n.value = Position(g, x) - 1
    PROVE  Chooses(ts, D, n)
<1>1. PICK f \in [1 .. Len(g) -> D] :
        /\ \A i, j \in 1 .. Len(g) : i < j => f[i] < f[j]
        /\ \A p \in D : \E i \in 1 .. Len(g) : f[i] = p
        /\ \A i \in 1 .. Len(g) : ts[f[i]].text = g[i]
  BY DEF Enumerates
<1>2. PICK c, l : c = Position(g, x) /\ l = Len(g)
  OBVIOUS
<1>3. c \in 1 .. l /\ g[c] = x /\ l \in Nat /\ \A j \in 1 .. (c - 1) : g[j] # x
  BY <1>2, PositionIs
<1>4. \A i \in 1 .. l : f[i] \in D /\ f[i] \in Nat
  BY <1>1, <1>2
<1>5. ASSUME NEW i \in 1 .. l PROVE f[i] < f[c] <=> i < c
  <2>1. i < c => f[i] < f[c]
    BY <1>1, <1>2, <1>3
  <2>2. c < i => f[c] < f[i]
    BY <1>1, <1>2, <1>3
  <2>3. i = c \/ i < c \/ c < i
    BY <1>3
  <2> QED
    BY <1>3, <1>4, <2>1, <2>2, <2>3
<1>6. ASSUME NEW q \in D, q < f[c] PROVE \E i \in 1 .. (c - 1) : f[i] = q
  <2>1. PICK i \in 1 .. l : f[i] = q
    BY <1>1, <1>2
  <2> QED
    BY <1>3, <1>5, <1>6, <2>1
<1>7. \A q \in D : q < f[c] => ts[q].text # x
  <2>1. \A i \in 1 .. (c - 1) : ts[f[i]].text # x
    BY <1>1, <1>2, <1>3
  <2> QED
    BY <1>6, <2>1
<1>8. Cardinality({q \in D : q < f[c]}) = c - 1
  <2> DEFINE B == {q \in D : q < f[c]}
             h == [i \in 1 .. (c - 1) |-> f[i]]
  <2>1. \A i \in 1 .. (c - 1) : i \in 1 .. l /\ i < c
    BY <1>3
  <2>2. h \in [1 .. (c - 1) -> B]
    BY <1>4, <1>5, <2>1
  <2>3. \A i, j \in 1 .. (c - 1) : h[i] = h[j] => i = j
    <3> SUFFICES ASSUME NEW i \in 1 .. (c - 1), NEW j \in 1 .. (c - 1), i # j
                 PROVE  f[i] # f[j]
      OBVIOUS
    <3>1. i < j \/ j < i
      OBVIOUS
    <3> QED
      BY <1>1, <1>2, <1>4, <2>1, <3>1
  <2>4. \A q \in B : \E i \in 1 .. (c - 1) : h[i] = q
    BY <1>6
  <2>5. ExistsBijection(1 .. (c - 1), B)
    <3> HIDE DEF B, h
    <3>1. h \in Injection(1 .. (c - 1), B) /\ h \in Surjection(1 .. (c - 1), B)
      BY <2>2, <2>3, <2>4 DEF Injection, Surjection, IsInjective
    <3> QED
      BY <3>1 DEF Bijection, ExistsBijection
  <2>6. c - 1 \in Nat
    BY <1>3
  <2> HIDE DEF B, h
  <2>7. Cardinality(B) = c - 1
    BY <2>5, <2>6, FS_CountingElements
  <2> QED
    BY <2>7 DEF B
<1>9. f[c] \in D /\ ts[f[c]].text = x
  BY <1>1, <1>2, <1>3, <1>4
<1> QED
  BY <1>2, <1>7, <1>8, <1>9 DEF Chooses


LEMMA ResolvedSame ==
    ASSUME NEW ts, NEW ns, NEW os, NEW m \in Nat,
           \A k \in 1 .. m : ResolvedAt(ts, ns, k) /\ os[k] = ns[k]
    PROVE  \A k \in 1 .. m : ResolvedAt(ts, os, k)
<1> SUFFICES ASSUME NEW k \in 1 .. m PROVE ResolvedAt(ts, os, k)
  OBVIOUS
<1>1. k \in Nat /\ \A j \in 1 .. k : os[j] = ns[j]
  OBVIOUS
<1>2. \A list, from : Places(os, k, list, from) = Places(ns, k, list, from)
  <2>1. \A j \in (k + 1) .. k : FALSE
    BY <1>1
  <2> QED
    BY <1>1, <2>1, PlacesKept
<1>3. \A e : /\ TypePlaces(ts, os, e, k) = TypePlaces(ts, ns, e, k)
             /\ MethodPlaces(ts, os, e, k) = MethodPlaces(ts, ns, e, k)
  BY <1>2, Zenon DEF TypePlaces, MethodPlaces
<1>4. os[k] = ns[k] /\ ResolvedAt(ts, ns, k)
  OBVIOUS
<1> QED
  BY <1>3, <1>4, Zenon DEF ResolvedAt

\* Another place with the same items before it, and no new generic.
LEMMA ScopedKept ==
    ASSUME NEW ts, NEW ns, NEW os, NEW g, NEW w, NEW u, NEW e, NEW f,
           NEW m \in Nat, NEW n \in Nat, m <= n,
           Scoped(ts, ns, g, w, e, m), AsksGenerics(u) => AsksGenerics(w),
           Latest(ts, f, TypeKeywords) = Latest(ts, e, TypeKeywords),
           Latest(ts, f, ItemKeywords) = Latest(ts, e, ItemKeywords),
           \A k \in 1 .. m : os[k] = ns[k],
           \A k \in (m + 1) .. n : os[k].as \notin Declarations
    PROVE  Scoped(ts, os, g, u, f, n)
<1>1. ASSUME NEW list \in Declarations, NEW from
      PROVE  Places(os, n, list, from) = Places(ns, m, list, from)
  <2>1. \A k \in (m + 1) .. n : os[k].as # list
    OBVIOUS
  <2>2. 1 .. n = 1 .. m \cup (m + 1) .. n
    OBVIOUS
  <2> QED
    BY <2>1, <2>2 DEF Places
<1>2. /\ TypePlaces(ts, os, f, n) = TypePlaces(ts, ns, e, m)
      /\ MethodPlaces(ts, os, f, n) = MethodPlaces(ts, ns, e, m)
  BY <1>1 DEF TypePlaces, MethodPlaces, Declarations
<1> QED
  BY <1>2 DEF Scoped

\* A rule is applied that begins an item.
LEMMA ScopedItem ==
    ASSUME NEW ts, NEW ns, NEW g \in [{"type", "method"} -> Seq(STRING)], NEW w, NEW u,
           NEW h, NEW e \in Nat \ {0}, NEW m \in Nat, InOrder(ns, e, m),
           Scoped(ts, ns, g, w, e, m), Kind(ts[e]) \in ItemKeywords,
           h = IF Kind(ts[e]) \in TypeKeywords THEN NoGenerics
               ELSE [g EXCEPT !.method = <<>>],
           AsksGenerics(u) => Kind(ts[e]) = "method"
    PROVE  Scoped(ts, ns, h, u, e + 1, m)
<1>1. Latest(ts, e + 1, ItemKeywords) = e
  BY LatestHere
<1>2. h.method = <<>> /\ (Kind(ts[e]) \notin TypeKeywords => h.type = g.type)
  BY DEF NoGenerics
<1>3. Enumerates(ts, MethodPlaces(ts, ns, e + 1, m), h.method)
  BY <1>1, <1>2, PlacesNone, EnumeratesNone DEF MethodPlaces
<1>4. Enumerates(ts, TypePlaces(ts, ns, e + 1, m), h.type)
  <2>1. CASE Kind(ts[e]) \in TypeKeywords
    <3>1. h.type = <<>>
      BY <2>1 DEF NoGenerics
    <3>2. Latest(ts, e + 1, TypeKeywords) = e
      BY <2>1, LatestHere
    <3> QED
      BY <3>1, <3>2, PlacesNone, EnumeratesNone DEF TypePlaces
  <2>2. CASE Kind(ts[e]) \notin TypeKeywords
    <3>1. Latest(ts, e + 1, TypeKeywords) = Latest(ts, e, TypeKeywords)
      BY <2>2, LatestKept
    <3> QED
      BY <1>2, <2>2, <3>1 DEF TypePlaces, Scoped
  <2> QED
    BY <2>1, <2>2
<1> QED
  BY <1>1, <1>2, <1>3, <1>4 DEF Scoped

----------------------------------------------------------------------------
(* What the stack asks for                                                 *)

LEMMA ShapeTail ==
    ASSUME NEW S, NEW w \in Seq(S), w # <<>>, Shape(w)
    PROVE  Shape(Tail(w)) /\ (AsksGenerics(Tail(w)) => AsksGenerics(w))
<1>1. PICK t : t = Tail(w)
  OBVIOUS
<1>2. /\ Len(t) = Len(w) - 1 /\ Len(w) \in Nat /\ DOMAIN t = 1 .. Len(t)
      /\ DOMAIN w = 1 .. Len(w) /\ \A i \in 1 .. Len(t) : t[i] = w[i + 1]
  BY <1>1
<1>3. \A i \in 1 .. Len(t) : i + 1 \in 1 .. Len(w)
  BY <1>2
<1>4. ASSUME NEW i \in DOMAIN t, t[i] \in MethodGenerics, NEW j \in 1 .. (i - 1)
      PROVE  t[j] \notin Items
  <2>1. i + 1 \in DOMAIN w /\ w[i + 1] \in MethodGenerics
    BY <1>2, <1>3, <1>4
  <2>2. j + 1 \in 1 .. ((i + 1) - 1) /\ j \in 1 .. Len(t)
    BY <1>2
  <2> QED
    BY <1>2, <2>1, <2>2 DEF Shape
<1>5. AsksGenerics(t) => AsksGenerics(w)
  BY <1>2, <1>3 DEF AsksGenerics
<1> QED
  BY <1>1, <1>4, <1>5 DEF Shape

\* What a rule puts in the place of a symbol.
LEMMA ShapeJoin ==
    ASSUME NEW S, NEW w \in Seq(S), w # <<>>, Shape(w), NEW T, NEW v \in Seq(T),
           T \cap Items = {}, T \cap MethodGenerics = {} \/ w[1] \in MethodGenerics
    PROVE  Shape(v \o Tail(w)) /\ (AsksGenerics(v \o Tail(w)) => AsksGenerics(w))
<1>1. PICK t, u : t = Tail(w) /\ u = v \o t
  OBVIOUS
<1>2. /\ t \in Seq(S) /\ Len(t) \in Nat /\ DOMAIN t = 1 .. Len(t)
      /\ Shape(t) /\ (AsksGenerics(t) => AsksGenerics(w))
  BY <1>1, ShapeTail
<1>3. PICK l : l = Len(v)
  OBVIOUS
<1>4. /\ l \in Nat /\ Len(u) = l + Len(t) /\ DOMAIN u = 1 .. Len(u)
      /\ \A i \in 1 .. l : u[i] = v[i] /\ v[i] \in T
      /\ \A i \in (l + 1) .. Len(u) : u[i] = t[i - l] /\ i - l \in 1 .. Len(t)
  <2>1. t \in Seq(S \cup T) /\ v \in Seq(S \cup T)
    BY <1>2
  <2>2. /\ u \in Seq(S \cup T) /\ Len(u) = l + Len(t)
        /\ \A i \in 1 .. l : u[i] = v[i]
        /\ \A i \in (l + 1) .. Len(u) : u[i] = t[i - l]
    BY <1>1, <1>3, <2>1, Concatenated
  <2>3. l \in Nat /\ DOMAIN u = 1 .. Len(u) /\ \A i \in 1 .. l : v[i] \in T
    BY <1>3, <2>2
  <2>4. \A i \in (l + 1) .. Len(u) : i - l \in 1 .. Len(t)
    BY <1>2, <2>2, <2>3
  <2> QED
    BY <2>2, <2>3, <2>4
<1>5. \A i \in DOMAIN u : i \in 1 .. l \/ i \in (l + 1) .. Len(u)
  BY <1>4
<1>6. ASSUME NEW i \in DOMAIN u, u[i] \in MethodGenerics, NEW j \in 1 .. (i - 1)
      PROVE  u[j] \notin Items
  <2>1. j \in DOMAIN u
    BY <1>4
  <2>2. CASE j \in 1 .. l
    BY <1>4, <2>2
  <2>3. CASE j \in (l + 1) .. Len(u)
    <3>1. i \in (l + 1) .. Len(u) /\ j - l \in 1 .. ((i - l) - 1)
      BY <1>4, <2>3
    <3>2. t[i - l] \in MethodGenerics /\ i - l \in DOMAIN t
      BY <1>2, <1>4, <1>6, <3>1
    <3>3. t[j - l] \notin Items
      BY <1>2, <3>1, <3>2 DEF Shape
    <3> QED
      BY <1>4, <2>3, <3>3
  <2> QED
    BY <1>5, <2>1, <2>2, <2>3
<1>7. ASSUME AsksGenerics(u) PROVE AsksGenerics(w)
  <2>1. PICK i \in DOMAIN u : u[i] \in MethodGenerics
    BY <1>7 DEF AsksGenerics
  <2>2. CASE i \in 1 .. l
    <3>1. w[1] \in MethodGenerics /\ 1 \in DOMAIN w
      BY <1>4, <2>1, <2>2
    <3> QED
      BY <3>1 DEF AsksGenerics
  <2>3. CASE i \in (l + 1) .. Len(u)
    BY <1>2, <1>4, <2>1, <2>3 DEF AsksGenerics
  <2> QED
    BY <1>5, <2>2, <2>3
<1> QED
  BY <1>1, <1>6, <1>7 DEF Shape

LEMMA ShapeSuffix ==
    ASSUME NEW S, NEW w \in Seq(S), Shape(w), NEW k \in DOMAIN w
    PROVE  /\ Shape(SubSeq(w, k + 1, Len(w)))
           /\ AsksGenerics(SubSeq(w, k + 1, Len(w))) => AsksGenerics(w)
<1>1. PICK t : t = SubSeq(w, k + 1, Len(w))
  OBVIOUS
<1>2. /\ Len(t) = Len(w) - k /\ Len(w) \in Nat /\ DOMAIN t = 1 .. Len(t)
      /\ DOMAIN w = 1 .. Len(w) /\ k \in 1 .. Len(w)
      /\ \A i \in 1 .. Len(t) : t[i] = w[k + i]
  BY <1>1
<1>3. \A i \in 1 .. Len(t) : k + i \in 1 .. Len(w)
  BY <1>2
<1>4. ASSUME NEW i \in DOMAIN t, t[i] \in MethodGenerics, NEW j \in 1 .. (i - 1)
      PROVE  t[j] \notin Items
  <2>1. k + i \in DOMAIN w /\ w[k + i] \in MethodGenerics
    BY <1>2, <1>3, <1>4
  <2>2. k + j \in 1 .. ((k + i) - 1) /\ j \in 1 .. Len(t)
    BY <1>2
  <2> QED
    BY <1>2, <2>1, <2>2 DEF Shape
<1>5. AsksGenerics(t) => AsksGenerics(w)
  BY <1>2, <1>3 DEF AsksGenerics
<1> QED
  BY <1>1, <1>4, <1>5 DEF Shape

\* A rule that begins an item stands where nothing is left to ask for.
LEMMA ShapeItem ==
    ASSUME NEW S, NEW w \in Seq(S), w # <<>>, Shape(w), w[1] \in Items,
           NEW v \in Seq(S), NEW A,
           \A i \in DOMAIN v : v[i] \in MethodGenerics =>
              A /\ \A j \in 1 .. (i - 1) : v[j] \notin Items
    PROVE  Shape(v \o Tail(w)) /\ (AsksGenerics(v \o Tail(w)) => A)
<1>1. PICK t, u : t = Tail(w) /\ u = v \o t
  OBVIOUS
<1>2. /\ t \in Seq(S) /\ Len(t) \in Nat /\ \A i \in 1 .. Len(t) : t[i] \notin MethodGenerics
  <2>1. /\ t \in Seq(S) /\ Len(t) = Len(w) - 1 /\ Len(w) \in Nat
        /\ \A i \in 1 .. Len(t) : t[i] = w[i + 1]
    BY <1>1
  <2>2. ASSUME NEW i \in 1 .. Len(t) PROVE w[i + 1] \notin MethodGenerics
    <3>1. i + 1 \in DOMAIN w /\ 1 \in 1 .. ((i + 1) - 1)
      BY <2>1
    <3> QED
      BY <3>1 DEF Shape
  <2> QED
    BY <2>1, <2>2
<1>3. /\ u \in Seq(S) /\ Len(u) = Len(v) + Len(t) /\ DOMAIN u = 1 .. Len(u)
      /\ Len(v) \in Nat
      /\ \A i \in 1 .. Len(v) : u[i] = v[i]
      /\ \A i \in (Len(v) + 1) .. Len(u) : u[i] = t[i - Len(v)]
  <2>1. /\ u \in Seq(S) /\ Len(u) = Len(v) + Len(t)
        /\ \A i \in 1 .. Len(v) : u[i] = v[i]
        /\ \A i \in (Len(v) + 1) .. Len(u) : u[i] = t[i - Len(v)]
    BY <1>1, <1>2, Concatenated
  <2> QED
    BY <2>1
<1>4. ASSUME NEW i \in DOMAIN u, u[i] \in MethodGenerics
      PROVE  i \in DOMAIN v /\ v[i] \in MethodGenerics
  <2>1. CASE i \in 1 .. Len(v)
    BY <1>3, <1>4, <2>1
  <2>2. CASE i \in (Len(v) + 1) .. Len(u)
    <3>1. i - Len(v) \in 1 .. Len(t)
      BY <1>2, <1>3, <2>2
    <3> QED
      BY <1>2, <1>3, <1>4, <2>2, <3>1
  <2> QED
    BY <1>3, <2>1, <2>2
<1>5. ASSUME NEW i \in DOMAIN u, u[i] \in MethodGenerics, NEW j \in 1 .. (i - 1)
      PROVE  u[j] \notin Items
  <2>1. i \in DOMAIN v /\ v[i] \in MethodGenerics
    BY <1>4, <1>5
  <2>2. j \in 1 .. Len(v)
    BY <1>3, <2>1
  <2> QED
    BY <1>3, <2>1, <2>2
<1>6. AsksGenerics(u) => A
  BY <1>4 DEF AsksGenerics
<1> QED
  BY <1>1, <1>5, <1>6 DEF Shape

----------------------------------------------------------------------------
(* The steps, and the generics                                             *)

LEMMA Ordered == ASSUME GrammarInv PROVE InOrder(nodes, pos, Len(nodes))
<1>1. Stage
  BY DEF GrammarInv
<1>2. AtKeyword \/ Between \/ Trying => InOrder(nodes, pos, Len(nodes))
  BY DEF AtKeyword, Between, Trying, ReadBy
<1>3. AtBracket \/ InList \/ ListRead => InOrder(nodes, pos, Len(nodes))
  BY DEF AtBracket, InList, ListRead, ReadBy, ReadBut
<1> QED
  BY <1>1, <1>2, <1>3 DEF Stage

\* The keyword of an item is on top or nowhere.
LEMMA TopOnly ==
    ASSUME GrammarInv
    PROVE  \A i \in 2 .. Len(want) : want[i] \notin ItemKeywords
<1>1. Stage /\ want \in Seq(Symbols)
  BY DEF GrammarInv, TypeOK
<1>2. \A s \in Ordinary \cup TypeSymbols \cup AttrLists \cup {"[", "<again>"} :
        s \notin ItemKeywords
  <2>1. "[" \in Ordinary
    BY Punctuation, SortsOfSymbols, Zenon
  <2> QED
    BY <2>1, AgainNowhere, TypeSymbolsOrdinary, Firsts, Sorts
<1>3. ASSUME NEW k \in 1 .. 3, HeadAt(want, k), NEW i \in 2 .. Len(want)
      PROVE  want[i] \notin ItemKeywords
  <2>1. i \in (k + 1) .. Len(want) \/ i = k \/ (i = k - 1 /\ k > 1)
    BY <1>1
  <2> QED
    BY <1>2, <1>3, <2>1 DEF HeadAt
<1>4. AtKeyword \/ AtBracket \/ InList => \E k \in 1 .. 3 : HeadAt(want, k)
  BY DEF AtKeyword, AtBracket, InList
<1>5. ListRead \/ Between => \A i \in 2 .. Len(want) : want[i] \in Ordinary
  BY DEF ListRead, Between
<1>6. ASSUME Trying, NEW i \in 2 .. Len(want)
      PROVE  want[i] \in Ordinary \cup TypeSymbols \cup {"<again>"}
  <2>1. PICK k \in DOMAIN want : /\ want[k] = "<again>"
                                 /\ \A j \in 1 .. (k - 1) : want[j] \in TypeSymbols
                                 /\ \A j \in (k + 1) .. Len(want) : want[j] \in Ordinary
    BY <1>6 DEF Trying, TryShape
  <2>2. i \in 1 .. (k - 1) \/ i = k \/ i \in (k + 1) .. Len(want)
    BY <1>1
  <2> QED
    BY <2>1, <2>2
<1> QED
  BY <1>1, <1>2, <1>3, <1>4, <1>5, <1>6 DEF Stage

LEMMA EnteredNext ==
    ASSUME GrammarInv, want # <<>>, NEW T, NEW v \in Seq(T), T \cap ItemKeywords = {},
           want' = v \o Tail(want)
    PROVE  Entered' = pos'
<1>1. want \in Seq(Symbols) /\ \A i \in 2 .. Len(want) : want[i] \notin ItemKeywords
  BY TopOnly DEF GrammarInv, TypeOK
<1>2. PICK t, u : t = Tail(want) /\ u = want'
  OBVIOUS
<1>3. t \in Seq(Symbols) /\ Len(t) = Len(want) - 1 /\ \A i \in 1 .. Len(t) : t[i] = want[i + 1]
  BY <1>1, <1>2
<1>4. u \in Seq(Symbols \cup T) /\ u = v \o t
  <2>1. v \in Seq(Symbols \cup T) /\ t \in Seq(Symbols \cup T)
    BY <1>3
  <2> QED
    BY <1>2, <2>1
<1>5. ASSUME u # <<>> PROVE u[1] \notin ItemKeywords
  <2>1. CASE v = <<>>
    <3>1. u = t
      BY <1>3, <1>4, <2>1
    <3>2. 1 \in 1 .. Len(t) /\ 1 + 1 \in 2 .. Len(want)
      BY <1>1, <1>3, <1>5, <3>1
    <3> QED
      BY <1>1, <1>3, <3>1, <3>2
  <2>2. CASE v # <<>>
    <3>1. u[1] = v[1] /\ v[1] \in T
      BY <1>3, <1>4, <2>2
    <3> QED
      BY <3>1
  <2> QED
    BY <2>1, <2>2
<1>6. u # <<>> => Head(u) = u[1]
  BY <1>4
<1> QED
  BY <1>2, <1>5, <1>6 DEF Entered, Part

LEMMA TailIs ==
    ASSUME NEW S, NEW w \in Seq(S), w # <<>>
    PROVE  Tail(w) = <<>> \o Tail(w) /\ <<>> \in Seq({})
<1>1. Tail(w) \in Seq(S)
  OBVIOUS
<1> QED
  BY <1>1

\* The nodes os are ns, or have one more, which declares nothing.
Adds(ts, ns, os) ==
    \/ os = ns
    \/ \E n : /\ os = Append(ns, n) /\ n.as \notin Declarations
              /\ n.as \in Uses => ResolvedAt(ts, os, Len(ns) + 1)

LEMMA AddsKeep ==
    ASSUME NEW ts, NEW ns, IsSeq(ns), NEW os, Adds(ts, ns, os)
    PROVE  /\ Len(ns) \in Nat /\ Len(os) \in Nat /\ Len(ns) <= Len(os)
           /\ \A k \in 1 .. Len(ns) : os[k] = ns[k]
<1>1. Len(ns) \in Nat
  BY Appended
<1>2. CASE os = ns
  BY <1>1, <1>2
<1>3. ASSUME NEW n, os = Append(ns, n)
      PROVE  Len(os) = Len(ns) + 1 /\ \A k \in 1 .. Len(ns) : os[k] = ns[k]
  BY <1>3, Appended
<1> QED
  BY <1>1, <1>2, <1>3 DEF Adds

LEMMA AddsNew ==
    ASSUME NEW ts, NEW ns, IsSeq(ns), NEW os, Adds(ts, ns, os),
           NEW k \in (Len(ns) + 1) .. Len(os)
    PROVE  /\ os[k].as \notin Declarations
           /\ os[k].as \in Uses => ResolvedAt(ts, os, k)
<1>1. Len(ns) \in Nat
  BY Appended
<1>2. os # ns
  BY <1>1
<1>3. PICK n : /\ os = Append(ns, n) /\ n.as \notin Declarations
               /\ n.as \in Uses => ResolvedAt(ts, os, Len(ns) + 1)
  BY <1>2 DEF Adds
<1>4. Len(os) = Len(ns) + 1 /\ os[Len(ns) + 1] = n
  BY <1>3, Appended
<1>5. k = Len(ns) + 1
  BY <1>1, <1>4
<1> QED
  BY <1>3, <1>4, <1>5

LEMMA ScopedAdds ==
    ASSUME NEW ts, NEW ns, IsSeq(ns), NEW os, Adds(ts, ns, os), NEW m \in 0 .. Len(ns),
           NEW g, NEW w, NEW u, NEW e, Scoped(ts, ns, g, w, e, m),
           AsksGenerics(u) => AsksGenerics(w)
    PROVE  Scoped(ts, os, g, u, e, m)
<1>1. Len(ns) \in Nat /\ \A k \in 1 .. Len(ns) : os[k] = ns[k]
  BY AddsKeep
<1>2. /\ m \in Nat /\ m <= m /\ \A k \in 1 .. m : os[k] = ns[k]
      /\ \A k \in (m + 1) .. m : os[k].as \notin Declarations
  BY <1>1
<1> QED
  BY <1>2, ScopedKept

\* What is kept to go back to.
LEMMA SavedScope ==
    ASSUME GrammarInv, ScopeInv, Caught, tokens' = tokens, saved' = saved, generics' = generics,
           Running, Adds(tokens, nodes, nodes'), AsksGenerics(want') => AsksGenerics(want)
    PROVE  Scoped(tokens, nodes, generics, want, saved.pos, saved.nodes)'
<1>1. /\ saved.nodes \in 0 .. Len(nodes) /\ IsSeq(nodes)
  BY Facts DEF Bounds
<1>2. PICK os, u, e, m : os = nodes' /\ u = want' /\ e = saved.pos /\ m = saved.nodes
  OBVIOUS
<1>3. Adds(tokens, nodes, os)
  BY <1>2, Zenon
<1>4. Scoped(tokens, nodes, generics, want, e, m)
  BY <1>2 DEF ScopeInv
<1>5. Scoped(tokens, os, generics, u, e, m)
  BY <1>1, <1>2, <1>3, <1>4, ScopedAdds
<1> QED
  BY <1>2, <1>5

LEMMA CaughtBefore ==
    ASSUME NEW S, NEW w \in Seq(S), w # <<>>, NEW T, NEW v \in Seq(T), "<again>" \notin T,
           NEW k \in DOMAIN (v \o Tail(w)), (v \o Tail(w))[k] = "<again>"
    PROVE  \E i \in DOMAIN w : w[i] = "<again>"
<1>1. PICK t, u : t = Tail(w) /\ u = v \o t
  OBVIOUS
<1>2. /\ t \in Seq(S) /\ Len(t) = Len(w) - 1 /\ Len(w) \in Nat
      /\ \A i \in 1 .. Len(t) : t[i] = w[i + 1]
  BY <1>1
<1>3. /\ Len(u) = Len(v) + Len(t) /\ DOMAIN u = 1 .. Len(u) /\ Len(v) \in Nat
      /\ \A i \in 1 .. Len(v) : u[i] = v[i] /\ v[i] \in T
      /\ \A i \in (Len(v) + 1) .. Len(u) : u[i] = t[i - Len(v)]
  <2>1. t \in Seq(S \cup T) /\ v \in Seq(S \cup T)
    BY <1>2
  <2>2. /\ u \in Seq(S \cup T) /\ Len(u) = Len(v) + Len(t)
        /\ \A i \in 1 .. Len(v) : u[i] = v[i]
        /\ \A i \in (Len(v) + 1) .. Len(u) : u[i] = t[i - Len(v)]
    BY <1>1, <2>1, Concatenated
  <2> QED
    BY <2>2
<1>4. k \in (Len(v) + 1) .. Len(u)
  <2>1. k \in DOMAIN u /\ u[k] = "<again>"
    BY <1>1
  <2> QED
    BY <1>3, <2>1
<1>5. t[k - Len(v)] = "<again>" /\ k - Len(v) \in 1 .. Len(t)
  <2>1. u[k] = "<again>"
    BY <1>1
  <2>2. u[k] = t[k - Len(v)]
    BY <1>3, <1>4, Zenon
  <2>3. k - Len(v) \in 1 .. Len(t)
    BY <1>2, <1>3, <1>4
  <2> QED
    BY <2>1, <2>2, <2>3, Zenon
<1>6. (k - Len(v)) + 1 \in DOMAIN w
  BY <1>2, <1>5
<1> QED
  BY <1>2, <1>5, <1>6

\* Another place with the same items before it, and at most one more node.
LEMMA ScopedTo ==
    ASSUME NEW ts, NEW ns, IsSeq(ns), NEW os, Adds(ts, ns, os),
           NEW g, NEW w, NEW u, NEW e, NEW f, Scoped(ts, ns, g, w, e, Len(ns)),
           AsksGenerics(u) => AsksGenerics(w),
           Latest(ts, f, TypeKeywords) = Latest(ts, e, TypeKeywords),
           Latest(ts, f, ItemKeywords) = Latest(ts, e, ItemKeywords)
    PROVE  Scoped(ts, os, g, u, f, Len(os))
<1>1. PICK m, n : m = Len(ns) /\ n = Len(os)
  OBVIOUS
<1>2. m \in Nat /\ n \in Nat /\ m <= n /\ \A k \in 1 .. m : os[k] = ns[k]
  BY <1>1, AddsKeep
<1>3. \A k \in (m + 1) .. n : os[k].as \notin Declarations
  BY <1>1, AddsNew
<1>4. Scoped(ts, ns, g, w, e, m)
  BY <1>1
<1>5. Scoped(ts, os, g, u, f, n)
  BY <1>2, <1>3, <1>4, ScopedKept
<1> QED
  BY <1>1, <1>5

LEMMA ResolvedAdds ==
    ASSUME NEW ts, NEW ns, IsSeq(ns), NEW os, Adds(ts, ns, os),
           \A k \in 1 .. Len(ns) : ResolvedAt(ts, ns, k)
    PROVE  \A k \in 1 .. Len(os) : ResolvedAt(ts, os, k)
<1>1. PICK m, n : m = Len(ns) /\ n = Len(os)
  OBVIOUS
<1>2. m \in Nat /\ n \in Nat /\ \A k \in 1 .. m : ResolvedAt(ts, ns, k) /\ os[k] = ns[k]
  BY <1>1, AddsKeep
<1>3. \A k \in (m + 1) .. n : os[k].as \in Uses => ResolvedAt(ts, os, k)
  BY <1>1, AddsNew
<1>4. \A k \in 1 .. n : ResolvedAt(ts, os, k)
  <2>1. n \in Nat
    BY <1>1, AddsKeep
  <2>2. \A k \in 1 .. m : ResolvedAt(ts, os, k)
    BY <1>2, ResolvedSame
  <2>3. \A k \in (m + 1) .. n : ResolvedAt(ts, os, k)
    BY <1>3 DEF ResolvedAt, Uses
  <2> QED
    BY <1>2, <2>1, <2>2, <2>3
<1> QED
  BY <1>1, <1>4

\* The top of the stack is replaced, and no item begins.
LEMMA MainScope ==
    ASSUME GrammarInv, ScopeInv, Running, ~Stuck, tokens' = tokens, generics' = generics,
           NEW T, NEW v \in Seq(T), T \cap Items = {}, T \cap ItemKeywords = {},
           T \cap MethodGenerics = {} \/ Part \in MethodGenerics, want' = v \o Tail(want),
           Latest(tokens, pos', TypeKeywords) = Latest(tokens, Entered, TypeKeywords),
           Latest(tokens, pos', ItemKeywords) = Latest(tokens, Entered, ItemKeywords),
           Adds(tokens, nodes, nodes')
    PROVE  /\ Shape(want') /\ (AsksGenerics(want') => AsksGenerics(want))
           /\ \A k \in 1 .. Len(nodes') : ResolvedAt(tokens', nodes', k)
           /\ Scoped(tokens, nodes, generics, want, Entered, Len(nodes))'
<1>1. want \in Seq(Symbols) /\ want # <<>> /\ Part = want[1] /\ IsSeq(nodes)
  BY Facts DEF WantTyped
<1>2. PICK os, w, u, e, f : /\ os = nodes' /\ w = want /\ u = v \o Tail(want) /\ e = Entered
                            /\ f = pos'
  OBVIOUS
<1>3. Shape(u) /\ (AsksGenerics(u) => AsksGenerics(w))
  BY <1>1, <1>2, ShapeJoin DEF ScopeInv
<1>4. Adds(tokens, nodes, os)
  BY <1>2, Zenon
<1>5. \A k \in 1 .. Len(nodes) : ResolvedAt(tokens, nodes, k)
  BY DEF ScopeInv
<1>6. \A k \in 1 .. Len(os) : ResolvedAt(tokens, os, k)
  BY <1>1, <1>4, <1>5, ResolvedAdds
<1>7. Scoped(tokens, nodes, generics, w, e, Len(nodes))
  BY <1>2 DEF ScopeInv
<1>8. Scoped(tokens, os, generics, u, f, Len(os))
  <2>1. /\ Latest(tokens, f, TypeKeywords) = Latest(tokens, e, TypeKeywords)
        /\ Latest(tokens, f, ItemKeywords) = Latest(tokens, e, ItemKeywords)
    BY <1>2, Zenon
  <2> QED
    BY <1>1, <1>3, <1>4, <1>7, <2>1, ScopedTo
<1>9. Entered' = pos'
  BY <1>1, EnteredNext
<1> QED
  BY <1>2, <1>3, <1>6, <1>8, <1>9

LEMMA StepScope ==
    ASSUME GrammarInv, ScopeInv, Running, ~Stuck, tokens' = tokens, generics' = generics,
           saved' = saved,
           NEW T, NEW v \in Seq(T), T \cap Items = {}, T \cap ItemKeywords = {},
           T \cap MethodGenerics = {} \/ Part \in MethodGenerics, want' = v \o Tail(want),
           "<again>" \notin T,
           Latest(tokens, pos', TypeKeywords) = Latest(tokens, Entered, TypeKeywords),
           Latest(tokens, pos', ItemKeywords) = Latest(tokens, Entered, ItemKeywords),
           Adds(tokens, nodes, nodes')
    PROVE  ScopeInv'
<1>1. /\ Shape(want') /\ (AsksGenerics(want') => AsksGenerics(want))
      /\ \A k \in 1 .. Len(nodes') : ResolvedAt(tokens', nodes', k)
      /\ Scoped(tokens, nodes, generics, want, Entered, Len(nodes))'
  BY MainScope
<1>2. want \in Seq(Symbols) /\ want # <<>>
  BY Facts DEF WantTyped
<1>3. ASSUME Caught' PROVE Caught
  <2>1. PICK k \in DOMAIN (v \o Tail(want)) : (v \o Tail(want))[k] = "<again>"
    BY <1>3 DEF Caught
  <2> QED
    BY <1>2, <2>1, CaughtBefore DEF Caught
<1>4. Caught' => Scoped(tokens, nodes, generics, want, saved.pos, saved.nodes)'
  BY <1>1, <1>3, SavedScope
<1> QED
  BY <1>1, <1>4 DEF ScopeInv

\* A token that begins no item is read, and its part is done with.
LEMMA ReadsScope ==
    ASSUME GrammarInv, ScopeInv, Running, ~AtEnd, Token \notin ItemKeywords,
           Part \notin ItemKeywords, pos' = pos + 1, want' = want \/ want' = Tail(want),
           want' = want => Part \in AttrLists,
           tokens' = tokens, saved' = saved, generics' = generics,
           Adds(tokens, nodes, nodes')
    PROVE  ScopeInv'
<1>1. want \in Seq(Symbols) /\ want # <<>> /\ pos \in Nat \ {0}
  BY Facts DEF WantTyped
<1>2. ~Stuck /\ Entered = pos /\ Token = Kind(tokens[pos])
  BY TokenIs DEF Stuck, Entered
<1>3. /\ Latest(tokens, pos', TypeKeywords) = Latest(tokens, Entered, TypeKeywords)
      /\ Latest(tokens, pos', ItemKeywords) = Latest(tokens, Entered, ItemKeywords)
  <2>1. Token \notin TypeKeywords
    BY DEF ItemKeywords
  <2> QED
    BY <1>1, <1>2, <2>1, LatestKept
<1>4. CASE want' = Tail(want)
  <2>1. want' = <<>> \o Tail(want) /\ <<>> \in Seq({})
    BY <1>1, <1>4, TailIs
  <2> QED
    BY <1>2, <1>3, <2>1, StepScope
<1>5. CASE want' = want
  <2>1. want' = <<Part>> \o Tail(want) /\ <<Part>> \in Seq(AttrLists)
    <3>1. want = <<Head(want)>> \o Tail(want)
      BY <1>1
    <3>2. <<Part>> \in Seq(AttrLists)
      BY <1>5
    <3> QED
      BY <1>5, <3>1, <3>2 DEF Part
  <2>2. /\ AttrLists \cap Items = {} /\ AttrLists \cap ItemKeywords = {}
        /\ AttrLists \cap MethodGenerics = {} /\ "<again>" \notin AttrLists
    BY ListSymbols DEF Items, ItemKeywords, TypeKeywords, MemberKeywords, MethodGenerics
  <2> QED
    BY <1>2, <1>3, <2>1, <2>2, StepScope
<1> QED
  BY <1>4, <1>5

----------------------------------------------------------------------------
(* Steps that read a token                                                 *)

LEMMA LeafAdds ==
    ASSUME NEW as, as \notin Declarations \cup Uses, NEW value
    PROVE  Adds(tokens, nodes, Leaf(as, value))
<1>1. PICK n : n = Node(as, pos, value, {})
  OBVIOUS
<1>2. n.as = as /\ Leaf(as, value) = Append(nodes, n)
  BY <1>1 DEF Node, Leaf
<1> QED
  BY <1>2 DEF Adds

LEMMA UsesAre ==
    /\ \A s \in Declarations : s \in Parts
    /\ \A s \in Uses : s \notin Symbols
    /\ {"name", "int", "constant"} \cap (Declarations \cup Uses) = {}
    /\ AttrLists \cap (Declarations \cup Uses) = {}
<1>1. \A s \in Declarations : s \in Parts
  BY DEF Declarations, Parts, Skippable
<1>2. \A s \in Uses : s \notin Special
  BY Zenon DEF Uses, Special
<1>3. \A s \in Uses : s \notin Parts
  BY ListSymbols DEF Uses, Parts, Skippable, OtherParts
<1>4. \A s \in Uses : s \notin Keywords \cup StatementKeywords \cup {"table"}
  BY DEF Uses, Keywords, StatementKeywords, ClassModifiers, StructModifiers,
     MethodModifiers, Visibility, CallConventions, ExceptionKeywords, JumpKeywords,
     LoadKeywords, TypeKeywords, MemberKeywords
<1>5. {"name", "int", "constant"} \cap (Declarations \cup Uses) = {}
  BY DEF Declarations, Uses
<1>6. AttrLists \cap (Declarations \cup Uses) = {}
  BY ListSymbols DEF Declarations, Uses
<1> QED
  BY <1>1, <1>2, <1>3, <1>4, <1>5, <1>6 DEF Symbols

LEMMA TakeScope == ASSUME GrammarInv, ScopeInv, Take PROVE ScopeInv'
<1>1. Running /\ Token = Part /\ pos' = pos + 1 /\ want' = Tail(want) /\ tokens' = tokens
        /\ generics' = generics /\ saved' = saved
        /\ nodes' = IF Token \in Special THEN nodes ELSE Leaf(Token, None)
  BY DEF Take
<1>2. Part \in Symbols /\ want \in Seq(Symbols) /\ want # <<>> /\ Part = want[1]
  BY <1>1, Facts DEF WantTyped
<1>3. ~AtEnd
  BY <1>1, <1>2, EndIs, EofIs
<1>4. Token \notin Declarations \cup Uses
  BY <1>1, <1>2, <1>3, TokenIs, UsesAre
<1>5. Adds(tokens, nodes, nodes')
  <2>1. CASE Token \in Special
    BY <1>1, <2>1 DEF Adds
  <2>2. CASE Token \notin Special
    BY <1>1, <1>4, <2>2, LeafAdds
  <2> QED
    BY <2>1, <2>2
<1>6. CASE Token \in ItemKeywords
  <2>1. Entered = pos' /\ ~Stuck
    <3>1. "[" \notin ItemKeywords
      BY HeaderSorts, Zenon
    <3> QED
      BY <1>1, <1>2, <1>6, <3>1 DEF Entered, Stuck
  <2>2. want' = <<>> \o Tail(want) /\ <<>> \in Seq({})
    BY <1>1, <1>2, TailIs
  <2> QED
    BY <1>1, <1>5, <2>1, <2>2, StepScope
<1>7. CASE Token \notin ItemKeywords
  <2>1. want' # want
    <3>1. Len(Tail(want)) = Len(want) - 1 /\ Len(want) \in Nat
      BY <1>2
    <3> QED
      BY <1>1, <3>1
  <2> QED
    BY <1>1, <1>3, <1>5, <1>7, <2>1, ReadsScope
<1> QED
  BY <1>6, <1>7

\* A bare name that is in scope is resolved.
LEMMA GenericResolved ==
    ASSUME GrammarInv, ScopeInv, Running, Part = "<type>", InScope,
           NEW n, n = Node(GenericNode[Owner], pos, Position(generics[Owner], Text) - 1, {}),
           NEW os, os = Append(nodes, n)
    PROVE  n.as \in Uses /\ ResolvedAt(tokens, os, Len(nodes) + 1)
<1>1. ~AtEnd
  BY EndIs DEF InScope
<1>2. /\ IsSeq(nodes) /\ pos \in Nat \ {0} /\ Text = tokens[pos].text
      /\ want # <<>> /\ Part = want[1]
  BY <1>1, Facts, TokenIs
<1>3. PICK m, x, g, h : /\ m = Len(nodes) /\ x = Text
                        /\ g = generics.type /\ h = generics.method
  OBVIOUS
<1>4. g \in Seq(STRING) /\ h \in Seq(STRING)
  BY <1>3, Facts DEF GenericsTyped
<1>5. /\ m \in Nat /\ os[m + 1] = n /\ \A k \in 1 .. m : os[k] = nodes[k]
  BY <1>2, <1>3, Appended
<1>6. /\ n.at = pos /\ n.as = GenericNode[Owner]
      /\ n.value = Position(generics[Owner], Text) - 1
  BY DEF Node
<1>7. \/ /\ Owner = "type" /\ n.as = "type_generic" /\ Names(g, x) /\ n.value = Position(g, x) - 1
      \/ /\ Owner = "method" /\ n.as = "method_generic" /\ ~Names(g, x) /\ Names(h, x)
         /\ n.value = Position(h, x) - 1
  BY <1>3, <1>6 DEF Owner, InScope, GenericNode
<1>8. n.as \in Uses
  BY <1>7 DEF Uses
<1>9. ~Stuck /\ Entered = pos
  <2>1. Token = "name" /\ Part \notin ItemKeywords
    BY Firsts, TypeSymbol, Zenon DEF InScope
  <2> QED
    BY <2>1, NamesKinds DEF Stuck, Entered
<1>10. PICK D, E : D = TypePlaces(tokens, nodes, pos, m) /\ E = MethodPlaces(tokens, nodes, pos, m)
  OBVIOUS
<1>11. /\ Enumerates(tokens, D, g) /\ Enumerates(tokens, E, h)
       /\ h # <<>> => Kind(tokens[Latest(tokens, pos, ItemKeywords)]) = "method"
  <2>1. Scoped(tokens, nodes, generics, want, pos, m)
    BY <1>3, <1>9 DEF ScopeInv
  <2> QED
    BY <1>3, <1>10, <2>1 DEF Scoped
<1>12. InOrder(nodes, pos, m)
  BY <1>3, Ordered
<1>13. D \in SUBSET Nat /\ E \in SUBSET Nat
  BY <1>2, <1>5, <1>10, <1>12, PlacesBefore DEF TypePlaces, MethodPlaces
<1>14. TypePlaces(tokens, os, pos, m + 1) = D /\ MethodPlaces(tokens, os, pos, m + 1) = E
  <2>1. ASSUME NEW list \in Declarations, NEW from
        PROVE  Places(os, m + 1, list, from) = Places(nodes, m, list, from)
    <3>1. \A k \in (m + 1) .. (m + 1) : os[k].as # list
      <4>1. Declarations \cap Uses = {}
        BY DEF Declarations, Uses
      <4>2. \A k \in (m + 1) .. (m + 1) : k = m + 1
        BY <1>5
      <4> QED
        BY <1>5, <1>8, <4>1, <4>2
    <3>2. 1 .. (m + 1) = 1 .. m \cup (m + 1) .. (m + 1)
      BY <1>5
    <3>3. \A k \in 1 .. m : os[k] = nodes[k]
      BY <1>5
    <3>4. PICK A, B : /\ A = {k \in 1 .. (m + 1) : os[k].as = list /\ from <= os[k].at}
                      /\ B = {k \in 1 .. m : nodes[k].as = list /\ from <= nodes[k].at}
      OBVIOUS
    <3>5. A = B
      BY <3>1, <3>2, <3>3, <3>4
    <3>6. \A k \in B : os[k].at = nodes[k].at
      BY <3>3, <3>4
    <3>7. {os[k].at : k \in A} = {nodes[k].at : k \in B}
      BY <3>5, <3>6
    <3> QED
      BY <3>4, <3>7 DEF Places
  <2>2. "<type_generics>" \in Declarations /\ "<method_generics>" \in Declarations
    BY DEF Declarations
  <2> QED
    BY <1>10, <2>1, <2>2, Zenon DEF TypePlaces, MethodPlaces
<1>15. tokens[n.at].text = x
  BY <1>2, <1>3, <1>6
<1>16. CASE Names(g, x) /\ n.as = "type_generic" /\ n.value = Position(g, x) - 1
  <2>1. Chooses(tokens, D, n)
    BY <1>4, <1>11, <1>13, <1>15, <1>16, EnumeratesFirst
  <2> QED
    BY <1>3, <1>5, <1>6, <1>8, <1>14, <1>16, <2>1 DEF ResolvedAt
<1>17. CASE /\ ~Names(g, x) /\ Names(h, x) /\ n.as = "method_generic"
            /\ n.value = Position(h, x) - 1
  <2>1. Chooses(tokens, E, n)
    BY <1>4, <1>11, <1>13, <1>15, <1>17, EnumeratesFirst
  <2>2. \A p \in D : tokens[p].text # tokens[n.at].text
    BY <1>4, <1>11, <1>15, <1>17, EnumeratesAbsent
  <2>3. h # <<>>
    BY <1>17 DEF Names
  <2> QED
    BY <1>3, <1>5, <1>6, <1>8, <1>11, <1>14, <1>17, <2>1, <2>2, <2>3 DEF ResolvedAt
<1> QED
  BY <1>7, <1>16, <1>17

LEMMA TailOther == ASSUME NEW S, NEW w \in Seq(S), w # <<>> PROVE Tail(w) # w
<1>1. PICK t : t = Tail(w)
  OBVIOUS
<1>2. Len(t) = Len(w) - 1 /\ Len(w) \in Nat
  BY <1>1
<1>3. t # w
  BY <1>2
<1> QED
  BY <1>1, <1>3

LEMMA TypesBeginNothing ==
    /\ \A s \in Nonterminals : s \notin ItemKeywords /\ s # "["
    /\ \A s \in AttrLists : s \notin ItemKeywords /\ s # "["
BY Sorts, Zenon

LEMMA ResolveGenericScope == ASSUME GrammarInv, ScopeInv, ResolveGeneric PROVE ScopeInv'
<1>1. Running /\ Part = "<type>" /\ InScope /\ Token = "name"
  BY DEF ResolveGeneric, InScope
<1>2. ~AtEnd /\ want \in Seq(Symbols) /\ want # <<>>
  BY <1>1, EndIs, Facts DEF WantTyped
<1>3. PICK n : n = Node(GenericNode[Owner], pos, Position(generics[Owner], Text) - 1, {})
  OBVIOUS
<1>4. PICK os : os = Append(nodes, n)
  OBVIOUS
<1>5. nodes' = os
  BY <1>3, <1>4 DEF ResolveGeneric, Leaf
<1>6. n.as \in Uses /\ ResolvedAt(tokens, os, Len(nodes) + 1)
  BY <1>1, <1>3, <1>4, GenericResolved
<1>7. Declarations \cap Uses = {}
  BY DEF Declarations, Uses
<1>8. Adds(tokens, nodes, os)
  BY <1>4, <1>6, <1>7 DEF Adds
<1>9. Part \notin ItemKeywords /\ Token \notin ItemKeywords
  BY <1>1, ReadParts, TypesBeginNothing, NamesKinds
<1> QED
  BY <1>1, <1>2, <1>5, <1>8, <1>9, TailOther, ReadsScope DEF ResolveGeneric

LEMMA TakeNameScope == ASSUME GrammarInv, ScopeInv, TakeName PROVE ScopeInv'
<1>1. Running /\ Token = "name" /\ Part = "<name>"
  BY DEF TakeName
<1>2. ~AtEnd /\ want \in Seq(Symbols) /\ want # <<>>
  BY <1>1, EndIs, Facts DEF WantTyped
<1>3. Part \notin ItemKeywords /\ Token \notin ItemKeywords
  BY <1>1, ReadParts, TypesBeginNothing, NamesKinds
<1>4. Adds(tokens, nodes, nodes')
  BY LeafAdds, UsesAre DEF TakeName
<1> QED
  BY <1>1, <1>2, <1>3, <1>4, TailOther, ReadsScope DEF TakeName

LEMMA TakeIntegerScope == ASSUME GrammarInv, ScopeInv, TakeInteger PROVE ScopeInv'
<1>1. Running /\ Token = "int" /\ Part \in {"<u32>", "<u64>"}
  BY DEF TakeInteger
<1>2. ~AtEnd /\ want \in Seq(Symbols) /\ want # <<>>
  BY <1>1, EndIs, Facts DEF WantTyped
<1>3. Part \notin ItemKeywords /\ Token \notin ItemKeywords
  BY <1>1, ReadParts, TypesBeginNothing, NamesKinds
<1>4. Adds(tokens, nodes, nodes')
  BY LeafAdds, UsesAre DEF TakeInteger
<1> QED
  BY <1>1, <1>2, <1>3, <1>4, TailOther, ReadsScope DEF TakeInteger

LEMMA TakeConstantScope == ASSUME GrammarInv, ScopeInv, TakeConstant PROVE ScopeInv'
<1>1. Running /\ Part \in {"<content>", "<negated>"}
  BY DEF TakeConstant, IsConstant
<1>2. \/ Form \in {"int", "string", "char"}
      \/ Token \in {"true", "false", "this"}
  BY DEF TakeConstant, IsConstant, NumberOrTruth
<1>3. ~AtEnd /\ want \in Seq(Symbols) /\ want # <<>>
  BY <1>1, <1>2, EndIs, Facts DEF WantTyped
<1>4. Token \notin ItemKeywords
  <2>1. Form \in {"int", "string", "char"} => Token \in {"int", "name", "char"}
    BY <1>1, <1>3, TokenIs DEF Kind
  <2> QED
    BY <1>2, <2>1, NamesKinds
<1>5. Part \notin ItemKeywords
  BY <1>1, ReadParts, TypesBeginNothing
<1>6. Adds(tokens, nodes, nodes')
  BY LeafAdds, UsesAre DEF TakeConstant
<1> QED
  BY <1>1, <1>3, <1>4, <1>5, <1>6, TailOther, ReadsScope DEF TakeConstant

LEMMA AttrScope == ASSUME GrammarInv, ScopeInv, AttrModifier \/ AttrInteger PROVE ScopeInv'
<1>1. /\ Running /\ Part \in AttrLists /\ (Token \in Modifiers[Part] \/ Form = "int")
      /\ pos' = pos + 1 /\ want' = want /\ tokens' = tokens /\ saved' = saved
      /\ generics' = generics /\ nodes' = nodes
  BY DEF AttrModifier, AttrInteger
<1>2. CASE Token \in Modifiers[Part]
  <2>1. Token \in ListWords
    BY <1>1, <1>2 DEF ListWords
  <2>2. ~AtEnd /\ Token \notin ItemKeywords
    BY <2>1, ListWordsAre, EndIs
  <2> QED
    BY <1>1, <2>2, TypesBeginNothing, ReadsScope DEF Adds
<1>3. CASE Form = "int"
  <2>1. ~AtEnd
    BY <1>3, EndIs
  <2>2. Token = "int"
    BY <1>1, <1>3, <2>1, TokenIs, IntKind
  <2> QED
    BY <1>1, <2>1, <2>2, NamesKinds, TypesBeginNothing, ReadsScope DEF Adds
<1> QED
  BY <1>1, <1>2, <1>3

----------------------------------------------------------------------------
(* Steps that read none                                                    *)

LEMMA StaysScope ==
    ASSUME GrammarInv, ScopeInv, Running, Part \in Nonterminals \cup AttrLists \cup {"<again>"},
           pos' = pos, tokens' = tokens, generics' = generics, saved' = saved,
           NEW T, NEW v \in Seq(T), T \cap Items = {}, T \cap ItemKeywords = {},
           T \cap MethodGenerics = {} \/ Part \in MethodGenerics, want' = v \o Tail(want),
           "<again>" \notin T, Adds(tokens, nodes, nodes')
    PROVE  ScopeInv'
<1>1. ~Stuck /\ Entered = pos
  BY TypesBeginNothing, Sorts, AgainNowhere DEF Stuck, Entered
<1> QED
  BY <1>1, StepScope

LEMMA DropsScope ==
    ASSUME GrammarInv, ScopeInv, Running, Part \in Nonterminals, want' = Tail(want),
           UNCHANGED <<tokens, pos, generics, saved, nodes>>
    PROVE  ScopeInv'
<1>1. want' = <<>> \o Tail(want) /\ <<>> \in Seq({})
  BY Facts, TailIs DEF WantTyped
<1>2. Adds(tokens, nodes, nodes')
  BY DEF Adds
<1> QED
  BY <1>1, <1>2, StaysScope

LEMMA SkipScope == ASSUME GrammarInv, ScopeInv, Skip PROVE ScopeInv'
BY SortsOfParts, DropsScope DEF Skip

LEMMA EndOfFileInTypeScope ==
    ASSUME GrammarInv, ScopeInv, EndOfFileInType PROVE ScopeInv'
<1>1. \A s \in OpenTypes : s \in Nonterminals
  BY SortsOfParts DEF OpenTypes, OtherParts
<1> QED
  BY <1>1, DropsScope DEF EndOfFileInType, AfterLoop

LEMMA EndAttrScope == ASSUME GrammarInv, ScopeInv, EndAttr PROVE ScopeInv'
<1>1. Running /\ Part \in AttrLists /\ want' = Tail(want)
  BY DEF EndAttr
<1>2. PICK n : n = Node(Part, attr.index, ValueOf[IndexText], attr.mods)
  OBVIOUS
<1>3. n.as \notin Declarations \cup Uses /\ nodes' = Append(nodes, n)
  BY <1>1, <1>2, UsesAre DEF EndAttr, Node
<1>4. Adds(tokens, nodes, nodes')
  BY <1>3 DEF Adds
<1>5. want' = <<>> \o Tail(want) /\ <<>> \in Seq({})
  BY <1>1, Facts, TailIs DEF WantTyped
<1> QED
  BY <1>1, <1>4, <1>5, StaysScope DEF EndAttr

LEMMA NextReferenceScope == ASSUME GrammarInv, ScopeInv, NextReference PROVE ScopeInv'
<1>1. "<references>" \in Plain
  BY PartSymbols
<1>2. /\ Plain \cap Items = {} /\ Plain \cap ItemKeywords = {} /\ "<again>" \notin Plain
      /\ Plain \cap MethodGenerics = {}
  BY Firsts, AgainNowhere DEF Plain
<1>3. <<"<references>">> \in Seq(Plain)
  BY <1>1, Tuple1
<1>4. Adds(tokens, nodes, nodes')
  BY DEF Adds, NextReference
<1> QED
  BY <1>2, <1>3, <1>4, StaysScope DEF NextReference

\* A step that only ends the run.
LEMMA StopScope ==
    ASSUME ScopeInv, UNCHANGED <<tokens, pos, want, generics, saved, nodes>> PROVE ScopeInv'
BY Zenon DEF ScopeInv, Stuck, Entered, Caught, Part, Token, AtEnd

LEMMA TryReferenceScope == ASSUME GrammarInv, ScopeInv, TryReference PROVE ScopeInv'
<1>1. /\ Running /\ Part = "<references>" /\ want' = <<"<type>", "<again>">> \o Tail(want)
      /\ pos' = pos /\ tokens' = tokens /\ nodes' = nodes /\ generics' = generics
      /\ saved'.pos = pos /\ saved'.nodes = Len(nodes)
  BY DEF TryReference
<1>2. PICK T : T = Plain \cup {"<again>"}
  OBVIOUS
<1>3. "<type>" \in T /\ "<again>" \in T
  BY <1>2, PartSymbols, Zenon
<1>4. PICK v : v = <<"<type>", "<again>">>
  OBVIOUS
<1>5. v \in Seq(T) /\ want' = v \o Tail(want)
  BY <1>1, <1>3, <1>4, Tuple2
<1>6. T \cap Items = {} /\ T \cap ItemKeywords = {} /\ T \cap MethodGenerics = {}
  <2>1. "<again>" \notin Items \cup MethodGenerics
    BY DEF Items, MethodGenerics
  <2> QED
    BY <1>2, <2>1, Firsts, AgainNowhere DEF Plain
<1>7. ~Stuck /\ Entered = pos
  <2>1. Part \in Nonterminals
    BY <1>1, SortsOfParts DEF OtherParts
  <2> QED
    BY <2>1, TypesBeginNothing DEF Stuck, Entered
<1>8. Adds(tokens, nodes, nodes')
  BY <1>1 DEF Adds
<1>9. /\ Shape(want')
      /\ \A k \in 1 .. Len(nodes') : ResolvedAt(tokens', nodes', k)
      /\ Scoped(tokens, nodes, generics, want, Entered, Len(nodes))'
  BY <1>1, <1>5, <1>6, <1>7, <1>8, MainScope
<1>10. Entered' = pos'
  BY <1>1, <1>5, <1>6, Facts, EnteredNext
<1>11. saved'.pos = Entered' /\ saved'.nodes = Len(nodes')
  BY <1>1, <1>10
<1>12. Scoped(tokens, nodes, generics, want, saved.pos, saved.nodes)'
  BY <1>9, <1>11
<1> QED
  BY <1>9, <1>12 DEF ScopeInv

LEMMA UnwindScope == ASSUME GrammarInv, ScopeInv, Unwind PROVE ScopeInv'
<1>1. Running /\ Caught /\ \E k \in DOMAIN want : want[k] = "<again>"
  BY DEF Unwind, Caught
<1>2. want \in Seq(Symbols) /\ want # <<>> /\ IsSeq(nodes) /\ saved.nodes \in 0 .. Len(nodes)
  BY <1>1, Facts DEF WantTyped, Bounds
<1>3. Trying
  BY <1>1, <1>2, Surface
<1>4. PICK k \in DOMAIN want : want[k] = "<again>" /\ want' = SubSeq(want, k + 1, Len(want))
  BY <1>1 DEF Unwind
<1>5. want' \in Seq(Ordinary)
  BY <1>2, <1>3, <1>4, TryEnds DEF Trying
<1>6. PICK u, os, e, m : u = want' /\ os = nodes' /\ e = saved.pos /\ m = saved.nodes
  OBVIOUS
<1>7. Shape(u) /\ (AsksGenerics(u) => AsksGenerics(want))
  BY <1>2, <1>4, <1>6, ShapeSuffix DEF ScopeInv
<1>8. Len(os) = m /\ m \in Nat /\ m <= m /\ \A i \in 1 .. m : os[i] = nodes[i]
  <2>1. os = SubSeq(nodes, 1, m)
    BY <1>6 DEF Unwind
  <2>2. m \in 0 .. Len(nodes) /\ Len(nodes) \in Nat
    BY <1>2, <1>6, Appended
  <2> QED
    BY <1>2, <2>1, <2>2, Prefix
<1>9. \A i \in (m + 1) .. m : os[i].as \notin Declarations /\ FALSE
  BY <1>8
<1>10. \A i \in 1 .. m : ResolvedAt(tokens, os, i)
  <2>1. \A i \in 1 .. m : ResolvedAt(tokens, nodes, i)
    <3>1. Len(nodes) \in Nat
      BY <1>2, Appended
    <3> QED
      BY <1>2, <1>6, <1>8, <3>1 DEF ScopeInv
  <2>2. \A i \in 1 .. m : ResolvedAt(tokens, nodes, i) /\ os[i] = nodes[i]
    BY <1>8, <2>1
  <2> QED
    BY <1>8, <2>2, ResolvedSame
<1>11. Scoped(tokens, os, generics, u, e, m)
  <2>1. Scoped(tokens, nodes, generics, want, e, m)
    BY <1>1, <1>6 DEF ScopeInv
  <2>2. \A i \in (m + 1) .. m : os[i].as \notin Declarations
    BY <1>9
  <2> QED
    BY <1>7, <1>8, <2>1, <2>2, ScopedKept
<1>12. Entered' = pos' /\ ~Caught'
  <2>1. want' # <<>> => Head(want') \in Ordinary
    BY <1>5
  <2>2. \A i \in DOMAIN want' : want'[i] \in Ordinary
    BY <1>5
  <2> QED
    BY <2>1, <2>2, Firsts, AgainNowhere DEF Entered, Part, Caught
<1>13. pos' = e /\ tokens' = tokens /\ generics' = generics
  BY <1>6 DEF Unwind
<1> QED
  BY <1>6, <1>7, <1>8, <1>10, <1>11, <1>12, <1>13 DEF ScopeInv

LEMMA FinishScope == ASSUME GrammarInv, ScopeInv, Finish PROVE ScopeInv'
<1>1. Running /\ Part = "<file>" /\ want' = <<>>
        /\ UNCHANGED <<tokens, pos, generics, saved, nodes>>
  BY DEF Finish
<1>2. DOMAIN want' = {}
  BY <1>1
<1>3. ~Caught' /\ Entered' = pos' /\ ~AsksGenerics(want') /\ Shape(want')
  BY <1>1, <1>2 DEF Caught, Entered, AsksGenerics, Shape
<1>4. ~Stuck /\ Entered = pos
  <2>1. Part \in Nonterminals
    BY <1>1, SortsOfParts DEF OtherParts
  <2> QED
    BY <2>1, TypesBeginNothing DEF Stuck, Entered
<1>5. Scoped(tokens, nodes, generics, want, pos, Len(nodes))
  BY <1>4 DEF ScopeInv
<1>6. PICK u : u = want'
  OBVIOUS
<1>7. Scoped(tokens, nodes, generics, u, pos, Len(nodes))
  BY <1>3, <1>5, <1>6 DEF Scoped
<1> QED
  BY <1>1, <1>3, <1>6, <1>7 DEF ScopeInv

LEMMA InitScope == ASSUME Init PROVE ScopeInv
<1>1. /\ pos = 1 /\ want = <<"<file>">> /\ generics = NoGenerics /\ nodes = <<>>
  BY DEF Init
<1>2. Len(nodes) = 0 /\ Len(want) = 1 /\ DOMAIN want = 1 .. 1 /\ want[1] = "<file>"
        /\ want # <<>> /\ Head(want) = "<file>"
  BY <1>1
<1>3. "<file>" \in Nonterminals /\ "<file>" \notin MethodGenerics
  BY SortsOfParts DEF OtherParts, MethodGenerics
<1>4. Entered = 1 /\ ~Caught /\ ~AsksGenerics(want) /\ Shape(want)
  BY <1>1, <1>2, <1>3, TypesBeginNothing DEF Entered, Part, Caught, AsksGenerics, Shape
<1>5. \A list, from : Places(nodes, 0, list, from) = {}
  BY DEF Places
<1>6. generics.type = <<>> /\ generics.method = <<>>
  BY <1>1 DEF NoGenerics
<1>7. Scoped(tokens, nodes, generics, want, 1, 0)
  BY <1>4, <1>5, <1>6, EnumeratesNone DEF Scoped, TypePlaces, MethodPlaces
<1> QED
  BY <1>2, <1>4, <1>7 DEF ScopeInv

----------------------------------------------------------------------------
(* An item begins                                                          *)

LEMMA HeadsNoAgain ==
    ASSUME NEW w, NEW k, HeadAt(w, k) PROVE \A i \in DOMAIN w : w[i] # "<again>"
<1>1. /\ w \in Seq(Symbols) /\ k \in 1 .. 3 /\ w[k] \in AttrLists
      /\ (k > 1 => w[k - 1] = "[") /\ (k > 2 => w[1] \in ItemKeywords)
      /\ \A i \in (k + 1) .. Len(w) : w[i] \in Ordinary
  BY DEF HeadAt
<1>2. "<again>" \notin AttrLists /\ "<again>" # "[" /\ "<again>" \notin ItemKeywords
        /\ "<again>" \notin Ordinary
  BY Sorts, AgainNowhere, Zenon
<1>3. PICK open : open = "["
  OBVIOUS
<1> SUFFICES ASSUME NEW i \in DOMAIN w PROVE w[i] # "<again>"
  OBVIOUS
<1>4. i \in (k + 1) .. Len(w) \/ i = k \/ (i = k - 1 /\ k > 1) \/ (i = 1 /\ k > 2)
  BY <1>1
<1>5. CASE i \in (k + 1) .. Len(w)
  BY <1>1, <1>2, <1>5
<1>6. CASE i = k
  BY <1>1, <1>2, <1>6
<1>7. CASE i = k - 1 /\ k > 1
  BY <1>1, <1>2, <1>7, Zenon
<1>8. CASE i = 1 /\ k > 2
  BY <1>1, <1>2, <1>8
<1> QED
  BY <1>4, <1>5, <1>6, <1>7, <1>8

LEMMA ScopeOfItem ==
    ASSUME NEW s \in ItemKeywords
    PROVE  Scope(s) = IF s \in TypeKeywords THEN NoGenerics
                      ELSE [generics EXCEPT !.method = <<>>]
<1>1. TypeKeywords \cap MemberKeywords = {}
  BY DEF TypeKeywords, MemberKeywords
<1> QED
  BY <1>1 DEF Scope, ItemKeywords

\* Its rule is applied.
LEMMA ItemScope ==
    ASSUME GrammarInv, ScopeInv, Running, NEW r \in Rules, r.of = Part, r.first = Token,
           ItemRule(r), want' = r.to \o Tail(want), generics' = Scope(r.first),
           UNCHANGED <<tokens, pos, saved, nodes>>
    PROVE  ScopeInv'
<1>1. /\ WantTyped /\ GenericsTyped /\ want # <<>> /\ Part = want[1] /\ pos \in Nat \ {0}
      /\ want \in Seq(Symbols) /\ IsSeq(nodes) /\ Len(nodes) \in Nat
  BY Facts, Appended DEF WantTyped
<1>2. Part \in Items /\ Part \in Nonterminals /\ Token \in ItemKeywords
  BY ItemsNonterminals DEF ItemRule
<1>3. Between
  <2>1. Items \cap TypeSymbols = {}
    BY Zenon DEF Items, TypeSymbols
  <2> QED
    BY <1>1, <1>2, <2>1, Surface
<1>4. Tail(want) \in Seq(Ordinary)
  BY <1>1, <1>3 DEF Between
<1>5. PICK k \in {2, 3} : HeadAt(r.to, k) /\ (k = 3 => r.to[1] = r.first)
  BY DEF ItemRule
<1>6. /\ \A i \in DOMAIN r.to : r.to[i] \in MethodGenerics =>
            r.to[1] = "method" /\ \A j \in 1 .. (i - 1) : r.to[j] \notin Items
      /\ r.to \in Seq(Symbols)
  BY <1>5 DEF ItemRule, HeadAt
<1>7. PICK v, u : v = r.to /\ u = v \o Tail(want)
  OBVIOUS
<1>8. want' = u
  BY <1>7
<1>9. Shape(u) /\ (AsksGenerics(u) => v[1] = "method")
  <2>1. PICK A : A = (v[1] = "method")
    OBVIOUS
  <2>2. \A i \in DOMAIN v : v[i] \in MethodGenerics =>
           A /\ \A j \in 1 .. (i - 1) : v[j] \notin Items
    BY <1>6, <1>7, <2>1
  <2>3. v \in Seq(Symbols) /\ Shape(want) /\ want[1] \in Items
    BY <1>1, <1>2, <1>6, <1>7 DEF ScopeInv
  <2>4. Shape(u) /\ (AsksGenerics(u) => A)
    BY <1>1, <1>7, <2>2, <2>3, ShapeItem
  <2> QED
    BY <2>1, <2>4
<1>10. HeadAt(u, k) /\ u[1] = v[1]
  BY <1>4, <1>5, <1>7, HeadJoin
<1>11. ~Caught'
  BY <1>8, <1>10, HeadsNoAgain DEF Caught
<1>12. /\ u \in Seq(Symbols) /\ u # <<>> /\ Head(u) = u[1]
  BY <1>10 DEF HeadAt
<1>13. Token' = Token
  BY DEF Token, AtEnd
<1>14. \A i \in 1 .. Len(nodes') : ResolvedAt(tokens', nodes', i)
  BY DEF ScopeInv
<1>15. CASE k = 2
  <2>1. u[1] = "["
    BY <1>10, <1>15 DEF HeadAt
  <2>2. Stuck'
    BY <1>2, <1>8, <1>12, <1>13, <2>1, Zenon DEF Stuck, Part
  <2> QED
    BY <1>8, <1>9, <1>11, <1>14, <2>2 DEF ScopeInv
<1>16. CASE k = 3
  <2>1. u[1] = Token
    BY <1>5, <1>7, <1>10, <1>16
  <2>2. Entered' = pos + 1
    BY <1>2, <1>8, <1>12, <2>1 DEF Entered, Part
  <2>3. ~Stuck /\ Entered = pos
    BY <1>2, TypesBeginNothing DEF Stuck, Entered
  <2>4. ~AtEnd /\ Token = Kind(tokens[pos])
    <3>1. ~AtEnd
      BY <1>2, EndIs, EofIs
    <3> QED
      BY <3>1, TokenIs
  <2>5. PICK g, h, m : g = generics /\ h = generics' /\ m = Len(nodes)
    OBVIOUS
  <2>6. g \in [{"type", "method"} -> Seq(STRING)] /\ m \in Nat
    BY <1>1, <2>5 DEF GenericsTyped
  <2>7. h = IF Kind(tokens[pos]) \in TypeKeywords THEN NoGenerics ELSE [g EXCEPT !.method = <<>>]
    BY <1>2, <2>4, <2>5, ScopeOfItem
  <2>8. InOrder(nodes, pos, m)
    BY <2>5, Ordered
  <2>9. Scoped(tokens, nodes, g, want, pos, m)
    BY <2>3, <2>5 DEF ScopeInv
  <2>10. AsksGenerics(u) => Kind(tokens[pos]) = "method"
    BY <1>9, <1>10, <2>1, <2>4
  <2>11. Scoped(tokens, nodes, h, u, pos + 1, m)
    BY <1>1, <1>2, <2>4, <2>6, <2>7, <2>8, <2>9, <2>10, ScopedItem
  <2> QED
    BY <1>8, <1>9, <1>11, <1>14, <2>2, <2>5, <2>11 DEF ScopeInv
<1> QED
  BY <1>15, <1>16

LEMMA ExpandScope == ASSUME GrammarInv, ScopeInv, Expand PROVE ScopeInv'
<1>1. PICK r \in Applicable :
        want' = r.to \o Tail(want) /\ generics' = Scope(r.first)
  BY DEF Expand
<1>2. Running /\ tokens' = tokens /\ pos' = pos /\ nodes' = nodes /\ saved' = saved
  BY DEF Expand
<1>3. r \in Rules /\ r.of = Part /\ r.first = Token
  BY <1>1 DEF Applicable, RulesFor
<1>4. Part \in Nonterminals /\ (OrdinaryRule(r) \/ ItemRule(r))
  BY <1>3, RulesGood DEF RuleGood
<1>5. CASE ItemRule(r)
  BY <1>1, <1>2, <1>3, <1>5, ItemScope
<1>6. CASE OrdinaryRule(r)
  <2>1. generics' = generics
    BY <1>1, <1>2, <1>6, Facts, ScopeTyped DEF OrdinaryRule
  <2>2. Adds(tokens, nodes, nodes')
    BY <1>2 DEF Adds
  <2>3. CASE r.to \in Seq(Plain)
    <3>1. /\ Plain \cap Items = {} /\ Plain \cap ItemKeywords = {} /\ "<again>" \notin Plain
          /\ Plain \cap MethodGenerics = {}
      BY Firsts, AgainNowhere DEF Plain
    <3> QED
      BY <1>1, <1>2, <1>4, <2>1, <2>2, <2>3, <3>1, StaysScope
  <2>4. CASE Part \in MethodGenerics /\ r.to \in Seq(Ordinary \ Items)
    <3>1. PICK T : T = Ordinary \ Items
      OBVIOUS
    <3>2. T \cap Items = {} /\ T \cap ItemKeywords = {} /\ "<again>" \notin T
      BY <3>1, Firsts, AgainNowhere
    <3> QED
      BY <1>1, <1>2, <1>4, <2>1, <2>2, <2>4, <3>1, <3>2, StaysScope
  <2> QED
    BY <1>3, <1>6, <2>3, <2>4 DEF OrdinaryRule
<1> QED
  BY <1>4, <1>5, <1>6

----------------------------------------------------------------------------
(* A generic is declared                                                   *)

LEMMA LatestIs ==
    ASSUME NEW ts, NEW e \in Nat \ {0}, NEW K PROVE Latest(ts, e, K) \in 0 .. (e - 1)
<1> DEFINE S == {i \in 1 .. (e - 1) : Kind(ts[i]) \in K}
<1>1. \A i \in S : i \in 1 .. (e - 1)
  OBVIOUS
<1>2. Latest(ts, e, K) = IF S = {} THEN 0 ELSE CHOOSE i \in S : \A j \in S : j <= i
  BY Zenon DEF Latest, Greatest
<1> HIDE DEF S
<1>3. \A i \in S : i \in 1 .. (e - 1)
  BY <1>1
<1>4. ASSUME S # {} PROVE \E i \in S : \A j \in S : j <= i
  <2>1. PICK R : R = {x \in Nat : \E i \in S : x = e - i}
    OBVIOUS
  <2>2. R \in SUBSET Nat /\ R # {}
    <3>1. PICK i : i \in S
      BY <1>4
    <3>2. e - i \in Nat
      BY <1>3, <3>1
    <3> QED
      BY <2>1, <3>1, <3>2
  <2>3. PICK x \in R : \A y \in R : ~(y < x)
    BY <2>2, LeastNatural
  <2>4. PICK i \in S : x = e - i
    BY <2>1, <2>3
  <2>5. ASSUME NEW j \in S PROVE j <= i
    <3>1. e - j \in R
      BY <1>3, <2>1, <2>5
    <3> QED
      BY <1>3, <2>3, <2>4, <3>1
  <2> QED
    BY <2>4, <2>5
<1>5. ASSUME S # {} PROVE Latest(ts, e, K) \in S
  <2>1. PICK l : l = CHOOSE i \in S : \A j \in S : j <= i
    OBVIOUS
  <2>2. l \in S
    BY <1>4, <1>5, <2>1
  <2> QED
    BY <1>2, <1>5, <2>1, <2>2
<1> QED
  BY <1>2, <1>3, <1>5

LEMMA ScopedDeclared ==
    ASSUME NEW ts, NEW ns, IsSeq(ns), NEW os, NEW list \in Declarations, NEW n,
           os = Append(ns, n), n.as = list, NEW e \in Nat \ {0}, n.at = e,
           InOrder(ns, e, Len(ns)), NEW g \in [{"type", "method"} -> Seq(STRING)],
           NEW x \in STRING, NEW h, h = [g EXCEPT ![GenericsOf(list)] = Append(@, x)],
           ts[e].text = x, Kind(ts[e]) \notin ItemKeywords, NEW w,
           Scoped(ts, ns, g, w, e, Len(ns)), list \in MethodGenerics => AsksGenerics(w)
    PROVE  Scoped(ts, os, h, w, e + 1, Len(os))
<1>1. PICK m : m = Len(ns)
  OBVIOUS
<1>2. m \in Nat /\ Len(os) = m + 1 /\ os[m + 1] = n /\ \A k \in 1 .. m : os[k] = ns[k]
  BY <1>1, Appended
<1>3. PICK L, M : L = Latest(ts, e, TypeKeywords) /\ M = Latest(ts, e, ItemKeywords)
  OBVIOUS
<1>4. L \in Nat /\ L <= e /\ M \in Nat /\ M <= e
  BY <1>3, LatestIs
<1>5. Latest(ts, e + 1, TypeKeywords) = L /\ Latest(ts, e + 1, ItemKeywords) = M
  <2>1. Kind(ts[e]) \notin TypeKeywords
    BY DEF ItemKeywords
  <2> QED
    BY <1>3, <2>1, LatestKept
<1>6. ASSUME NEW from PROVE Places(ns, m, list, from) \in SUBSET Nat
                            /\ \A p \in Places(ns, m, list, from) : p < e
  BY <1>1, <1>2, PlacesBefore
<1>7. ASSUME NEW from \in Nat, from <= e, NEW l \in Seq(STRING),
             Enumerates(ts, Places(ns, m, list, from), l)
      PROVE  Enumerates(ts, Places(os, m + 1, list, from), Append(l, x))
  <2>1. PICK D : D = Places(ns, m, list, from)
    OBVIOUS
  <2>2. Places(os, m + 1, list, from) = D \cup {e}
    <3>1. 1 .. (m + 1) = 1 .. m \cup {m + 1}
      BY <1>2
    <3>2. os[m + 1].as = list /\ os[m + 1].at = e
      BY <1>2
    <3> QED
      BY <1>2, <1>7, <2>1, <3>1, <3>2 DEF Places
  <2>3. D \in SUBSET Nat /\ \A p \in D : p < e
    BY <1>6, <2>1
  <2>4. Enumerates(ts, D \cup {e}, Append(l, x))
    BY <1>7, <2>1, <2>3, EnumeratesMore
  <2> QED
    BY <2>2, <2>4
<1>8. ASSUME NEW other, other # list, NEW from
      PROVE  Places(os, m + 1, other, from) = Places(ns, m, other, from)
  <2>1. 1 .. (m + 1) = 1 .. m \cup {m + 1}
    BY <1>2
  <2> QED
    BY <1>2, <1>8, <2>1 DEF Places
<1>9. PICK gt, gm : gt = g.type /\ gm = g.method
  OBVIOUS
<1>10. gt \in Seq(STRING) /\ gm \in Seq(STRING)
  BY <1>9
<1>11. /\ Enumerates(ts, Places(ns, m, "<type_generics>", L), gt)
       /\ Enumerates(ts, Places(ns, m, "<method_generics>", M), gm)
       /\ gm # <<>> \/ AsksGenerics(w) => Kind(ts[M]) = "method"
  BY <1>1, <1>3, <1>9 DEF Scoped, TypePlaces, MethodPlaces
<1>12. CASE list = "<type_generics>"
  <2>1. h.type = Append(gt, x) /\ h.method = gm
    BY <1>9, <1>12 DEF GenericsOf
  <2>2. Enumerates(ts, Places(os, m + 1, "<type_generics>", L), Append(gt, x))
    BY <1>4, <1>7, <1>10, <1>11, <1>12
  <2>3. Places(os, m + 1, "<method_generics>", M) = Places(ns, m, "<method_generics>", M)
    BY <1>8, <1>12
  <2> QED
    BY <1>2, <1>5, <1>11, <2>1, <2>2, <2>3 DEF Scoped, TypePlaces, MethodPlaces
<1>13. CASE list = "<method_generics>"
  <2>1. h.type = gt /\ h.method = Append(gm, x)
    BY <1>9, <1>13 DEF GenericsOf
  <2>2. Enumerates(ts, Places(os, m + 1, "<method_generics>", M), Append(gm, x))
    BY <1>4, <1>7, <1>10, <1>11, <1>13
  <2>3. Places(os, m + 1, "<type_generics>", L) = Places(ns, m, "<type_generics>", L)
    BY <1>8, <1>13
  <2>4. Kind(ts[M]) = "method"
    BY <1>11, <1>13 DEF MethodGenerics
  <2> QED
    BY <1>2, <1>5, <1>11, <2>1, <2>2, <2>3, <2>4 DEF Scoped, TypePlaces, MethodPlaces
<1> QED
  BY <1>12, <1>13 DEF Declarations

LEMMA DeclareGenericScope == ASSUME GrammarInv, ScopeInv, DeclareGeneric PROVE ScopeInv'
<1>1. /\ Running /\ Token = "name" /\ Part \in Declarations
      /\ generics' = [generics EXCEPT ![GenericsOf(Part)] = Append(@, Text)]
      /\ pos' = pos + 1 /\ want' = want /\ tokens' = tokens /\ nodes' = Leaf(Part, None)
  BY DEF DeclareGeneric, DeclaresGeneric, Declarations
<1>2. /\ ~AtEnd /\ IsSeq(nodes) /\ pos \in Nat \ {0} /\ Text = tokens[pos].text
      /\ Text \in STRING /\ Token = Kind(tokens[pos]) /\ want # <<>> /\ Part = want[1]
      /\ generics \in [{"type", "method"} -> Seq(STRING)] /\ 1 \in DOMAIN want
  BY <1>1, EndIs, Facts, TokenIs DEF GenericsTyped, WantTyped
<1>3. Part \in Nonterminals
  BY <1>1, ReadParts DEF Declarations
<1>4. ~Stuck /\ Entered = pos /\ Entered' = pos'
  BY <1>1, <1>3, TypesBeginNothing DEF Stuck, Entered, Part
<1>5. ~Caught'
  <2>1. Declarations \cap TypeSymbols = {}
    BY Zenon DEF Declarations, TypeSymbols
  <2>2. ~Caught
    BY <1>1, <1>2, <1>3, <2>1, Surface, Sorts DEF Caught
  <2> QED
    BY <1>1, <2>2 DEF Caught
<1>6. PICK os, n, h, p, x : /\ n = Node(Part, pos, None, {}) /\ os = Append(nodes, n)
                            /\ h = generics' /\ p = Part /\ x = Text
  OBVIOUS
<1>7. nodes' = os /\ n.as = p /\ n.at = pos
  BY <1>1, <1>6 DEF Leaf, Node
<1>8. Scoped(tokens, nodes, generics, want, pos, Len(nodes))
  BY <1>4 DEF ScopeInv
<1>9. p \in MethodGenerics => AsksGenerics(want)
  BY <1>2, <1>6 DEF AsksGenerics
<1>10. Token \notin ItemKeywords /\ InOrder(nodes, pos, Len(nodes))
  BY <1>1, NamesKinds, Ordered
<1>11. h = [generics EXCEPT ![GenericsOf(p)] = Append(@, x)]
  BY <1>1, <1>6
<1>12. Scoped(tokens, os, h, want, pos + 1, Len(os))
  <2>1. PICK ts, ns, g, w, e : /\ ts = tokens /\ ns = nodes /\ g = generics /\ w = want
                              /\ e = pos
    OBVIOUS
  <2>2. /\ IsSeq(ns) /\ p \in Declarations /\ os = Append(ns, n) /\ n.as = p
        /\ e \in Nat \ {0} /\ n.at = e /\ InOrder(ns, e, Len(ns))
        /\ g \in [{"type", "method"} -> Seq(STRING)] /\ x \in STRING
        /\ h = [g EXCEPT ![GenericsOf(p)] = Append(@, x)]
        /\ ts[e].text = x /\ Kind(ts[e]) \notin ItemKeywords
        /\ Scoped(ts, ns, g, w, e, Len(ns)) /\ (p \in MethodGenerics => AsksGenerics(w))
    BY <1>1, <1>2, <1>6, <1>7, <1>8, <1>9, <1>10, <1>11, <2>1
  <2>3. Scoped(ts, os, h, w, e + 1, Len(os))
    BY <2>2, ScopedDeclared
  <2> QED
    BY <2>1, <2>3
<1>13. \A k \in 1 .. Len(os) : ResolvedAt(tokens, os, k)
  <2>1. PICK m : m = Len(nodes)
    OBVIOUS
  <2>2. m \in Nat /\ Len(os) = m + 1 /\ os[m + 1] = n /\ \A k \in 1 .. m : os[k] = nodes[k]
    BY <1>2, <1>6, <2>1, Appended
  <2>3. \A k \in 1 .. m : ResolvedAt(tokens, nodes, k) /\ os[k] = nodes[k]
    BY <2>1, <2>2 DEF ScopeInv
  <2>4. \A k \in 1 .. m : ResolvedAt(tokens, os, k)
    BY <2>2, <2>3, ResolvedSame
  <2>5. ResolvedAt(tokens, os, m + 1)
    <3>1. n.as \notin Uses
      BY <1>1, <1>6, <1>7 DEF Declarations, Uses
    <3> QED
      BY <2>2, <3>1 DEF ResolvedAt, Uses
  <2>6. \A k \in 1 .. (m + 1) : k \in 1 .. m \/ k = m + 1
    BY <2>2
  <2> QED
    BY <2>2, <2>4, <2>5, <2>6
<1>14. Shape(want)
  BY DEF ScopeInv
<1> QED
  BY <1>1, <1>4, <1>5, <1>6, <1>7, <1>12, <1>13, <1>14 DEF ScopeInv

----------------------------------------------------------------------------
(* Generics, the theorem                                                   *)

LEMMA NextScope == ASSUME GrammarInv, ScopeInv, [Next]_vars PROVE ScopeInv'
<1>1. CASE Take
  BY <1>1, TakeScope
<1>2. CASE Expand
  BY <1>2, ExpandScope
<1>3. CASE Skip
  BY <1>3, SkipScope
<1>4. CASE TakeName
  BY <1>4, TakeNameScope
<1>5. CASE DeclareGeneric
  BY <1>5, DeclareGenericScope
<1>6. CASE ResolveGeneric
  BY <1>6, ResolveGenericScope
<1>7. CASE TakeInteger
  BY <1>7, TakeIntegerScope
<1>8. CASE AttrModifier \/ AttrInteger
  BY <1>8, AttrScope
<1>9. CASE EndAttr
  BY <1>9, EndAttrScope
<1>10. CASE TryReference
  BY <1>10, TryReferenceScope
<1>11. CASE NextReference
  BY <1>11, NextReferenceScope
<1>12. CASE TakeConstant
  BY <1>12, TakeConstantScope
<1>13. CASE EndOfFileInType
  BY <1>13, EndOfFileInTypeScope
<1>14. CASE Finish
  BY <1>14, FinishScope
<1>15. CASE Panic
  BY <1>15, StopScope DEF Panic
<1>16. CASE Fail
  BY <1>16, StopScope DEF Fail
<1>17. CASE Unwind
  BY <1>17, UnwindScope
<1>18. CASE Terminated
  BY <1>18, StopScope DEF Terminated, vars
<1>19. CASE UNCHANGED vars
  BY <1>19, StopScope DEF vars
<1> QED
  BY <1>1, <1>2, <1>3, <1>4, <1>5, <1>6, <1>7, <1>8, <1>9, <1>10, <1>11, <1>12, <1>13,
     <1>14, <1>15, <1>16, <1>17, <1>18, <1>19 DEF Next

\* The generics that the parser keeps are those of the type and of the method it
\* is in, wherever it goes back to, and every bare name means one of them.
THEOREM ScopeInductive == Spec => []ScopeInv
<1>1. Init => ScopeInv
  BY InitScope
<1>2. GrammarInv /\ ScopeInv /\ [Next]_vars => ScopeInv'
  BY NextScope
<1> QED
  BY <1>1, <1>2, GrammarInductive, PTL DEF Spec

\* What is declared up to the k-th node is declared by the nodes before it.
LEMMA DeclaredIs ==
    ASSUME IsSeq(nodes), NEW e, InOrder(nodes, e, Len(nodes)), e \in Nat,
           NEW k \in DOMAIN nodes, NEW list, NEW from \in Nat
    PROVE  Declared(list, from, nodes[k].at) = Places(nodes, k, list, from)
<1>1. DOMAIN nodes = 1 .. Len(nodes) /\ Len(nodes) \in Nat
  BY Appended
<1>2. \A i \in 1 .. Len(nodes) : nodes[i].at \in Nat
  BY DEF InOrder
<1>3. \A i, j \in 1 .. Len(nodes) : i < j => nodes[i].at < nodes[j].at
  BY DEF InOrder
<1>4. \A j \in 1 .. Len(nodes) : nodes[j].at <= nodes[k].at <=> j <= k
  <2> SUFFICES ASSUME NEW j \in 1 .. Len(nodes) PROVE nodes[j].at <= nodes[k].at <=> j <= k
    OBVIOUS
  <2>1. CASE j < k
    BY <1>1, <1>2, <1>3, <2>1
  <2>2. CASE k < j
    BY <1>1, <1>2, <1>3, <2>2
  <2>3. CASE j = k
    BY <1>1, <1>2, <2>3
  <2> QED
    BY <1>1, <2>1, <2>2, <2>3
<1>5. ASSUME NEW p
      PROVE  p \in Declared(list, from, nodes[k].at) <=>
                \E j \in 1 .. Len(nodes) :
                   nodes[j].as = list /\ nodes[j].at = p /\ from <= p /\ p <= nodes[k].at
  <2>1. nodes[k].at \in Nat
    BY <1>1, <1>2
  <2> QED
    BY <1>1, <1>2, <2>1 DEF Declared
<1>6. ASSUME NEW p
      PROVE  p \in Places(nodes, k, list, from) <=>
                \E j \in 1 .. k : nodes[j].as = list /\ from <= nodes[j].at /\ nodes[j].at = p
  BY DEF Places
<1>7. \A j : j \in 1 .. k <=> j \in 1 .. Len(nodes) /\ j <= k
  BY <1>1
<1>8. ASSUME NEW p
      PROVE  p \in Declared(list, from, nodes[k].at) <=> p \in Places(nodes, k, list, from)
  BY <1>4, <1>5, <1>6, <1>7
<1> QED
  BY <1>8

LEMMA LatestBefore ==
    ASSUME NEW p, NEW K PROVE LastBefore(p, K) = Latest(tokens, p, K)
BY Zenon DEF LastBefore, Latest, Greatest

\* A bare name that is read as a type means the generic of that name of the type
\* it is written in, or, if there is none, of the method it is written in, and
\* of no other type or method (ty.rs:147-161).
THEOREM GenericsScoped == Spec => []GenericsResolved
<1>1. ASSUME GrammarInv, ScopeInv PROVE GenericsResolved
  <2>1. IsSeq(nodes) /\ InOrder(nodes, pos, Len(nodes)) /\ pos \in Nat /\ Bounds
    BY <1>1, Ordered, TypeParts, Positions DEF GrammarInv, Typed
  <2>2. DOMAIN nodes = 1 .. Len(nodes)
    BY <2>1, Appended
  <2> SUFFICES ASSUME NEW k \in DOMAIN nodes
               PROVE  LET n      == nodes[k]
                          type   == LastBefore(n.at, TypeKeywords)
                          member == LastBefore(n.at, TypeKeywords \cup MemberKeywords)
                          ofType == Declared("<type_generics>", type, n.at)
                      IN /\ n.as = "type_generic" => Means(n, ofType)
                         /\ n.as = "method_generic" =>
                               /\ Kind(tokens[member]) = "method"
                               /\ Means(n, Declared("<method_generics>", member, n.at))
                               /\ \A p \in ofType : tokens[p].text # tokens[n.at].text
    BY Zenon DEF GenericsResolved
  <2>3. PICK n, type, member :
           /\ n = nodes[k] /\ type = LastBefore(n.at, TypeKeywords)
           /\ member = LastBefore(n.at, TypeKeywords \cup MemberKeywords)
    OBVIOUS
  <2>4. ResolvedAt(tokens, nodes, k)
    BY <1>1, <2>2 DEF ScopeInv
  <2>5. /\ type = Latest(tokens, n.at, TypeKeywords)
        /\ member = Latest(tokens, n.at, ItemKeywords)
    BY <2>3, LatestBefore, Zenon DEF ItemKeywords
  <2>6. n.at \in Nat \ {0}
    BY <2>1, <2>2, <2>3 DEF InOrder
  <2>7. type \in Nat /\ member \in Nat
    BY <2>5, <2>6, LatestIs
  <2>8. /\ Declared("<type_generics>", type, n.at) = TypePlaces(tokens, nodes, n.at, k)
        /\ Declared("<method_generics>", member, n.at) = MethodPlaces(tokens, nodes, n.at, k)
    BY <2>1, <2>3, <2>5, <2>7, DeclaredIs DEF TypePlaces, MethodPlaces
  <2>9. \A S : Means(n, S) <=> Chooses(tokens, S, n)
    BY Zenon DEF Means, Chooses
  <2>10. /\ n.as = "type_generic" => Chooses(tokens, TypePlaces(tokens, nodes, n.at, k), n)
         /\ n.as = "method_generic" =>
               /\ Kind(tokens[Latest(tokens, n.at, ItemKeywords)]) = "method"
               /\ Chooses(tokens, MethodPlaces(tokens, nodes, n.at, k), n)
               /\ \A p \in TypePlaces(tokens, nodes, n.at, k) :
                     tokens[p].text # tokens[n.at].text
    BY <2>3, <2>4, Zenon DEF ResolvedAt
  <2>11. /\ n.as = "type_generic" => Means(n, Declared("<type_generics>", type, n.at))
         /\ n.as = "method_generic" =>
               /\ Kind(tokens[member]) = "method"
               /\ Means(n, Declared("<method_generics>", member, n.at))
               /\ \A p \in Declared("<type_generics>", type, n.at) :
                     tokens[p].text # tokens[n.at].text
    BY <2>5, <2>8, <2>9, <2>10, Zenon
  <2> QED
    BY <2>3, <2>11, Zenon
<1> QED
  BY <1>1, GrammarInductive, ScopeInductive, PTL

----------------------------------------------------------------------------
(* Brackets: tuples joined                                                 *)

\* When a concatenation is a given sequence.
LEMMA JoinIs ==
    ASSUME NEW S, NEW s \in Seq(S), NEW t \in Seq(S), NEW u \in Seq(S),
           Len(u) = Len(s) + Len(t),
           \A i \in 1 .. Len(s) : u[i] = s[i],
           \A i \in 1 .. Len(t) : u[Len(s) + i] = t[i]
    PROVE  s \o t = u
<1>1. PICK v : v = s \o t
  OBVIOUS
<1>2. PICK m, n : m = Len(s) /\ n = Len(t)
  OBVIOUS
<1>3. m \in Nat /\ n \in Nat /\ Len(u) = m + n
  BY <1>2
<1>4. v \in Seq(S) /\ Len(v) = m + n
  BY <1>1, <1>2
<1>5. ASSUME NEW i \in 1 .. (m + n) PROVE v[i] = u[i]
  <2>1. CASE i <= m
    BY <1>1, <1>2, <1>3, <2>1
  <2>2. CASE m < i
    <3>1. v[i] = t[i - m] /\ i - m \in 1 .. n
      BY <1>1, <1>2, <1>3, <2>2
    <3>2. u[m + (i - m)] = t[i - m] /\ m + (i - m) = i
      BY <1>2, <1>3, <3>1
    <3> QED
      BY <3>1, <3>2
  <2> QED
    BY <1>3, <2>1, <2>2
<1>6. v = u
  BY <1>3, <1>4, <1>5, SeqEqual
<1> QED
  BY <1>1, <1>6
LEMMA Join1And1 ==
    ASSUME NEW a, NEW b
    PROVE  <<a>> \o <<b>> = <<a, b>>
<1> DEFINE S == {a, b}
<1>1. PICK s, t, u : s = <<a>> /\ t = <<b>> /\ u = <<a, b>>
  OBVIOUS
<1>2. s \in Seq(S) /\ t \in Seq(S) /\ u \in Seq(S)
  BY <1>1
<1>3. Len(u) = Len(s) + Len(t)
  BY <1>1
<1> HIDE DEF S
<1>4. \A i \in 1 .. Len(s) : u[i] = s[i]
  BY <1>1
<1>5. \A i \in 1 .. Len(t) : u[Len(s) + i] = t[i]
  BY <1>1
<1>6. s \o t = u
  BY <1>2, <1>3, <1>4, <1>5, JoinIs
<1> QED
  BY <1>1, <1>6

LEMMA Join1And2 ==
    ASSUME NEW a, NEW b, NEW c
    PROVE  <<a>> \o <<b, c>> = <<a, b, c>>
<1> DEFINE S == {a, b, c}
<1>1. PICK s, t, u : s = <<a>> /\ t = <<b, c>> /\ u = <<a, b, c>>
  OBVIOUS
<1>2. s \in Seq(S) /\ t \in Seq(S) /\ u \in Seq(S)
  BY <1>1
<1>3. Len(u) = Len(s) + Len(t)
  BY <1>1
<1> HIDE DEF S
<1>4. \A i \in 1 .. Len(s) : u[i] = s[i]
  BY <1>1
<1>5. \A i \in 1 .. Len(t) : u[Len(s) + i] = t[i]
  BY <1>1
<1>6. s \o t = u
  BY <1>2, <1>3, <1>4, <1>5, JoinIs
<1> QED
  BY <1>1, <1>6

LEMMA Join2And1 ==
    ASSUME NEW a, NEW b, NEW c
    PROVE  <<a, b>> \o <<c>> = <<a, b, c>>
<1> DEFINE S == {a, b, c}
<1>1. PICK s, t, u : s = <<a, b>> /\ t = <<c>> /\ u = <<a, b, c>>
  OBVIOUS
<1>2. s \in Seq(S) /\ t \in Seq(S) /\ u \in Seq(S)
  BY <1>1
<1>3. Len(u) = Len(s) + Len(t)
  BY <1>1
<1> HIDE DEF S
<1>4. \A i \in 1 .. Len(s) : u[i] = s[i]
  BY <1>1
<1>5. \A i \in 1 .. Len(t) : u[Len(s) + i] = t[i]
  BY <1>1
<1>6. s \o t = u
  BY <1>2, <1>3, <1>4, <1>5, JoinIs
<1> QED
  BY <1>1, <1>6

LEMMA Join3And1 ==
    ASSUME NEW a, NEW b, NEW c, NEW d
    PROVE  <<a, b, c>> \o <<d>> = <<a, b, c, d>>
<1> DEFINE S == {a, b, c, d}
<1>1. PICK s, t, u : s = <<a, b, c>> /\ t = <<d>> /\ u = <<a, b, c, d>>
  OBVIOUS
<1>2. s \in Seq(S) /\ t \in Seq(S) /\ u \in Seq(S)
  BY <1>1
<1>3. Len(u) = Len(s) + Len(t)
  BY <1>1
<1> HIDE DEF S
<1>4. \A i \in 1 .. Len(s) : u[i] = s[i]
  BY <1>1
<1>5. \A i \in 1 .. Len(t) : u[Len(s) + i] = t[i]
  BY <1>1
<1>6. s \o t = u
  BY <1>2, <1>3, <1>4, <1>5, JoinIs
<1> QED
  BY <1>1, <1>6

LEMMA Join3And2 ==
    ASSUME NEW a, NEW b, NEW c, NEW d, NEW e
    PROVE  <<a, b, c>> \o <<d, e>> = <<a, b, c, d, e>>
<1> DEFINE S == {a, b, c, d, e}
<1>1. PICK s, t, u : s = <<a, b, c>> /\ t = <<d, e>> /\ u = <<a, b, c, d, e>>
  OBVIOUS
<1>2. s \in Seq(S) /\ t \in Seq(S) /\ u \in Seq(S)
  BY <1>1
<1>3. Len(u) = Len(s) + Len(t)
  BY <1>1
<1> HIDE DEF S
<1>4. \A i \in 1 .. Len(s) : u[i] = s[i]
  BY <1>1
<1>5. \A i \in 1 .. Len(t) : u[Len(s) + i] = t[i]
  BY <1>1
<1>6. s \o t = u
  BY <1>2, <1>3, <1>4, <1>5, JoinIs
<1> QED
  BY <1>1, <1>6

LEMMA Join1And3 ==
    ASSUME NEW a, NEW b, NEW c, NEW d
    PROVE  <<a>> \o <<b, c, d>> = <<a, b, c, d>>
<1> DEFINE S == {a, b, c, d}
<1>1. PICK s, t, u : s = <<a>> /\ t = <<b, c, d>> /\ u = <<a, b, c, d>>
  OBVIOUS
<1>2. s \in Seq(S) /\ t \in Seq(S) /\ u \in Seq(S)
  BY <1>1
<1>3. Len(u) = Len(s) + Len(t)
  BY <1>1
<1> HIDE DEF S
<1>4. \A i \in 1 .. Len(s) : u[i] = s[i]
  BY <1>1
<1>5. \A i \in 1 .. Len(t) : u[Len(s) + i] = t[i]
  BY <1>1
<1>6. s \o t = u
  BY <1>2, <1>3, <1>4, <1>5, JoinIs
<1> QED
  BY <1>1, <1>6

LEMMA Join1And4 ==
    ASSUME NEW a, NEW b, NEW c, NEW d, NEW e
    PROVE  <<a>> \o <<b, c, d, e>> = <<a, b, c, d, e>>
<1> DEFINE S == {a, b, c, d, e}
<1>1. PICK s, t, u : s = <<a>> /\ t = <<b, c, d, e>> /\ u = <<a, b, c, d, e>>
  OBVIOUS
<1>2. s \in Seq(S) /\ t \in Seq(S) /\ u \in Seq(S)
  BY <1>1
<1>3. Len(u) = Len(s) + Len(t)
  BY <1>1
<1> HIDE DEF S
<1>4. \A i \in 1 .. Len(s) : u[i] = s[i]
  BY <1>1
<1>5. \A i \in 1 .. Len(t) : u[Len(s) + i] = t[i]
  BY <1>1
<1>6. s \o t = u
  BY <1>2, <1>3, <1>4, <1>5, JoinIs
<1> QED
  BY <1>1, <1>6

LEMMA Join2And3 ==
    ASSUME NEW a, NEW b, NEW c, NEW d, NEW e
    PROVE  <<a, b>> \o <<c, d, e>> = <<a, b, c, d, e>>
<1> DEFINE S == {a, b, c, d, e}
<1>1. PICK s, t, u : s = <<a, b>> /\ t = <<c, d, e>> /\ u = <<a, b, c, d, e>>
  OBVIOUS
<1>2. s \in Seq(S) /\ t \in Seq(S) /\ u \in Seq(S)
  BY <1>1
<1>3. Len(u) = Len(s) + Len(t)
  BY <1>1
<1> HIDE DEF S
<1>4. \A i \in 1 .. Len(s) : u[i] = s[i]
  BY <1>1
<1>5. \A i \in 1 .. Len(t) : u[Len(s) + i] = t[i]
  BY <1>1
<1>6. s \o t = u
  BY <1>2, <1>3, <1>4, <1>5, JoinIs
<1> QED
  BY <1>1, <1>6

LEMMA Join5And2 ==
    ASSUME NEW a, NEW b, NEW c, NEW d, NEW e, NEW f, NEW g
    PROVE  <<a, b, c, d, e>> \o <<f, g>> = <<a, b, c, d, e, f, g>>
<1> DEFINE S == {a, b, c, d, e, f, g}
<1>1. PICK s, t, u : s = <<a, b, c, d, e>> /\ t = <<f, g>> /\ u = <<a, b, c, d, e, f, g>>
  OBVIOUS
<1>2. s \in Seq(S) /\ t \in Seq(S) /\ u \in Seq(S)
  BY <1>1
<1>3. Len(u) = Len(s) + Len(t)
  BY <1>1
<1> HIDE DEF S
<1>4. \A i \in 1 .. Len(s) : u[i] = s[i]
  BY <1>1
<1>5. \A i \in 1 .. Len(t) : u[Len(s) + i] = t[i]
  BY <1>1
<1>6. s \o t = u
  BY <1>2, <1>3, <1>4, <1>5, JoinIs
<1> QED
  BY <1>1, <1>6

LEMMA Join4And2 ==
    ASSUME NEW a, NEW b, NEW c, NEW d, NEW e, NEW f
    PROVE  <<a, b, c, d>> \o <<e, f>> = <<a, b, c, d, e, f>>
<1> DEFINE S == {a, b, c, d, e, f}
<1>1. PICK s, t, u : s = <<a, b, c, d>> /\ t = <<e, f>> /\ u = <<a, b, c, d, e, f>>
  OBVIOUS
<1>2. s \in Seq(S) /\ t \in Seq(S) /\ u \in Seq(S)
  BY <1>1
<1>3. Len(u) = Len(s) + Len(t)
  BY <1>1
<1> HIDE DEF S
<1>4. \A i \in 1 .. Len(s) : u[i] = s[i]
  BY <1>1
<1>5. \A i \in 1 .. Len(t) : u[Len(s) + i] = t[i]
  BY <1>1
<1>6. s \o t = u
  BY <1>2, <1>3, <1>4, <1>5, JoinIs
<1> QED
  BY <1>1, <1>6

LEMMA Join5And4 ==
    ASSUME NEW a, NEW b, NEW c, NEW d, NEW e, NEW f, NEW g, NEW h, NEW o
    PROVE  <<a, b, c, d, e>> \o <<f, g, h, o>> = <<a, b, c, d, e, f, g, h, o>>
<1> DEFINE S == {a, b, c, d, e, f, g, h, o}
<1>1. PICK s, t, u : s = <<a, b, c, d, e>> /\ t = <<f, g, h, o>>
                       /\ u = <<a, b, c, d, e, f, g, h, o>>
  OBVIOUS
<1>2. s \in Seq(S) /\ t \in Seq(S) /\ u \in Seq(S)
  BY <1>1
<1>3. Len(u) = Len(s) + Len(t)
  BY <1>1
<1> HIDE DEF S
<1>4. \A i \in 1 .. Len(s) : u[i] = s[i]
  BY <1>1
<1>5. \A i \in 1 .. Len(t) : u[Len(s) + i] = t[i]
  BY <1>1
<1>6. s \o t = u
  BY <1>2, <1>3, <1>4, <1>5, JoinIs
<1> QED
  BY <1>1, <1>6

LEMMA Join9And4 ==
    ASSUME NEW a, NEW b, NEW c, NEW d, NEW e, NEW f, NEW g, NEW h, NEW o, NEW j, NEW k,
           NEW l, NEW m
    PROVE  <<a, b, c, d, e, f, g, h, o>> \o <<j, k, l, m>> =
             <<a, b, c, d, e, f, g, h, o, j, k, l, m>>
<1> DEFINE S == {a, b, c, d, e, f, g, h, o, j, k, l, m}
<1>1. PICK s, t, u : s = <<a, b, c, d, e, f, g, h, o>> /\ t = <<j, k, l, m>> 
                       /\ u = <<a, b, c, d, e, f, g, h, o, j, k, l, m>>
  OBVIOUS
<1>2. s \in Seq(S) /\ t \in Seq(S) /\ u \in Seq(S)
  BY <1>1
<1>3. Len(u) = Len(s) + Len(t)
  BY <1>1
<1> HIDE DEF S
<1>4. \A i \in 1 .. Len(s) : u[i] = s[i]
  BY <1>1
<1>5. \A i \in 1 .. Len(t) : u[Len(s) + i] = t[i]
  BY <1>1
<1>6. s \o t = u
  BY <1>2, <1>3, <1>4, <1>5, JoinIs
<1> QED
  BY <1>1, <1>6


\* The body of a method.
LEMMA MethodTuple ==
    <<"<name>", "<method_generics?>", "(", "<parameters>", ")", "->", "<type>", "<impl?>",
      "<where?>">> \o <<"{", "<locals?>", "<table?>", "<statements>">> =
    <<"<name>", "<method_generics?>", "(", "<parameters>", ")", "->", "<type>", "<impl?>",
      "<where?>", "{", "<locals?>", "<table?>", "<statements>">>
<1>1. PICK a, b, c, d, e, f, g, h, o, j, k, l, m :
         /\ a = "<name>" /\ b = "<method_generics?>" /\ c = "(" /\ d = "<parameters>"
         /\ e = ")" /\ f = "->" /\ g = "<type>" /\ h = "<impl?>" /\ o = "<where?>"
         /\ j = "{" /\ k = "<locals?>" /\ l = "<table?>" /\ m = "<statements>"
  OBVIOUS
<1>2. <<a, b, c, d, e, f, g, h, o>> \o <<j, k, l, m>> =
      <<a, b, c, d, e, f, g, h, o, j, k, l, m>>
  BY Join9And4
<1> QED
  BY <1>1, <1>2, Zenon

LEMMA Around1 == ASSUME NEW o, NEW a, NEW k PROVE <<o>> \o <<a>> \o <<k>> = <<o, a, k>>
<1>1. <<o>> \o <<a>> = <<o, a>>
  BY Join1And1
<1>2. <<o, a>> \o <<k>> = <<o, a, k>>
  BY Join2And1
<1> QED
  BY <1>1, <1>2, Zenon

LEMMA Around2 ==
    ASSUME NEW o, NEW a, NEW b, NEW k PROVE <<o>> \o <<a, b>> \o <<k>> = <<o, a, b, k>>
<1>1. <<o>> \o <<a, b>> = <<o, a, b>>
  BY Join1And2
<1>2. <<o, a, b>> \o <<k>> = <<o, a, b, k>>
  BY Join3And1
<1> QED
  BY <1>1, <1>2, Zenon

LEMMA SeqIn == ASSUME NEW S, NEW T, S \subseteq T, NEW s \in Seq(S) PROVE s \in Seq(T)
OBVIOUS

LEMMA OnlyOne == ASSUME NEW k PROVE \A i \in DOMAIN <<k>> : <<k>>[i] = k
OBVIOUS

\* The symbols of a concatenation.
LEMMA JoinAt ==
    ASSUME NEW S, NEW s \in Seq(S), NEW t \in Seq(S), NEW m, NEW n, m = Len(s), n = Len(t)
    PROVE  /\ m \in Nat /\ n \in Nat
           /\ s \o t \in Seq(S) /\ Len(s \o t) = m + n
           /\ \A i \in 1 .. m : (s \o t)[i] = s[i]
           /\ \A i \in 1 .. n : (s \o t)[m + i] = t[i]
OBVIOUS

----------------------------------------------------------------------------
(* Brackets: what a text leaves open                                       *)

Openers == {"(", "{", "<", "["}
Closing == {")", "}", ">", "]"}
Stacks  == Seq(Closing \cup {"mismatch"})

\* What stands before the i-th symbol of s, and before what follows s, when c
\* stands before s.
Behind(c, s, i) == IF i = 1 THEN c ELSE s[i - 1]
LastOf(c, s)    == IF s = <<>> THEN c ELSE s[Len(s)]

\* f is what is open in s, symbol by symbol; reading s behind c leads from x to y.
Trace(c, s, f) == \A i \in 1 .. Len(s) : f[i] = Reading(Behind(c, s, i), s[i], f[i - 1])
Leads(c, s, x, y) ==
    \E f \in [0 .. Len(s) -> Stacks] : f[0] = x /\ f[Len(s)] = y /\ Trace(c, s, f)

\* What is read and what is asked for.
Texts == Symbols \cup Forms \cup {"name"}

LEMMA TextsAre ==
    /\ Symbols \subseteq Texts /\ Special \subseteq Texts /\ Nonterminals \subseteq Texts
    /\ Words \subseteq Texts /\ Ordinary \subseteq Texts
    /\ Forms \subseteq Texts /\ "name" \in Texts
    /\ Openers \subseteq Special /\ Closing \subseteq Special
<1>1. Openers \subseteq Special /\ Closing \subseteq Special
  BY Zenon DEF Openers, Closing, Special
<1>2. Special \subseteq Symbols /\ Ordinary \subseteq Symbols
  BY DEF Symbols, Ordinary
<1> QED
  BY <1>1, <1>2, PartsOrdinary, WordsOrdinary DEF Texts

LEMMA CloserType == ASSUME NEW c, NEW a \in Openers PROVE Closer(c, a) \in Closing
BY DEF Closer, Openers, Closing

LEMMA PushType ==
    ASSUME NEW x \in Stacks, NEW b \in Closing
    PROVE  /\ <<b>> \o x \in Stacks /\ <<b>> \o x # <<>>
           /\ Head(<<b>> \o x) = b /\ Tail(<<b>> \o x) = x
<1> DEFINE S == Closing \cup {"mismatch"}
<1>1. b \in S /\ x \in Seq(S)
  BY DEF Stacks
<1> HIDE DEF S
<1>2. /\ <<b>> \o x \in Seq(S) /\ <<b>> \o x # <<>>
      /\ Head(<<b>> \o x) = b /\ Tail(<<b>> \o x) = x
  BY <1>1
<1> QED
  BY <1>2 DEF Stacks, S

LEMMA Opens ==
    ASSUME NEW c, NEW a \in Openers, NEW x
    PROVE  Reading(c, a, x) = <<Closer(c, a)>> \o x
BY DEF Reading, Openers

LEMMA Closes ==
    ASSUME NEW c, NEW a \in Closing, NEW x
    PROVE  Reading(c, a, x) = IF x # <<>> /\ Head(x) = a THEN Tail(x) ELSE <<"mismatch">>
BY DEF Reading, Closing

LEMMA Passes ==
    ASSUME NEW c, NEW a, a \notin Openers \cup Closing, NEW x
    PROVE  Reading(c, a, x) = x
BY DEF Reading, Openers, Closing

LEMMA ReadingType ==
    ASSUME NEW c, NEW a, NEW x \in Stacks PROVE Reading(c, a, x) \in Stacks
<1>1. CASE a \in Openers
  <2>1. Closer(c, a) \in Closing
    BY <1>1, CloserType
  <2>2. <<Closer(c, a)>> \o x \in Stacks
    BY <2>1, PushType
  <2> QED
    BY <1>1, <2>2, Opens
<1>2. CASE a \in Closing
  <2>1. <<"mismatch">> \in Stacks
    BY DEF Stacks
  <2>2. x # <<>> => Tail(x) \in Stacks
    BY DEF Stacks
  <2> QED
    BY <1>2, <2>1, <2>2, Closes
<1>3. CASE a \notin Openers \cup Closing
  BY <1>3, Passes
<1> QED
  BY <1>1, <1>2, <1>3

\* Only the keyword of a struct changes what the next symbol opens.
LEMMA ReadingAlike ==
    ASSUME NEW c, NEW d, NEW a, NEW x, a = "[" => (c = "struct" <=> d = "struct")
    PROVE  Reading(c, a, x) = Reading(d, a, x)
<1>1. CASE a \in Openers
  <2>1. Closer(c, a) = Closer(d, a)
    BY <1>1 DEF Closer, Openers
  <2> QED
    BY <1>1, <2>1, Opens
<1>2. CASE a \in Closing
  BY <1>2, Closes
<1>3. CASE a \notin Openers \cup Closing
  BY <1>3, Passes
<1> QED
  BY <1>1, <1>2, <1>3

LEMMA LeadsNowhere ==
    ASSUME NEW c, NEW x \in Stacks PROVE Leads(c, <<>>, x, x)
<1> DEFINE f == [i \in 0 .. 0 |-> x]
<1>1. f \in [0 .. Len(<<>>) -> Stacks] /\ f[0] = x /\ f[Len(<<>>)] = x /\ Trace(c, <<>>, f)
  BY DEF Trace
<1> QED
  BY <1>1 DEF Leads

LEMMA LeadsOne ==
    ASSUME NEW c, NEW a, NEW x \in Stacks PROVE Leads(c, <<a>>, x, Reading(c, a, x))
<1> DEFINE f == [i \in 0 .. 1 |-> IF i = 0 THEN x ELSE Reading(c, a, x)]
<1>1. Reading(c, a, x) \in Stacks
  BY ReadingType
<1>2. f \in [0 .. 1 -> Stacks] /\ f[0] = x /\ f[1] = Reading(c, a, x)
  BY <1>1
<1>3. Len(<<a>>) = 1 /\ <<a>>[1] = a
  OBVIOUS
<1>4. Trace(c, <<a>>, f)
  BY <1>2, <1>3 DEF Trace, Behind
<1> QED
  BY <1>2, <1>3, <1>4 DEF Leads

LEMMA LeadsTypes ==
    ASSUME NEW s \in Seq(Texts), NEW c, NEW x, NEW y, Leads(c, s, x, y)
    PROVE  x \in Stacks /\ y \in Stacks
<1>1. Len(s) \in Nat
  OBVIOUS
<1> QED
  BY <1>1 DEF Leads

LEMMA LeadsJoin ==
    ASSUME NEW s \in Seq(Texts), NEW t \in Seq(Texts), NEW c, NEW x, NEW y, NEW z,
           Leads(c, s, x, y), Leads(LastOf(c, s), t, y, z)
    PROVE  Leads(c, s \o t, x, z)
<1>1. PICK m, n : m = Len(s) /\ n = Len(t)
  OBVIOUS
<1>2. m \in Nat /\ n \in Nat /\ Len(s \o t) = m + n
  BY <1>1
<1>3. PICK f \in [0 .. m -> Stacks] : f[0] = x /\ f[m] = y /\ Trace(c, s, f)
  BY <1>1 DEF Leads
<1>4. PICK g \in [0 .. n -> Stacks] : g[0] = y /\ g[n] = z /\ Trace(LastOf(c, s), t, g)
  BY <1>1 DEF Leads
<1> DEFINE h == [i \in 0 .. (m + n) |-> IF i <= m THEN f[i] ELSE g[i - m]]
<1>5. h \in [0 .. (m + n) -> Stacks]
  BY <1>2
<1>6. h[0] = x
  BY <1>2, <1>3
<1>7. h[m + n] = z
  BY <1>2, <1>3, <1>4
<1>8. ASSUME NEW i \in 1 .. (m + n)
      PROVE  h[i] = Reading(Behind(c, s \o t, i), (s \o t)[i], h[i - 1])
  <2>1. CASE i <= m
    <3>1. h[i] = f[i] /\ h[i - 1] = f[i - 1] /\ i \in 1 .. m
      BY <1>2, <2>1
    <3>2. (s \o t)[i] = s[i] /\ (i > 1 => (s \o t)[i - 1] = s[i - 1])
      BY <1>1, <1>2, <2>1
    <3>3. Behind(c, s \o t, i) = Behind(c, s, i)
      <4>1. CASE i = 1
        BY <4>1, Zenon DEF Behind
      <4>2. CASE i # 1
        <5>1. i > 1
          BY <4>2
        <5>2. (s \o t)[i - 1] = s[i - 1]
          BY <3>2, <5>1
        <5> QED
          BY <4>2, <5>2, Zenon DEF Behind
      <4> QED
        BY <4>1, <4>2
    <3> QED
      BY <1>1, <1>3, <3>1, <3>2, <3>3 DEF Trace
  <2>2. CASE m < i
    <3>1. PICK j : j = i - m
      OBVIOUS
    <3>2. j \in 1 .. n /\ i = j + m
      BY <1>2, <2>2, <3>1
    <3>3. h[i] = g[j] /\ h[i - 1] = g[j - 1]
      <4>1. CASE j = 1
        BY <1>2, <1>3, <1>4, <3>2, <4>1
      <4>2. CASE j > 1
        BY <1>2, <3>2, <4>2
      <4> QED
        BY <3>2, <4>1, <4>2
    <3>4. (s \o t)[i] = t[j]
      BY <1>1, <1>2, <3>2
    <3>5. Behind(c, s \o t, i) = Behind(LastOf(c, s), t, j)
      <4>1. CASE j > 1
        BY <1>1, <1>2, <3>2, <4>1 DEF Behind
      <4>2. CASE j = 1 /\ s = <<>>
        <5>1. m = 0
          BY <1>1, <4>2
        <5> QED
          BY <3>2, <4>2, <5>1 DEF Behind, LastOf
      <4>3. CASE j = 1 /\ s # <<>>
        <5>1. m > 0 /\ (s \o t)[m] = s[m]
          BY <1>1, <1>2, <4>3
        <5> QED
          BY <1>1, <1>2, <3>2, <4>3, <5>1 DEF Behind, LastOf
      <4> QED
        BY <3>2, <4>1, <4>2, <4>3
    <3> QED
      BY <1>1, <1>4, <3>2, <3>3, <3>4, <3>5 DEF Trace
  <2> QED
    BY <1>2, <2>1, <2>2
<1> HIDE DEF h
<1>9. Trace(c, s \o t, h)
  BY <1>2, <1>8 DEF Trace
<1> QED
  BY <1>2, <1>5, <1>6, <1>7, <1>9 DEF Leads

LEMMA LeadsSplit ==
    ASSUME NEW s \in Seq(Texts), NEW t \in Seq(Texts), NEW c, NEW x, NEW z,
           Leads(c, s \o t, x, z)
    PROVE  \E y \in Stacks : Leads(c, s, x, y) /\ Leads(LastOf(c, s), t, y, z)
<1>1. PICK m, n : m = Len(s) /\ n = Len(t)
  OBVIOUS
<1>2. m \in Nat /\ n \in Nat /\ Len(s \o t) = m + n
  BY <1>1
<1>3. PICK h \in [0 .. (m + n) -> Stacks] : h[0] = x /\ h[m + n] = z /\ Trace(c, s \o t, h)
  BY <1>2 DEF Leads
<1> DEFINE f == [i \in 0 .. m |-> h[i]]
           g == [i \in 0 .. n |-> h[i + m]]
<1>4. f \in [0 .. m -> Stacks] /\ f[0] = x /\ f[m] = h[m]
  BY <1>2, <1>3
<1>5. g \in [0 .. n -> Stacks] /\ g[0] = h[m] /\ g[n] = z
  BY <1>2, <1>3
<1>6. ASSUME NEW i \in 1 .. m PROVE f[i] = Reading(Behind(c, s, i), s[i], f[i - 1])
  <2>1. f[i] = h[i] /\ f[i - 1] = h[i - 1] /\ i \in 1 .. (m + n)
    BY <1>2
  <2>2. (s \o t)[i] = s[i] /\ (i > 1 => (s \o t)[i - 1] = s[i - 1])
    BY <1>1, <1>2
  <2>3. Behind(c, s \o t, i) = Behind(c, s, i)
    BY <1>2, <2>2 DEF Behind
  <2> QED
    BY <1>2, <1>3, <2>1, <2>2, <2>3 DEF Trace
<1>7. ASSUME NEW j \in 1 .. n
      PROVE  g[j] = Reading(Behind(LastOf(c, s), t, j), t[j], g[j - 1])
  <2>1. g[j] = h[j + m] /\ g[j - 1] = h[(j + m) - 1] /\ j + m \in 1 .. (m + n)
    BY <1>2
  <2>2. (s \o t)[j + m] = t[j]
    BY <1>1, <1>2
  <2>3. Behind(c, s \o t, j + m) = Behind(LastOf(c, s), t, j)
    <3>1. CASE j > 1
      BY <1>1, <1>2, <3>1 DEF Behind
    <3>2. CASE j = 1 /\ s = <<>>
      <4>1. m = 0
        BY <1>1, <3>2
      <4> QED
        BY <3>2, <4>1 DEF Behind, LastOf
    <3>3. CASE j = 1 /\ s # <<>>
      <4>1. m > 0 /\ (s \o t)[m] = s[m]
        BY <1>1, <1>2, <3>3
      <4> QED
        BY <1>1, <1>2, <3>3, <4>1 DEF Behind, LastOf
    <3> QED
      BY <3>1, <3>2, <3>3
  <2> QED
    BY <1>2, <1>3, <2>1, <2>2, <2>3 DEF Trace
<1> HIDE DEF f, g
<1>8. Trace(c, s, f) /\ Trace(LastOf(c, s), t, g)
  BY <1>1, <1>6, <1>7 DEF Trace
<1>9. h[m] \in Stacks
  BY <1>2
<1> QED
  BY <1>1, <1>4, <1>5, <1>8, <1>9 DEF Leads

LEMMA LeadsOnlyOne ==
    ASSUME NEW c, NEW a, NEW x, NEW y, Leads(c, <<a>>, x, y)
    PROVE  x \in Stacks /\ y = Reading(c, a, x)
<1>1. Len(<<a>>) = 1 /\ <<a>>[1] = a
  OBVIOUS
<1>2. PICK f \in [0 .. 1 -> Stacks] : f[0] = x /\ f[1] = y /\ Trace(c, <<a>>, f)
  BY <1>1 DEF Leads
<1>3. f[1] = Reading(c, a, f[0])
  BY <1>1, <1>2 DEF Trace, Behind
<1> QED
  BY <1>2, <1>3

LEMMA LeadsAlike ==
    ASSUME NEW c, NEW d, c = "struct" <=> d = "struct",
           NEW s \in Seq(Texts), NEW x, NEW y, Leads(c, s, x, y)
    PROVE  Leads(d, s, x, y)
<1>1. PICK f \in [0 .. Len(s) -> Stacks] : f[0] = x /\ f[Len(s)] = y /\ Trace(c, s, f)
  BY DEF Leads
<1>2. ASSUME NEW i \in 1 .. Len(s)
      PROVE  Reading(Behind(c, s, i), s[i], f[i - 1]) = Reading(Behind(d, s, i), s[i], f[i - 1])
  BY ReadingAlike DEF Behind
<1>3. Trace(d, s, f)
  BY <1>1, <1>2 DEF Trace
<1> QED
  BY <1>1, <1>3 DEF Leads

\* What a text leaves open is where reading it leads.
LEMMA UnclosedIs ==
    ASSUME NEW s \in Seq(Texts), NEW y, Leads("begin", s, <<>>, y)
    PROVE  Unclosed(s) = y
<1>1. PICK n : n = Len(s)
  OBVIOUS
<1>2. n \in Nat
  BY <1>1
<1>3. PICK f \in [0 .. n -> Stacks] : f[0] = <<>> /\ f[n] = y /\ Trace("begin", s, f)
  BY <1>1 DEF Leads
<1> DEFINE Is(g) == g = [i \in 0 .. n |-> IF i = 0 THEN <<>>
                          ELSE Reading(IF i = 1 THEN "begin" ELSE s[i - 1], s[i], g[i - 1])]
<1>4. Is(f)
  <2>1. ASSUME NEW i \in 0 .. n
        PROVE  f[i] = IF i = 0 THEN <<>>
                      ELSE Reading(IF i = 1 THEN "begin" ELSE s[i - 1], s[i], f[i - 1])
    BY <1>1, <1>2, <1>3 DEF Trace, Behind
  <2> QED
    BY <2>1
<1>5. ASSUME NEW g, Is(g) PROVE g[n] = y
  <2>1. \A i \in 0 .. n : g[i] = IF i = 0 THEN <<>>
                      ELSE Reading(IF i = 1 THEN "begin" ELSE s[i - 1], s[i], g[i - 1])
    BY <1>5
  <2>2. \A i \in 0 .. n : f[i] = IF i = 0 THEN <<>>
                      ELSE Reading(IF i = 1 THEN "begin" ELSE s[i - 1], s[i], f[i - 1])
    BY <1>4
  <2> DEFINE Bad == {i \in 0 .. n : g[i] # f[i]}
  <2>3. ASSUME Bad # {} PROVE FALSE
    <3>1. Bad \in SUBSET Nat
      BY <1>2
    <3>2. PICK i \in Bad : \A j \in Bad : ~(j < i)
      BY <2>3, <3>1, LeastNatural
    <3>3. i # 0
      BY <1>2, <2>1, <2>2, <3>2
    <3>4. i - 1 \in 0 .. n /\ i - 1 < i
      BY <1>2, <3>2, <3>3
    <3>5. g[i - 1] = f[i - 1]
      BY <3>2, <3>4
    <3> QED
      BY <2>1, <2>2, <3>2, <3>3, <3>5
  <2> QED
    BY <1>2, <1>3, <2>3
<1>6. Unclosed(s) = (CHOOSE g : Is(g))[n]
  BY <1>1, Zenon DEF Unclosed
<1>7. Is(CHOOSE g : Is(g))
  BY <1>4
<1> HIDE DEF Is
<1>8. (CHOOSE g : Is(g))[n] = y
  BY <1>5, <1>7
<1> QED
  BY <1>6, <1>8

----------------------------------------------------------------------------
(* Brackets: texts that leave nothing open                                 *)

\* What Awaited puts in the place of a symbol, and of a stack.
Shown(a)   == IF a \in OpenBodies THEN "}" ELSE a
ShownAs(w) == [i \in DOMAIN w |-> Shown(w[i])]

\* Symbols that neither open nor close anything, nor stand for such a text.
Inert == Texts \ (Openers \cup Closing \cup OpenBodies \cup {"<file>", "struct"})

Even(w) == /\ w \in Seq(Texts \ {"struct"})
           /\ \A c, x : c # "struct" /\ x \in Stacks => Leads(c, ShownAs(w), x, x)

\* The part p may be replaced by w.
Replaces(p, w) ==
    /\ w \in Seq(Texts)
    /\ \A c, x, y : c # "struct" /\ Leads(c, <<Shown(p)>>, x, y) =>
          Leads(c, ShownAs(w), x, y) /\ LastOf(c, ShownAs(w)) # "struct"

LEMMA ShownType ==
    ASSUME NEW w \in Seq(Texts)
    PROVE  /\ ShownAs(w) \in Seq(Texts) /\ Len(ShownAs(w)) = Len(w)
           /\ \A i \in 1 .. Len(w) : ShownAs(w)[i] = Shown(w[i])
<1>1. \A a \in Texts : Shown(a) \in Texts
  <2>1. "}" \in Texts
    BY TextsAre DEF Closing
  <2> QED
    BY <2>1 DEF Shown
<1>2. DOMAIN w = 1 .. Len(w) /\ Len(w) \in Nat /\ \A i \in 1 .. Len(w) : w[i] \in Texts
  OBVIOUS
<1> QED
  BY <1>1, <1>2 DEF ShownAs

LEMMA ShownJoin ==
    ASSUME NEW u \in Seq(Texts), NEW v \in Seq(Texts)
    PROVE  ShownAs(u \o v) = ShownAs(u) \o ShownAs(v)
<1>1. u \o v \in Seq(Texts)
  OBVIOUS
<1>2. PICK m, n : m = Len(u) /\ n = Len(v)
  OBVIOUS
<1>3. m \in Nat /\ n \in Nat /\ Len(u \o v) = m + n
  BY <1>2
<1>4. PICK a, b, d : a = ShownAs(u) /\ b = ShownAs(v) /\ d = ShownAs(u \o v)
  OBVIOUS
<1>5. /\ a \in Seq(Texts) /\ Len(a) = m /\ \A i \in 1 .. m : a[i] = Shown(u[i])
      /\ b \in Seq(Texts) /\ Len(b) = n /\ \A i \in 1 .. n : b[i] = Shown(v[i])
      /\ d \in Seq(Texts) /\ Len(d) = m + n
      /\ \A i \in 1 .. (m + n) : d[i] = Shown((u \o v)[i])
  BY <1>1, <1>2, <1>3, <1>4, ShownType
<1>6. PICK e : e = a \o b
  OBVIOUS
<1>7. e \in Seq(Texts) /\ Len(e) = m + n
  <2>1. a \in Seq(Texts) /\ Len(a) = m /\ b \in Seq(Texts) /\ Len(b) = n
    BY <1>5
  <2>2. a \o b \in Seq(Texts) /\ Len(a \o b) = Len(a) + Len(b)
    BY <2>1
  <2> QED
    BY <1>6, <2>1, <2>2, Zenon
<1>8. ASSUME NEW i \in 1 .. (m + n) PROVE d[i] = e[i]
  <2>1. CASE i <= m
    BY <1>2, <1>3, <1>5, <1>6, <2>1
  <2>2. CASE m < i
    <3>1. (u \o v)[i] = v[i - m] /\ e[i] = b[i - m] /\ i - m \in 1 .. n
      BY <1>2, <1>3, <1>5, <1>6, <2>2
    <3> QED
      BY <1>5, <3>1
  <2> QED
    BY <1>3, <2>1, <2>2
<1>9. d = e
  BY <1>3, <1>5, <1>7, <1>8, SeqEqual
<1> QED
  BY <1>4, <1>6, <1>9

LEMMA ShownOne == ASSUME NEW a PROVE ShownAs(<<a>>) = <<Shown(a)>>
BY DEF ShownAs

LEMMA ShownLast ==
    ASSUME NEW w \in Seq(Texts \ {"struct"}), NEW c, c # "struct"
    PROVE  LastOf(c, ShownAs(w)) # "struct"
<1>1. w \in Seq(Texts)
  OBVIOUS
<1>2. CASE w = <<>>
  <2>1. ShownAs(w) = <<>>
    BY <1>2 DEF ShownAs
  <2> QED
    BY <2>1 DEF LastOf
<1>3. CASE w # <<>>
  <2>1. Len(w) \in 1 .. Len(w) /\ w[Len(w)] # "struct"
    BY <1>3
  <2>2. /\ Len(ShownAs(w)) = Len(w) /\ ShownAs(w)[Len(w)] = Shown(w[Len(w)])
        /\ ShownAs(w) # <<>>
    BY <1>1, <1>3, <2>1, ShownType
  <2>3. Shown(w[Len(w)]) # "struct"
    BY <2>1 DEF Shown
  <2> QED
    BY <2>2, <2>3 DEF LastOf
<1> QED
  BY <1>2, <1>3

LEMMA EvenJoin ==
    ASSUME NEW u, Even(u), NEW v, Even(v) PROVE Even(u \o v)
<1>1. /\ u \in Seq(Texts \ {"struct"}) /\ v \in Seq(Texts \ {"struct"})
      /\ u \in Seq(Texts) /\ v \in Seq(Texts)
  BY DEF Even
<1>2. u \o v \in Seq(Texts \ {"struct"})
  BY <1>1
<1>3. ASSUME NEW c, NEW x \in Stacks, c # "struct" PROVE Leads(c, ShownAs(u \o v), x, x)
  <2>1. Leads(c, ShownAs(u), x, x)
    BY <1>3 DEF Even
  <2>2. Leads(LastOf(c, ShownAs(u)), ShownAs(v), x, x)
    BY <1>1, <1>3, ShownLast DEF Even
  <2>3. ShownAs(u) \in Seq(Texts) /\ ShownAs(v) \in Seq(Texts)
    BY <1>1, ShownType
  <2>4. Leads(c, ShownAs(u) \o ShownAs(v), x, x)
    BY <2>1, <2>2, <2>3, LeadsJoin
  <2> QED
    BY <1>1, <2>4, ShownJoin
<1> QED
  BY <1>2, <1>3 DEF Even

LEMMA EvenInert == ASSUME NEW w \in Seq(Inert) PROVE Even(w)
<1>1. Inert \subseteq Texts \ {"struct"}
  BY DEF Inert
<1>2. w \in Seq(Texts \ {"struct"}) /\ w \in Seq(Texts)
  BY <1>1
<1>3. ASSUME NEW c, NEW x \in Stacks, c # "struct" PROVE Leads(c, ShownAs(w), x, x)
  <2>1. PICK s, n : s = ShownAs(w) /\ n = Len(w)
    OBVIOUS
  <2>2. n \in Nat /\ Len(s) = n /\ \A i \in 1 .. n : w[i] \in Inert /\ s[i] = Shown(w[i])
    BY <1>2, <2>1, ShownType
  <2>3. \A a \in Inert : Shown(a) = a /\ a \notin Openers \cup Closing
    BY DEF Inert, Shown
  <2>4. \A i \in 1 .. n : s[i] \notin Openers \cup Closing
    BY <2>2, <2>3
  <2> DEFINE f == [i \in 0 .. n |-> x]
  <2>5. f \in [0 .. n -> Stacks] /\ f[0] = x /\ f[n] = x
    BY <2>2
  <2>6. \A i \in 1 .. n : f[i] = x /\ f[i - 1] = x
    BY <2>2
  <2>7. Trace(c, s, f)
    BY <2>2, <2>4, <2>6, Passes DEF Trace
  <2> HIDE DEF f
  <2> QED
    BY <2>1, <2>2, <2>5, <2>7 DEF Leads
<1> QED
  BY <1>2, <1>3 DEF Even

\* A text between brackets.
LEMMA EvenPair ==
    ASSUME NEW u, Even(u), NEW o \in Openers, NEW k \in Texts \ {"struct"},
           Shown(k) = Closer("begin", o)
    PROVE  Even(<<o>> \o u \o <<k>>)
<1>1. o \in Texts \ {"struct"} /\ o # "struct" /\ Shown(o) = o
  BY TextsAre DEF Openers, Shown, OpenBodies, OpenTypes
<1>2. PICK b : b = Closer("begin", o)
  OBVIOUS
<1>3. b \in Closing /\ b = Shown(k)
  BY <1>2, CloserType
<1>4. u \in Seq(Texts \ {"struct"}) /\ u \in Seq(Texts)
  BY DEF Even
<1>5. /\ <<o>> \in Seq(Texts) /\ <<k>> \in Seq(Texts) /\ <<o>> \o u \in Seq(Texts)
      /\ <<o>> \o u \o <<k>> \in Seq(Texts \ {"struct"})
  BY <1>1, <1>4
<1>6. PICK s : s = ShownAs(u)
  OBVIOUS
<1>7. s \in Seq(Texts) /\ <<o>> \o s \in Seq(Texts) /\ <<b>> \in Seq(Texts)
  <2>1. b \in Texts
    BY <1>3, TextsAre
  <2>2. s \in Seq(Texts)
    BY <1>4, <1>6, ShownType
  <2> QED
    BY <1>1, <2>1, <2>2
<1>8. ShownAs(<<o>> \o u \o <<k>>) = <<o>> \o s \o <<b>>
  <2>1. ShownAs(<<o>> \o u) = ShownAs(<<o>>) \o ShownAs(u)
    BY <1>4, <1>5, ShownJoin
  <2>2. ShownAs((<<o>> \o u) \o <<k>>) = ShownAs(<<o>> \o u) \o ShownAs(<<k>>)
    BY <1>5, ShownJoin
  <2> QED
    BY <1>1, <1>3, <1>6, <2>1, <2>2, ShownOne
<1>9. ASSUME NEW c, NEW x \in Stacks, c # "struct"
      PROVE  Leads(c, <<o>> \o s \o <<b>>, x, x)
  <2>1. PICK y : y = <<b>> \o x
    OBVIOUS
  <2>2. y \in Stacks /\ y # <<>> /\ Head(y) = b /\ Tail(y) = x
    BY <1>3, <2>1, PushType
  <2>3. Closer(c, o) = b
    BY <1>2, <1>9 DEF Closer, Openers
  <2>4. Leads(c, <<o>>, x, y)
    BY <2>1, <2>3, Opens, LeadsOne
  <2>5. LastOf(c, <<o>>) = o
    BY DEF LastOf
  <2>6. Leads(LastOf(c, <<o>>), s, y, y)
    BY <1>1, <1>6, <2>2, <2>5 DEF Even
  <2>7. Leads(c, <<o>> \o s, x, y)
    BY <1>5, <1>7, <2>4, <2>6, LeadsJoin
  <2>8. \A d : Leads(d, <<b>>, y, x)
    <3>1. \A d : Reading(d, b, y) = x
      BY <1>3, <2>2, Closes
    <3> QED
      BY <2>2, <3>1, LeadsOne
  <2> QED
    BY <1>7, <2>7, <2>8, LeadsJoin
<1> QED
  BY <1>5, <1>8, <1>9 DEF Even

----------------------------------------------------------------------------
(* Brackets: the rules                                                     *)

\* Even texts without the parts that only stand at the bottom of the stack.
Closed(w) == Even(w) /\ w \in Seq(Texts \ Items)

LEMMA InertTexts ==
    /\ Inert \subseteq Texts \ (Items \cup {"struct"})
    /\ \A a \in Inert : Shown(a) = a /\ a \notin Openers \cup Closing
<1>1. Items = OpenTypes \cup {"<file>"}
  BY DEF Items, OpenTypes
<1>2. OpenTypes \subseteq OpenBodies
  BY DEF OpenTypes, OpenBodies
<1> QED
  BY <1>1, <1>2 DEF Inert, Shown

LEMMA ClosedInert == ASSUME NEW w \in Seq(Inert) PROVE Closed(w)
<1>1. w \in Seq(Texts \ Items)
  <2>1. Inert \subseteq Texts \ Items
    BY InertTexts
  <2> QED
    BY <2>1
<1> QED
  BY <1>1, EvenInert DEF Closed

LEMMA ClosedJoin ==
    ASSUME NEW u, Closed(u), NEW v, Closed(v) PROVE Closed(u \o v)
<1>1. u \in Seq(Texts \ Items) /\ v \in Seq(Texts \ Items)
  BY DEF Closed
<1>2. u \o v \in Seq(Texts \ Items)
  BY <1>1
<1> QED
  BY <1>2, EvenJoin DEF Closed

LEMMA ClosedPair ==
    ASSUME NEW u, Closed(u), NEW o \in Openers, NEW k \in Texts \ (Items \cup {"struct"}),
           Shown(k) = Closer("begin", o)
    PROVE  Closed(<<o>> \o u \o <<k>>)
<1>1. o \in Texts \ Items
  BY TextsAre, Zenon DEF Openers, Items
<1>2. u \in Seq(Texts \ Items) /\ k \in Texts \ Items
  BY DEF Closed
<1>3. <<o>> \o u \o <<k>> \in Seq(Texts \ Items)
  BY <1>1, <1>2
<1> QED
  BY <1>3, EvenPair DEF Closed

\* Pairs of brackets.
LEMMA Pairs ==
    /\ "(" \in Openers /\ ")" \in Texts \ (Items \cup {"struct"})
    /\ Shown(")") = Closer("begin", "(")
    /\ "[" \in Openers /\ "]" \in Texts \ (Items \cup {"struct"})
    /\ Shown("]") = Closer("begin", "[")
    /\ "<" \in Openers /\ ">" \in Texts \ (Items \cup {"struct"})
    /\ Shown(">") = Closer("begin", "<")
    /\ "{" \in Openers /\ "<statements>" \in Texts \ (Items \cup {"struct"})
    /\ Shown("<statements>") = Closer("begin", "{")
<1>1. ")" \in Texts /\ "]" \in Texts /\ ">" \in Texts /\ "<statements>" \in Texts
  <2>1. \A s \in Closing : s \in Texts
    BY TextsAre
  <2>2. "<statements>" \in Nonterminals
    BY OtherSorts, Zenon
  <2> QED
    BY <2>1, <2>2, TextsAre DEF Closing
<1> QED
  BY <1>1 DEF Openers, Closer, Shown, OpenBodies, Items

LEMMA InRound == ASSUME NEW u, Closed(u) PROVE Closed(<<"(">> \o u \o <<")">>)
BY Pairs, ClosedPair
LEMMA InSquare == ASSUME NEW u, Closed(u) PROVE Closed(<<"[">> \o u \o <<"]">>)
BY Pairs, ClosedPair
LEMMA InAngle == ASSUME NEW u, Closed(u) PROVE Closed(<<"<">> \o u \o <<">">>)
BY Pairs, ClosedPair
LEMMA InBody == ASSUME NEW u, Closed(u) PROVE Closed(<<"{">> \o u \o <<"<statements>">>)
BY Pairs, ClosedPair

\* What a rule does to the text that is asked for.
Bottom(w) ==
    \A i \in DOMAIN w : /\ w[i] = "<file>" => i = Len(w)
                        /\ w[i] \in OpenTypes => i + 1 = Len(w) /\ w[i + 1] = "<file>"

RuleEven(r) ==
    /\ Replaces(r.of, r.to)
    /\ r.of \notin Items => r.to \in Seq(Texts \ Items)
    /\ r.of \in OpenTypes => \A i \in DOMAIN r.to : r.to[i] \in Items =>
                                i = Len(r.to) /\ r.to[i] \in OpenTypes
    /\ r.of = "<file>" => Bottom(r.to) /\ r.first \in TypeKeywords

LEMMA ReplacesEven ==
    ASSUME NEW p \in Inert, NEW w, Even(w) PROVE Replaces(p, w)
<1>1. w \in Seq(Texts \ {"struct"}) /\ w \in Seq(Texts)
  BY DEF Even
<1>2. ASSUME NEW c, NEW x, NEW y, c # "struct", Leads(c, <<Shown(p)>>, x, y)
      PROVE  Leads(c, ShownAs(w), x, y) /\ LastOf(c, ShownAs(w)) # "struct"
  <2>1. x \in Stacks /\ y = x
    BY <1>2, LeadsOnlyOne, InertTexts, Passes
  <2> QED
    BY <1>1, <1>2, <2>1, ShownLast DEF Even
<1> QED
  BY <1>1, <1>2 DEF Replaces

LEMMA RuleClosed ==
    ASSUME NEW of \in Inert, NEW first, NEW to, Closed(to)
    PROVE  RuleEven(Rule(of, first, to))
<1>1. of \notin OpenBodies /\ of # "<file>" /\ of \notin Items
  BY InertTexts DEF Inert, Items
<1>2. of \notin OpenTypes
  BY <1>1 DEF OpenTypes, OpenBodies
<1>3. Replaces(of, to)
  BY ReplacesEven DEF Closed
<1> QED
  BY <1>1, <1>2, <1>3 DEF RuleEven, Rule, Closed

LEMMA RuleInert ==
    ASSUME NEW of \in Inert, NEW first, NEW to \in Seq(Inert)
    PROVE  RuleEven(Rule(of, first, to))
BY RuleClosed, ClosedInert

\* The symbols of the rules that have nothing to do with brackets.
LEMMA InertSymbols ==
    /\ \A s \in Words \cup MemberKeywords \cup {"class", "interface"} : s \in Inert
    /\ \A s \in {":", ";", ",", ".", "!", "+", "#", "-", "->"} : s \in Inert
    /\ \A s \in AttrLists : s \in Inert
    /\ \A s \in Nonterminals \ (Items \cup {"<statements>"}) : s \in Inert
<1>1. OpenBodies \cup {"<file>"} = Items \cup {"<statements>"}
  BY DEF OpenBodies, Items
<1>2. \A s \in Openers \cup Closing \cup {"struct"} : s \notin Nonterminals
  <2>1. "struct" \in ItemKeywords
    BY DEF ItemKeywords, TypeKeywords
  <2> QED
    BY <2>1, SortsOfParts, TextsAre
<1>3. \A s \in Nonterminals \ (Items \cup {"<statements>"}) : s \in Inert
  BY <1>1, <1>2, TextsAre DEF Inert
<1>4. \A s \in {":", ";", ",", ".", "!", "+", "#", "-", "->"} : s \in Inert
  <2>1. \A s \in {":", ";", ",", ".", "!", "+", "#", "-", "->"} : s \in Special
    BY Zenon DEF Special
  <2>2. \A s \in {":", ";", ",", ".", "!", "+", "#", "-", "->"} :
            s \notin Openers \cup Closing \cup OpenBodies \cup {"<file>", "struct"}
    BY DEF Openers, Closing, OpenBodies
  <2> QED
    BY <2>1, <2>2, TextsAre DEF Inert
<1>5. \A s \in AttrLists : s \in Inert
  <2>1. AttrLists \subseteq Texts
    BY DEF Texts, Symbols, Parts
  <2>2. \A s \in AttrLists :
            s \notin Openers \cup Closing \cup OpenBodies \cup {"<file>", "struct"}
    BY ListSymbols DEF Openers, Closing, OpenBodies
  <2> QED
    BY <2>1, <2>2 DEF Inert
<1>6. \A s \in Words \cup MemberKeywords \cup {"class", "interface"} : s \in Inert
  <2>1. MemberKeywords \cup {"class", "interface"} \subseteq Keywords
    BY DEF Keywords, TypeKeywords
  <2>2. MemberKeywords \cup {"class", "interface"} \subseteq Texts
    BY <2>1 DEF Texts, Symbols
  <2>3. \A s \in Words : s \notin Openers \cup Closing \cup OpenBodies \cup {"<file>", "struct"}
    BY DEF Words, StatementKeywords, Openers, Closing, OpenBodies
  <2>4. \A s \in MemberKeywords \cup {"class", "interface"} :
            s \notin Openers \cup Closing \cup OpenBodies \cup {"<file>", "struct"}
    BY DEF MemberKeywords, Openers, Closing, OpenBodies
  <2> QED
    BY <2>2, <2>3, <2>4, TextsAre DEF Inert
<1> QED
  BY <1>3, <1>4, <1>5, <1>6

LEMMA InertParts ==
    /\ "<references?>" \in Inert /\ "<arguments?>" \in Inert
    /\ "<arguments>" \in Inert /\ "<more_arguments>" \in Inert
    /\ "<type_generics?>" \in Inert /\ "<method_generics?>" \in Inert
    /\ "<type_generics>" \in Inert /\ "<method_generics>" \in Inert
    /\ "<infinite?>" \in Inert /\ "<main?>" \in Inert
    /\ "<parent?>" \in Inert /\ "<required?>" \in Inert
    /\ "<required>" \in Inert /\ "<more_required>" \in Inert
    /\ "<impl?>" \in Inert /\ "<where?>" \in Inert /\ "<refs>" \in Inert
    /\ "<parameters>" \in Inert /\ "<more_parameters>" \in Inert
    /\ "<locals?>" \in Inert /\ "<locals>" \in Inert /\ "<table?>" \in Inert
    /\ "<condition?>" \in Inert /\ "<args>" \in Inert /\ "<more_args>" \in Inert
    /\ "<name>" \in Inert /\ "<type>" \in Inert /\ "<assembly>" \in Inert
    /\ "<item>" \in Inert /\ "<references>" \in Inert /\ "<u32>" \in Inert
    /\ "<u64>" \in Inert /\ "<parameter>" \in Inert /\ "<content>" \in Inert
    /\ "<negated>" \in Inert /\ "<length>" \in Inert /\ "<target>" \in Inert
<1>1. \A s \in Nonterminals : s \notin {"<items>", "<interface_items>", "<file>", "<statements>"}
                                 => s \in Inert
  BY InertSymbols DEF Items
<1> QED
  BY <1>1, SortsOfParts DEF Skippable, OtherParts

LEMMA InertWords ==
    /\ "__MAIN" \in Inert /\ "impl" \in Inert /\ "in" \in Inert
    /\ "ref" \in Inert /\ "locals" \in Inert /\ "table" \in Inert
    /\ "__all_zero" \in Inert /\ "as" \in Inert /\ "if" \in Inert
    /\ "success" \in Inert /\ "failure" \in Inert /\ "__absolute" \in Inert
    /\ "__forward" \in Inert /\ "__backward" \in Inert /\ "__arg" \in Inert
    /\ "static" \in Inert /\ "__field" \in Inert /\ "sizeof" \in Inert
    /\ \A s \in StatementKeywords : s \in Inert
    /\ "class" \in Inert /\ "interface" \in Inert /\ "method" \in Inert /\ "field" \in Inert
    /\ \A s \in {":", ";", ",", ".", "!", "+", "#", "-", "->"} : s \in Inert
BY InertSymbols DEF Words, MemberKeywords

LEMMA ClosedOne == ASSUME NEW a \in Inert PROVE Closed(<<a>>)
<1>1. <<a>> \in Seq(Inert)
  OBVIOUS
<1> QED
  BY <1>1, ClosedInert

LEMMA ClosedTwo == ASSUME NEW a \in Inert, NEW b \in Inert PROVE Closed(<<a, b>>)
<1>1. <<a, b>> \in Seq(Inert)
  OBVIOUS
<1> QED
  BY <1>1, ClosedInert

LEMMA Round1 == ASSUME NEW a \in Inert PROVE Closed(<<"(", a, ")">>)
<1>1. <<"(">> \o <<a>> \o <<")">> = <<"(", a, ")">>
  BY Around1
<1> QED
  BY <1>1, ClosedOne, InRound

LEMMA Round2 ==
    ASSUME NEW a \in Inert, NEW b \in Inert PROVE Closed(<<"(", a, b, ")">>)
<1>1. <<"(">> \o <<a, b>> \o <<")">> = <<"(", a, b, ")">>
  BY Around2
<1> QED
  BY <1>1, ClosedTwo, InRound

LEMMA Square1 == ASSUME NEW a \in Inert PROVE Closed(<<"[", a, "]">>)
<1>1. <<"[">> \o <<a>> \o <<"]">> = <<"[", a, "]">>
  BY Around1
<1> QED
  BY <1>1, ClosedOne, InSquare

LEMMA Square2 ==
    ASSUME NEW a \in Inert, NEW b \in Inert PROVE Closed(<<"[", a, b, "]">>)
<1>1. <<"[">> \o <<a, b>> \o <<"]">> = <<"[", a, b, "]">>
  BY Around2
<1> QED
  BY <1>1, ClosedTwo, InSquare

LEMMA ReferencesEven == \A r \in References \cup MethodReferences : RuleEven(r)
<1>1. RuleEven(Rule("<item>", "int", <<"<u32>">>))
  BY InertParts, ClosedOne, RuleClosed
<1>2. RuleEven(Rule("<item>", "name", <<"<name>">>))
  BY InertParts, ClosedOne, RuleClosed
<1>3. RuleEven(Optional("<references?>", <<"[", "<references>", "]">>))
  BY InertParts, Square1, RuleClosed DEF Optional
<1> QED
  BY <1>1, <1>2, <1>3 DEF References, MethodReferences

LEMMA PunctuatedEven ==
    ASSUME NEW list \in Inert, NEW more \in Inert, NEW item \in Inert, NEW firsts
    PROVE  \A r \in Punctuated(list, more, firsts, item) : RuleEven(r)
<1>1. ASSUME NEW f \in firsts PROVE RuleEven(Rule(list, f, <<item, more>>))
  BY ClosedTwo, RuleClosed
<1>2. "," \in Inert
  BY InertWords
<1>3. RuleEven(Rule(more, ",", <<",", list>>))
  BY <1>2, ClosedTwo, RuleClosed
<1> QED
  BY <1>1, <1>3, Zenon DEF Punctuated

LEMMA TypeReferencesEven == \A r \in TypeReferences : RuleEven(r)
<1>1. RuleEven(Rule("<type>", "[", <<"[", "<assembly>", "]", "<name>", "<arguments?>">>))
  <2>1. Closed(<<"[", "<assembly>", "]">>) /\ Closed(<<"<name>", "<arguments?>">>)
    BY InertParts, Square1, ClosedTwo
  <2>2. <<"[", "<assembly>", "]">> \o <<"<name>", "<arguments?>">> =
           <<"[", "<assembly>", "]", "<name>", "<arguments?>">>
    BY Join3And2
  <2>3. Closed(<<"[", "<assembly>", "]", "<name>", "<arguments?>">>)
    BY <2>1, <2>2, ClosedJoin
  <2> QED
    BY <2>3, InertParts, RuleClosed
<1>2. RuleEven(Rule("<assembly>", "!", <<"!">>))
  BY InertParts, InertWords, ClosedOne, RuleClosed
<1>3. RuleEven(Rule("<assembly>", "name", <<"<name>">>))
  BY InertParts, ClosedOne, RuleClosed
<1>4. RuleEven(Optional("<arguments?>", <<"<", "<arguments>", ">">>))
  <2>1. Closed(<<"<arguments>">>)
    BY InertParts, ClosedOne
  <2>2. <<"<">> \o <<"<arguments>">> \o <<">">> = <<"<", "<arguments>", ">">>
    BY Around1
  <2>3. Closed(<<"<", "<arguments>", ">">>)
    BY <2>1, <2>2, InAngle
  <2> QED
    BY <2>3, InertParts, RuleClosed DEF Optional
<1>5. \A r \in Punctuated("<arguments>", "<more_arguments>", TypeFirsts, "<type>") : RuleEven(r)
  BY InertParts, PunctuatedEven
<1> QED
  BY <1>1, <1>2, <1>3, <1>4, <1>5, Zenon DEF TypeReferences

LEMMA GenericListsEven == \A r \in GenericLists : RuleEven(r)
<1>1. RuleEven(Optional("<type_generics?>", <<"[", "<type_generics>", "<infinite?>", "]">>))
  BY InertParts, Square2, RuleClosed DEF Optional
<1>2. RuleEven(Optional("<method_generics?>", <<"[", "<method_generics>", "<infinite?>", "]">>))
  BY InertParts, Square2, RuleClosed DEF Optional
<1>3. RuleEven(Optional("<infinite?>", <<"+">>))
  BY InertParts, InertWords, ClosedOne, RuleClosed DEF Optional
<1> QED
  BY <1>1, <1>2, <1>3, Zenon DEF GenericLists

LEMMA AfterWord ==
    ASSUME NEW k \in Inert, NEW w, Closed(w) PROVE Closed(<<k>> \o w)
BY ClosedOne, ClosedJoin

LEMMA ClassDefRulesEven == \A r \in ClassDefRules : RuleEven(r)
<1>1. RuleEven(Optional("<main?>", <<"__MAIN", "(", "<u32>", ")">>))
  <2>1. Closed(<<"__MAIN">> \o <<"(", "<u32>", ")">>)
    BY InertParts, InertWords, Round1, AfterWord
  <2>2. <<"__MAIN">> \o <<"(", "<u32>", ")">> = <<"__MAIN", "(", "<u32>", ")">>
    BY Join1And3
  <2> QED
    BY <2>1, <2>2, InertParts, RuleClosed DEF Optional
<1>2. RuleEven(Optional("<parent?>", <<":", "<type>">>))
  BY InertParts, InertWords, ClosedTwo, RuleClosed DEF Optional
<1> QED
  BY <1>1, <1>2 DEF ClassDefRules

LEMMA InterfaceDefRulesEven == \A r \in InterfaceDefRules : RuleEven(r)
<1>1. RuleEven(Optional("<required?>", <<":", "<required>">>))
  BY InertParts, InertWords, ClosedTwo, RuleClosed DEF Optional
<1>2. \A r \in Punctuated("<required>", "<more_required>", TypeFirsts, "<type>") : RuleEven(r)
  BY InertParts, PunctuatedEven
<1> QED
  BY <1>1, <1>2 DEF InterfaceDefRules

LEMMA RuleTwo ==
    ASSUME NEW of \in Inert, NEW first, NEW a \in Inert, NEW b \in Inert
    PROVE  RuleEven(Rule(of, first, <<a, b>>))
BY ClosedTwo, RuleClosed

LEMMA RuleOne ==
    ASSUME NEW of \in Inert, NEW first, NEW a \in Inert
    PROVE  RuleEven(Rule(of, first, <<a>>))
BY ClosedOne, RuleClosed

\* A word and a pair of round brackets.
LEMMA RuleCall1 ==
    ASSUME NEW of \in Inert, NEW first, NEW k \in Inert, NEW a \in Inert
    PROVE  RuleEven(Rule(of, first, <<k, "(", a, ")">>))
<1>1. Closed(<<k>> \o <<"(", a, ")">>)
  BY Round1, AfterWord
<1>2. <<k>> \o <<"(", a, ")">> = <<k, "(", a, ")">>
  BY Join1And3
<1> QED
  BY <1>1, <1>2, RuleClosed

LEMMA RuleCall2 ==
    ASSUME NEW of \in Inert, NEW first, NEW k \in Inert, NEW a \in Inert, NEW b \in Inert
    PROVE  RuleEven(Rule(of, first, <<k, "(", a, b, ")">>))
<1>1. Closed(<<k>> \o <<"(", a, b, ")">>)
  BY Round2, AfterWord
<1>2. <<k>> \o <<"(", a, b, ")">> = <<k, "(", a, b, ")">>
  BY Join1And4
<1> QED
  BY <1>1, <1>2, RuleClosed

LEMMA FragmentsClosed == Closed(Into) /\ Closed(Call) /\ Closed(MethodReference)
<1>1. <<"->", "<name>", ";">> \in Seq(Inert)
  BY InertParts, InertWords, Tuple3
<1>2. <<"<item>", "<references?>">> \in Seq(Inert)
  BY InertParts, Tuple2
<1>3. Closed(Into) /\ Closed(MethodReference)
  BY <1>1, <1>2, ClosedInert DEF Into, MethodReference
<1>4. Closed(<<"(", "<args>", ")">>)
  BY InertParts, Round1
<1> QED
  BY <1>3, <1>4, ClosedJoin DEF Call

LEMMA MethodRulesEven == \A r \in MethodRules : RuleEven(r)
<1>1. RuleEven(Rule("<parameter>", "[", <<"[", "<refs>", "]", "<type>">>))
  <2>1. Closed(<<"[", "<refs>", "]">>) /\ Closed(<<"<type>">>)
    BY InertParts, Square1, ClosedOne
  <2>2. <<"[", "<refs>", "]">> \o <<"<type>">> = <<"[", "<refs>", "]", "<type>">>
    BY Join3And1
  <2>3. Closed(<<"[", "<refs>", "]", "<type>">>)
    BY <2>1, <2>2, ClosedJoin
  <2> QED
    BY <2>3, InertParts, RuleClosed
<1>2. RuleEven(Rule("<refs>", "ref", <<"ref", "<refs>">>))
  BY InertParts, InertWords, RuleTwo
<1>3. \A r \in Punctuated("<parameters>", "<more_parameters>", {"["}, "<parameter>") :
        RuleEven(r)
  BY InertParts, PunctuatedEven
<1>4. RuleEven(Optional("<locals?>", <<"locals", "(", "<locals>", ")">>))
  BY InertParts, InertWords, RuleCall1 DEF Optional
<1>5. RuleEven(Rule("<locals>", "name", <<"<name>", ":", "<type>", "<locals>">>))
  <2>1. <<"<name>", ":", "<type>", "<locals>">> \in Seq(Inert)
    BY InertParts, InertWords, Tuple4
  <2> QED
    BY <2>1, InertParts, RuleInert
<1>6. RuleEven(Impl)
  <2>1. Closed(<<"impl">> \o MethodReference)
    BY InertWords, FragmentsClosed, AfterWord
  <2>2. Closed(<<"in", "<type>">>)
    BY InertParts, InertWords, ClosedTwo
  <2>3. Closed(<<"impl">> \o MethodReference \o <<"in", "<type>">>)
    BY <2>1, <2>2, ClosedJoin
  <2> QED
    BY <2>3, InertParts, RuleClosed DEF Impl, Optional
<1>7. RuleEven(Optional("<table?>", <<"table">>))
  BY InertParts, InertWords, RuleOne DEF Optional
<1>8. \A r \in Parameters : RuleEven(r)
  BY <1>1, <1>2, <1>3, Zenon DEF Parameters
<1>9. \A r \in Locals : RuleEven(r)
  BY <1>4, <1>5, Zenon DEF Locals
<1> QED
  BY <1>6, <1>7, <1>8, <1>9, Zenon DEF MethodRules

LEMMA OperandRulesEven == \A r \in OperandRules : RuleEven(r)
<1>1. RuleEven(Optional("<condition?>", <<"if", "<name>">>))
  BY InertParts, InertWords, RuleTwo DEF Optional
<1>2. \A s \in {"success", "failure"} :
        RuleEven(Optional("<condition?>", <<s, "__all_zero", "<name>">>))
  <2>1. ASSUME NEW s \in Inert
        PROVE  RuleEven(Optional("<condition?>", <<s, "__all_zero", "<name>">>))
    <3>1. <<s, "__all_zero", "<name>">> \in Seq(Inert)
      BY InertParts, InertWords, Tuple3
    <3> QED
      BY <3>1, InertParts, RuleInert DEF Optional
  <2> QED
    BY <2>1, InertWords
<1>3. RuleEven(Rule("<length>", "int", <<"<u64>">>))
  BY InertParts, RuleOne
<1>4. RuleEven(Rule("<length>", "name", <<"<name>">>))
  BY InertParts, RuleOne
<1>5. \A t \in {"__absolute", "__forward", "__backward"} : RuleEven(Rule("<target>", t, <<t>>))
  BY InertParts, InertWords, RuleOne
<1>6. \A r \in Punctuated("<args>", "<more_args>", {"name"}, "<name>") : RuleEven(r)
  BY InertParts, PunctuatedEven
<1> QED
  BY <1>1, <1>2, <1>3, <1>4, <1>5, <1>6, Zenon DEF OperandRules

LEMMA ContentRulesEven == \A r \in ContentRules : RuleEven(r)
<1>1. \A s \in {"<content>", "<negated>"} : RuleEven(Rule(s, "-", <<"-", "<negated>">>))
  BY InertParts, InertWords, RuleTwo
<1>2. RuleEven(Rule("<content>", "__arg", <<"__arg", "(", "<u64>", ")">>))
  BY InertParts, InertWords, RuleCall1
<1>3. RuleEven(Rule("<content>", "static", <<"static", "(", "<type>", "<item>", ")">>))
  BY InertParts, InertWords, RuleCall2
<1>4. RuleEven(Rule("<content>", "__field", <<"__field", "(", "<name>", "<item>", ")">>))
  BY InertParts, InertWords, RuleCall2
<1>5. RuleEven(Rule("<content>", "sizeof", <<"sizeof", "(", "<type>", ")">>))
  BY InertParts, InertWords, RuleCall1
<1> QED
  BY <1>1, <1>2, <1>3, <1>4, <1>5, Zenon DEF ContentRules

\* The loops: an even text before what is shown as the same brace.
LEMMA ReplacesLoop ==
    ASSUME NEW p \in Texts, Shown(p) = "}", NEW k \in Texts, Shown(k) = "}",
           k # "struct", NEW e, Even(e)
    PROVE  Replaces(p, e \o <<k>>)
<1>1. e \in Seq(Texts) /\ e \in Seq(Texts \ {"struct"}) /\ <<k>> \in Seq(Texts)
      /\ e \o <<k>> \in Seq(Texts) /\ e \o <<k>> \in Seq(Texts \ {"struct"})
  <2>1. e \in Seq(Texts \ {"struct"})
    BY DEF Even
  <2>2. e \in Seq(Texts)
    BY <2>1, SeqIn
  <2>3. k \in Texts \ {"struct"}
    OBVIOUS
  <2>4. <<k>> \in Seq(Texts) /\ <<k>> \in Seq(Texts \ {"struct"})
    BY <2>3, Tuple1
  <2> QED
    BY <2>1, <2>2, <2>4, Concatenated
<1>2. ASSUME NEW c, NEW x, NEW y, c # "struct", Leads(c, <<Shown(p)>>, x, y)
      PROVE  Leads(c, ShownAs(e \o <<k>>), x, y) /\ LastOf(c, ShownAs(e \o <<k>>)) # "struct"
  <2>1. x \in Stacks /\ y = Reading(c, "}", x)
    BY <1>2, LeadsOnlyOne
  <2>2. Leads(c, ShownAs(e), x, x)
    BY <1>2, <2>1 DEF Even
  <2>3. \A d : Reading(d, "}", x) = y
    <3>1. "}" \in Closing
      BY DEF Closing
    <3> QED
      BY <2>1, <3>1, Closes
  <2>4. Leads(LastOf(c, ShownAs(e)), <<"}">>, x, y)
    BY <2>1, <2>3, LeadsOne
  <2>5. ShownAs(e) \in Seq(Texts) /\ ShownAs(<<k>>) \in Seq(Texts)
    BY <1>1, ShownType
  <2>6. ShownAs(<<k>>) = <<"}">>
    BY ShownOne
  <2>7. Leads(c, ShownAs(e) \o ShownAs(<<k>>), x, y)
    BY <2>2, <2>4, <2>5, <2>6, LeadsJoin
  <2>8. ShownAs(e \o <<k>>) = ShownAs(e) \o ShownAs(<<k>>)
    BY <1>1, ShownJoin
  <2> QED
    BY <1>1, <1>2, <2>7, <2>8, ShownLast
<1> QED
  BY <1>1, <1>2 DEF Replaces

LEMMA Bodies ==
    /\ \A s \in {"<items>", "<interface_items>", "<statements>", "}"} :
          s \in Texts /\ Shown(s) = "}" /\ s # "struct"
    /\ "<statements>" \notin Items /\ "<statements>" \notin OpenTypes /\ "}" \notin Items
<1>1. "<items>" \in Nonterminals /\ "<interface_items>" \in Nonterminals
  BY ItemSorts, ItemsNonterminals
<1>2. "<statements>" \in Nonterminals
  BY OtherSorts, Zenon
<1>3. "}" \in Texts
  BY TextsAre DEF Closing
<1> QED
  BY <1>1, <1>2, <1>3, TextsAre DEF Shown, OpenBodies, Items, OpenTypes

LEMMA StatementEven ==
    ASSUME NEW keyword \in StatementKeywords, NEW rest, Closed(rest)
    PROVE  RuleEven(StatementRule(keyword, rest))
<1>1. Closed(<<keyword>> \o rest)
  BY InertWords, AfterWord
<1>2. "<statements>" \in Texts /\ Shown("<statements>") = "}" /\ "<statements>" # "struct"
  BY Bodies
<1>3. Replaces("<statements>", <<keyword>> \o rest \o <<"<statements>">>)
  BY <1>1, <1>2, ReplacesLoop DEF Closed
<1>4. <<keyword>> \o rest \in Seq(Texts \ Items)
  BY <1>1 DEF Closed
<1>5. <<"<statements>">> \in Seq(Texts \ Items)
  <2>1. "<statements>" \in Texts \ Items
    BY <1>2, Bodies
  <2> QED
    BY <2>1, Tuple1
<1>6. <<keyword>> \o rest \o <<"<statements>">> \in Seq(Texts \ Items)
  BY <1>4, <1>5, Concatenated
<1>7. "<statements>" \notin Items /\ "<statements>" \notin OpenTypes /\ "<statements>" # "<file>"
  BY Bodies
<1> QED
  BY <1>3, <1>6, <1>7 DEF StatementRule, Rule, RuleEven

\* A loop that ends.
LEMMA RuleEnds ==
    ASSUME NEW p \in {"<items>", "<interface_items>", "<statements>"}
    PROVE  RuleEven(Rule(p, "}", <<"}">>))
<1>1. p \in Texts /\ Shown(p) = "}" /\ "}" \in Texts /\ Shown("}") = "}" /\ "}" # "struct"
  BY Bodies
<1>2. Even(<<>>)
  <2>1. <<>> \in Seq(Inert)
    OBVIOUS
  <2> QED
    BY <2>1, EvenInert
<1>3. <<>> \o <<"}">> = <<"}">>
  OBVIOUS
<1>4. Replaces(p, <<"}">>)
  BY <1>1, <1>2, <1>3, ReplacesLoop
<1>5. <<"}">> \in Seq(Texts \ Items)
  <2>1. "}" \in Texts \ Items
    BY Bodies
  <2> QED
    BY <2>1, Tuple1
<1>6. p # "<file>" /\ \A i \in DOMAIN <<"}">> : <<"}">>[i] \notin Items
  <2>1. "}" \notin Items
    BY Bodies
  <2>2. \A i \in DOMAIN <<"}">> : <<"}">>[i] = "}"
    BY OnlyOne
  <2> QED
    BY <2>1, <2>2
<1> QED
  BY <1>4, <1>5, <1>6 DEF RuleEven, Rule

LEMMA StatementRulesEven == \A r \in StatementRules : RuleEven(r)
<1>1. RuleEven(Rule("<statements>", "}", <<"}">>))
  BY RuleEnds
<1>2. ASSUME NEW keyword \in StatementKeywords, NEW s, Closed(s)
      PROVE  /\ RuleEven(StatementRule(keyword, s))
             /\ RuleEven(StatementRule(keyword, s \o Into))
             /\ RuleEven(StatementRule(keyword, s \o Call))
             /\ RuleEven(StatementRule(keyword, s \o MethodReference \o Call))
  <2>1. Closed(s \o Into) /\ Closed(s \o Call) /\ Closed(s \o MethodReference)
    BY <1>2, FragmentsClosed, ClosedJoin
  <2>2. Closed(s \o MethodReference \o Call)
    BY <2>1, FragmentsClosed, ClosedJoin
  <2> QED
    BY <1>2, <2>1, <2>2, StatementEven
<1>3. /\ Closed(<<"<content>">>) /\ Closed(<<"<name>">>) /\ Closed(<<"<type>">>)
      /\ Closed(<<"<name>", "<name>">>) /\ Closed(<<"__all_zero", "<name>">>)
      /\ Closed(<<"<type>", "<length>">>) /\ Closed(<<"<name>", ";">>) /\ Closed(<<";">>)
  BY InertParts, InertWords, ClosedOne, ClosedTwo
<1>4. /\ <<"<name>", "as", "<type>">> \in Seq(Inert)
      /\ <<"#", "<name>", "<name>">> \in Seq(Inert)
  BY InertParts, InertWords, Tuple3
<1>5. /\ <<"<name>", "->", "<name>", ".", "<item>", ";">> \in Seq(Inert)
      /\ <<"<name>", "->", "<item>", ";">> \in Seq(Inert)
      /\ <<"<name>", "->", "<type>", "<item>", ";">> \in Seq(Inert)
      /\ <<"<condition?>", "<target>", "<u64>", ";">> \in Seq(Inert)
  BY InertParts, InertWords, Tuple4, Tuple5, Tuple6
<1>6. /\ Closed(<<"<name>", "as", "<type>">>) /\ Closed(<<"#", "<name>", "<name>">>)
      /\ Closed(<<"<name>", "->", "<name>", ".", "<item>", ";">>)
      /\ Closed(<<"<name>", "->", "<item>", ";">>)
      /\ Closed(<<"<name>", "->", "<type>", "<item>", ";">>)
      /\ Closed(<<"<condition?>", "<target>", "<u64>", ";">>)
  BY <1>4, <1>5, ClosedInert
<1>7. /\ "Load" \in StatementKeywords /\ "ReadPointerTo" \in StatementKeywords
      /\ "WritePointer" \in StatementKeywords /\ "Check" \in StatementKeywords
      /\ "NewObject" \in StatementKeywords /\ "NewArray" \in StatementKeywords
      /\ "InstanceCall" \in StatementKeywords /\ "StaticCall" \in StatementKeywords
      /\ "InterfaceCall" \in StatementKeywords /\ "NonPurusCall" \in StatementKeywords
      /\ "SetField" \in StatementKeywords /\ "SetThisField" \in StatementKeywords
      /\ "SetStaticField" \in StatementKeywords /\ "Throw" \in StatementKeywords
      /\ "ReturnVal" \in StatementKeywords /\ "Jump" \in StatementKeywords
      /\ "Nop" \in StatementKeywords
  BY DEF StatementKeywords
<1>8. /\ RuleEven(StatementRule("Load", <<"<content>">> \o Into))
      /\ RuleEven(StatementRule("ReadPointerTo", <<"<name>", "<name>">> \o Into))
      /\ RuleEven(StatementRule("WritePointer", <<"<name>", "<name>">> \o Into))
      /\ RuleEven(StatementRule("Check", <<"__all_zero", "<name>">> \o Into))
      /\ RuleEven(StatementRule("NewArray", <<"<type>", "<length>">> \o Into))
  BY <1>2, <1>3, <1>7, Zenon
<1>9. /\ RuleEven(StatementRule("NewObject", <<"<type>">> \o MethodReference \o Call))
      /\ RuleEven(StatementRule("InstanceCall", <<"<name>">> \o MethodReference \o Call))
      /\ RuleEven(StatementRule("InterfaceCall",
                                <<"<name>", "as", "<type>">> \o MethodReference \o Call))
      /\ RuleEven(StatementRule("StaticCall", <<"<type>">> \o MethodReference \o Call))
      /\ RuleEven(StatementRule("NonPurusCall", <<"#", "<name>", "<name>">> \o Call))
  BY <1>2, <1>3, <1>6, <1>7, Zenon
<1>10. /\ RuleEven(StatementRule("SetField",
                                 <<"<name>", "->", "<name>", ".", "<item>", ";">>))
       /\ RuleEven(StatementRule("SetThisField", <<"<name>", "->", "<item>", ";">>))
       /\ RuleEven(StatementRule("SetStaticField",
                                 <<"<name>", "->", "<type>", "<item>", ";">>))
       /\ RuleEven(StatementRule("Throw", <<"<name>", ";">>))
       /\ RuleEven(StatementRule("ReturnVal", <<"<name>", ";">>))
       /\ RuleEven(StatementRule("Jump", <<"<condition?>", "<target>", "<u64>", ";">>))
       /\ RuleEven(StatementRule("Nop", <<";">>))
  BY <1>2, <1>3, <1>6, <1>7, Zenon
<1> QED
  BY <1>1, <1>8, <1>9, <1>10, Zenon DEF StatementRules

\* The members of a type.
LEMMA HeaderClosed ==
    ASSUME NEW k \in Inert, NEW list \in AttrLists
    PROVE  /\ Closed(Header(k, list, "]"))
           /\ Closed(Tail(Header(k, list, "]")))
<1>1. Closed(<<"[", list, "]">>)
  BY InertSymbols, Square1
<1>2. Closed(<<k>> \o <<"[", list, "]">>)
  BY <1>1, AfterWord
<1>3. <<k>> \o <<"[", list, "]">> = <<k, "[", list, "]">>
  BY Join1And3
<1>4. Tail(<<k, "[", list, "]">>) = <<"[", list, "]">>
  OBVIOUS
<1> QED
  BY <1>1, <1>2, <1>3, <1>4 DEF Header

LEMMA MembersClosed == Closed(Field) /\ Closed(Method)
<1>1. /\ "field" \in Inert /\ "method" \in Inert
      /\ "<field_attr>" \in AttrLists /\ "<method_attr>" \in AttrLists
  BY InertWords, ItemSorts
<1>2. Closed(Field)
  <2>1. <<"<name>", ":", "<type>", ";">> \in Seq(Inert)
    BY InertParts, InertWords, Tuple4
  <2>2. Closed(<<"<name>", ":", "<type>", ";">>)
    BY <2>1, ClosedInert
  <2>3. /\ Closed(Header("field", "<field_attr>", "]") \o <<"<name>", ":", "<type>", ";">>)
        /\ Closed(Tail(Header("field", "<field_attr>", "]")) \o <<"<name>", ":", "<type>", ";">>)
    BY <1>1, <2>2, HeaderClosed, ClosedJoin
  <2> QED
    BY <2>3, Zenon DEF Field
<1>3. Closed(Method)
  <2>1. Closed(<<"<name>", "<method_generics?>">> \o <<"(", "<parameters>", ")">>)
    BY InertParts, ClosedTwo, Round1, ClosedJoin
  <2>2. Closed(<<"<name>", "<method_generics?>", "(", "<parameters>", ")">>)
    BY <2>1, Join2And3, Zenon
  <2>3. <<"->", "<type>", "<impl?>", "<where?>">> \in Seq(Inert)
    BY InertParts, InertWords, Tuple4
  <2>4. Closed(<<"->", "<type>", "<impl?>", "<where?>">>)
    BY <2>3, ClosedInert
  <2>5. Closed(<<"<name>", "<method_generics?>", "(", "<parameters>", ")">>
                 \o <<"->", "<type>", "<impl?>", "<where?>">>)
    BY <2>2, <2>4, ClosedJoin
  <2>6. Closed(<<"<name>", "<method_generics?>", "(", "<parameters>", ")",
                 "->", "<type>", "<impl?>", "<where?>">>)
    <3>1. <<"<name>", "<method_generics?>", "(", "<parameters>", ")">>
            \o <<"->", "<type>", "<impl?>", "<where?>">> =
          <<"<name>", "<method_generics?>", "(", "<parameters>", ")",
            "->", "<type>", "<impl?>", "<where?>">>
      BY Join5And4
    <3> QED
      BY <2>5, <3>1, Zenon
  <2>7. Closed(<<"{">> \o <<"<locals?>", "<table?>">> \o <<"<statements>">>)
    BY InertParts, ClosedTwo, InBody
  <2>8. Closed(<<"{", "<locals?>", "<table?>", "<statements>">>)
    BY <2>7, Around2, Zenon
  <2>9. Closed(<<"<name>", "<method_generics?>", "(", "<parameters>", ")",
                 "->", "<type>", "<impl?>", "<where?>">>
                 \o <<"{", "<locals?>", "<table?>", "<statements>">>)
    BY <2>6, <2>8, ClosedJoin
  <2>10. Closed(<<"<name>", "<method_generics?>", "(", "<parameters>", ")", "->", "<type>",
                  "<impl?>", "<where?>", "{", "<locals?>", "<table?>", "<statements>">>)
    BY <2>9, MethodTuple, Zenon
  <2>11. Closed(Header("method", "<method_attr>", "]"))
    BY <1>1, HeaderClosed
  <2> QED
    BY <2>10, <2>11, ClosedJoin DEF Method
<1> QED
  BY <1>2, <1>3

LEMMA LoopEven ==
    ASSUME NEW p \in OpenTypes, NEW first, NEW e, Closed(e)
    PROVE  RuleEven(Rule(p, first, e \o <<p>>))
<1>1. p \in Texts /\ Shown(p) = "}" /\ p # "struct" /\ p # "<file>" /\ p \in Items
  BY Bodies DEF OpenTypes, Items
<1>2. Replaces(p, e \o <<p>>)
  BY <1>1, ReplacesLoop DEF Closed
<1>3. e \in Seq(Texts \ Items) /\ e \in Seq(Texts) /\ <<p>> \in Seq(Texts)
  <2>1. e \in Seq(Texts \ Items)
    BY DEF Closed
  <2> QED
    BY <1>1, <2>1, SeqIn, Tuple1
<1>4. ASSUME NEW i \in DOMAIN (e \o <<p>>), (e \o <<p>>)[i] \in Items
      PROVE  i = Len(e \o <<p>>) /\ (e \o <<p>>)[i] \in OpenTypes
  <2>1. PICK w, n : w = e \o <<p>> /\ n = Len(e)
    OBVIOUS
  <2>2. n \in Nat /\ Len(w) = n + 1 /\ w[n + 1] = p /\ i \in 1 .. (n + 1)
    BY <1>3, <1>4, <2>1
  <2>3. i <= n => w[i] = e[i] /\ e[i] \notin Items
    BY <1>3, <2>1, <2>2
  <2>4. i = n + 1
    BY <1>4, <2>1, <2>2, <2>3
  <2> QED
    BY <2>1, <2>2, <2>4
<1> QED
  BY <1>1, <1>2, <1>4 DEF RuleEven, Rule

LEMMA ItemRulesEven == \A r \in ItemRules : RuleEven(r)
<1>1. "<items>" \in OpenTypes /\ "<interface_items>" \in OpenTypes
  BY DEF OpenTypes
<1>2. /\ RuleEven(Rule("<items>", "method", Method \o <<"<items>">>))
      /\ RuleEven(Rule("<items>", "field", Field \o <<"<items>">>))
      /\ RuleEven(Rule("<interface_items>", "method", Method \o <<"<interface_items>">>))
  BY <1>1, MembersClosed, LoopEven
<1>3. /\ RuleEven(Rule("<items>", "}", <<"}">>))
      /\ RuleEven(Rule("<interface_items>", "}", <<"}">>))
  BY RuleEnds
<1> QED
  BY <1>2, <1>3, Zenon DEF ItemRules

\* The end of the stack.
LEMMA FileEven == Even(<<"<file>">>)
<1>1. "<file>" \in Texts \ {"struct"}
  BY ItemSorts, ItemsNonterminals, TextsAre
<1>2. <<"<file>">> \in Seq(Texts \ {"struct"})
  BY <1>1, Tuple1
<1>3. ShownAs(<<"<file>">>) = <<"<file>">>
  BY ShownOne DEF Shown, OpenBodies
<1>4. \A c, x : Reading(c, "<file>", x) = x
  BY Passes DEF Openers, Closing
<1>5. \A c : \A x \in Stacks : Leads(c, <<"<file>">>, x, x)
  BY <1>4, LeadsOne
<1> QED
  BY <1>2, <1>3, <1>5 DEF Even

\* Where the items end and the file goes on.
LEMMA AtBottom ==
    ASSUME NEW e \in Seq(Texts \ Items), NEW o \in Texts \ Items, NEW b \in OpenTypes,
           NEW w \in Seq(Texts), w = (e \o <<o, b>>) \o <<"<file>">>
    PROVE  Bottom(w) /\ w # <<>> /\ w[Len(w)] = "<file>"
<1>1. PICK t, f : t = <<o, b>> /\ f = <<"<file>">>
  OBVIOUS
<1>2. /\ Len(t) = 2 /\ t[1] = o /\ t[2] = b /\ Len(f) = 1 /\ f[1] = "<file>"
      /\ t \in Seq(Texts) /\ f \in Seq(Texts)
  <2>1. b \in Texts
    BY Bodies DEF OpenTypes
  <2>2. "<file>" \in Texts
    BY ItemSorts, ItemsNonterminals, TextsAre
  <2> QED
    BY <1>1, <2>1, <2>2
<1>3. PICK n : n = Len(e)
  OBVIOUS
<1>4. n \in Nat /\ \A i \in 1 .. n : e[i] \notin Items
  BY <1>3
<1>5. PICK u : u = e \o t
  OBVIOUS
<1>6. /\ Len(u) = n + 2 /\ u[n + 1] = o /\ u[n + 2] = b /\ u \in Seq(Texts)
      /\ \A i \in 1 .. n : u[i] \notin Items
  <2>1. e \in Seq(Texts)
    BY SeqIn
  <2>2. /\ u \in Seq(Texts) /\ Len(u) = n + 2
        /\ \A i \in 1 .. n : u[i] = e[i]
        /\ \A i \in 1 .. 2 : u[n + i] = t[i]
    <3>1. PICK q : q = Len(t)
      OBVIOUS
    <3>2. /\ u \in Seq(Texts) /\ Len(u) = n + q
          /\ \A i \in 1 .. n : u[i] = e[i]
          /\ \A i \in 1 .. q : u[n + i] = t[i]
      <4>1. t \in Seq(Texts)
        BY <1>2
      <4>2. /\ e \o t \in Seq(Texts) /\ Len(e \o t) = n + q
            /\ \A i \in 1 .. n : (e \o t)[i] = e[i]
            /\ \A i \in 1 .. q : (e \o t)[n + i] = t[i]
        BY <1>3, <2>1, <3>1, <4>1, JoinAt, SMTT(30)
      <4> QED
        BY <1>5, <4>2, Zenon
    <3> QED
      BY <1>2, <3>1, <3>2
  <2>3. 1 \in 1 .. 2 /\ 2 \in 1 .. 2
    OBVIOUS
  <2>4. u[n + 1] = t[1] /\ u[n + 2] = t[2]
    BY <2>2, <2>3
  <2> QED
    BY <1>2, <1>4, <2>2, <2>4
<1>7. w = u \o f
  BY <1>1, <1>5
<1>8. /\ Len(w) = n + 3 /\ w[n + 1] = o /\ w[n + 2] = b /\ w[n + 3] = "<file>"
      /\ \A i \in 1 .. n : w[i] \notin Items
  <2>1. PICK p : p = n + 2
    OBVIOUS
  <2>2. p = Len(u)
    BY <1>6, <2>1
  <2>3. /\ w \in Seq(Texts) /\ Len(w) = p + 1
        /\ \A i \in 1 .. p : w[i] = u[i]
        /\ \A i \in 1 .. 1 : w[p + i] = f[i]
    <3>1. PICK q : q = Len(f)
      OBVIOUS
    <3>2. /\ w \in Seq(Texts) /\ Len(w) = p + q
          /\ \A i \in 1 .. p : w[i] = u[i]
          /\ \A i \in 1 .. q : w[p + i] = f[i]
      <4>1. f \in Seq(Texts) /\ u \in Seq(Texts)
        BY <1>2, <1>6
      <4> QED
        <5>1. /\ u \o f \in Seq(Texts) /\ Len(u \o f) = p + q
              /\ \A i \in 1 .. p : (u \o f)[i] = u[i]
              /\ \A i \in 1 .. q : (u \o f)[p + i] = f[i]
          BY <2>2, <3>1, <4>1, JoinAt, SMTT(30)
        <5> QED
          BY <1>7, <5>1, Zenon
    <3> QED
      BY <1>2, <3>1, <3>2
  <2>4. p + 1 = n + 3 /\ n + 1 \in 1 .. p /\ n + 2 \in 1 .. p /\ 1 \in 1 .. 1
        /\ \A i \in 1 .. n : i \in 1 .. p
    BY <1>4, <2>1
  <2>5. w[n + 3] = f[1] /\ w[n + 1] = u[n + 1] /\ w[n + 2] = u[n + 2]
    BY <2>3, <2>4
  <2>6. \A i \in 1 .. n : w[i] = u[i]
    BY <2>3, <2>4
  <2> QED
    BY <1>2, <1>6, <2>3, <2>4, <2>5, <2>6
<1>9. OpenTypes \subseteq Items /\ "<file>" \notin OpenTypes /\ "<file>" \in Items
  BY DEF OpenTypes, Items
<1>10. ASSUME NEW i \in 1 .. (n + 3)
       PROVE  /\ w[i] = "<file>" => i = n + 3
              /\ w[i] \in OpenTypes => i + 1 = n + 3 /\ w[i + 1] = "<file>"
  <2>1. i \in 1 .. n \/ i = n + 1 \/ i = n + 2 \/ i = n + 3
    BY <1>4
  <2>2. CASE i \in 1 .. n
    BY <1>8, <1>9, <2>2
  <2>3. CASE i = n + 1
    BY <1>8, <1>9, <2>3
  <2>4. CASE i = n + 2
    <3>1. i + 1 = n + 3
      BY <1>4, <2>4
    <3> QED
      BY <1>8, <1>9, <2>4, <3>1
  <2>5. CASE i = n + 3
    BY <1>8, <1>9, <2>5
  <2> QED
    BY <2>1, <2>2, <2>3, <2>4, <2>5
<1>11. DOMAIN w = 1 .. (n + 3) /\ w # <<>>
  BY <1>4, <1>8
<1> QED
  BY <1>8, <1>10, <1>11 DEF Bottom

\* A header h that leads nowhere, m and an open body, and the rest of the file.
LEMMA TypeEven ==
    ASSUME NEW first \in TypeKeywords, NEW h \in Seq(Texts \ Items), NEW m, Closed(m),
           NEW b \in OpenTypes,
           \A c : c # "struct" => LastOf(c, ShownAs(h)) # "struct"
                                  /\ \A x \in Stacks : Leads(c, ShownAs(h), x, x)
    PROVE  RuleEven(Rule("<file>", first, h \o (m \o <<"{", b>>) \o <<"<file>">>))
<1> DEFINE f == <<"<file>">>
           v == m \o <<"{", b>>
<1>1. b \in Texts /\ Shown(b) = "}" /\ b # "struct" /\ b # "<file>" /\ b \in Items
  BY Bodies DEF OpenTypes, Items
<1>2. "{" \in Texts \ Items /\ "<file>" \in Texts /\ "<file>" \in Items /\ "{" # "struct"
  <2>1. "{" \in Openers /\ "{" \notin Items
    BY DEF Openers, Items
  <2> QED
    BY <2>1, ItemSorts, ItemsNonterminals, TextsAre
<1>3. m \in Seq(Texts \ Items) /\ Even(m)
  BY DEF Closed
<1>4. h \in Seq(Texts) /\ m \in Seq(Texts) /\ f \in Seq(Texts) /\ <<"{", b>> \in Seq(Texts)
  <2>1. h \in Seq(Texts) /\ m \in Seq(Texts)
    BY <1>3, SeqIn
  <2>2. f \in Seq(Texts)
    BY <1>2, Tuple1
  <2>3. "{" \in Texts
    BY <1>2
  <2> QED
    BY <1>1, <2>1, <2>2, <2>3, Tuple2
<1>5. Even(<<"{", b>>)
  <2>1. Even(<<>>)
    <3>1. <<>> \in Seq(Inert)
      OBVIOUS
    <3> QED
      BY <3>1, EvenInert
  <2>2. "{" \in Openers /\ Shown(b) = Closer("begin", "{") /\ b \in Texts \ {"struct"}
    BY <1>1 DEF Openers, Closer
  <2>3. Even(<<"{">> \o <<>> \o <<b>>)
    BY <2>1, <2>2, EvenPair
  <2>4. <<"{">> \o <<>> = <<"{">>
    OBVIOUS
  <2>5. <<"{">> \o <<b>> = <<"{", b>>
    BY Join1And1
  <2> QED
    BY <2>3, <2>4, <2>5, Zenon
<1>6. Even(v) /\ Even(f)
  BY <1>3, <1>5, EvenJoin, FileEven
<1> HIDE DEF v, f
<1>7. v \in Seq(Texts) /\ h \o v \in Seq(Texts) /\ (h \o v) \o f \in Seq(Texts)
  <2>1. v \in Seq(Texts)
    BY <1>4, Concatenated DEF v
  <2>2. h \o v \in Seq(Texts)
    BY <1>4, <2>1, Concatenated
  <2> QED
    BY <1>4, <2>1, <2>2, Concatenated
<1>8. ShownAs((h \o v) \o f) = (ShownAs(h) \o ShownAs(v)) \o ShownAs(f)
  <2>1. ShownAs((h \o v) \o f) = ShownAs(h \o v) \o ShownAs(f)
    BY <1>4, <1>7, ShownJoin
  <2>2. ShownAs(h \o v) = ShownAs(h) \o ShownAs(v)
    BY <1>4, <1>7, ShownJoin
  <2> QED
    BY <2>1, <2>2, Zenon
<1>9. /\ ShownAs(h) \in Seq(Texts) /\ ShownAs(v) \in Seq(Texts) /\ ShownAs(f) \in Seq(Texts)
      /\ ShownAs(h) \o ShownAs(v) \in Seq(Texts)
  BY <1>4, <1>7, ShownType, Concatenated
<1>10. PICK w : w = (h \o v) \o f
  OBVIOUS
<1>11. Bottom(w) /\ w # <<>> /\ w[Len(w)] = "<file>" /\ w \in Seq(Texts)
  <2>1. h \o v = (h \o m) \o <<"{", b>>
    <3>1. PICK t : t = <<"{", b>>
      BY Zenon
    <3>2. t \in Seq(Texts) /\ v = m \o t
      BY <1>4, <3>1, Zenon DEF v
    <3>3. h \o v = (h \o m) \o t
      <4>1. h \in Seq(Texts) /\ m \in Seq(Texts) /\ t \in Seq(Texts)
        BY <1>4, <3>2, Zenon
      <4>2. (h \o m) \o t = h \o (m \o t)
        BY <4>1, ConcatAssociative
      <4> QED
        BY <3>2, <4>2, Zenon
    <3> QED
      BY <3>1, <3>3, Zenon
  <2>2. h \o m \in Seq(Texts \ Items)
    BY <1>3, Concatenated
  <2>3. w \in Seq(Texts)
    BY <1>7, <1>10
  <2>4. w = ((h \o m) \o <<"{", b>>) \o <<"<file>">>
    BY <1>10, <2>1 DEF f
  <2> QED
    BY <1>2, <2>2, <2>3, <2>4, AtBottom
<1>13. ASSUME NEW c, NEW x, NEW y, c # "struct", Leads(c, <<Shown("<file>")>>, x, y)
       PROVE  Leads(c, ShownAs(w), x, y) /\ LastOf(c, ShownAs(w)) # "struct"
  <2>1. x \in Stacks /\ y = x
    <3>1. Shown("<file>") = "<file>" /\ Reading(c, "<file>", x) = x
      BY Passes DEF Shown, OpenBodies, Openers, Closing
    <3> QED
      BY <1>13, <3>1, LeadsOnlyOne
  <2>2. Leads(c, ShownAs(h), x, x) /\ LastOf(c, ShownAs(h)) # "struct"
    BY <1>13, <2>1
  <2>3. \A d : d # "struct" => Leads(d, ShownAs(v), x, x)
    BY <1>6, <2>1 DEF Even
  <2>4. Leads(c, ShownAs(h) \o ShownAs(v), x, x)
    BY <1>9, <2>2, <2>3, LeadsJoin
  <2>5. \A d : Leads(d, ShownAs(f), x, x)
    <3>1. ShownAs(f) = f
      BY ShownOne DEF Shown, OpenBodies, f
    <3>2. \A d : Reading(d, "<file>", x) = x
      BY Passes DEF Openers, Closing
    <3> QED
      BY <2>1, <3>1, <3>2, LeadsOne DEF f
  <2>6. Leads(c, ShownAs(w), x, x)
    BY <1>8, <1>9, <1>10, <2>4, <2>5, LeadsJoin
  <2>7. /\ ShownAs(w) # <<>> /\ Len(ShownAs(w)) = Len(w)
        /\ ShownAs(w)[Len(w)] = Shown("<file>")
    <3>1. Len(w) \in 1 .. Len(w)
      BY <1>11
    <3>2. Len(ShownAs(w)) = Len(w) /\ ShownAs(w)[Len(w)] = Shown(w[Len(w)])
      BY <1>11, <3>1, ShownType
    <3> QED
      BY <1>11, <3>1, <3>2
  <2>8. LastOf(c, ShownAs(w)) = "<file>"
    BY <2>7 DEF LastOf, Shown, OpenBodies
  <2> QED
    BY <2>1, <2>6, <2>8
<1>14. Replaces("<file>", w)
  BY <1>11, <1>13 DEF Replaces
<1>15. "<file>" \notin OpenTypes
  BY DEF OpenTypes
<1> QED
  BY <1>2, <1>10, <1>11, <1>14, <1>15 DEF RuleEven, Rule, f, v

LEMMA ShownFour ==
    ASSUME NEW a, NEW b, NEW c, NEW d, a \notin OpenBodies, b \notin OpenBodies,
           c \notin OpenBodies, d \notin OpenBodies
    PROVE  ShownAs(<<a, b, c, d>>) = <<a, b, c, d>>
<1>1. Shown(a) = a /\ Shown(b) = b /\ Shown(c) = c /\ Shown(d) = d
  BY DEF Shown
<1>2. ShownAs(<<a, b, c, d>>) = <<Shown(a), Shown(b), Shown(c), Shown(d)>>
  BY DEF ShownAs
<1> QED
  BY <1>1, <1>2, Zenon

LEMMA FileRulesEven == \A r \in FileRules : RuleEven(r)
<1>1. /\ "<items>" \in OpenTypes /\ "<interface_items>" \in OpenTypes
      /\ "class" \in Inert /\ "interface" \in Inert
      /\ "<class_attr>" \in AttrLists /\ "<interface_attr>" \in AttrLists
      /\ "<struct_attr>" \in AttrLists
      /\ "class" \in TypeKeywords /\ "struct" \in TypeKeywords /\ "interface" \in TypeKeywords
  BY InertWords, ItemSorts DEF OpenTypes, TypeKeywords
<1>2. ASSUME NEW h, Closed(h)
      PROVE  /\ h \in Seq(Texts \ Items)
             /\ \A c : c # "struct" => LastOf(c, ShownAs(h)) # "struct"
                                       /\ \A x \in Stacks : Leads(c, ShownAs(h), x, x)
  BY <1>2, ShownLast DEF Closed, Even
<1>3. RuleEven(Rule("<file>", "class", ClassDef \o <<"<file>">>))
  <2>1. <<"<main?>", "<name>", "<type_generics?>", "<parent?>", "<where?>">> \in Seq(Inert)
    BY InertParts, Tuple5
  <2>2. Closed(<<"<main?>", "<name>", "<type_generics?>", "<parent?>", "<where?>">>)
    BY <2>1, ClosedInert
  <2>3. Closed(Header("class", "<class_attr>", "]"))
    BY <1>1, HeaderClosed
  <2>4. <<"<main?>", "<name>", "<type_generics?>", "<parent?>", "<where?>">>
          \o <<"{", "<items>">> =
        <<"<main?>", "<name>", "<type_generics?>", "<parent?>", "<where?>", "{", "<items>">>
    <3>1. \A p1, p2, p3, p4, p5, o, b :
            <<p1, p2, p3, p4, p5>> \o <<o, b>> = <<p1, p2, p3, p4, p5, o, b>>
      BY Join5And2, Zenon
    <3>2. \A p4, p5, o, b :
            <<"<main?>", "<name>", "<type_generics?>", p4, p5>> \o <<o, b>> =
            <<"<main?>", "<name>", "<type_generics?>", p4, p5, o, b>>
      BY <3>1, Zenon
    <3>3. \A o, b : <<"<main?>", "<name>", "<type_generics?>", "<parent?>", "<where?>">>
                      \o <<o, b>> =
            <<"<main?>", "<name>", "<type_generics?>", "<parent?>", "<where?>", o, b>>
      BY <3>2, Zenon
    <3> QED
      BY <3>3, Zenon
  <2>5. RuleEven(Rule("<file>", "class",
            Header("class", "<class_attr>", "]") \o
            (<<"<main?>", "<name>", "<type_generics?>", "<parent?>", "<where?>">>
               \o <<"{", "<items>">>) \o <<"<file>">>))
    BY <1>1, <1>2, <2>2, <2>3, TypeEven
  <2> QED
    BY <2>4, <2>5, Zenon DEF ClassDef
<1>4. RuleEven(Rule("<file>", "interface", InterfaceDef \o <<"<file>">>))
  <2>1. <<"<name>", "<type_generics?>", "<required?>", "<where?>">> \in Seq(Inert)
    BY InertParts, Tuple4
  <2>2. Closed(<<"<name>", "<type_generics?>", "<required?>", "<where?>">>)
    BY <2>1, ClosedInert
  <2>3. Closed(Header("interface", "<interface_attr>", "]"))
    BY <1>1, HeaderClosed
  <2>4. <<"<name>", "<type_generics?>", "<required?>", "<where?>">>
          \o <<"{", "<interface_items>">> =
        <<"<name>", "<type_generics?>", "<required?>", "<where?>", "{", "<interface_items>">>
    <3>1. \A o, b : <<"<name>", "<type_generics?>", "<required?>", "<where?>">>
                      \o <<o, b>> =
            <<"<name>", "<type_generics?>", "<required?>", "<where?>", o, b>>
      BY Join4And2
    <3> QED
      BY <3>1, Zenon
  <2>5. RuleEven(Rule("<file>", "interface",
            Header("interface", "<interface_attr>", "]") \o
            (<<"<name>", "<type_generics?>", "<required?>", "<where?>">>
               \o <<"{", "<interface_items>">>) \o <<"<file>">>))
    BY <1>1, <1>2, <2>2, <2>3, TypeEven
  <2> QED
    BY <2>4, <2>5, Zenon DEF InterfaceDef
<1>5. RuleEven(Rule("<file>", "struct", StructDef \o <<"<file>">>))
  <2>1. <<"<name>", "<type_generics?>", "<where?>">> \in Seq(Inert)
    BY InertParts, Tuple3
  <2>2. Closed(<<"<name>", "<type_generics?>", "<where?>">>)
    BY <2>1, ClosedInert
  <2>3. PICK h : h = Header("struct", "<struct_attr>", "}")
    OBVIOUS
  <2>4. h \in Seq(Texts \ Items)
    <3>1. "struct" \in Texts \ Items
      BY DEF Texts, Symbols, Keywords, TypeKeywords, Items
    <3>2. "[" \in Texts \ Items
      BY Pairs, TextsAre DEF Items
    <3>3. "}" \in Texts \ Items
      BY Bodies
    <3>4. "<struct_attr>" \in Texts \ Items
      BY <1>1, InertSymbols, InertTexts
    <3> QED
      BY <2>3, <3>1, <3>2, <3>3, <3>4, Tuple4 DEF Header
  <2>5. ASSUME NEW c, c # "struct"
        PROVE  LastOf(c, ShownAs(h)) # "struct"
               /\ \A x \in Stacks : Leads(c, ShownAs(h), x, x)
    <3>1. ShownAs(h) = h
      <4>1. /\ "struct" \notin OpenBodies /\ "[" \notin OpenBodies
            /\ "<struct_attr>" \notin OpenBodies /\ "}" \notin OpenBodies
        BY DEF OpenBodies
      <4>2. ShownAs(<<"struct", "[", "<struct_attr>", "}">>) =
            <<"struct", "[", "<struct_attr>", "}">>
        BY <4>1, ShownFour
      <4> QED
        BY <2>3, <4>2, Zenon DEF Header
    <3>2. h = <<"struct">> \o (<<"[">> \o (<<"<struct_attr>">> \o <<"}">>))
      <4>1. <<"<struct_attr>">> \o <<"}">> = <<"<struct_attr>", "}">>
        BY Join1And1
      <4>2. <<"[">> \o <<"<struct_attr>", "}">> = <<"[", "<struct_attr>", "}">>
        BY Join1And2
      <4>3. <<"struct">> \o <<"[", "<struct_attr>", "}">> =
            <<"struct", "[", "<struct_attr>", "}">>
        BY Join1And3
      <4> QED
        BY <2>3, <4>1, <4>2, <4>3, Zenon DEF Header
    <3>3. /\ <<"struct">> \in Seq(Texts) /\ <<"[">> \in Seq(Texts)
          /\ <<"<struct_attr>">> \in Seq(Texts) /\ <<"}">> \in Seq(Texts)
      <4>1. "struct" \in Texts
        BY DEF Texts, Symbols, Keywords, TypeKeywords
      <4>2. "[" \in Texts
        BY Pairs, TextsAre
      <4>3. "}" \in Texts
        BY Bodies
      <4>4. "<struct_attr>" \in Texts
        BY <1>1, InertSymbols, InertTexts
      <4> QED
        BY <4>1, <4>2, <4>3, <4>4, Tuple1
    <3>4. ASSUME NEW x \in Stacks PROVE Leads(c, h, x, x)
      <4>1. PICK y : y = <<"}">> \o x
        OBVIOUS
      <4>2. y \in Stacks /\ y # <<>> /\ Head(y) = "}" /\ Tail(y) = x
        <5>1. "}" \in Closing
          BY DEF Closing
        <5> QED
          BY <4>1, <5>1, PushType
      <4>3. Leads(c, <<"struct">>, x, x)
        <5>1. Reading(c, "struct", x) = x
          BY Passes DEF Openers, Closing
        <5> QED
          BY <5>1, LeadsOne
      <4>4. Leads("struct", <<"[">>, x, y)
        <5>1. "[" \in Openers /\ Closer("struct", "[") = "}"
          BY DEF Openers, Closer
        <5> QED
          BY <4>1, <5>1, Opens, LeadsOne
      <4>5. Leads("[", <<"<struct_attr>">>, y, y)
        <5>1. Reading("[", "<struct_attr>", y) = y
          BY Passes DEF Openers, Closing
        <5> QED
          BY <4>2, <5>1, LeadsOne
      <4>6. Leads("<struct_attr>", <<"}">>, y, x)
        <5>1. Reading("<struct_attr>", "}", y) = x
          BY <4>2, Closes DEF Closing
        <5> QED
          BY <4>2, <5>1, LeadsOne
      <4>7. \A a, d : LastOf(a, <<d>>) = d
        BY DEF LastOf
      <4>8. Leads("[", <<"<struct_attr>">> \o <<"}">>, y, x)
        BY <3>3, <4>5, <4>6, <4>7, LeadsJoin
      <4>9. Leads("struct", <<"[">> \o (<<"<struct_attr>">> \o <<"}">>), x, x)
        BY <3>3, <4>4, <4>7, <4>8, LeadsJoin, Concatenated
      <4>10. <<"[">> \o (<<"<struct_attr>">> \o <<"}">>) \in Seq(Texts)
        BY <3>3, Concatenated
      <4> QED
        BY <3>2, <3>3, <4>3, <4>7, <4>9, <4>10, LeadsJoin
    <3>5. LastOf(c, h) # "struct"
      <4>1. LastOf(c, <<"struct", "[", "<struct_attr>", "}">>) = "}"
        BY DEF LastOf
      <4> QED
        BY <2>3, <4>1 DEF Header
    <3> QED
      BY <3>1, <3>4, <3>5
  <2>6. <<"<name>", "<type_generics?>", "<where?>">> \o <<"{", "<items>">> =
        <<"<name>", "<type_generics?>", "<where?>", "{", "<items>">>
    BY Join3And2
  <2>7. RuleEven(Rule("<file>", "struct",
            h \o (<<"<name>", "<type_generics?>", "<where?>">> \o <<"{", "<items>">>)
              \o <<"<file>">>))
    BY <1>1, <2>2, <2>4, <2>5, TypeEven
  <2> QED
    BY <2>3, <2>6, <2>7, Zenon DEF StructDef
<1> QED
  BY <1>3, <1>4, <1>5, Zenon DEF FileRules

\* What a rule asks for closes what it opens.
LEMMA RulesEven == \A r \in Rules : RuleEven(r)
BY ReferencesEven, TypeReferencesEven, GenericListsEven, ClassDefRulesEven,
   InterfaceDefRulesEven, MethodRulesEven, FileRulesEven, ItemRulesEven, StatementRulesEven,
   OperandRulesEven, ContentRulesEven, Zenon DEF Rules

----------------------------------------------------------------------------
(* Brackets: the invariant                                                 *)

ReadTo(ts, e) == [i \in 1 .. (e - 1) |-> Kind(ts[i])]
Before1(ts, e) == LastOf("begin", ReadTo(ts, e))

\* What is read before e and what is asked for in w leave nothing open; or the
\* end of the file stands for the brace of the last type.
Matching(ts, e, w) ==
    \E y \in Stacks : /\ Leads("begin", ReadTo(ts, e), <<>>, y)
                      /\ Leads(Before1(ts, e), ShownAs(w), y, <<>>)
CutOff(ts, e, w) == /\ e > Len(ts) /\ w \in {<<>>, <<"<file>">>}
                    /\ Leads("begin", ReadTo(ts, e), <<>>, <<"}">>)

\* The bracket of a struct's header is read right behind its keyword.
Headed(ts, e, w) == Before1(ts, e) = "struct" => w # <<>> /\ w[1] = "["

\* Where a reference that fails goes on.
Rest(w, k) == SubSeq(w, k + 1, Len(w))
Resumes(ts, e, w) == Matching(ts, e, w) /\ Before1(ts, e) # "struct"

BracketInv ==
    /\ Matching(tokens, pos, want) \/ CutOff(tokens, pos, want)
    /\ Bottom(want) /\ Headed(tokens, pos, want)
    /\ \A k \in DOMAIN want : want[k] = "<again>" => Resumes(tokens, saved.pos, Rest(want, k))

LEMMA KindText == \A ts \in Inputs : \A i \in DOMAIN ts : Kind(ts[i]) \in Texts
<1> SUFFICES ASSUME NEW ts \in Inputs, NEW i \in DOMAIN ts PROVE Kind(ts[i]) \in Texts
  OBVIOUS
<1> DEFINE R == [form : Forms, text : STRING]
<1>1. ts[i].form \in Forms
  <2>1. ts \in Seq(R)
    BY GrammarAssumption
  <2> HIDE DEF R
  <2>2. ts[i] \in R
    BY <2>1
  <2> QED
    BY <2>2 DEF R
<1>2. ts[i].form = "special" => ts[i].text \in Special
  BY GrammarAssumption
<1>3. Kind(ts[i]) \in Keywords \cup StatementKeywords \cup Special \cup Forms \cup {"name", "int"}
  BY <1>1, <1>2, KindIs
<1>4. "int" \in Forms
  BY DEF Forms
<1> QED
  BY <1>3, <1>4, TextsAre DEF Texts, Symbols

LEMMA ReadToIs ==
    ASSUME NEW ts \in Inputs, NEW e \in 1 .. (Len(ts) + 1)
    PROVE  /\ ReadTo(ts, e) \in Seq(Texts) /\ Len(ReadTo(ts, e)) = e - 1
           /\ e > 1 => Before1(ts, e) = Kind(ts[e - 1])
           /\ e = 1 => Before1(ts, e) = "begin" /\ ReadTo(ts, e) = <<>>
<1>1. IsSeq(ts)
  BY GrammarAssumption DEF IsSeq
<1>2. Len(ts) \in Nat /\ DOMAIN ts = 1 .. Len(ts)
  BY <1>1 DEF IsSeq
<1>3. PICK s, n : s = ReadTo(ts, e) /\ n = e - 1
  OBVIOUS
<1>4. n \in Nat /\ \A i \in 1 .. n : Kind(ts[i]) \in Texts
  BY <1>2, <1>3, KindText
<1>5. s = [i \in 1 .. n |-> Kind(ts[i])]
  BY <1>3 DEF ReadTo
<1>6. s \in Seq(Texts) /\ Len(s) = n
  BY <1>4, <1>5
<1>7. e > 1 => s # <<>> /\ s[n] = Kind(ts[e - 1])
  BY <1>3, <1>4, <1>5, <1>6
<1>8. e = 1 => s = <<>>
  BY <1>3, <1>6
<1> QED
  BY <1>3, <1>6, <1>7, <1>8 DEF Before1, LastOf

LEMMA ReadToNext ==
    ASSUME NEW ts \in Inputs, NEW e \in 1 .. Len(ts)
    PROVE  /\ ReadTo(ts, e + 1) = ReadTo(ts, e) \o <<Kind(ts[e])>>
           /\ Before1(ts, e + 1) = Kind(ts[e]) /\ Kind(ts[e]) \in Texts
           /\ ReadTo(ts, e) \in Seq(Texts)
<1>1. IsSeq(ts)
  BY GrammarAssumption DEF IsSeq
<1>2. Len(ts) \in Nat /\ DOMAIN ts = 1 .. Len(ts)
  BY <1>1 DEF IsSeq
<1>3. e \in 1 .. (Len(ts) + 1) /\ e + 1 \in 1 .. (Len(ts) + 1) /\ e + 1 > 1 /\ (e + 1) - 1 = e
  BY <1>2
<1>4. PICK s, t, k : s = ReadTo(ts, e) /\ t = ReadTo(ts, e + 1) /\ k = Kind(ts[e])
  OBVIOUS
<1>5. /\ s \in Seq(Texts) /\ Len(s) = e - 1 /\ t \in Seq(Texts) /\ Len(t) = e
      /\ Before1(ts, e + 1) = k
  BY <1>3, <1>4, ReadToIs
<1>6. k \in Texts /\ <<k>> \in Seq(Texts)
  BY <1>2, <1>4, KindText
<1>7. \A i \in 1 .. e : t[i] = Kind(ts[i])
  BY <1>3, <1>4 DEF ReadTo
<1>8. \A i \in 1 .. (e - 1) : s[i] = Kind(ts[i])
  BY <1>4 DEF ReadTo
<1>9. PICK f, m, n : f = <<k>> /\ m = Len(s) /\ n = Len(f)
  OBVIOUS
<1>10. m = e - 1 /\ n = 1 /\ f[1] = k /\ f \in Seq(Texts)
  BY <1>5, <1>6, <1>9
<1>11. \A i \in 1 .. Len(s) : t[i] = s[i]
  BY <1>3, <1>5, <1>7, <1>8
<1>12. \A i \in 1 .. Len(f) : t[Len(s) + i] = f[i]
  <2>1. ASSUME NEW i \in 1 .. Len(f) PROVE t[Len(s) + i] = f[i]
    <3>1. i = 1 /\ Len(s) + i = e
      BY <1>2, <1>5, <1>9, <1>10
    <3> QED
      BY <1>2, <1>4, <1>7, <1>10, <3>1
  <2> QED
    BY <2>1
<1>13. Len(t) = Len(s) + Len(f)
  BY <1>5, <1>9, <1>10
<1>14. s \o f = t
  BY <1>5, <1>10, <1>11, <1>12, <1>13, JoinIs
<1> QED
  BY <1>4, <1>5, <1>6, <1>9, <1>14

\* The part on top of the stack, and where it leads.
LEMMA MatchingTop ==
    ASSUME NEW c, NEW p \in Texts, NEW t \in Seq(Texts), NEW y,
           Leads(c, ShownAs(<<p>> \o t), y, <<>>)
    PROVE  \E z \in Stacks : /\ Leads(c, <<Shown(p)>>, y, z)
                             /\ Leads(Shown(p), ShownAs(t), z, <<>>)
<1>1. <<p>> \in Seq(Texts)
  BY Tuple1
<1>2. ShownAs(<<p>> \o t) = <<Shown(p)>> \o ShownAs(t)
  BY <1>1, ShownJoin, ShownOne
<1>3. <<Shown(p)>> \in Seq(Texts) /\ ShownAs(t) \in Seq(Texts)
  BY <1>1, ShownType, ShownOne
<1>4. LastOf(c, <<Shown(p)>>) = Shown(p)
  BY DEF LastOf
<1> QED
  BY <1>2, <1>3, <1>4, LeadsSplit

LEMMA MatchReplaced ==
    ASSUME NEW ts, NEW e, NEW p \in Texts, Shown(p) # "struct", NEW t \in Seq(Texts),
           Matching(ts, e, <<p>> \o t), Before1(ts, e) # "struct",
           NEW v, Replaces(p, v)
    PROVE  Matching(ts, e, v \o t)
<1>1. PICK c : c = Before1(ts, e)
  OBVIOUS
<1>2. PICK y \in Stacks : /\ Leads("begin", ReadTo(ts, e), <<>>, y)
                          /\ Leads(c, ShownAs(<<p>> \o t), y, <<>>)
  BY <1>1 DEF Matching
<1>3. PICK z \in Stacks : /\ Leads(c, <<Shown(p)>>, y, z)
                          /\ Leads(Shown(p), ShownAs(t), z, <<>>)
  BY <1>2, MatchingTop
<1>4. /\ Leads(c, ShownAs(v), y, z) /\ LastOf(c, ShownAs(v)) # "struct"
      /\ v \in Seq(Texts)
  BY <1>1, <1>3 DEF Replaces
<1>5. ShownAs(v) \in Seq(Texts) /\ ShownAs(t) \in Seq(Texts)
  BY <1>4, ShownType
<1>6. Leads(LastOf(c, ShownAs(v)), ShownAs(t), z, <<>>)
  BY <1>3, <1>4, <1>5, LeadsAlike
<1>7. Leads(c, ShownAs(v) \o ShownAs(t), y, <<>>)
  BY <1>4, <1>5, <1>6, LeadsJoin
<1>8. ShownAs(v \o t) = ShownAs(v) \o ShownAs(t)
  BY <1>4, ShownJoin
<1> QED
  BY <1>1, <1>2, <1>7, <1>8 DEF Matching

\* The symbol on top is read.
LEMMA MatchConsumed ==
    ASSUME NEW ts \in Inputs, NEW e \in 1 .. Len(ts), NEW p \in Texts, Shown(p) = Kind(ts[e]),
           NEW t \in Seq(Texts), Matching(ts, e, <<p>> \o t)
    PROVE  Matching(ts, e + 1, t)
<1>1. PICK c, k : c = Before1(ts, e) /\ k = Kind(ts[e])
  OBVIOUS
<1>2. /\ ReadTo(ts, e + 1) = ReadTo(ts, e) \o <<k>> /\ Before1(ts, e + 1) = k
      /\ ReadTo(ts, e) \in Seq(Texts) /\ <<k>> \in Seq(Texts)
  <2>1. k \in Texts
    BY <1>1, ReadToNext
  <2> QED
    BY <1>1, <2>1, ReadToNext, Tuple1
<1>3. PICK y \in Stacks : /\ Leads("begin", ReadTo(ts, e), <<>>, y)
                          /\ Leads(c, ShownAs(<<p>> \o t), y, <<>>)
  BY <1>1 DEF Matching
<1>4. PICK z \in Stacks : Leads(c, <<k>>, y, z) /\ Leads(k, ShownAs(t), z, <<>>)
  BY <1>1, <1>3, MatchingTop
<1>5. Leads("begin", ReadTo(ts, e) \o <<k>>, <<>>, z)
  BY <1>1, <1>2, <1>3, <1>4, LeadsJoin DEF Before1
<1> QED
  BY <1>2, <1>4, <1>5 DEF Matching

\* A symbol is read that is no bracket.
LEMMA MatchPassed ==
    ASSUME NEW ts \in Inputs, NEW e \in 1 .. Len(ts), Kind(ts[e]) \in Inert,
           NEW w \in Seq(Texts), Matching(ts, e, w), Before1(ts, e) # "struct"
    PROVE  Matching(ts, e + 1, w)
<1>1. PICK c, k : c = Before1(ts, e) /\ k = Kind(ts[e])
  OBVIOUS
<1>2. /\ ReadTo(ts, e + 1) = ReadTo(ts, e) \o <<k>> /\ Before1(ts, e + 1) = k
      /\ ReadTo(ts, e) \in Seq(Texts) /\ <<k>> \in Seq(Texts)
  <2>1. k \in Texts
    BY <1>1, ReadToNext
  <2> QED
    BY <1>1, <2>1, ReadToNext, Tuple1
<1>3. PICK y \in Stacks : /\ Leads("begin", ReadTo(ts, e), <<>>, y)
                          /\ Leads(c, ShownAs(w), y, <<>>)
  BY <1>1 DEF Matching
<1>4. k # "struct" /\ Leads(c, <<k>>, y, y)
  <2>1. k \notin Openers \cup Closing /\ k # "struct"
    BY <1>1, InertTexts
  <2>2. Reading(c, k, y) = y
    BY <2>1, Passes, Zenon
  <2>3. Leads(c, <<k>>, y, Reading(c, k, y))
    BY LeadsOne, Zenon
  <2> QED
    BY <2>1, <2>2, <2>3, Zenon
<1>5. Leads("begin", ReadTo(ts, e) \o <<k>>, <<>>, y)
  BY <1>1, <1>2, <1>3, <1>4, LeadsJoin DEF Before1
<1>6. ShownAs(w) \in Seq(Texts)
  BY ShownType
<1>7. Leads(k, ShownAs(w), y, <<>>)
  BY <1>1, <1>3, <1>4, <1>6, LeadsAlike
<1> QED
  BY <1>2, <1>5, <1>7 DEF Matching

----------------------------------------------------------------------------
(* Brackets: the stack                                                     *)

LEMMA Peel ==
    ASSUME NEW S, NEW w \in Seq(S), w # <<>>
    PROVE  /\ w = <<Head(w)>> \o Tail(w) /\ Tail(w) = Rest(w, 1) /\ Tail(w) \in Seq(S)
           /\ Head(w) = w[1] /\ w[1] \in S
<1>1. PICK t, h, n : t = Tail(w) /\ h = <<Head(w)>> /\ n = Len(w)
  OBVIOUS
<1>2. n \in Nat \ {0} /\ t \in Seq(S) /\ Len(t) = n - 1 /\ \A i \in 1 .. Len(t) : t[i] = w[i + 1]
  BY <1>1
<1>3. h \in Seq(S) /\ Len(h) = 1 /\ h[1] = w[1] /\ Head(w) = w[1] /\ w[1] \in S
  BY <1>1
<1>4. h \o t = w
  <2>1. Len(w) = Len(h) + Len(t)
    BY <1>1, <1>2, <1>3
  <2>2. \A i \in 1 .. Len(h) : w[i] = h[i]
    BY <1>3
  <2>3. \A i \in 1 .. Len(t) : w[Len(h) + i] = t[i]
    BY <1>2, <1>3
  <2> QED
    BY <1>2, <1>3, <2>1, <2>2, <2>3, JoinIs
<1>5. t = SubSeq(w, 1 + 1, Len(w))
  BY <1>1, <1>2
<1> QED
  BY <1>1, <1>2, <1>3, <1>4, <1>5 DEF Rest

LEMMA RestIs ==
    ASSUME NEW S, NEW w \in Seq(S), NEW k \in 0 .. Len(w)
    PROVE  /\ Rest(w, k) \in Seq(S) /\ Len(Rest(w, k)) = Len(w) - k
           /\ \A i \in 1 .. (Len(w) - k) : Rest(w, k)[i] = w[k + i]
<1>1. PICK t : t = SubSeq(w, k + 1, Len(w))
  OBVIOUS
<1>2. t \in Seq(S) /\ Len(t) = Len(w) - k /\ \A i \in 1 .. (Len(w) - k) : t[i] = w[k + i]
  BY <1>1
<1> QED
  BY <1>1, <1>2 DEF Rest

LEMMA BottomRest ==
    ASSUME NEW S, NEW w \in Seq(S), NEW k \in 0 .. Len(w), Bottom(w) PROVE Bottom(Rest(w, k))
<1>1. PICK t, m, n : t = Rest(w, k) /\ m = Len(t) /\ n = Len(w)
  OBVIOUS
<1>2. /\ n \in Nat /\ m = n - k /\ DOMAIN w = 1 .. n /\ DOMAIN t = 1 .. m
      /\ \A i \in 1 .. m : t[i] = w[k + i]
  <2>1. /\ Rest(w, k) \in Seq(S) /\ Len(Rest(w, k)) = Len(w) - k
        /\ \A i \in 1 .. (Len(w) - k) : Rest(w, k)[i] = w[k + i]
    BY RestIs, Zenon
  <2>2. t \in Seq(S) /\ m = n - k /\ \A i \in 1 .. (n - k) : t[i] = w[k + i]
    BY <1>1, <2>1, Zenon
  <2>3. n \in Nat /\ DOMAIN w = 1 .. n
    BY <1>1
  <2>4. DOMAIN t = 1 .. m
    <3>1. t \in Seq(S) /\ m = Len(t)
      BY <1>1, <2>2, Zenon
    <3> QED
      BY <3>1
  <2> QED
    BY <2>2, <2>3, <2>4
<1>3. \A i \in 1 .. n : /\ w[i] = "<file>" => i = n
                        /\ w[i] \in OpenTypes => i + 1 = n /\ w[i + 1] = "<file>"
  BY <1>1, <1>2 DEF Bottom
<1>4. ASSUME NEW i \in 1 .. m
      PROVE  /\ t[i] = "<file>" => i = m
             /\ t[i] \in OpenTypes => i + 1 = m /\ t[i + 1] = "<file>"
  <2>1. PICK j : j = k + i
    OBVIOUS
  <2>2. j \in 1 .. n /\ t[i] = w[j] /\ (i = m <=> j = n) /\ (i + 1 = m <=> j + 1 = n)
    BY <1>2, <2>1
  <2>3. i + 1 = m => t[i + 1] = w[j + 1]
    BY <1>2, <2>1, <2>2
  <2> QED
    BY <1>3, <2>2, <2>3
<1> QED
  BY <1>1, <1>2, <1>4 DEF Bottom

LEMMA BottomTail ==
    ASSUME NEW S, NEW w \in Seq(S), w # <<>>, Bottom(w) PROVE Bottom(Tail(w))
<1>1. 1 \in 0 .. Len(w)
  OBVIOUS
<1> QED
  BY <1>1, Peel, BottomRest

LEMMA BottomJoin ==
    ASSUME NEW u \in Seq(Texts \ Items), NEW t \in Seq(Texts), Bottom(t)
    PROVE  Bottom(u \o t)
<1>1. PICK w, m, n : w = u \o t /\ m = Len(u) /\ n = Len(t)
  OBVIOUS
<1>2. u \in Seq(Texts) /\ m \in Nat /\ n \in Nat
  BY <1>1
<1>3. /\ w \in Seq(Texts) /\ Len(w) = m + n /\ DOMAIN w = 1 .. (m + n)
      /\ \A i \in 1 .. m : w[i] = u[i]
      /\ \A i \in (m + 1) .. (m + n) : w[i] = t[i - m]
  BY <1>1, <1>2
<1>4. \A i \in 1 .. m : w[i] # "<file>" /\ w[i] \notin OpenTypes
  <2>1. \A i \in 1 .. m : w[i] \notin Items
    BY <1>1, <1>2, <1>3
  <2> QED
    BY <2>1 DEF Items, OpenTypes
<1>5. \A i \in 1 .. n : /\ t[i] = "<file>" => i = n
                        /\ t[i] \in OpenTypes => i + 1 = n /\ t[i + 1] = "<file>"
  BY <1>1 DEF Bottom
<1>6. ASSUME NEW i \in 1 .. (m + n)
      PROVE  /\ w[i] = "<file>" => i = m + n
             /\ w[i] \in OpenTypes => i + 1 = m + n /\ w[i + 1] = "<file>"
  <2>1. CASE i <= m
    BY <1>2, <1>4, <2>1
  <2>2. CASE m < i
    <3>1. PICK j : j = i - m
      OBVIOUS
    <3>2. j \in 1 .. n /\ w[i] = t[j] /\ (j = n <=> i = m + n) /\ (j + 1 = n <=> i + 1 = m + n)
      BY <1>2, <1>3, <2>2, <3>1
    <3>3. j + 1 = n => w[i + 1] = t[j + 1]
      BY <1>2, <1>3, <2>2, <3>1, <3>2
    <3> QED
      BY <1>5, <3>2, <3>3
  <2> QED
    BY <1>2, <2>1, <2>2
<1> QED
  BY <1>1, <1>3, <1>6 DEF Bottom

\* What follows "<again>" stays when the top is replaced.
LEMMA CaughtRest ==
    ASSUME NEW S, NEW w \in Seq(S), w # <<>>, NEW T, NEW v \in Seq(T), "<again>" \notin T,
           NEW k \in DOMAIN (v \o Tail(w)), (v \o Tail(w))[k] = "<again>"
    PROVE  \E i \in DOMAIN w : w[i] = "<again>" /\ Rest(w, i) = Rest(v \o Tail(w), k)
<1>1. PICK t, u, l, m, n : t = Tail(w) /\ u = v \o t /\ l = Len(v) /\ m = Len(t) /\ n = Len(w)
  OBVIOUS
<1>2. /\ t \in Seq(S) /\ m = n - 1 /\ n \in Nat \ {0} /\ DOMAIN w = 1 .. n
      /\ \A i \in 1 .. m : t[i] = w[i + 1]
  BY <1>1
<1>3. l \in Nat /\ \A i \in 1 .. l : v[i] \in T
  BY <1>1
<1>4. PICK U : U = S \cup T
  OBVIOUS
<1>5. t \in Seq(U) /\ v \in Seq(U) /\ w \in Seq(U)
  BY <1>2, <1>4
<1>6. /\ u \in Seq(U) /\ Len(u) = l + m /\ DOMAIN u = 1 .. (l + m)
      /\ \A i \in 1 .. l : u[i] = v[i]
      /\ \A i \in (l + 1) .. (l + m) : u[i] = t[i - l]
  BY <1>1, <1>5, Concatenated
<1>7. k \in DOMAIN u /\ u[k] = "<again>"
  BY <1>1
<1>8. k \in (l + 1) .. (l + m)
  BY <1>2, <1>3, <1>6, <1>7
<1>9. PICK j : j = (k - l) + 1
  OBVIOUS
<1>10. j \in 1 .. n /\ w[j] = "<again>"
  <2>1. k - l \in 1 .. m /\ (k - l) + 1 \in 1 .. n
    BY <1>2, <1>3, <1>8
  <2>2. u[k] = t[k - l] /\ t[k - l] = w[(k - l) + 1]
    BY <1>2, <1>6, <1>8, <2>1, Zenon
  <2> QED
    BY <1>7, <1>9, <2>1, <2>2, Zenon
<1>11. PICK a, b, d : a = Rest(w, j) /\ b = Rest(u, k) /\ d = n - j
  OBVIOUS
<1>12. j \in 0 .. Len(w) /\ k \in 0 .. Len(u)
  BY <1>1, <1>3, <1>6, <1>8, <1>10
<1>13. /\ a \in Seq(U) /\ Len(a) = n - j /\ \A i \in 1 .. (n - j) : a[i] = w[j + i]
       /\ b \in Seq(U) /\ Len(b) = (l + m) - k /\ \A i \in 1 .. ((l + m) - k) : b[i] = u[k + i]
  <2>1. /\ Rest(w, j) \in Seq(U) /\ Len(Rest(w, j)) = Len(w) - j
        /\ \A i \in 1 .. (Len(w) - j) : Rest(w, j)[i] = w[j + i]
    <3>1. w \in Seq(U) /\ j \in 0 .. Len(w)
      BY <1>5, <1>12
    <3> QED
      BY <3>1, RestIs, Zenon
  <2>2. /\ Rest(u, k) \in Seq(U) /\ Len(Rest(u, k)) = Len(u) - k
        /\ \A i \in 1 .. (Len(u) - k) : Rest(u, k)[i] = u[k + i]
    <3>1. u \in Seq(U) /\ k \in 0 .. Len(u)
      BY <1>6, <1>12
    <3> QED
      BY <3>1, RestIs, Zenon
  <2> QED
    BY <1>1, <1>6, <1>11, <2>1, <2>2
<1>14. (l + m) - k = d /\ d \in Nat
  BY <1>2, <1>3, <1>9, <1>10, <1>11
<1>15. \A i \in 1 .. d : a[i] = b[i]
  <2>1. ASSUME NEW i \in 1 .. d PROVE a[i] = b[i]
    <3>1. a[i] = w[j + i] /\ b[i] = u[k + i]
      BY <1>11, <1>13, <1>14
    <3>2. k + i \in (l + 1) .. (l + m) /\ (k + i) - l \in 1 .. m /\ ((k + i) - l) + 1 = j + i
      BY <1>2, <1>3, <1>8, <1>9, <1>14
    <3>3. u[k + i] = w[((k + i) - l) + 1]
      BY <1>2, <1>6, <3>2
    <3> QED
      BY <3>1, <3>2, <3>3
  <2> QED
    BY <2>1
<1>16. a = b
  <2>1. a \in Seq(U) /\ b \in Seq(U) /\ Len(a) = d /\ Len(b) = d
    BY <1>11, <1>13, <1>14
  <2>2. Len(a) = Len(b) /\ \A i \in 1 .. Len(a) : a[i] = b[i]
    BY <1>15, <2>1
  <2> QED
    BY <2>1, <2>2, SeqEqual, Zenon
<1> QED
  BY <1>1, <1>2, <1>10, <1>11, <1>16

----------------------------------------------------------------------------
(* Brackets: what every step keeps                                         *)

LEMMA Stacked ==
    ASSUME GrammarInv, Running
    PROVE  /\ want \in Seq(Texts) /\ want # <<>> /\ want = <<Part>> \o Tail(want)
           /\ Tail(want) \in Seq(Texts) /\ Part \in Texts /\ Part = want[1]
           /\ tokens \in Inputs /\ want \in Seq(Symbols)
<1>1. want \in Seq(Symbols) /\ want # <<>> /\ tokens \in Inputs
  BY Facts DEF WantTyped
<1>2. want \in Seq(Texts)
  BY <1>1, TextsAre, SeqIn
<1> QED
  BY <1>1, <1>2, Peel DEF Part

LEMMA Uncut ==
    ASSUME BracketInv, want # <<>>, Part # "<file>" PROVE Matching(tokens, pos, want)
<1>1. want # <<"<file>">>
  BY DEF Part
<1> QED
  BY <1>1 DEF BracketInv, CutOff

LEMMA Unheaded ==
    ASSUME GrammarInv, BracketInv, Running, Part # "[" PROVE Before1(tokens, pos) # "struct"
BY Stacked DEF BracketInv, Headed

\* The top of the stack is replaced, and the place a reference goes back to stays.
LEMMA BracketStep ==
    ASSUME GrammarInv, BracketInv, Running, tokens' = tokens, saved' = saved,
           NEW T, NEW v \in Seq(T), "<again>" \notin T, want' = v \o Tail(want),
           Matching(tokens, pos', want') \/ CutOff(tokens, pos', want'),
           Bottom(want'), Headed(tokens, pos', want')
    PROVE  BracketInv'
<1>1. PICK u, p : u = want' /\ p = pos'
  OBVIOUS
<1>2. ASSUME NEW k \in DOMAIN u, u[k] = "<again>" PROVE Resumes(tokens, saved.pos, Rest(u, k))
  <2>1. PICK i \in DOMAIN want : want[i] = "<again>" /\ Rest(want, i) = Rest(u, k)
    BY <1>1, <1>2, Stacked, CaughtRest
  <2> QED
    BY <2>1 DEF BracketInv
<1>3. /\ Matching(tokens, p, u) \/ CutOff(tokens, p, u)
      /\ Bottom(u) /\ Headed(tokens, p, u)
      /\ \A k \in DOMAIN u : u[k] = "<again>" => Resumes(tokens, saved.pos, Rest(u, k))
  BY <1>1, <1>2
<1> QED
  BY <1>1, <1>3 DEF BracketInv

LEMMA InertTokens ==
    /\ {"name", "int", "char", "true", "false", "this", "<again>"} \subseteq Inert
    /\ \A s \in ListWords : s \in Inert
    /\ \A s \in Inert : s # "struct" /\ s # "<file>" /\ Shown(s) = s
<1>1. \A s \in {"name", "int", "char", "true", "false", "this", "<again>"} :
        s \notin Openers \cup Closing
  BY Zenon DEF Openers, Closing
<1>2. {"true", "false", "this"} \subseteq Keywords
  BY DEF Keywords, LoadKeywords, JumpKeywords, ClassModifiers
<1>3. {"name", "int", "char", "true", "false", "this", "<again>"} \subseteq Texts
  BY <1>2, TextsAre, AgainSymbol DEF Forms, Symbols
<1>4. {"name", "int", "char", "true", "false", "this", "<again>"} \subseteq Inert
  BY <1>1, <1>3 DEF Inert, OpenBodies
<1>5. \A l \in AttrLists :
        Modifiers[l] \subseteq ClassModifiers \cup StructModifiers \cup MethodModifiers
  BY ListSymbols DEF AttrLists, Modifiers, InterfaceModifiers, FieldModifiers,
                     ClassModifiers, StructModifiers, MethodModifiers
<1>6. ListWords \subseteq ClassModifiers \cup StructModifiers \cup MethodModifiers
  BY <1>5 DEF ListWords
<1>7. \A s \in ClassModifiers \cup StructModifiers \cup MethodModifiers :
        s \notin Openers \cup Closing
  BY Zenon DEF ClassModifiers, StructModifiers, MethodModifiers, Visibility,
               CallConventions, Openers, Closing
<1>8. \A s \in ClassModifiers \cup StructModifiers \cup MethodModifiers :
        s \notin OpenBodies \cup {"<file>", "struct"}
  BY DEF ClassModifiers, StructModifiers, MethodModifiers, Visibility, CallConventions,
         OpenBodies
<1>9. \A s \in ListWords : s \in Texts
  BY ListWordsAre, TextsAre DEF Symbols
<1>10. \A s \in ListWords : s \in Inert
  BY <1>6, <1>7, <1>8, <1>9 DEF Inert
<1> QED
  BY <1>4, <1>10, InertTexts DEF Inert

\* A token that is no bracket is read for the part on top, or in it.
LEMMA BracketReads ==
    ASSUME GrammarInv, BracketInv, Running, ~AtEnd, Token \in Inert, Part \in Inert,
           Part # "[", tokens' = tokens, saved' = saved, pos' = pos + 1,
           want' = Tail(want) \/ want' = want
    PROVE  BracketInv'
<1>1. /\ want \in Seq(Texts) /\ want # <<>> /\ want = <<Part>> \o Tail(want)
      /\ Tail(want) \in Seq(Texts) /\ Part \in Texts /\ tokens \in Inputs
      /\ Part = want[1] /\ want \in Seq(Symbols)
  BY Stacked
<1>2. /\ Token = Kind(tokens[pos]) /\ pos \in 1 .. Len(tokens)
  <2>1. pos \in Nat \ {0} /\ Len(tokens) \in Nat /\ pos <= Len(tokens)
    BY Facts, Positions
  <2> QED
    BY <2>1, TokenIs
<1>3. Part # "<file>" /\ Shown(Part) # "struct"
  BY InertTokens
<1>4. Matching(tokens, pos, want) /\ Before1(tokens, pos) # "struct"
  BY <1>1, <1>3, Uncut, Unheaded
<1>5. Before1(tokens, pos') # "struct"
  BY <1>2, <1>1, InertTokens, ReadToNext
<1>6. Headed(tokens, pos', want')
  BY <1>5 DEF Headed
<1>7. Bottom(want) /\ Bottom(Tail(want))
  BY <1>1, BottomTail DEF BracketInv
<1>8. CASE want' = Tail(want)
  <2>1. Even(<<>>) /\ <<>> \o Tail(want) = Tail(want) /\ <<>> \in Seq({})
    <3>1. <<>> \in Seq(Inert)
      OBVIOUS
    <3> QED
      BY <1>1, <3>1, EvenInert, TailIs
  <2>2. Matching(tokens, pos, Tail(want))
    BY <1>1, <1>3, <1>4, <2>1, ReplacesEven, MatchReplaced
  <2>3. Matching(tokens, pos', want')
    BY <1>1, <1>2, <1>4, <1>8, <2>2, MatchPassed
  <2> QED
    BY <1>6, <1>7, <1>8, <2>1, <2>3, BracketStep
<1>9. CASE want' = want
  <2>1. Matching(tokens, pos', want)
    BY <1>1, <1>2, <1>4, MatchPassed
  <2>2. \A k \in DOMAIN want : want[k] = "<again>" => Resumes(tokens, saved.pos, Rest(want, k))
    BY DEF BracketInv
  <2> QED
    BY <1>6, <1>7, <1>9, <2>1, <2>2 DEF BracketInv
<1> QED
  BY <1>8, <1>9

\* The part on top becomes another text.
LEMMA BracketTurns ==
    ASSUME GrammarInv, BracketInv, Running, Matching(tokens, pos, want),
           Part \notin {"[", "struct"}, NEW v, Replaces(Part, v),
           tokens' = tokens, saved' = saved, pos' = pos, want' = v \o Tail(want),
           Bottom(want'), \A i \in DOMAIN v : v[i] # "<again>"
    PROVE  BracketInv'
<1>1. /\ want \in Seq(Texts) /\ want # <<>> /\ want = <<Part>> \o Tail(want)
      /\ Tail(want) \in Seq(Texts) /\ Part \in Texts
  BY Stacked
<1>2. Before1(tokens, pos) # "struct"
  BY Unheaded
<1>3. Shown(Part) # "struct"
  BY DEF Shown
<1>4. Matching(tokens, pos', want')
  BY <1>1, <1>2, <1>3, MatchReplaced
<1>5. v \in Seq(Texts \ {"<again>"})
  <2>1. v \in Seq(Texts)
    BY DEF Replaces
  <2>2. \A i \in 1 .. Len(v) : v[i] \in Texts \ {"<again>"}
    BY <2>1
  <2> QED
    BY <2>1, <2>2, Within
<1>6. "<again>" \notin Texts \ {"<again>"}
  OBVIOUS
<1> QED
  BY <1>2, <1>4, <1>5, <1>6, BracketStep DEF Headed

----------------------------------------------------------------------------
(* Brackets: the steps                                                     *)

\* The end of the file was read: only the end is left to find.
LEMMA AtTheEnd ==
    ASSUME GrammarInv, Running, CutOff(tokens, pos, want)
    PROVE  AtEnd /\ Token = "eof" /\ Part = "<file>" /\ want = <<"<file>">>
<1>1. want # <<>> /\ pos > Len(tokens)
  BY DEF Running, CutOff
<1>2. want = <<"<file>">>
  BY <1>1 DEF CutOff
<1> QED
  BY <1>1, <1>2, EndIs DEF AtEnd, Part

\* Only the keyword of a struct stands before the bracket of its header.
LEMMA BehindStruct ==
    ASSUME GrammarInv, Running, Part = "struct"
    PROVE  Tail(want) # <<>> /\ Tail(want)[1] = "["
<1>1. Part = want[1] /\ want \in Seq(Symbols) /\ want # <<>>
  BY Stacked
<1>2. "struct" \in ItemKeywords
  BY DEF ItemKeywords, TypeKeywords
<1>3. Part \notin Ordinary \cup TypeSymbols \cup AttrLists \cup {"[", "<again>"} \cup Closers
  <2>1. "[" \in Ordinary /\ Closers \subseteq Ordinary
    <3>1. Closers \subseteq Special /\ "[" \in Special
      BY HeaderSorts
    <3> QED
      BY <3>1, SpecialOrdinary
  <2>2. "struct" \notin AttrLists /\ "struct" # "<again>"
    BY <1>2, Sorts
  <2>3. "struct" \notin Ordinary
    BY <1>2 DEF Ordinary
  <2> QED
    BY <2>1, <2>2, <2>3, TypeSymbolsOrdinary
<1>4. AtKeyword
  <2>1. ~Between /\ ~ListRead
    BY <1>1, <1>3 DEF Between, ListRead
  <2>2. ~InList
    BY <1>1, <1>3 DEF InList, HeadAt
  <2>3. ~AtBracket
    BY <1>1, <1>3 DEF AtBracket, HeadAt
  <2>4. ~Trying
    BY <1>1, <1>3, Surface
  <2> QED
    BY <2>1, <2>2, <2>3, <2>4 DEF GrammarInv, Stage
<1>5. 3 < Len(want) /\ want[2] = "["
  <2>1. HeadAt(want, 3) /\ 3 > 1 /\ 3 - 1 = 2
    BY <1>4 DEF AtKeyword
  <2> QED
    BY <2>1 DEF HeadAt
<1> QED
  BY <1>1, <1>5

LEMMA TakeBrackets == ASSUME GrammarInv, BracketInv, Take PROVE BracketInv'
<1>1. Running /\ Token = Part /\ pos' = pos + 1 /\ want' = Tail(want) /\ tokens' = tokens
        /\ saved' = saved
  BY DEF Take
<1>2. /\ want \in Seq(Texts) /\ want # <<>> /\ want = <<Part>> \o Tail(want)
      /\ Tail(want) \in Seq(Texts) /\ Part \in Texts /\ tokens \in Inputs /\ Part \in Symbols
      /\ want \in Seq(Symbols)
  BY <1>1, Stacked, Facts
<1>3. ~AtEnd
  BY <1>1, <1>2, EndIs, EofIs
<1>4. Token = Kind(tokens[pos]) /\ pos \in 1 .. Len(tokens) /\ Part \notin Parts
  <2>1. pos \in Nat \ {0} /\ Len(tokens) \in Nat /\ pos <= Len(tokens)
    BY <1>1, <1>3, Facts, Positions
  <2> QED
    BY <1>1, <1>3, <2>1, TokenIs
<1>5. Part # "<file>" /\ Shown(Part) = Part
  <2>1. OpenBodies \cup {"<file>"} \subseteq Parts
    BY DEF OpenBodies, Parts, OtherParts
  <2> QED
    BY <1>4, <2>1 DEF Shown
<1>6. Matching(tokens, pos', want')
  <2>1. Matching(tokens, pos, <<Part>> \o Tail(want)) /\ Shown(Part) = Kind(tokens[pos])
    BY <1>1, <1>2, <1>4, <1>5, Uncut
  <2> QED
    BY <1>1, <1>2, <1>4, <2>1, MatchConsumed
<1>7. Headed(tokens, pos', want')
  <2>1. Before1(tokens, pos') = Part
    BY <1>1, <1>2, <1>4, ReadToNext
  <2> QED
    BY <1>1, <2>1, BehindStruct DEF Headed
<1>8. Bottom(want')
  BY <1>1, <1>2, BottomTail DEF BracketInv
<1>9. want' = <<>> \o Tail(want) /\ <<>> \in Seq({})
  BY <1>1, <1>2, TailIs
<1> QED
  BY <1>1, <1>6, <1>7, <1>8, <1>9, BracketStep

\* The parts that stand for the end of a body, or of the file, stand for no other.
LEMMA InertPart ==
    ASSUME NEW p \in Nonterminals \cup AttrLists, p \notin Items \cup {"<statements>"}
    PROVE  p \in Inert /\ p \notin {"[", "struct", "<file>"}
<1>1. p \in Inert
  BY InertSymbols
<1>2. p # "["
  BY TypesBeginNothing
<1> QED
  BY <1>1, <1>2, InertTokens

LEMMA BracketDrops ==
    ASSUME GrammarInv, BracketInv, Running, Part \in Nonterminals \cup AttrLists,
           Part \notin Items \cup {"<statements>"},
           tokens' = tokens, saved' = saved, pos' = pos, want' = Tail(want)
    PROVE  BracketInv'
<1>1. Part \in Inert /\ Part \notin {"[", "struct", "<file>"}
  BY InertPart
<1>2. want \in Seq(Texts) /\ want # <<>>
  BY Stacked
<1>3. Matching(tokens, pos, want)
  BY <1>1, <1>2, Uncut
<1>4. want' = <<>> \o Tail(want) /\ Replaces(Part, <<>>)
  <2>1. <<>> \in Seq(Inert)
    OBVIOUS
  <2> QED
    BY <1>1, <1>2, <2>1, TailIs, EvenInert, ReplacesEven
<1>5. Bottom(want')
  BY <1>2, BottomTail DEF BracketInv
<1>6. \A i \in DOMAIN <<>> : <<>>[i] # "<again>"
  OBVIOUS
<1> QED
  BY <1>1, <1>3, <1>4, <1>5, <1>6, BracketTurns

LEMMA SkipBrackets == ASSUME GrammarInv, BracketInv, Skip PROVE BracketInv'
<1>1. Running /\ Part \in Skippable
  BY DEF Skip
<1>2. Part \in Nonterminals
  BY <1>1, SortsOfParts
<1>3. Part \notin Items \cup {"<statements>"}
  BY <1>1 DEF Skippable, Items
<1> QED
  BY <1>1, <1>2, <1>3, BracketDrops DEF Skip

LEMMA EndAttrBrackets == ASSUME GrammarInv, BracketInv, EndAttr PROVE BracketInv'
<1>1. Part \notin Items \cup {"<statements>"}
  BY ListSymbols DEF EndAttr, Items
<1> QED
  BY <1>1, BracketDrops DEF EndAttr

\* A token that is no bracket is read for a part that is no body.
LEMMA ReadBrackets ==
    ASSUME GrammarInv, BracketInv, Running, Token \in Inert, Part \in Nonterminals \cup AttrLists,
           Part \notin Items \cup {"<statements>"}, tokens' = tokens, saved' = saved,
           pos' = pos + 1, want' = Tail(want) \/ want' = want
    PROVE  BracketInv'
<1>1. Part \in Inert /\ Part # "["
  BY InertPart
<1>2. ~AtEnd
  <2>1. "eof" \notin Texts
    BY EofIs DEF Texts
  <2> QED
    BY <2>1, EndIs, InertTexts
<1> QED
  BY <1>1, <1>2, BracketReads

LEMMA ReadPartsNoBody ==
    \A p \in {"<name>", "<type_generics>", "<method_generics>", "<type>", "<u32>", "<u64>",
              "<content>", "<negated>"} : p \in Nonterminals /\ p \notin Items \cup {"<statements>"}
BY ReadParts DEF Items

LEMMA TakeNameBrackets == ASSUME GrammarInv, BracketInv, TakeName PROVE BracketInv'
BY ReadPartsNoBody, InertTokens, ReadBrackets DEF TakeName

LEMMA DeclareGenericBrackets ==
    ASSUME GrammarInv, BracketInv, DeclareGeneric PROVE BracketInv'
BY ReadPartsNoBody, InertTokens, ReadBrackets DEF DeclareGeneric, DeclaresGeneric

LEMMA ResolveGenericBrackets ==
    ASSUME GrammarInv, BracketInv, ResolveGeneric PROVE BracketInv'
BY ReadPartsNoBody, InertTokens, ReadBrackets DEF ResolveGeneric, InScope

LEMMA TakeIntegerBrackets == ASSUME GrammarInv, BracketInv, TakeInteger PROVE BracketInv'
BY ReadPartsNoBody, InertTokens, ReadBrackets DEF TakeInteger

LEMMA TakeConstantBrackets == ASSUME GrammarInv, BracketInv, TakeConstant PROVE BracketInv'
<1>1. Running /\ Part \in {"<content>", "<negated>"}
  BY DEF TakeConstant, IsConstant
<1>2. \/ Form \in {"int", "string", "char"}
      \/ Token \in {"true", "false", "this"}
  BY DEF TakeConstant, IsConstant, NumberOrTruth
<1>3. Token \in {"int", "name", "char", "true", "false", "this"}
  <2>1. Form \in {"int", "string", "char"} => ~AtEnd
    BY EndIs
  <2>2. Form \in {"int", "string", "char"} => Token \in {"int", "name", "char"}
    BY <1>1, <2>1, TokenIs DEF Kind
  <2> QED
    BY <1>2, <2>2
<1> QED
  BY <1>1, <1>3, ReadPartsNoBody, InertTokens, ReadBrackets DEF TakeConstant

LEMMA AttrBrackets ==
    ASSUME GrammarInv, BracketInv, AttrModifier \/ AttrInteger PROVE BracketInv'
<1>1. /\ Running /\ Part \in AttrLists /\ (Token \in Modifiers[Part] \/ Form = "int")
      /\ pos' = pos + 1 /\ want' = want /\ tokens' = tokens /\ saved' = saved
  BY DEF AttrModifier, AttrInteger
<1>2. Token \in Inert
  <2>1. CASE Token \in Modifiers[Part]
    BY <1>1, <2>1, InertTokens DEF ListWords
  <2>2. CASE Form = "int"
    <3>1. ~AtEnd
      BY <2>2, EndIs
    <3>2. Token = "int"
      BY <1>1, <2>2, <3>1, TokenIs, IntKind
    <3> QED
      BY <3>2, InertTokens
  <2> QED
    BY <1>1, <2>1, <2>2
<1>3. Part \notin Items \cup {"<statements>"}
  BY <1>1, ListSymbols DEF Items
<1> QED
  BY <1>1, <1>2, <1>3, ReadBrackets

LEMMA NextReferenceBrackets ==
    ASSUME GrammarInv, BracketInv, NextReference PROVE BracketInv'
<1>1. /\ Running /\ Part = "<again>" /\ want' = <<"<references>">> \o Tail(want)
      /\ tokens' = tokens /\ saved' = saved /\ pos' = pos
  BY DEF NextReference
<1>2. Part \in Inert /\ Part \notin {"[", "struct", "<file>"}
  <2>1. "<again>" # "["
    BY Sorts
  <2> QED
    BY <1>1, <2>1, InertTokens
<1>3. want \in Seq(Texts) /\ want # <<>> /\ Tail(want) \in Seq(Texts)
  BY <1>1, Stacked
<1>4. Matching(tokens, pos, want)
  BY <1>2, <1>3, Uncut
<1>5. <<"<references>">> \in Seq(Texts \ Items) /\ Replaces(Part, <<"<references>">>)
  <2>1. "<references>" \in Inert
    BY InertParts
  <2>2. Closed(<<"<references>">>)
    BY <2>1, ClosedOne
  <2> QED
    BY <1>2, <2>2, ReplacesEven DEF Closed
<1>6. Bottom(want')
  BY <1>1, <1>3, <1>5, BottomTail, BottomJoin DEF BracketInv
<1>7. \A i \in DOMAIN <<"<references>">> : <<"<references>">>[i] # "<again>"
  OBVIOUS
<1> QED
  BY <1>1, <1>2, <1>4, <1>5, <1>6, <1>7, BracketTurns

\* A stop changes nothing that is read or asked for.
LEMMA StopBrackets ==
    ASSUME BracketInv, UNCHANGED <<tokens, pos, want, saved>> PROVE BracketInv'
BY Zenon DEF BracketInv

LEMMA Single ==
    ASSUME NEW S, NEW w \in Seq(S), 1 = Len(w) PROVE Tail(w) = <<>> /\ w = <<w[1]>>
<1>1. PICK t : t = Tail(w)
  OBVIOUS
<1>2. w # <<>> /\ w = <<w[1]>>
  OBVIOUS
<1>3. Tail(w) \in Seq(S) /\ Len(Tail(w)) = Len(w) - 1
  BY <1>2, HeadTailProperties
<1>4. t \in Seq(S) /\ Len(t) = 0
  BY <1>1, <1>3
<1>5. t = <<>>
  BY <1>4
<1> QED
  BY <1>1, <1>2, <1>5

LEMMA FinishBrackets == ASSUME GrammarInv, BracketInv, Finish PROVE BracketInv'
<1>1. /\ Running /\ Part = "<file>" /\ AtEnd /\ want' = <<>>
      /\ tokens' = tokens /\ saved' = saved /\ pos' = pos
  BY DEF Finish
<1>2. /\ want \in Seq(Texts) /\ want # <<>> /\ want = <<Part>> \o Tail(want) /\ Part = want[1]
      /\ Tail(want) \in Seq(Texts) /\ Part \in Texts
  BY <1>1, Stacked
<1>3. want = <<"<file>">> /\ Tail(want) = <<>>
  <2>1. 1 \in DOMAIN want
    BY <1>2
  <2>2. 1 = Len(want)
    BY <1>1, <1>2, <2>1 DEF BracketInv, Bottom
  <2>3. Tail(want) = <<>> /\ want = <<want[1]>>
    BY <1>2, <2>2, Single
  <2> QED
    BY <1>1, <1>2, <2>3
<1>4. Before1(tokens, pos) # "struct"
  <2>1. "<file>" # "["
    OBVIOUS
  <2> QED
    BY <1>1, <2>1, Unheaded
<1>5. ASSUME Matching(tokens, pos, want) PROVE Matching(tokens, pos, <<>>)
  <2>1. Replaces("<file>", <<>>)
    <3>1. \A c, x, y : Leads(c, <<"<file>">>, x, y) => Leads(c, <<>>, x, y)
      <4>1. \A c, x : Reading(c, "<file>", x) = x
        BY Passes DEF Openers, Closing
      <4> QED
        BY <4>1, LeadsOnlyOne, LeadsNowhere
    <3>2. Shown("<file>") = "<file>"
      BY DEF Shown, OpenBodies
    <3>3. ShownAs(<<>>) = <<>>
      BY DEF ShownAs
    <3>4. \A c : LastOf(c, <<>>) = c
      BY DEF LastOf
    <3> QED
      BY <3>1, <3>2, <3>3, <3>4 DEF Replaces
  <2>2. Matching(tokens, pos, <<>> \o <<>>)
    <3>1. Shown("<file>") # "struct"
      BY DEF Shown, OpenBodies
    <3>2. Matching(tokens, pos, <<"<file>">> \o Tail(want))
      BY <1>1, <1>2, <1>5
    <3> QED
      BY <1>1, <1>2, <1>3, <1>4, <2>1, <3>1, <3>2, MatchReplaced
  <2>3. <<>> \o <<>> = <<>>
    OBVIOUS
  <2> QED
    BY <2>2, <2>3
<1>6. ASSUME CutOff(tokens, pos, want) PROVE CutOff(tokens, pos, <<>>)
  BY <1>6 DEF CutOff
<1>7. Matching(tokens, pos, <<>>) \/ CutOff(tokens, pos, <<>>)
  BY <1>5, <1>6 DEF BracketInv
<1>8. Bottom(<<>>) /\ Headed(tokens, pos, <<>>)
  BY <1>4 DEF Bottom, Headed
<1>9. PICK u : u = want'
  OBVIOUS
<1>10. \A k \in DOMAIN u : FALSE
  BY <1>1, <1>9
<1> QED
  BY <1>1, <1>7, <1>8, <1>9, <1>10 DEF BracketInv

LEMMA TailOfTwo ==
    ASSUME NEW S, NEW s \in Seq(S), Len(s) = 2
    PROVE  Tail(s) \in Seq(S) /\ Len(Tail(s)) = 1 /\ Tail(s)[1] = s[2]
<1>1. PICK t, n : t = Tail(s) /\ n = Len(s)
  OBVIOUS
<1>2. s # <<>>
  OBVIOUS
<1>3. t \in Seq(S) /\ Len(t) = n - 1 /\ \A i \in 1 .. Len(t) : t[i] = s[i + 1]
  BY <1>1, <1>2
<1>4. n - 1 = 1 /\ 1 \in 1 .. 1 /\ 1 + 1 = 2
  BY <1>1
<1>5. Len(t) = 1 /\ t[1] = s[2]
  BY <1>3, <1>4, Zenon
<1> QED
  BY <1>1, <1>3, <1>5, Zenon

\* The end of the file ends the items of the last type.
LEMMA EndOfFileInTypeBrackets ==
    ASSUME GrammarInv, BracketInv, EndOfFileInType PROVE BracketInv'
<1>1. /\ Running /\ Part \in OpenTypes /\ AtEnd /\ want' = Tail(want)
      /\ tokens' = tokens /\ saved' = saved /\ pos' = pos
  BY DEF EndOfFileInType, AfterLoop
<1>2. /\ want \in Seq(Texts) /\ want # <<>> /\ want = <<Part>> \o Tail(want) /\ Part = want[1]
      /\ Tail(want) \in Seq(Texts) /\ Part \in Texts /\ tokens \in Inputs
  BY <1>1, Stacked
<1>3. Part # "<file>" /\ Part # "[" /\ Shown(Part) = "}"
  BY <1>1, Bodies DEF OpenTypes
<1>4. Matching(tokens, pos, want) /\ Before1(tokens, pos) # "struct"
  BY <1>1, <1>2, <1>3, Uncut, Unheaded
<1>5. Tail(want) = <<"<file>">>
  <2>1. 1 + 1 = Len(want) /\ want[1 + 1] = "<file>"
    BY <1>1, <1>2 DEF BracketInv, Bottom
  <2>2. PICK t : t = Tail(want)
    OBVIOUS
  <2>3. t \in Seq(Texts) /\ Len(t) = 1 /\ t[1] = "<file>"
    <3>1. want \in Seq(Texts)
      BY <1>2, Zenon
    <3>2. 1 + 1 = 2
      OBVIOUS
    <3>3. Len(want) = 2 /\ want[2] = "<file>"
      BY <2>1, <3>2, Zenon
    <3> QED
      BY <2>2, <3>1, <3>3, TailOfTwo, Zenon
  <2> QED
    BY <2>2, <2>3, Single
<1>6. PICK c : c = Before1(tokens, pos)
  OBVIOUS
<1>7. PICK y \in Stacks : /\ Leads("begin", ReadTo(tokens, pos), <<>>, y)
                          /\ Leads(c, ShownAs(<<Part>> \o Tail(want)), y, <<>>)
  BY <1>2, <1>4, <1>6 DEF Matching
<1>8. PICK z \in Stacks : Leads(c, <<"}">>, y, z) /\ Leads("}", ShownAs(Tail(want)), z, <<>>)
  BY <1>2, <1>3, <1>7, MatchingTop
<1>9. z = <<>>
  <2>1. ShownAs(<<"<file>">>) = <<"<file>">>
    BY ShownOne DEF Shown, OpenBodies
  <2>2. Reading("}", "<file>", z) = z
    BY Passes DEF Openers, Closing
  <2>3. Leads("}", <<"<file>">>, z, <<>>)
    BY <1>5, <1>8, <2>1
  <2>4. <<>> = Reading("}", "<file>", z)
    BY <2>3, LeadsOnlyOne
  <2> QED
    BY <2>2, <2>4
<1>10. y = <<"}">>
  <2>1. z = Reading(c, "}", y)
    BY <1>8, LeadsOnlyOne
  <2>2. "}" \in Closing
    BY DEF Closing
  <2>3. z = IF y # <<>> /\ Head(y) = "}" THEN Tail(y) ELSE <<"mismatch">>
    BY <2>1, <2>2, Closes
  <2>4. <<"mismatch">> # <<>> /\ <<"}">> \o <<>> = <<"}">>
    OBVIOUS
  <2>5. y # <<>> /\ Head(y) = "}" /\ Tail(y) = <<>>
    BY <1>9, <2>3, <2>4, Zenon
  <2>6. y = <<Head(y)>> \o Tail(y)
    BY <2>5, Peel DEF Stacks
  <2> QED
    BY <2>4, <2>5, <2>6, Zenon
<1>11. CutOff(tokens, pos, want')
  BY <1>1, <1>5, <1>7, <1>10 DEF CutOff, AtEnd
<1>12. Bottom(want') /\ Headed(tokens, pos, want')
  BY <1>1, <1>2, <1>4, BottomTail DEF BracketInv, Headed
<1>13. want' = <<>> \o Tail(want) /\ <<>> \in Seq({})
  BY <1>1, <1>2, TailIs
<1> QED
  BY <1>1, <1>11, <1>12, <1>13, BracketStep

LEMMA TwoRest ==
    ASSUME NEW S, NEW a \in S, NEW b \in S, a # b, NEW t \in Seq(S),
           \A i \in DOMAIN t : t[i] # b,
           NEW k \in DOMAIN (<<a, b>> \o t), (<<a, b>> \o t)[k] = b
    PROVE  Rest(<<a, b>> \o t, k) = t
<1>1. PICK v, u : v = <<a, b>> /\ u = v \o t
  OBVIOUS
<1>2. v \in Seq(S) /\ Len(v) = 2 /\ v[1] = a /\ v[2] = b
  BY <1>1
<1>3. PICK m : m = Len(t)
  OBVIOUS
<1>4. m \in Nat /\ \A i \in 1 .. m : t[i] # b
  BY <1>3
<1>5. /\ u \in Seq(S) /\ Len(u) = 2 + m /\ DOMAIN u = 1 .. (2 + m) /\ u[1] = a /\ u[2] = b
      /\ \A i \in 1 .. m : u[2 + i] = t[i]
  BY <1>1, <1>2, <1>3, <1>4
<1>6. k \in 1 .. (2 + m) /\ u[k] = b
  BY <1>1, <1>5
<1>7. k = 2
  <2>1. ASSUME k > 2 PROVE FALSE
    <3>1. k - 2 \in 1 .. m /\ 2 + (k - 2) = k
      BY <1>4, <1>6, <2>1
    <3>2. u[k] = t[k - 2]
      BY <1>5, <3>1
    <3> QED
      BY <1>4, <1>6, <3>1, <3>2
  <2> QED
    BY <1>4, <1>5, <1>6, <2>1
<1>8. PICK r : r = Rest(u, 2)
  OBVIOUS
<1>9. r \in Seq(S) /\ Len(r) = m /\ \A i \in 1 .. m : r[i] = u[2 + i]
  <2>1. 2 \in 0 .. Len(u) /\ Len(u) - 2 = m
    <3>1. m \in Nat /\ Len(u) = 2 + m
      BY <1>4, <1>5, Zenon
    <3> QED
      BY <3>1
  <2>2. /\ Rest(u, 2) \in Seq(S) /\ Len(Rest(u, 2)) = Len(u) - 2
        /\ \A i \in 1 .. (Len(u) - 2) : Rest(u, 2)[i] = u[2 + i]
    <3>1. u \in Seq(S) /\ 2 \in 0 .. Len(u)
      BY <1>5, <2>1
    <3> QED
      BY <3>1, RestIs, Zenon
  <2> QED
    BY <1>8, <2>1, <2>2
<1>10. r = t
  BY <1>3, <1>4, <1>5, <1>9
<1> QED
  BY <1>1, <1>7, <1>8, <1>10

\* Where the reference begins is where it would go on without it.
LEMMA TryReferenceBrackets ==
    ASSUME GrammarInv, BracketInv, TryReference PROVE BracketInv'
<1>1. /\ Running /\ Part = "<references>" /\ want' = <<"<type>", "<again>">> \o Tail(want)
      /\ tokens' = tokens /\ pos' = pos /\ saved'.pos = pos
  BY DEF TryReference
<1>2. Part \in Inert /\ Part \notin {"[", "struct", "<file>"} /\ Part \in Nonterminals
  <2>1. Part \in Nonterminals /\ Part \notin Items \cup {"<statements>"}
    BY <1>1, SortsOfParts DEF OtherParts, Items
  <2> QED
    BY <2>1, InertPart
<1>3. /\ want \in Seq(Texts) /\ want # <<>> /\ want = <<Part>> \o Tail(want)
      /\ Tail(want) \in Seq(Texts) /\ Part \in Texts /\ want \in Seq(Symbols)
  BY <1>1, Stacked
<1>4. Matching(tokens, pos, want) /\ Before1(tokens, pos) # "struct" /\ Shown(Part) # "struct"
  BY <1>1, <1>2, <1>3, Uncut, Unheaded, InertTokens
<1>5. PICK v : v = <<"<type>", "<again>">>
  OBVIOUS
<1>6. v \in Seq(Inert) /\ v \in Seq(Texts \ Items) /\ Even(v)
  <2>1. "<type>" \in Inert /\ "<again>" \in Inert
    BY InertParts, InertTokens
  <2>2. v \in Seq(Inert)
    BY <1>5, <2>1, Tuple2
  <2>3. Even(v) /\ Closed(v)
    BY <2>2, EvenInert, ClosedInert
  <2> QED
    BY <2>2, <2>3 DEF Closed
<1>7. Matching(tokens, pos, v \o Tail(want)) /\ Matching(tokens, pos, Tail(want))
  <2>1. Matching(tokens, pos, <<Part>> \o Tail(want))
    BY <1>3, <1>4
  <2>2. Even(<<>>) /\ <<>> \o Tail(want) = Tail(want)
    <3>1. <<>> \in Seq(Inert)
      OBVIOUS
    <3> QED
      BY <1>3, <3>1, EvenInert, TailIs
  <2>3. Replaces(Part, v) /\ Replaces(Part, <<>>)
    BY <1>2, <1>6, <2>2, ReplacesEven
  <2>4. Matching(tokens, pos, v \o Tail(want))
    BY <1>3, <1>4, <2>1, <2>3, MatchReplaced
  <2>5. Matching(tokens, pos, <<>> \o Tail(want))
    BY <1>3, <1>4, <2>1, <2>3, MatchReplaced
  <2> QED
    BY <2>2, <2>4, <2>5
<1>8. Bottom(v \o Tail(want))
  BY <1>3, <1>6, BottomTail, BottomJoin DEF BracketInv
<1>9. \A i \in DOMAIN Tail(want) : Tail(want)[i] # "<again>"
  <2>1. "<references>" \notin TypeSymbols
    BY Zenon DEF TypeSymbols
  <2>2. Between
    BY <1>1, <1>2, <1>3, <2>1, Surface
  <2>3. PICK t : t = Tail(want)
    OBVIOUS
  <2>4. t \in Seq(Ordinary)
    BY <1>3, <2>2, <2>3 DEF Between
  <2>5. \A i \in DOMAIN t : t[i] \in Ordinary
    BY <2>4
  <2> QED
    BY <2>3, <2>5, AgainNowhere
<1>10. PICK u : u = want'
  OBVIOUS
<1>11. u = <<"<type>", "<again>">> \o Tail(want) /\ u = v \o Tail(want)
  BY <1>1, <1>5, <1>10
<1>12. ASSUME NEW k \in DOMAIN u, u[k] = "<again>" PROVE Resumes(tokens, pos, Rest(u, k))
  <2>1. "<type>" \in Texts /\ "<again>" \in Texts /\ "<type>" # "<again>"
    BY InertParts, InertTokens, InertTexts
  <2>2. Rest(u, k) = Tail(want)
    <3>1. PICK a, b, t : a = "<type>" /\ b = "<again>" /\ t = Tail(want)
      BY Zenon
    <3>2. u = <<a, b>> \o t
      BY <1>11, <3>1, Zenon
    <3>3. /\ a \in Texts /\ b \in Texts /\ a # b /\ t \in Seq(Texts)
          /\ \A i \in DOMAIN t : t[i] # b
      BY <1>3, <1>9, <2>1, <3>1, Zenon
    <3>4. k \in DOMAIN (<<a, b>> \o t) /\ (<<a, b>> \o t)[k] = b
      BY <1>12, <3>1, <3>2, Zenon
    <3>5. Rest(<<a, b>> \o t, k) = t
      BY <3>3, <3>4, TwoRest
    <3> QED
      BY <3>1, <3>2, <3>5, Zenon
  <2> QED
    BY <1>4, <1>7, <2>2 DEF Resumes
<1>13. /\ Matching(tokens, pos, u) /\ Bottom(u) /\ Headed(tokens, pos, u)
  BY <1>4, <1>7, <1>8, <1>11 DEF Headed
<1> QED
  BY <1>1, <1>10, <1>12, <1>13 DEF BracketInv

LEMMA UnwindBrackets == ASSUME GrammarInv, BracketInv, Unwind PROVE BracketInv'
<1>1. Running /\ Caught /\ \E k \in DOMAIN want : want[k] = "<again>"
  BY DEF Unwind, Caught
<1>2. want \in Seq(Symbols) /\ want # <<>> /\ want \in Seq(Texts)
  BY <1>1, Stacked
<1>3. Trying
  BY <1>1, <1>2, Surface
<1>4. PICK k \in DOMAIN want : want[k] = "<again>" /\ want' = Rest(want, k)
  BY <1>1 DEF Unwind, Rest
<1>5. PICK u, p : u = want' /\ p = saved.pos
  OBVIOUS
<1>6. u \in Seq(Ordinary)
  BY <1>2, <1>3, <1>4, <1>5, TryEnds DEF Trying, Rest
<1>7. \A i \in DOMAIN u : u[i] # "<again>"
  <2>1. \A i \in DOMAIN u : u[i] \in Ordinary
    BY <1>6
  <2> QED
    BY <2>1, AgainNowhere
<1>8. Matching(tokens, p, u) /\ Headed(tokens, p, u)
  BY <1>4, <1>5 DEF BracketInv, Resumes, Headed
<1>9. Bottom(u)
  <2>1. k \in 0 .. Len(want)
    BY <1>2
  <2> QED
    BY <1>2, <1>4, <1>5, <2>1, BottomRest DEF BracketInv
<1>10. tokens' = tokens /\ pos' = p
  BY <1>5 DEF Unwind
<1> QED
  BY <1>5, <1>7, <1>8, <1>9, <1>10 DEF BracketInv

LEMMA BottomLoop ==
    ASSUME NEW to \in Seq(Texts),
           \A i \in DOMAIN to : to[i] \in Items => i = Len(to) /\ to[i] \in OpenTypes
    PROVE  Bottom(to \o <<"<file>">>)
<1>1. PICK m, w : m = Len(to) /\ w = to \o <<"<file>">>
  OBVIOUS
<1>2. m \in Nat
  BY <1>1
<1>3. /\ Len(w) = m + 1 /\ DOMAIN w = 1 .. (m + 1) /\ w[m + 1] = "<file>"
      /\ \A i \in 1 .. m : w[i] = to[i]
  BY <1>1, <1>2
<1>4. \A i \in 1 .. m : w[i] \in Items => i = m
  BY <1>1, <1>3
<1>5. "<file>" \in Items /\ "<file>" \notin OpenTypes /\ \A s \in OpenTypes : s \in Items
  BY DEF Items, OpenTypes
<1>6. ASSUME NEW i \in 1 .. m, w[i] \in Items
      PROVE  i = m /\ w[i] \in OpenTypes
  <2>1. w[i] = to[i] /\ i \in DOMAIN to
    BY <1>1, <1>3
  <2> QED
    BY <1>1, <1>6, <2>1
<1>7. ASSUME NEW i \in 1 .. (m + 1)
      PROVE  /\ w[i] = "<file>" => i = m + 1
             /\ w[i] \in OpenTypes => i + 1 = m + 1 /\ w[i + 1] = "<file>"
  <2>1. i = m + 1 \/ i \in 1 .. m
    BY <1>2
  <2>2. CASE i = m + 1
    BY <1>3, <1>5, <2>2
  <2>3. CASE i \in 1 .. m
    BY <1>3, <1>5, <1>6, <2>3
  <2> QED
    BY <2>1, <2>2, <2>3
<1> QED
  BY <1>1, <1>3, <1>7 DEF Bottom

\* No rule asks to go back.
LEMMA RulesNoAgain ==
    ASSUME NEW r \in Rules
    PROVE  r.of \in Nonterminals /\ \A i \in DOMAIN r.to : r.to[i] # "<again>"
<1>1. r.of \in Nonterminals /\ (OrdinaryRule(r) \/ ItemRule(r))
  BY RulesGood DEF RuleGood
<1>2. CASE ItemRule(r)
  <2>1. \E k : HeadAt(r.to, k)
    BY <1>2 DEF ItemRule
  <2> QED
    BY <1>1, <2>1, HeadsNoAgain
<1>3. CASE OrdinaryRule(r)
  <2>1. PICK T : T \subseteq Ordinary /\ r.to \in Seq(T)
    BY <1>3 DEF OrdinaryRule, Plain
  <2>2. \A i \in DOMAIN r.to : r.to[i] \in T
    BY <2>1
  <2> QED
    BY <1>1, <2>1, <2>2, AgainNowhere
<1> QED
  BY <1>1, <1>2, <1>3

LEMMA ExpandBrackets == ASSUME GrammarInv, BracketInv, Expand PROVE BracketInv'
<1>1. PICK r \in Applicable : want' = r.to \o Tail(want)
  BY DEF Expand
<1>2. Running /\ tokens' = tokens /\ pos' = pos /\ saved' = saved
  BY DEF Expand
<1>3. r \in Rules /\ r.of = Part /\ r.first = Token
  BY <1>1 DEF Applicable, RulesFor
<1>4. RuleEven(r) /\ Part \in Nonterminals /\ \A i \in DOMAIN r.to : r.to[i] # "<again>"
  BY <1>3, RulesEven, RulesNoAgain
<1>5. PICK v, t : v = r.to /\ t = Tail(want)
  OBVIOUS
<1>6. Replaces(Part, v) /\ v \in Seq(Texts)
  BY <1>3, <1>4, <1>5 DEF RuleEven, Replaces
<1>7. /\ want \in Seq(Texts) /\ want # <<>> /\ want = <<Part>> \o t /\ Part = want[1]
      /\ t \in Seq(Texts) /\ Bottom(t) /\ Bottom(want)
  <2>1. /\ want \in Seq(Texts) /\ want # <<>> /\ want = <<Part>> \o Tail(want)
        /\ Part = want[1] /\ Tail(want) \in Seq(Texts)
    BY <1>2, Stacked
  <2>2. Bottom(want) /\ Bottom(Tail(want))
    BY <2>1, BottomTail DEF BracketInv
  <2> QED
    BY <1>5, <2>1, <2>2
<1>8. Matching(tokens, pos, want)
  <2>1. ASSUME CutOff(tokens, pos, want) PROVE FALSE
    <3>1. Part = "<file>" /\ Token = "eof"
      BY <1>2, <2>1, AtTheEnd
    <3>2. r.first \in TypeKeywords
      BY <1>3, <1>4, <3>1 DEF RuleEven
    <3> QED
      BY <1>3, <3>1, <3>2, EofIs DEF ItemKeywords
  <2> QED
    BY <2>1 DEF BracketInv
<1>9. Part \notin {"[", "struct"}
  <2>1. "struct" \in ItemKeywords
    BY DEF ItemKeywords, TypeKeywords
  <2> QED
    BY <1>4, <2>1, TypesBeginNothing
<1>10. Bottom(v \o t)
  <2>1. CASE Part \notin Items
    BY <1>3, <1>4, <1>5, <1>7, <2>1, BottomJoin DEF RuleEven
  <2>2. CASE Part \in OpenTypes
    <3>1. 1 + 1 = Len(want) /\ want[1 + 1] = "<file>"
      BY <1>7, <2>2 DEF Bottom
    <3>2. t \in Seq(Texts) /\ Len(t) = 1 /\ t[1] = "<file>"
      BY <1>5, <1>7, <3>1
    <3>3. t = <<"<file>">>
      BY <3>2, Single
    <3>4. \A i \in DOMAIN v : v[i] \in Items => i = Len(v) /\ v[i] \in OpenTypes
      BY <1>3, <1>4, <1>5, <2>2 DEF RuleEven
    <3> QED
      BY <1>6, <3>3, <3>4, BottomLoop
  <2>3. CASE Part = "<file>"
    <3>1. Bottom(v)
      BY <1>3, <1>4, <1>5, <2>3 DEF RuleEven
    <3>2. 1 = Len(want)
      BY <1>7, <2>3 DEF Bottom
    <3>3. t = <<>>
      BY <1>5, <1>7, <3>2, Single
    <3>4. v \o <<>> = v
      BY <1>6
    <3> QED
      BY <3>1, <3>3, <3>4
  <2> QED
    BY <2>1, <2>2, <2>3 DEF Items, OpenTypes
<1>11. want' = v \o Tail(want) /\ Bottom(want') /\ \A i \in DOMAIN v : v[i] # "<again>"
  BY <1>1, <1>4, <1>5, <1>10
<1> QED
  BY <1>2, <1>6, <1>8, <1>9, <1>11, BracketTurns

LEMMA InitBrackets == ASSUME Init PROVE BracketInv
<1>1. tokens \in Inputs /\ pos = 1 /\ want = <<"<file>">>
  BY DEF Init
<1>2. Len(want) = 1 /\ DOMAIN want = 1 .. 1 /\ want[1] = "<file>" /\ want # <<>>
  BY <1>1
<1>3. ReadTo(tokens, pos) = <<>> /\ Before1(tokens, pos) = "begin"
  <2>1. IsSeq(tokens)
    BY <1>1, GrammarAssumption DEF IsSeq
  <2>2. 1 \in 1 .. (Len(tokens) + 1)
    BY <2>1 DEF IsSeq
  <2> QED
    BY <1>1, <2>2, ReadToIs
<1>4. Matching(tokens, pos, want)
  <2>1. <<>> \in Stacks
    BY DEF Stacks
  <2>2. Leads("begin", <<>>, <<>>, <<>>)
    BY <2>1, LeadsNowhere
  <2>3. Leads("begin", ShownAs(<<"<file>">>), <<>>, <<>>)
    BY <2>1, FileEven DEF Even
  <2> QED
    BY <1>1, <1>3, <2>1, <2>2, <2>3 DEF Matching
<1>5. Bottom(want)
  BY <1>2 DEF Bottom, OpenTypes
<1>6. Headed(tokens, pos, want)
  BY <1>3 DEF Headed
<1> QED
  BY <1>2, <1>4, <1>5, <1>6 DEF BracketInv

LEMMA NextBrackets == ASSUME GrammarInv, BracketInv, [Next]_vars PROVE BracketInv'
<1>1. CASE Take
  BY <1>1, TakeBrackets
<1>2. CASE Expand
  BY <1>2, ExpandBrackets
<1>3. CASE Skip
  BY <1>3, SkipBrackets
<1>4. CASE TakeName
  BY <1>4, TakeNameBrackets
<1>5. CASE DeclareGeneric
  BY <1>5, DeclareGenericBrackets
<1>6. CASE ResolveGeneric
  BY <1>6, ResolveGenericBrackets
<1>7. CASE TakeInteger
  BY <1>7, TakeIntegerBrackets
<1>8. CASE AttrModifier \/ AttrInteger
  BY <1>8, AttrBrackets
<1>9. CASE EndAttr
  BY <1>9, EndAttrBrackets
<1>10. CASE TryReference
  BY <1>10, TryReferenceBrackets
<1>11. CASE NextReference
  BY <1>11, NextReferenceBrackets
<1>12. CASE TakeConstant
  BY <1>12, TakeConstantBrackets
<1>13. CASE EndOfFileInType
  BY <1>13, EndOfFileInTypeBrackets
<1>14. CASE Finish
  BY <1>14, FinishBrackets
<1>15. CASE Panic
  BY <1>15, StopBrackets DEF Panic
<1>16. CASE Fail
  BY <1>16, StopBrackets DEF Fail
<1>17. CASE Unwind
  BY <1>17, UnwindBrackets
<1>18. CASE Terminated
  BY <1>18, StopBrackets DEF Terminated, vars
<1>19. CASE UNCHANGED vars
  BY <1>19, StopBrackets DEF vars
<1> QED
  BY <1>1, <1>2, <1>3, <1>4, <1>5, <1>6, <1>7, <1>8, <1>9, <1>10, <1>11, <1>12, <1>13,
     <1>14, <1>15, <1>16, <1>17, <1>18, <1>19 DEF Next

\* What was read leaves open just what the stack will close, and so it does at
\* the place where a reference that fails goes on.
THEOREM BracketsInductive == Spec => []BracketInv
<1>1. Init => BracketInv
  BY InitBrackets
<1>2. GrammarInv /\ BracketInv /\ [Next]_vars => BracketInv'
  BY NextBrackets
<1> QED
  BY <1>1, <1>2, GrammarInductive, PTL DEF Spec

\* What was read and what the parser waits for form one text whose brackets
\* match, but for the brace of the last type (class.rs:76-90, struct.rs:35,
\* method.rs:94-152).
THEOREM BracketsClosed == Spec => []BracketsMatch
<1>1. ASSUME GrammarInv, BracketInv PROVE BracketsMatch
  <2>1. /\ tokens \in Inputs /\ pos \in 1 .. (Len(tokens) + 1) /\ want \in Seq(Texts)
    <3>1. want \in Seq(Symbols)
      BY <1>1 DEF GrammarInv, TypeOK
    <3> QED
      BY <1>1, <3>1, TextsAre, SeqIn DEF GrammarInv, Typed, TypeOK
  <2>2. PICK s, a : s = ReadTo(tokens, pos) /\ a = ShownAs(want)
    OBVIOUS
  <2>3. Read = s /\ Awaited = a
    BY <2>2 DEF Read, ReadTo, Awaited, ShownAs, Shown, OpenBodies
  <2>4. s \in Seq(Texts) /\ a \in Seq(Texts)
    BY <2>1, <2>2, ReadToIs, ShownType
  <2>5. LastOf("begin", s) = Before1(tokens, pos)
    BY <2>2 DEF Before1
  <2>6. ASSUME NEW y, Leads("begin", s \o a, <<>>, y) PROVE Unclosed(Read \o Awaited) = y
    <3>1. s \o a \in Seq(Texts)
      BY <2>4
    <3> QED
      BY <2>3, <2>6, <3>1, UnclosedIs
  <2>7. ASSUME Matching(tokens, pos, want) PROVE Unclosed(Read \o Awaited) = <<>>
    <3>1. PICK y \in Stacks : /\ Leads("begin", s, <<>>, y)
                              /\ Leads(LastOf("begin", s), a, y, <<>>)
      BY <2>2, <2>5, <2>7 DEF Matching
    <3>2. Leads("begin", s \o a, <<>>, <<>>)
      BY <2>4, <3>1, LeadsJoin
    <3> QED
      BY <2>6, <3>2
  <2>8. ASSUME CutOff(tokens, pos, want)
        PROVE  AtEnd /\ Unclosed(Read \o Awaited) = <<"}">>
    <3>1. /\ pos > Len(tokens) /\ Leads("begin", s, <<>>, <<"}">>)
          /\ want = <<>> \/ want = <<"<file>">>
      BY <2>2, <2>8 DEF CutOff
    <3>2. <<"}">> \in Stacks
      BY <2>4, <3>1, LeadsTypes
    <3>3. LastOf("begin", s) # "struct"
      <4>1. <<"<file>">>[1] = "<file>" /\ "<file>" # "["
        OBVIOUS
      <4>2. want # <<>> => want[1] # "["
        BY <3>1, <4>1, Zenon
      <4> QED
        BY <1>1, <2>5, <4>2 DEF BracketInv, Headed
    <3>4. Leads(LastOf("begin", s), a, <<"}">>, <<"}">>)
      <4>1. CASE want = <<>>
        <5>1. a = <<>>
          BY <2>2, <4>1 DEF ShownAs
        <5> QED
          BY <3>2, <5>1, LeadsNowhere
      <4>2. CASE want = <<"<file>">>
        BY <2>2, <3>2, <3>3, <4>2, FileEven DEF Even
      <4> QED
        BY <3>1, <4>1, <4>2
    <3>5. Leads("begin", s \o a, <<>>, <<"}">>)
      BY <2>4, <3>1, <3>4, LeadsJoin
    <3> QED
      BY <2>6, <3>1, <3>5 DEF AtEnd
  <2> QED
    BY <1>1, <2>7, <2>8 DEF BracketInv, BracketsMatch
<1> QED
  BY <1>1, GrammarInductive, BracketsInductive, PTL
=============================================================================
