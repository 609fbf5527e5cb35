# Verification of the Puralingua IR compiler

The repository is a compiler plugin written in Rust. A host program loads it,
hands it source files in the Puralingua IR language (`.plir`), asks it which types
it knows, and has it fill a binary assembly. This directory holds TLA+ models of
the plugin, TLC configurations that check them on small instances, and proofs of
some of the results for every instance, checked by TLAPS.

All models are of a **debug build**: integer overflow panics, `debug_assert!` and
what stands in it are executed. Where a release build would behave differently,
the text says so; run `release_fields` is of one.

## 1. The system

| Part | State | Operations | Talks to |
|---|---|---|---|
| Compiler interface (`src/src/lib.rs`) | the types of all files (`RwLock`), the last index (`Mutex`) | `set_last_index`, `add_file`, `finish_load`, `query`, `build` | host threads call it; `build` calls back to `query` through the host's service |
| Build loop (`src/src/build_impl.rs` 49-197, 425-462) | position in the clone of the file, count of overrides, interface claims of the current class, the assembly's type definitions | one step per type, method, claim, interface and key | reads types through the service, fills the assembly |
| Reference compilation (`build_impl.rs` 199-375) | the assembly's tables of type references, type specifications, method specifications | compile a type reference, a method reference | recursive over type arguments |
| Lowering of methods (`build_impl.rs` 291-321, 377-423, 464-931) | instructions of the method, strings, method specifications | one step per operand of a statement, a signature, an exception entry | uses reference compilation and the declared types of locals |
| Lexer (`src/crates/token/src/parse.rs`) | position in the source, loop state of comments and literals | one arm per kind of token | its cursor is the host library's |
| Values of literals (`token_aliases.rs`, `identifier.rs`) | none | `get_value`: slice, unescape, parse | used by every parser |
| Parser of files, types, fields, methods (`src/crates/ast/src`) | position in the tokens, the generics in scope, the attribute list being read | one function per construct | `ast::parse` refuses a file with an invalid token |
| Parser of exception tables (`method.rs` 188-271) | position, clauses read so far, entries | a loop over entries, in it a loop over clauses | |
| Parser of statements (`method/statement.rs`) | position | one arm per keyword, recursion over hyphens before a constant | |

Two flows connect them. Loading: `add_file` reads the last index, reads and parses
the file (lexer, then parser), adds the last index to each type's own, takes the
write lock, appends the types and sorts them all by index. Building: `build_impl`
clones the types under a read lock, releases it, checks that the types tile the
indexes from the last index on, and for every type compiles methods, fields and
interface maps into the assembly, resolving names through queries that come back
to the *live* file.

### What is hard here

- **Threads.** The host may add, query and build at the same time. Several steps
  lie between reading the last index and publishing the types; a build walks a
  clone but resolves in the live file; a waiting writer blocks new readers while a
  build needs to read again; a panic under the write lock would poison it.
- **State carried from item to item.** The expected slot of a method depends on all
  overrides before it; a class's claims must not reach the next class; the tokens
  of earlier references must stay right while the tables grow, also after an
  operand failed half way.
- **Numbers at their limits.** `len() - 1` of an empty parent, an expected slot
  below zero, `max()` of nothing, 256 hashes, the overflow of a relative location.
- **Progress.** Hand-written loops over tokens that must consume something.
- **Names that depend on where they stand.** A bare name in a type is a generic of
  the type or of the method around it; an error inside a reference's generics is
  swallowed after tokens were consumed.
- **Boundaries in text.** Quotes behind backslashes, nested comments, hashes,
  dots after digits, and slices computed from prefix lengths.

What makes each part correct: *interface*: calls take effect at one moment, nothing
is lost, no panic harms another thread, every call returns. *Build*: types land at
the index their tokens hold, methods sit in the slot the language gives them,
interface vectors hold the method that claimed the entry. *References*: a token
means the reference it was made for. *Lowering*: an operand of an instruction means
what the source wrote. *Lexer and values*: literals and comments end where the
language says, and a number is the one written. *Parsers*: an accepted file is read
whole, what is returned is what is written, and they end.

## 2. Modules

| Module | Models |
|---|---|
| `Catalog` | types, source files, query options, calls and answers of the interface |
| `Ordering`, `OrderingProofs` | `sort_by_key(index)`, Rust's stable sort, by ranks |
| `TypeStore` | abstract specification: a bag of types with atomic calls |
| `CompilerApi`, `CompilerApiProofs` | the interface, cut at every lock operation; implements `TypeStore` |
| `TypeBuild`, `TypeBuildProofs` | the build loop and the state carried from method to method |
| `TypeTokens`, `TypeTokensProofs` | reference compilation, with its recursion as a stack |
| `LoadContent`, `Lowering`, `LoweringProofs` | parsing of loaded constants, lowering of methods and fields |
| `ExceptionTable`, `ExceptionTableProofs` | the parser of exception tables |
| `Lexer`, `LexerProofs` | the lexer, and the slices and integers of `get_value` |
| `Keywords` | the words that are keywords, and the modifiers each kind of item takes |
| `Grammar`, `GrammarProofs` | the parser of files: types, attributes, generics, fields, methods, statements |
| `MC...` | the instances for TLC |

**CompilerApi.** One variable per field of `Compiler` (`file`, `lastIndex`), the
lock as `readers`, `writer`, `poisoned`, and for each thread its remaining calls and
its local variables. The stage `pc[p]` is where the thread is in its call;
`Begin`, `AcquireRead`, `AcquireWrite` and one action per piece of code between two
lock operations follow `lib.rs` 44-136. A file is given by what reading it does:
types, an error, or a panic of the parser. A query's filters on name, generic count
and interface are one set of names; the early return of the index filter is kept.
`TypeStore` is what a host may rely on: `call`, `base` and the bag of types are the
refinement mapping at the end of `CompilerApi`. It also records what is *not*
promised: `add_file` uses the last index in force when it starts.

**TypeBuild.** `pc` names the place in the loop (`type`, `slot`, `impl`, `body`,
`fields`, `interfaces`, `keys`); each early return and each panic is an action that
ends the build. Bodies, fields and required interfaces may succeed, fail or (bodies)
panic here, nothing more: `Lowering` and `TypeTokens` have their insides. The
`HashMap` of interfaces is visited in any order, the `BTreeMap` of an interface in
ascending order.

**TypeTokens.** `compile_type_reference` calls itself for type arguments; a frame of
`stack` is a suspended call, `Deliver` returns a token to the frame on top. A failure
drops the stack and leaves the tables as they are, as `?` does. History variables
`specOf`, `methodOf` remember which reference an entry was pushed for. The assembly
builder is not in the repository: `add_type_ref` may reuse an equal entry or append.

**Lowering.** A method is a sequence of units (signature, statements, entries of the
exception table; the fields of the type come behind its methods). `Operands(u)` lists
a unit's operands in the order in which the code compiles them, with the slot of the
instruction each one fills; `CompileOperand`, `CompileString`, `CompileMethod` take
one each, `OperandFails` is the first `?` that leaves the function, `OperandPanics`
a `todo!()` or an overflow. Before that `ParseLoad` turns the tokens of a constant
into what is loaded (`LoadContent`), sign and width included; widths are a
constant. Type tokens are atomic, `TypeTokens` has them. A variable's member is
looked up in the declared type at its register, SetField's in the current type,
an interface call's in the variable's type: as the code has it.

**ExceptionTable.** Tokens are their kinds. Straight-line code is a list `want` of the
kinds still to be expected, the loops over entries and clauses are actions; `TryClause`
is one `if` of the chain, whose condition consumes the keyword before it looks whether
the clause is set already. The chain has no `else`, so its last `if` may go back to the
loop's test with nothing consumed.

**Lexer.** A source is a sequence of character classes. Loops with state run a step at
a time (`StringStep`, `CharStep`, `OpenComment`, `EndRaw`, ...), an `eat_while` is one jump, and
each arm of `parse` is an action. `SliceFrom` and `SliceTo` are the bounds of `get_value`,
`IntegerValue` is that of integers: the digits behind the base, None if a character
is not a digit of the base (an underscore is not) or the number is past `MaxValue`.

**Grammar.** Every parse function of `crates/ast` decides by the next token alone, so
what the functions on the call stack still have to read is one stack `want` of
terminals and `<parts>`. `Rules` lists what a part becomes when the next token is of
some kind: `ClassDef`, `Method`, `StatementRules` and so on follow the code line by
line, and the action `Expand` applies one. What depends on more than the kind of the
token is an action of its own: the integers (`TakeInteger`), the attribute lists
(`AttrModifier`, `AttrInteger`, `EndAttr`), generics declared and resolved
(`DeclareGeneric`, `ResolveGeneric`), the loop over a reference's generics that swallows
an error (`TryReference`, `NextReference`, `Unwind`), a type left open at the end of
the file (`EndOfFileInType`), and `Fail` and `Panic`. The tree is kept as the list of
its leaves, `nodes`: enough to tell what every token was read as. `generics` holds the
two lists the code hands down as arguments; `Scope` says what a nested item gets.

An exception table is one token here (`ExceptionTable` has its inside; nothing `grammar` shows, termination
included, is about it), and so is any
character or byte literal. Assumed of the library `uni_parser`, which is not in the
repository: `call` and `parse` put the stream back when they fail (that no token is
lost with a reference that fails, in `FileFaithful`, rests on it), and `punctuated`
takes an empty list and a trailing comma when its flag is false. Of the list with
the flag true (required interfaces) an empty one is taken as an error and a trailing
comma is allowed; no property depends on that.

## 3. Runs

| Run | Instance | Shows |
|---|---|---|
| `type_build` | every sorted class, struct and interface of up to 3 methods over 4 indexes, every kind of parent, alone and behind a class with overrides; every choice of 9 `impl` clauses on up to 3 methods, and pairs of types; clauses on overriding methods | methods accepted sit in their slots (`SlotsCorrect`), the slot assertion fires on nothing else (`SlotPanicMeansWrongSlot`), types land at their indexes (`TokensLand`), emitted vectors are aligned with the last claims (`MapsAligned`) and complete (`ClaimsEmitted`) |
| `two_method_interface` | the choices of `impl` clauses | finding 1 |
| `api` | two threads: 3 calls and 1 call of any kind; one that loads and builds next to one with two calls | linearizable (`ImplementsStore`), the lock is never poisoned (`NeverPoisoned`), the order assertion means a gap (`OrderPanicMeansGap`), tokens land unless the file grew since the clone (`TokensLandUnlessStale`), every call returns (`CallsReturn`) |
| `type_tokens` | 3 references in a row out of 13, nested twice | entries and tokens mean their references (`SpecsFaithful`, `SpecsWellFounded`, `MethodSpecsFaithful`, `AnswersDenote`) |
| `lowering` | every statement of a pool of about 200 between a signature and a field, pairs of those that share tables or fields, about 4300 entries of exception tables | operands mean what is written (`OperandsDenote`), members belong to the register's type (`MembersOfContainer`), load and store agree (`LoadsWhatItStores`), constants have the value written, and none that `get_value` reads (no underscore), with a known suffix and a value that fits, is refused but the smallest of a signed type (`NumbersLoaded`), ranges count from the entry (`RangesRelative`) |
| `exception_table` | tables of up to 4 pieces, malformed and truncated ones | entries hold what is written (`EntriesFaithful`), the parser ends unless stuck (`EndsUnlessStuck`) |
| `missing_catch` | the same | finding 2 |
| `lexer` | every source of up to 9 characters over one alphabet for each part of the lexer | literals and comments end where they should (`StringsExact`, `CharsExact`, `RawStringsExact`, `CommentsNest`, `NumbersWhole`), texts are the contents and integers the numbers written (`ValuesAreContents`), it ends (`LexerEnds`) |
| `byte_values`, `invalid_literals` | the same | findings 3 and 4 |
| `grammar` | the sample program `Program.plir`, token by token; 15 short files that use every rule, each whole, cut off after every token, with every token left out, replaced by one of 7 or preceded by one of 6; 1440 generic types whose members' names are shadowed, repeated, unknown or another method's | brackets match in what is accepted (`BracketsMatch`), a bare name is the nearest generic of its own type or method (`GenericsResolved`), an accepted file is read whole with the indexes and modifiers written (`FileFaithful`), the sample program is accepted to its last token (`SampleAccepted`), the parser ends on files whose exception tables are read (`ParserEnds`; inside a table it may hang, finding 2) |
| `release_fields` | the same, without debug assertions | finding 5 |

Every module's `TypeOK` is checked by one run. `PROJECT.json` names for every property a
mutant of a modelled definition that TLC finds violated.

### Bounds

- In the build, `MaxIndex` (3 or 4) stands for `u32::MAX`: large enough for the classes of the
  instance, small enough that `index + last_index` and slots overflow.
- Three methods give every order of override and new method around a third one, and
  three claims give a replaced claim, a gap and two interfaces in one class. Two types
  are enough for what a type leaves behind: the state is reset for each type.
- Two threads: the lock distinguishes reader and writer only, and every hazard of
  section 1 needs one thread that reads and one that writes.
- `MaxCalls = 3` references: one that fills the tables, one that fails half way, one
  after it. Nested twice, so that a specification's argument has arguments.
- Lowering: four locals with one name declared twice and one that has no type to look
  in; two types with the same member names and other identifiers; integers of three
  and four bits, so that every value is next to a limit; `MaxU64 = 9`.
- Exception tables: four pieces allow every clause and a repeated one.
- Lexer: nine characters hold a comment nested twice, and raw strings with two hashes
  and a false end; `MaxHashes = 2` stands for 255 and is exceeded. `MaxValue = 500`
  stands for `u64::MAX`: three hexadecimal digits exceed it, so do four octal ones.
- Grammar: the parser looks one token ahead, so a wrong token shows at the place it
  stands; one per file is enough. The strays and extras stand for
  each kind of error: a closer of either kind, a name, a number too large for a `u32` (`MaxIndex = 9`),
  without a value (`1_`) or without digits (`0x`), a bad escape, a keyword, `where`, a
  comma, a hyphen, a float. Two members after each other show a scope that is kept.

### Fairness

- `CompilerApi`: weak fairness of each thread's step in a call. A thread in a call runs;
  threads need not begin another call. The lock itself is not assumed fair: a
  waiting writer keeps new readers out (the strictest behaviour the standard library
  allows), and `CallsReturn` holds nevertheless because no call waits with a guard held.
- `ExceptionTable`, `Lexer`, `Grammar`: weak fairness of the next step. Each is a loop
  on one thread that never waits.

The other specifications state safety only and need none.

## 4. Proofs

TLAPS checks these for every file, parent, base, interface and reference that the
constants' assumptions allow.

`TypeBuildProofs` (from `IndexAssumption`, `FilesAssumption`, `InterfaceAssumption`):

- `TypeCorrect`: `TypeOK` is inductive by itself.
- `SlotsTheorem`, `SlotPanicTheorem`, `TokensLandTheorem` rest on `SlotInv`.
  `SlotsCorrect` alone is not inductive: `AcceptSlot` compares with the running
  `overrideCount`, so one must know that it is the number of overrides among the
  methods handed out (`CountInv`), and `PushClass` needs that the types pushed
  are those before the current one, in order (`LandInv`). `ExpectedIsSlot` is the
  arithmetic: position + parent - overrides so far is the parent's length plus the new methods before.
- `MapsAlignedTheorem`, `ClaimsEmittedTheorem` rest on `MapInv`: the claims recorded
  are the last ones of the methods compiled (`ClaimsInv`), while an interface is emitted the keys visited so far
  are 0, ..., |map| - 1 and the values theirs (`KeyInv`), and the interfaces not
  pending have been emitted completely (`EmitInv`).

`TypeTokensProofs` (from `RefsAssumption`):

- `TokenInvariant` proves `TypeOK` together with `StackInv` (each suspended call has
  the right `TypeRef` token and the tokens of a prefix of its arguments, and each frame
  waits for the one above it), `TableInv` and `AnswersDenote`. The key lemma is that tables only grow
  and that what a token denotes survives growth (`DenotesGrows`); the answer to a
  nested call is then still right when its caller pushes.
- `TokensTypeCorrect`, `SpecsFaithfulTheorem`, `SpecsWellFoundedTheorem`,
  `MethodSpecsFaithfulTheorem`, `AnswersDenoteTheorem` follow.

`OrderingProofs` (for sequences of any length with natural indexes): `SortPermutes`,
`SortOrders` (sorted and stable) and `SortKeepsSorted`. `SortByIndex` chooses the element
of each rank, so the lemma all rest on is that ranks are a bijection: they are
different because they respect the order of the sort (`RankOrder`), hence injective on a
finite set, hence onto (`RankBijective`). `KeepIs` is the same argument for the places a
filter lets through (`NthPlace`): each is kept once, in order.

`CompilerApiProofs` (from `ScriptAssumption`, `ProcsAssumption`, `CallAssumption`,
`CatalogAssumption`; the last three say of `None` only that it is no thread, call or number):

- `TypeCorrect` rests on `TypeInv`. `TypeOK` alone is not inductive: a step must know
  which call its thread is in (`CallsTyped`), that a build has one sequence of tokens
  for each type begun, and that a clone is no longer than the file (`BuildsTyped`), so
  that the next clone keeps `at` in range.
- `LockNeverPoisoned` rests on `LockInv`: a thread that holds the write guard is
  merging, and a merge does not panic.
- `OrderPanicOnlyOnGap` rests on `OrderInv`: files and clones are sorted, and the types
  a build has begun have the indexes that follow its base. `Misfit` does the rest: the
  type that breaks the sequence has either a higher index, and then the one it should
  have is nowhere in the sorted clone, or a lower one, and then that index occurs
  twice and too few are left for the interval (a pigeonhole on `FS_Surjection`).
- `TokensLand` rests on `LandInv`: a file as long as a clone of it is that clone,
  because merging an empty file changes nothing (`SortKeepsSorted`) and merging any
  other makes it longer; so every lookup of the build was made on the clone.
- `StoreImplemented` is the refinement of `TypeStore`: initial states map to initial states
  and every step to a step of the store or to none (`StepRefines`). Apart from the
  invariants above it needs `CallInv`: a thread is in a stage of the call at the head of its
  list (`AtStage`), an add_file that waits for the lock or merges carries the types of its own
  file, rebased by the last index it read at the start (`Added`), and only a dead thread was
  answered with a panic. `Merge` is where a file's types appear; that the bag grows by
  them and by no others is `BagSorted` (a sort is a bijection of places) and `BagAdded`.
  `QueryReturns` needs that the file is sorted: what is kept of it is then in order, has
  each match as often as the file has it, and starts with the lowest (`HitsAre`). The
  lock, the parse and the whole build are invisible (`UnseenRefines`, `BuildEndRefines`).
  Both modules are stated with this proof in mind: `Hits` keeps the places that match
  instead of using `SelectSeq`, of which the provers know nothing, and `DoQuery` says that
  what is answered is a sequence over the bag instead of enumerating these.

`ExceptionTableProofs` (from `InputAssumption`, `NoneAssumption`), for tables of any length:

- `TypeCorrect` and `TableFaithful` rest on `TableInv`. What an entry must hold is decided
  while its braces are read, so `EntryInv` says of the entry being read what
  `EntriesFaithful` says of a finished one, for the tokens before the cursor: a clause
  that is set points behind the first of its keywords, a clause that is not set
  has no keyword yet. `Wanted` is needed for that: the straight-line code never asks for a clause
  keyword, so none is consumed outside the loop over clauses.

`LexerProofs` (from `LexerAssumption`), for sources of any length and any `MaxHashes`:

- `TypeCorrect`, `StringsEnd`, `CharsEnd`, `RawStringsEnd`, `CommentsEnd`, `NumbersEnd`
  and `ValuesRead` rest on `LexInv`. The properties look at finished tokens; while a
  literal or a comment is read, `LoopInv` says what its loop has established for the
  characters between the beginning and the cursor (`StringLoop`, `CharLoop`,
  `HashesLoop`, `RawLoop`, `ClosingLoop`, `BlockLoop`): no quote before the cursor
  closes it, so many hashes stand behind the last quote, the depth is the nesting
  of what is eaten and was not zero before. A token pushed at the end of a loop is then
  right at once, and stays so because it depends on the source alone.
- Where an `eat_while` stops, and the nesting of a prefix, are found by the
  least-number principle (`WFMin`) instead of an induction.
- `ValuesRead` needs two facts about integers. `IntRead`, a part of the invariant, says
  that the lexer leaves no digit of the base between those it read and the suffix.
  `ReadAsWritten` says that the loop of `from_str_radix`, which goes from the first digit
  to the last, gives what the digits write by position, which is a sum from the last to
  the first, for any number of digits in any base. Both are recursive functions: that there is such a
  function is `Recursion`, and that the equation is handed on from digit to digit is
  `Upwards`, both from the least-number principle. `DigitsValue`, `Written` and `Power`
  are stated with this proof in mind: the provers know no law of `^`, and nothing of folds.

`LoweringProofs` (from `TypesAssumption`, `SourcesAssumption`, `BitsAssumption`,
`NoValueAssumption`), for methods of any length:

- `TypeCorrect`, `OperandsCompiled`, `MembersFound`, `StoredIsLoaded`,
  `RangesFromBegin` and `ConstantsLoaded` rest on `LowInv`. `OperandsDenote` is about units
  that are out; to reach it, `SlotsInv` says the same of the operands of the current unit that are already
  compiled, and `ValueOf` says it as a function of the tables' prefixes. Strings and method specifications
  only ever grow, so a value once filled stays right (`ValueKept`): this is what a
  later unit of the method could break.
- `SourcesAssumption` is what the parser guarantees of a unit: which operation it is, that an
  index of a reference is a `u32`, that a location is one of the three kinds. The members
  come from tables of which `TypesAssumption` asks no more than that they are sequences
  with identifiers in range.
- `ConstantsLoaded` also needs `RejectedInv` (a file is rejected at the Load it stands at)
  and that the remainder by which `Negative` decides tells whether the hyphens come in pairs
  (`HyphensInPairs`), which is how `WrittenValue` says what the source means.
  `SourcesAssumption` says of `value` that digits are no negative number. The ends of a
  type's range stay the powers of two they are: the proof needs only that they are numbers.

`GrammarProofs` (from `GrammarAssumption`), for files of any length:

- `TypeCorrect` and `FileRead` rest on `GrammarInv`: `FileFaithful` is about a file read to
  its end, and `ReadBy` says the same of what was read so far (the nodes stand in the order
  of their tokens, every name has its node, every list of an item that is in force lies
  before the cursor). Inside an item it lacks what is just being read, and the stage the
  top of the stack is in says what that is: `AtKeyword`, `AtBracket`, `InList`, `ListRead`,
  `Between`, and `Trying` while a reference may still turn out to be none.
- What the stack holds makes the stages inductive: what begins an item stands on its top
  only, and over `<again>` stands only what a type consists of. So a reference that fails
  and is taken back drops neither an item nor a name. `RulesGood` is the lemma
  about the rules this needs: which sorts of symbols each puts in the place of one.
- `GenericsScoped` rests on `ScopeInv`. Which lists are in force is a function of the
  keywords before the cursor (`Latest`), and `Enumerates` says that the lists kept are
  what the nodes since that keyword declare, in their order. `Scoped` says so at the
  cursor and at the place a reference that fails goes back to. Two steps need care: a keyword
  counts from the moment its rule is applied, a step before it is consumed (`Entered`), and
  in a release build the keyword of a field is never consumed (`Stuck`).
- That a method's generics exist only inside a method is a fact about what is still asked
  for: only the header of a method asks for them, and always before the next item can
  begin (`AsksGenerics`, `Shape`).
- `BracketsClosed` rests on `BracketInv`: what is open in the tokens read is what the stack
  still closes. `Leads` says that reading a text takes one stack of open brackets to another;
  it exists for every text by the least-number principle, and depends on a prefix only.
  `RulesEven` is the lemma about the rules: each puts in the place of its part a text
  with the same effect (`Replaces`), mostly because it leaves nothing open (`Even`). The
  invariant holds at the place a failed reference goes back to as well (`Resumes`), and
  says where the two exceptions are: the body of the last type, which stands at the bottom of
  the stack (`Bottom`) and whose brace the end of the file may stand for (`CutOff`), and the
  header of a struct, of which a brace closes the list (`Headed`).

Only model-checked:

- All liveness (`CallsReturn`, `EndsUnlessStuck`, `LexerEnds`, `ParserEnds`): TLAPS does not do it here.
- `SampleAccepted` is about the one program the repository holds.

## 5. Findings

1. `build_impl.rs:111` asserts that each key of an interface's map equals the
   *previous* key, so a class that implements methods 0 and 1 of one interface panics.
   `MapsAligned` and `ClaimsEmitted` hold because only maps with the one key 0 pass.
2. `method.rs:243`: an entry of an exception table without a catch clause is
   reported only at its closing brace; at any other token, or at the end of the file,
   the loop over clauses tests the same token for ever.
3. `token_aliases.rs:206`, 234, 243: the values of byte and byte-string literals begin
   with the opening quote.
4. `token/src/lib.rs:123`: a raw string without an end is not an invalid token, so
   the file is accepted.
5. `field.rs:40` consumes the keyword of a field inside a `debug_assert!`: a release
   build rejects every file with a field, the sample program among them.

Some things that a reader might not expect are kept in the models as they are. The
properties take them as the specification, so none of them would tell if they are wrong:

- SetField and interface calls look members up elsewhere than Load does:
  `MembersOfContainer` asks for the type the code looks in, and `LoadsWhatItStores`
  compares SetField with Load only where the two types are the same.
- A hyphen before an unsigned constant is dropped, and the smallest value of a signed
  type cannot be written (`NumbersLoaded`).
- The attribute list of a struct ends with a brace (`struct[0}`), as `struct.rs:35`
  has it; `BracketsMatch` holds with that exception only.
- The brace that closes the last type of a file may be missing.
- The parser panics at `where`, at a float or at a hyphen before anything but a number
  or a truth value, and at an integer without a value (`1_`, `0x`) or too large (for a
  `u32` in a type's index, a reference by index or `__MAIN`, for a `u64` in a jump or an
  array's length); in the index of a field or method the same integer is an error.
- `literal.rs:14` lists `12_u8` among the integers, but an underscore leaves it without a
  value, so `Load` refuses it although it fits: `ValuesAreContents` expects no value of
  it, and `NumbersLoaded` says nothing of it.

## 6. What is not modelled

- How escapes are resolved (library `descape`): a text with a wrong escape is a token
  of its own.
- The procedural macros: code generated at compile time, no state.
- The composition of lexer, grammar and lowering in one behaviour: each takes as
  input the tokens or the tree the one before it hands over, and their tokens are
  not the same abstraction.
- The host, its service, the assembly builder and the binary format: outside the
  repository; modelled from how the code uses them.
- Generic bounds (`where`) are `todo!()` in the code.

## 7. Plan

Done, in this order: interface and store, the invariants proved; build loop with proofs; references with
proofs; exception tables; lexer; lowering; grammar and the values of integers; proofs about
exception tables, the lexer, lowering, the order of what the grammar reads, generics in
scope and matching brackets; the refinement of the store; the values of constants
and of integers.

Left:

1. Composition of grammar and lowering, in which a written member reference ends as
   the index of that member.
