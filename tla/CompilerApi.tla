---------------------------- MODULE CompilerApi ----------------------------
(***************************************************************************)
(* `Compiler` as its host's threads see it: set_last_index, add_file,      *)
(* finish_load, query and build, each cut where it takes or releases the   *)
(* lock on the file or reads the last index.                               *)
(*                                                                         *)
(* The lock is the standard library's RwLock at its strictest: a waiting   *)
(* writer keeps new readers out.  A panic unwinds its thread: it drops the *)
(* guards the thread holds, poisons the lock if one is the writer's, and   *)
(* the thread makes no further call.                                       *)
(***************************************************************************)
EXTENDS Catalog, Ordering

CONSTANTS
    Procs,    \* the host's threads
    Scripts   \* the calls they make: functions from threads to sequences

ASSUME ScriptAssumption == \A s \in Scripts : s \in [Procs -> Seq(Operation)]
ASSUME ProcsAssumption  == None \notin Procs
ASSUME CallAssumption   == None \notin Operation

VARIABLES
    todo,       \* the calls each thread has still to make, the current one first
    pc,         \* where it is in that call
    answer,     \* of its last call that was not a build
    file,       \* Compiler.file.types, under the RwLock
    lastIndex,  \* Compiler.last_index, under the Mutex
    readers,    \* the threads that hold a read guard
    writer,     \* the thread that holds the write guard, or None
    poisoned,   \* the RwLock's flag
    base,       \* add_file: the last index as it has read it
    parsed,     \* add_file: the types of the new file
    snapshot,   \* build: the clone of the file
    buildBase,  \* build: the last index as it has read it
    at,         \* build: the types begun
    tokens,     \* build: for each of them, the TypeDef tokens made so far
    built       \* build: how the thread's last build ended

vars == <<todo, pc, answer, file, lastIndex, readers, writer, poisoned, base,
          parsed, snapshot, buildBase, at, tokens, built>>

lockVars  == <<readers, writer, poisoned>>
dataVars  == <<file, lastIndex>>
buildVars == <<snapshot, buildBase, at, tokens, built>>

ReadWaits == {"finish_wait", "query_wait", "clone_wait", "resolve_wait"}
Reading   == {"finish", "query", "clone", "resolve"}
Stages    == ReadWaits \cup Reading \cup
             {"idle", "set", "parse", "add_wait", "merge", "foreign", "base",
              "type", "dead"}

Results == {"none", "ok", "not_found", "order_panic"}

Init == /\ todo \in Scripts
        /\ pc = [p \in Procs |-> "idle"]
        /\ answer = [p \in Procs |-> NoAnswer]
        /\ file = <<>>
        /\ lastIndex = None
        /\ readers = {} /\ writer = None /\ poisoned = FALSE
        /\ base = [p \in Procs |-> None]
        /\ parsed = [p \in Procs |-> <<>>]
        /\ snapshot = [p \in Procs |-> <<>>]
        /\ buildBase = [p \in Procs |-> 0]
        /\ at = [p \in Procs |-> 0]
        /\ tokens = [p \in Procs |-> <<>>]
        /\ built = [p \in Procs |-> "none"]

Call(p) == Head(todo[p])

----------------------------------------------------------------------------
(* The order of the stages of add_file: the parse comes before the lock.   *)

AddStageLockFirst(stage) ==
    CASE stage = "begin"    -> "add_wait"
      [] stage = "add_wait" -> "parse"
      [] stage = "parse"    -> "merge"

AddStage(stage) ==
    CASE stage = "begin"    -> "parse"
      [] stage = "parse"    -> "add_wait"
      [] stage = "add_wait" -> "merge"

FirstStage(op) ==
    CASE op.tag = "set_last_index" -> "set"
      [] op.tag = "add_file"       -> AddStage("begin")
      [] op.tag = "finish_load"    -> "finish_wait"
      [] op.tag = "query" -> IF op.options.foreign THEN "foreign" ELSE "query_wait"
      [] op.tag = "build"          -> "clone_wait"

\* A call begins; add_file reads the last index first thing.
Begin(p) ==
    /\ pc[p] = "idle" /\ todo[p] # <<>>
    /\ pc' = [pc EXCEPT ![p] = FirstStage(Call(p))]
    /\ base' = IF Call(p).tag = "add_file" THEN [base EXCEPT ![p] = lastIndex]
                                           ELSE base
    /\ UNCHANGED <<todo, answer, dataVars, lockVars, parsed, buildVars>>

Return(p, a) == /\ pc' = [pc EXCEPT ![p] = "idle"]
                /\ todo' = [todo EXCEPT ![p] = Tail(@)]
                /\ answer' = [answer EXCEPT ![p] = a]

\* Guards are dropped when their call ends or unwinds.
DropGuards(p) == /\ readers' = readers \ {p}
                 /\ writer' = IF writer = p THEN None ELSE writer

Unlock(p) == DropGuards(p) /\ UNCHANGED poisoned

Unwind(p) == /\ pc' = [pc EXCEPT ![p] = "dead"]
             /\ DropGuards(p)
             /\ poisoned' = (poisoned \/ writer = p)
             /\ UNCHANGED todo

PanicCall(p) == Unwind(p) /\ answer' = [answer EXCEPT ![p] = Panicked]

----------------------------------------------------------------------------
(* The lock                                                                *)

CanRead == writer = None /\ \A q \in Procs : pc[q] # "add_wait"

AfterRead(stage) ==
    CASE stage = "finish_wait" -> "finish" [] stage = "query_wait" -> "query"
      [] stage = "clone_wait" -> "clone"   [] stage = "resolve_wait" -> "resolve"

\* `self.file.read().unwrap()`: a panic if the lock is poisoned.
AcquireRead(p) ==
    /\ pc[p] \in ReadWaits /\ CanRead
    /\ readers' = IF poisoned THEN readers ELSE readers \cup {p}
    /\ pc' = [pc EXCEPT ![p] = IF poisoned THEN "dead" ELSE AfterRead(@)]
    /\ UNCHANGED <<todo, answer, dataVars, writer, poisoned, base, parsed, buildVars>>

\* `self.file.write().unwrap()`
AcquireWrite(p) ==
    /\ pc[p] = "add_wait" /\ writer = None /\ readers = {}
    /\ writer' = IF poisoned THEN None ELSE p
    /\ pc' = [pc EXCEPT ![p] = IF poisoned THEN "dead" ELSE AddStage(@)]
    /\ UNCHANGED <<todo, answer, dataVars, readers, poisoned, base, parsed, buildVars>>

----------------------------------------------------------------------------
(* set_last_index, add_file, finish_load, query                            *)

Set(p) ==
    /\ pc[p] = "set"
    /\ lastIndex' = Call(p).index
    /\ Return(p, Done)
    /\ UNCHANGED <<file, lockVars, base, parsed, buildVars>>

NeverOverflows(p) == FALSE
\* `ty.index() + last_index`
IndexOverflows(p) == Overflows(Call(p).source.types, base[p])

ParsePanics(p) ==
    \/ base[p] = None                     \* last_index.unwrap()
    \/ Call(p).source.result = "panic"
    \/ base[p] # None /\ IndexOverflows(p)

Parse(p) ==
    /\ pc[p] = "parse"
    /\ base[p] # None /\ ~IndexOverflows(p)
    /\ Call(p).source.result = "ok"
    /\ parsed' = [parsed EXCEPT ![p] = Rebase(Call(p).source.types, base[p])]
    /\ pc' = [pc EXCEPT ![p] = AddStage(@)]
    /\ UNCHANGED <<todo, answer, dataVars, lockVars, base, buildVars>>

\* read_path, from_utf8 or parse: `?`
ParseFails(p) ==
    /\ pc[p] = "parse" /\ Call(p).source.result = "error"
    /\ ~ParsePanics(p)
    /\ Return(p, Failed)
    /\ Unlock(p)
    /\ UNCHANGED <<dataVars, base, parsed, buildVars>>

AddPanics(p) ==
    /\ pc[p] = "parse" /\ ParsePanics(p)
    /\ PanicCall(p)
    /\ UNCHANGED <<dataVars, base, parsed, buildVars>>

MergedUnsorted(p) == file \o parsed[p]
\* `out_file.merge(file); out_file.sort()`
Merged(p) == SortByIndex(file \o parsed[p])

Merge(p) ==
    /\ pc[p] = "merge"
    /\ file' = Merged(p)
    /\ Return(p, Done)
    /\ Unlock(p)
    /\ UNCHANGED <<lastIndex, base, parsed, buildVars>>

FinishLoadReturns(p) ==
    /\ pc[p] = "finish"
    /\ \E t \in {file[i] : i \in DOMAIN file} :
          /\ \A i \in DOMAIN file : file[i].index <= t.index
          /\ Return(p, LastIndexIs(t.index))
    /\ Unlock(p)
    /\ UNCHANGED <<dataVars, base, parsed, buildVars>>

\* `max().unwrap()`
FinishLoadPanics(p) ==
    /\ pc[p] = "finish" /\ file = <<>>
    /\ PanicCall(p)
    /\ UNCHANGED <<dataVars, base, parsed, buildVars>>

Hits(options) == Keep(file, {i \in DOMAIN file : Matches(file[i], options)})

QueryReturns(p) ==
    /\ pc[p] = "query"
    /\ LET hits == Hits(Call(p).options) IN
       Return(p, Found(IF Call(p).options.exact /\ hits # <<>> THEN <<Head(hits)>>
                                                              ELSE hits))
    /\ Unlock(p)
    /\ UNCHANGED <<dataVars, base, parsed, buildVars>>

\* Another language or assembly: answered without the lock.
ForeignQuery(p) ==
    /\ pc[p] = "foreign"
    /\ Return(p, Found(<<>>))
    /\ UNCHANGED <<dataVars, lockVars, base, parsed, buildVars>>

----------------------------------------------------------------------------
(* build                                                                   *)

EndBuild(p, result) == /\ pc' = [pc EXCEPT ![p] = "idle"]
                       /\ todo' = [todo EXCEPT ![p] = Tail(@)]
                       /\ built' = [built EXCEPT ![p] = result]

ReadersWithGuard(p) == readers
\* `get_cloned` gives the guard back.
ReadersAfterClone(p) == readers \ {p}

Clone(p) ==
    /\ pc[p] = "clone"
    /\ snapshot' = [snapshot EXCEPT ![p] = file]
    /\ readers' = ReadersAfterClone(p)
    /\ pc' = [pc EXCEPT ![p] = "base"]
    /\ UNCHANGED <<todo, answer, dataVars, writer, poisoned, base, parsed,
                   buildBase, at, tokens, built>>

\* The last index, or 0 with a message.
ReadBase(p) ==
    /\ pc[p] = "base"
    /\ buildBase' = [buildBase EXCEPT ![p] = IF lastIndex = None THEN 0 ELSE lastIndex]
    /\ at' = [at EXCEPT ![p] = 0]
    /\ tokens' = [tokens EXCEPT ![p] = <<>>]
    /\ pc' = [pc EXCEPT ![p] = "type"]
    /\ UNCHANGED <<todo, answer, dataVars, lockVars, base, parsed, snapshot, built>>

NextType(p) == snapshot[p][at[p] + 1]

AnyIndex(p) == TRUE
\* The debug assertion; the sum may overflow.
IndexFollows(p) == /\ at[p] + buildBase[p] <= MaxIndex
                   /\ NextType(p).index = at[p] + buildBase[p]

BeginType(p) ==
    /\ pc[p] = "type" /\ at[p] < Len(snapshot[p])
    /\ IndexFollows(p)
    /\ at' = [at EXCEPT ![p] = @ + 1]
    /\ tokens' = [tokens EXCEPT ![p] = Append(@, <<>>)]
    /\ pc' = [pc EXCEPT ![p] = IF NextType(p).refs = <<>> THEN "type"
                                                          ELSE "resolve_wait"]
    /\ UNCHANGED <<todo, answer, dataVars, lockVars, base, parsed, snapshot,
                   buildBase, built>>

OrderPanics(p) ==
    /\ pc[p] = "type" /\ at[p] < Len(snapshot[p])
    /\ ~IndexFollows(p)
    /\ Unwind(p)
    /\ built' = [built EXCEPT ![p] = "order_panic"]
    /\ UNCHANGED <<answer, dataVars, base, parsed, snapshot, buildBase, at,
                   tokens>>

\* compile_type_reference asks the service, which asks this compiler again:
\* an exact query by name on the file as it is now, not on the clone, is
\* answered with the first type of that name.
ThisRef(p) == snapshot[p][at[p]].refs[Len(tokens[p][at[p]]) + 1]
Candidates(p) == {i \in DOMAIN file : file[i].name = ThisRef(p)}

LastResolved(p) == Len(tokens[p][at[p]]) + 1 = Len(snapshot[p][at[p]].refs)

Resolve(p) ==
    /\ pc[p] = "resolve"
    /\ \E i \in Candidates(p) :
          /\ \A j \in Candidates(p) : i <= j
          /\ tokens' = [tokens EXCEPT ![p][at[p]] =
                           Append(@, [name |-> file[i].name, id |-> file[i].index])]
    /\ pc' = [pc EXCEPT ![p] = IF LastResolved(p) THEN "type" ELSE "resolve_wait"]
    /\ Unlock(p)
    /\ UNCHANGED <<todo, answer, dataVars, base, parsed, snapshot, buildBase, at,
                   built>>

TypeNotFound(p) ==
    /\ pc[p] = "resolve" /\ Candidates(p) = {}
    /\ EndBuild(p, "not_found")
    /\ Unlock(p)
    /\ UNCHANGED <<answer, dataVars, base, parsed, snapshot, buildBase, at,
                   tokens>>

BuildReturns(p) ==
    /\ pc[p] = "type" /\ at[p] = Len(snapshot[p])
    /\ EndBuild(p, "ok")
    /\ UNCHANGED <<answer, dataVars, lockVars, base, parsed, snapshot, buildBase,
                   at, tokens>>

BuildStep(p) == Clone(p) \/ ReadBase(p) \/ BeginType(p) \/ OrderPanics(p)
                  \/ Resolve(p) \/ TypeNotFound(p) \/ BuildReturns(p)

AddStep(p) == Parse(p) \/ ParseFails(p) \/ AddPanics(p) \/ Merge(p)

CallStep(p) == \/ AcquireRead(p) \/ AcquireWrite(p)
               \/ Set(p) \/ AddStep(p) \/ FinishLoadReturns(p)
               \/ FinishLoadPanics(p) \/ QueryReturns(p) \/ ForeignQuery(p)
               \/ BuildStep(p)

\* The host has made its calls.
HostDone == /\ \A p \in Procs : pc[p] = "dead" \/ (pc[p] = "idle" /\ todo[p] = <<>>)
            /\ UNCHANGED vars

Next == (\E p \in Procs : Begin(p) \/ CallStep(p)) \/ HostDone

Spec == Init /\ [][Next]_vars

\* A thread that can run inside a call runs, sooner or later.
FairSpec == Spec /\ \A p \in Procs : WF_vars(CallStep(p))

----------------------------------------------------------------------------
(* Properties                                                              *)

Token == [name : Names, id : Index]

\* The types of the variables; every index in the file is a u32
\* (lib.rs:28-32, ast/src/lib.rs:31-34).
TypeOK ==
    /\ todo \in [Procs -> Seq(Operation)]
    /\ pc \in [Procs -> Stages] /\ built \in [Procs -> Results]
    /\ file \in Seq(Type)
    /\ lastIndex \in Index \cup {None}
    /\ readers \subseteq Procs
    /\ writer \in Procs \cup {None}
    /\ poisoned \in BOOLEAN
    /\ base \in [Procs -> Index \cup {None}]
    /\ parsed \in [Procs -> Seq(Type)] /\ snapshot \in [Procs -> Seq(Type)]
    /\ buildBase \in [Procs -> Index]
    /\ at \in [Procs -> Nat] /\ \A p \in Procs : at[p] <= Len(snapshot[p])
    /\ tokens \in [Procs -> Seq(Seq(Token))]

\* Every `unwrap` of a guard is right: whatever a file holds and however an
\* add_file dies, the lock is never poisoned for the other threads
\* (lib.rs:57, 114-125, 129).
NeverPoisoned == ~poisoned

\* The assertion of the build stands for what it was written for: whatever
\* the order in which threads have added the files, it fails only when the
\* indexes of the types do not tile an interval that starts at the last index
\* (lib.rs:121-122, build_impl.rs:61-62).
OrderPanicMeansGap ==
    \A p \in Procs : built[p] = "order_panic" =>
        {snapshot[p][i].index : i \in DOMAIN snapshot[p]}
            # buildBase[p] .. (buildBase[p] + Len(snapshot[p]) - 1)

\* A finished build's TypeDef tokens lead, in the assembly it filled, to the
\* types they were made for, unless a file was added since its clone; the
\* names are looked up in the live file (build_impl.rs:54, 219, 244-248).
TokensLandUnlessStale ==
    \A p \in Procs :
        built[p] = "ok" /\ pc[p] = "idle" /\ snapshot[p] = file =>
            \A i \in DOMAIN tokens[p] : \A j \in DOMAIN tokens[p][i] :
                LET token == tokens[p][i][j]
                    place == token.id - buildBase[p] + 1 IN
                place \in DOMAIN snapshot[p] /\ snapshot[p][place].name = token.name

\* Every call returns or panics: no thread waits for ever for the lock, not
\* even a build whose queries come back to the compiler while a writer waits
\* (build_impl.rs:54, 219, lib.rs:57).
CallsReturn ==
    \A p \in Procs : pc[p] \notin {"idle", "dead"} ~> pc[p] \in {"idle", "dead"}

ScriptCalls == UNION {UNION {{s[p][i] : i \in DOMAIN s[p]} : p \in Procs} : s \in Scripts}

\* The call a thread is in, as its host sees it: a build is none of the store's.
CallOf(p) == IF pc[p] \in {"idle", "dead"} \/ Call(p) = Build THEN None ELSE Call(p)
BaseOf(p) == IF pc[p] \in {"parse", "add_wait", "merge"} THEN base[p] ELSE None

\* The calls as the host may understand them.
Store == INSTANCE TypeStore WITH
    Calls <- ScriptCalls,
    store <- BagOf(file),
    index <- lastIndex,
    call  <- [p \in Procs |-> CallOf(p)],
    base  <- [p \in Procs |-> BaseOf(p)]

\* Adds are atomic and lose nothing, queries and finish_load answer from the
\* types of one moment (lib.rs:44-136).
ImplementsStore == Store!Spec
============================================================================
