------------------------- MODULE CompilerApiProofs -------------------------
(***************************************************************************)
(* The interface, for any threads, any calls and any files.                *)
(***************************************************************************)
EXTENDS CompilerApi, OrderingProofs

InCall == Stages \ {"idle", "dead"}

\* A thread in a call has it at the head of its list, and is in a stage of it.
CallsTyped ==
    \A p \in Procs :
        /\ pc[p] \in InCall => todo[p] # <<>>
        /\ pc[p] = "set" => Call(p).tag = "set_last_index"
        /\ pc[p] = "parse" => Call(p).tag = "add_file"

\* A build has one sequence of tokens for each type it has begun, and is at a
\* type when it resolves; its clone is not longer than the file has become.
BuildsTyped ==
    \A p \in Procs :
        /\ pc[p] \in {"type", "resolve_wait", "resolve"} => Len(tokens[p]) = at[p]
        /\ pc[p] \in {"resolve_wait", "resolve"} => at[p] # 0
        /\ Len(snapshot[p]) <= Len(file)

TypeInv == TypeOK /\ CallsTyped /\ BuildsTyped

----------------------------------------------------------------------------
\* The first stage of a call is one of its kind.
LEMMA FirstStageType ==
    ASSUME NEW op \in Operation
    PROVE  /\ FirstStage(op) \in InCall \ {"type", "resolve_wait", "resolve"}
           /\ FirstStage(op) = "set" => op.tag = "set_last_index"
           /\ FirstStage(op) = "parse" => op.tag = "add_file"
<1>1. CASE op.tag = "set_last_index"
  BY <1>1 DEF FirstStage, InCall, Stages, ReadWaits, Reading
<1>2. CASE op.tag = "add_file"
  BY <1>2 DEF FirstStage, AddStage, InCall, Stages, ReadWaits, Reading
<1>3. CASE op.tag = "finish_load"
  BY <1>3 DEF FirstStage, InCall, Stages, ReadWaits, Reading
<1>4. CASE op.tag = "query"
  BY <1>4 DEF FirstStage, InCall, Stages, ReadWaits, Reading
<1>5. CASE op.tag = "build"
  BY <1>5 DEF FirstStage, InCall, Stages, ReadWaits, Reading
<1> QED
  BY <1>1, <1>2, <1>3, <1>4, <1>5 DEF Operation

\* Initially.
LEMMA InitTyped == Init => TypeInv
<1> SUFFICES ASSUME Init PROVE TypeInv
  OBVIOUS
<1>1. todo \in [Procs -> Seq(Operation)]
  BY ScriptAssumption DEF Init
<1>2. pc \in [Procs -> Stages] /\ built \in [Procs -> Results]
  BY DEF Init, Stages, Results
<1>3. /\ parsed \in [Procs -> Seq(Type)] /\ snapshot \in [Procs -> Seq(Type)]
      /\ file \in Seq(Type) /\ tokens \in [Procs -> Seq(Seq(Token))]
  BY DEF Init
<1>4. /\ base \in [Procs -> Index \cup {None}]
      /\ buildBase \in [Procs -> Index] /\ at \in [Procs -> Nat]
      /\ \A p \in Procs : at[p] <= Len(snapshot[p])
  BY CatalogAssumption DEF Init, Index
<1>5. TypeOK
  BY <1>1, <1>2, <1>3, <1>4 DEF Init, TypeOK
<1> QED
  BY <1>5 DEF Init, TypeInv, CallsTyped, BuildsTyped, InCall

\* A call that ends leaves the rest of the script.
LEMMA ReturnTyped ==
    ASSUME TypeOK, CallsTyped, NEW p \in Procs, pc[p] \in InCall,
           pc' = [pc EXCEPT ![p] = "idle"], todo' = [todo EXCEPT ![p] = Tail(@)]
    PROVE  /\ pc' \in [Procs -> Stages] /\ todo' \in [Procs -> Seq(Operation)]
           /\ CallsTyped'
<1>1. todo[p] \in Seq(Operation) /\ todo[p] # <<>>
  BY DEF TypeOK, CallsTyped
<1>2. Tail(todo[p]) \in Seq(Operation)
  BY <1>1
<1>3. pc' \in [Procs -> Stages] /\ todo' \in [Procs -> Seq(Operation)]
  BY <1>2 DEF TypeOK, Stages
<1> QED
  BY <1>3 DEF TypeOK, CallsTyped, Call, InCall

\* A thread that dies keeps its script.
LEMMA DeadTyped ==
    ASSUME TypeOK, CallsTyped, NEW p \in Procs,
           pc' = [pc EXCEPT ![p] = "dead"], todo' = todo
    PROVE  pc' \in [Procs -> Stages] /\ CallsTyped'
BY DEF TypeOK, CallsTyped, Call, InCall, Stages

\* The guards a thread drops.
LEMMA DropTyped ==
    ASSUME TypeOK, NEW p \in Procs, DropGuards(p)
    PROVE  readers' \subseteq Procs /\ writer' \in Procs \cup {None}
BY DEF TypeOK, DropGuards

----------------------------------------------------------------------------
\* A call begins.
LEMMA BeginTyped ==
    ASSUME TypeInv, NEW p \in Procs, Begin(p)
    PROVE  TypeInv'
<1> USE DEF TypeInv, Begin, dataVars, lockVars, buildVars
<1>1. Call(p) \in Operation
  BY DEF TypeOK, Call
<1>2. pc' \in [Procs -> Stages]
  BY <1>1, FirstStageType DEF TypeOK, InCall
<1>3. base' \in [Procs -> Index \cup {None}]
  BY DEF TypeOK
<1>4. TypeOK'
  BY <1>2, <1>3 DEF TypeOK
<1>5. CallsTyped'
  BY <1>1, FirstStageType DEF TypeOK, CallsTyped, Call
<1>6. BuildsTyped'
  BY <1>1, FirstStageType DEF TypeOK, BuildsTyped, InCall
<1> QED
  BY <1>4, <1>5, <1>6

\* A read guard is given, or its thread panics.
LEMMA AcquireReadTyped ==
    ASSUME TypeInv, NEW p \in Procs, AcquireRead(p)
    PROVE  TypeInv'
<1> USE DEF TypeInv, AcquireRead, dataVars, buildVars
<1> DEFINE s == IF poisoned THEN "dead" ELSE AfterRead(pc[p])
<1>1. /\ pc' = [pc EXCEPT ![p] = s]
      /\ s \in Reading \cup {"dead"}
      /\ s = "resolve" => pc[p] = "resolve_wait"
  BY DEF AfterRead, ReadWaits, Reading
<1>2. pc' \in [Procs -> Stages]
  BY <1>1 DEF TypeOK, Stages
<1>3. TypeOK'
  BY <1>2 DEF TypeOK
<1>4. pc[p] \in InCall
  BY DEF InCall, Stages, ReadWaits
<1>5. CallsTyped'
  BY <1>1, <1>4 DEF TypeOK, CallsTyped, Call, Reading
<1>6. BuildsTyped'
  BY <1>1 DEF TypeOK, BuildsTyped, Reading
<1> QED
  BY <1>3, <1>5, <1>6

\* The write guard is given, or its thread panics.
LEMMA AcquireWriteTyped ==
    ASSUME TypeInv, NEW p \in Procs, AcquireWrite(p)
    PROVE  TypeInv'
<1> USE DEF TypeInv, AcquireWrite, dataVars, buildVars
<1> DEFINE s == IF poisoned THEN "dead" ELSE "merge"
<1>1. pc' = [pc EXCEPT ![p] = s]
  BY DEF AddStage
<1>2. pc' \in [Procs -> Stages]
  BY <1>1 DEF TypeOK, Stages
<1>3. TypeOK'
  BY <1>2 DEF TypeOK
<1>4. pc[p] \in InCall
  BY DEF InCall, Stages
<1>5. CallsTyped'
  BY <1>1, <1>4 DEF TypeOK, CallsTyped, Call
<1>6. BuildsTyped'
  BY <1>1 DEF TypeOK, BuildsTyped
<1> QED
  BY <1>3, <1>5, <1>6

\* The call a thread is in.
LEMMA CallType ==
    ASSUME TypeInv, NEW p \in Procs, pc[p] \in InCall
    PROVE  Call(p) \in Operation
<1>1. todo[p] \in Seq(Operation) /\ todo[p] # <<>>
  BY DEF TypeInv, TypeOK, CallsTyped
<1> QED
  BY <1>1 DEF Call

\* Types have indexes.
LEMMA TypesIndexed ==
    ASSUME NEW ts \in Seq(Type)
    PROVE  /\ \A i \in DOMAIN ts : ts[i] \in Type /\ ts[i].index \in Index
           /\ Indexed(ts)
<1>1. \A i \in DOMAIN ts : ts[i] \in Type
  OBVIOUS
<1>2. \A i \in DOMAIN ts : ts[i].index \in Index
  BY <1>1 DEF Type
<1> QED
  BY <1>1, <1>2, CatalogAssumption DEF Indexed, Index

\* set_last_index.
LEMMA SetTyped ==
    ASSUME TypeInv, NEW p \in Procs, Set(p)
    PROVE  TypeInv'
<1> USE DEF TypeInv, Set, Return, lockVars, buildVars
<1>1. pc[p] \in InCall
  BY DEF InCall, Stages
<1>2. Call(p) \in Operation /\ Call(p).tag = "set_last_index"
  BY <1>1, CallType DEF CallsTyped
<1>3. lastIndex' \in Index
  BY <1>2 DEF Operation
<1>4. /\ pc' \in [Procs -> Stages] /\ todo' \in [Procs -> Seq(Operation)]
      /\ CallsTyped'
  BY <1>1, ReturnTyped
<1>5. TypeOK'
  BY <1>3, <1>4 DEF TypeOK
<1>6. BuildsTyped'
  BY DEF TypeOK, BuildsTyped
<1> QED
  BY <1>4, <1>5, <1>6

\* The types of a new file get indexes that are indexes.
LEMMA RebaseType ==
    ASSUME NEW ts \in Seq(Type), NEW b \in Index, ~Overflows(ts, b)
    PROVE  Rebase(ts, b) \in Seq(Type)
<1>1. ASSUME NEW i \in 1 .. Len(ts)
      PROVE  [ts[i] EXCEPT !.index = @ + b] \in Type
  <2>1. ts[i] \in Type /\ ts[i].index + b \in Index
    BY TypesIndexed, CatalogAssumption DEF Overflows, Index
  <2> QED
    BY <2>1 DEF Type
<1>2. Rebase(ts, b) = [i \in 1 .. Len(ts) |-> [ts[i] EXCEPT !.index = @ + b]]
  BY DEF Rebase
<1>3. Len(ts) \in Nat
  OBVIOUS
<1> QED
  BY <1>1, <1>2, <1>3

\* A file has been parsed.
LEMMA ParseTyped ==
    ASSUME TypeInv, NEW p \in Procs, Parse(p)
    PROVE  TypeInv'
<1> USE DEF TypeInv, Parse, dataVars, lockVars, buildVars
<1>0. pc[p] \in InCall
  BY DEF InCall, Stages
<1>1. Call(p) \in Operation /\ Call(p).tag = "add_file"
  BY <1>0, CallType DEF CallsTyped
<1>2. Call(p).source.types \in Seq(Type)
  BY <1>1 DEF Operation, Source
<1>3. base[p] \in Index
  BY DEF TypeOK
<1>4. Rebase(Call(p).source.types, base[p]) \in Seq(Type)
  BY <1>2, <1>3, RebaseType DEF IndexOverflows
<1>5. pc' = [pc EXCEPT ![p] = "add_wait"]
  BY DEF AddStage
<1>6. TypeOK'
  BY <1>4, <1>5 DEF TypeOK, Stages
<1>7. CallsTyped'
  BY <1>0, <1>5 DEF TypeOK, CallsTyped, Call
<1>8. BuildsTyped'
  BY <1>5 DEF TypeOK, BuildsTyped
<1> QED
  BY <1>6, <1>7, <1>8

\* A call that returns, gives its guards back and changes nothing else.
LEMMA ReturnsTyped ==
    ASSUME TypeInv, NEW p \in Procs, pc[p] \in InCall, NEW a,
           Return(p, a), DropGuards(p), poisoned' \in BOOLEAN,
           UNCHANGED <<dataVars, base, parsed, buildVars>>
    PROVE  TypeInv'
<1> USE DEF TypeInv, Return, dataVars, buildVars
<1>1. /\ pc' \in [Procs -> Stages] /\ todo' \in [Procs -> Seq(Operation)]
      /\ CallsTyped'
  BY ReturnTyped
<1>2. TypeOK'
  BY <1>1, DropTyped DEF TypeOK
<1>3. BuildsTyped'
  BY DEF TypeOK, BuildsTyped
<1> QED
  BY <1>1, <1>2, <1>3

\* A panic that leaves the builds' results alone.
LEMMA PanicTyped ==
    ASSUME TypeInv, NEW p \in Procs, Unwind(p), built' \in [Procs -> Results],
           UNCHANGED <<dataVars, base, parsed, snapshot, buildBase, at, tokens>>
    PROVE  TypeInv'
<1> USE DEF TypeInv, Unwind, dataVars
<1>1. pc' \in [Procs -> Stages] /\ CallsTyped'
  BY DeadTyped
<1>2. poisoned' \in BOOLEAN
  BY DEF TypeOK
<1>3. TypeOK'
  BY <1>1, <1>2, DropTyped DEF TypeOK
<1>4. BuildsTyped'
  BY DEF TypeOK, BuildsTyped
<1> QED
  BY <1>1, <1>3, <1>4

\* Merging and sorting.
LEMMA MergeTyped ==
    ASSUME TypeInv, NEW p \in Procs, Merge(p)
    PROVE  TypeInv'
<1> USE DEF TypeInv, Merge, Unlock, buildVars
<1> DEFINE s == file \o parsed[p]
<1>1. s \in Seq(Type) /\ Len(s) = Len(file) + Len(parsed[p])
  BY DEF TypeOK
<1>2. Indexed(s)
  BY <1>1, TypesIndexed
<1>3. file' \in Seq(Type) /\ Len(file') = Len(s)
  BY <1>1, <1>2, SortType DEF Merged
<1>4. pc[p] \in InCall
  BY DEF InCall, Stages
<1>5. /\ pc' \in [Procs -> Stages] /\ todo' \in [Procs -> Seq(Operation)]
      /\ CallsTyped'
  BY <1>4, ReturnTyped DEF Return
<1>6. TypeOK'
  BY <1>3, <1>5, DropTyped DEF TypeOK
<1>7. Len(file) <= Len(file') /\ \A q \in Procs : Len(snapshot[q]) \in Nat
  BY <1>1, <1>3 DEF TypeOK
<1>8. BuildsTyped'
  BY <1>1, <1>3, <1>7 DEF TypeOK, BuildsTyped, Return
<1> QED
  BY <1>5, <1>6, <1>8

\* The clone of the file gives its guard back.
LEMMA CloneTyped ==
    ASSUME TypeInv, NEW p \in Procs, Clone(p)
    PROVE  TypeInv'
<1> USE DEF TypeInv, Clone, dataVars
<1>1. pc[p] \in InCall
  BY DEF InCall, Stages, Reading
<1>2. \A q \in Procs : /\ at[q] \in Nat /\ Len(snapshot[q]) \in Nat
                       /\ at[q] <= Len(snapshot[q]) /\ Len(snapshot[q]) <= Len(file)
  BY DEF TypeOK, BuildsTyped
<1>3. snapshot' \in [Procs -> Seq(Type)] /\ Len(file) \in Nat
  BY DEF TypeOK
<1>4. \A q \in Procs : at[q] <= Len(snapshot'[q]) /\ Len(snapshot'[q]) <= Len(file)
  BY <1>2, <1>3 DEF TypeOK
<1>5. readers' \subseteq Procs
  BY DEF TypeOK, ReadersAfterClone
<1>6. TypeOK'
  BY <1>3, <1>4, <1>5 DEF TypeOK, Stages
<1>7. CallsTyped'
  BY <1>1 DEF TypeOK, CallsTyped, Call
<1>8. BuildsTyped'
  BY <1>4 DEF TypeOK, BuildsTyped
<1> QED
  BY <1>6, <1>7, <1>8

\* The last index, as the build reads it.
LEMMA ReadBaseTyped ==
    ASSUME TypeInv, NEW p \in Procs, ReadBase(p)
    PROVE  TypeInv'
<1> USE DEF TypeInv, ReadBase, dataVars, lockVars
<1>1. pc[p] \in InCall
  BY DEF InCall, Stages
<1>2. buildBase' \in [Procs -> Index]
  BY CatalogAssumption DEF TypeOK, Index
<1>3. /\ at' \in [Procs -> Nat]
      /\ \A q \in Procs : at'[q] <= Len(snapshot[q])
  BY DEF TypeOK
<1>4. tokens' \in [Procs -> Seq(Seq(Token))] /\ Len(tokens'[p]) = 0 /\ at'[p] = 0
  BY DEF TypeOK
<1>5. TypeOK'
  BY <1>2, <1>3, <1>4 DEF TypeOK, Stages
<1>6. CallsTyped'
  BY <1>1 DEF TypeOK, CallsTyped, Call
<1>7. BuildsTyped'
  BY <1>4 DEF TypeOK, BuildsTyped
<1> QED
  BY <1>5, <1>6, <1>7

\* The next type of the clone.
LEMMA BeginTypeTyped ==
    ASSUME TypeInv, NEW p \in Procs, BeginType(p)
    PROVE  TypeInv'
<1> USE DEF TypeInv, BeginType, dataVars, lockVars
<1> DEFINE s == IF NextType(p).refs = <<>> THEN "type" ELSE "resolve_wait"
<1>1. pc[p] \in InCall
  BY DEF InCall, Stages
<1>2. pc' = [pc EXCEPT ![p] = s] /\ s \in {"type", "resolve_wait"}
  OBVIOUS
<1>3. /\ at[p] \in Nat /\ Len(snapshot[p]) \in Nat
      /\ tokens[p] \in Seq(Seq(Token)) /\ Len(tokens[p]) = at[p]
  BY DEF TypeOK, BuildsTyped
<1>4. /\ at' \in [Procs -> Nat] /\ at'[p] = at[p] + 1
      /\ \A q \in Procs : at'[q] <= Len(snapshot[q])
  BY <1>3 DEF TypeOK
<1>5. /\ Append(tokens[p], <<>>) \in Seq(Seq(Token))
      /\ Len(Append(tokens[p], <<>>)) = at[p] + 1
  BY <1>3
<1>6. tokens' \in [Procs -> Seq(Seq(Token))] /\ Len(tokens'[p]) = at'[p]
  BY <1>4, <1>5 DEF TypeOK
<1>7. pc' \in [Procs -> Stages]
  BY <1>2 DEF TypeOK, Stages, ReadWaits
<1>8. TypeOK'
  BY <1>4, <1>6, <1>7 DEF TypeOK
<1>9. CallsTyped'
  BY <1>1, <1>2 DEF TypeOK, CallsTyped, Call
<1>10. BuildsTyped'
  BY <1>2, <1>3, <1>4, <1>6 DEF TypeOK, BuildsTyped
<1> QED
  BY <1>8, <1>9, <1>10

\* A reference is resolved to a type of the file.
LEMMA ResolveTyped ==
    ASSUME TypeInv, NEW p \in Procs, Resolve(p)
    PROVE  TypeInv'
<1> USE DEF TypeInv, Resolve, dataVars
<1> DEFINE s == IF LastResolved(p) THEN "type" ELSE "resolve_wait"
<1>1. pc[p] \in InCall
  BY DEF InCall, Stages, Reading
<1>2. pc' = [pc EXCEPT ![p] = s] /\ s \in {"type", "resolve_wait"}
  OBVIOUS
<1>3. /\ at[p] \in 1 .. Len(tokens[p]) /\ Len(tokens[p]) = at[p]
      /\ tokens[p] \in Seq(Seq(Token))
  BY DEF TypeOK, BuildsTyped
<1>4. PICK i \in DOMAIN file :
          tokens' = [tokens EXCEPT ![p][at[p]] =
                        Append(@, [name |-> file[i].name, id |-> file[i].index])]
  BY DEF Candidates
<1>5. [name |-> file[i].name, id |-> file[i].index] \in Token
  <2>1. file[i] \in Type
    BY DEF TypeOK
  <2> QED
    BY <2>1 DEF Type, Token
<1>6. Append(tokens[p][at[p]], [name |-> file[i].name, id |-> file[i].index]) \in Seq(Token)
  BY <1>3, <1>5
<1>7. /\ tokens'[p] \in Seq(Seq(Token)) /\ Len(tokens'[p]) = at[p]
      /\ tokens' \in [Procs -> Seq(Seq(Token))]
  BY <1>3, <1>4, <1>6 DEF TypeOK
<1>8. /\ pc' \in [Procs -> Stages]
      /\ readers' \subseteq Procs /\ writer' \in Procs \cup {None}
  BY <1>2, DropTyped DEF TypeOK, Stages, ReadWaits, Unlock
<1>9. TypeOK'
  BY <1>7, <1>8 DEF TypeOK, Unlock
<1>10. CallsTyped'
  BY <1>1, <1>2 DEF TypeOK, CallsTyped, Call
<1>11. BuildsTyped'
  BY <1>2, <1>3, <1>4, <1>7 DEF TypeOK, BuildsTyped
<1> QED
  BY <1>9, <1>10, <1>11

\* A build that ends.
LEMMA EndBuildTyped ==
    ASSUME TypeInv, NEW p \in Procs, pc[p] \in InCall,
           NEW result \in Results, EndBuild(p, result),
           readers' \subseteq Procs, writer' \in Procs \cup {None},
           UNCHANGED <<dataVars, poisoned, base, parsed, snapshot, buildBase, at, tokens>>
    PROVE  TypeInv'
<1> USE DEF TypeInv, EndBuild, dataVars
<1>1. /\ pc' \in [Procs -> Stages] /\ todo' \in [Procs -> Seq(Operation)]
      /\ CallsTyped'
  BY ReturnTyped
<1>2. TypeOK'
  BY <1>1 DEF TypeOK
<1>3. BuildsTyped'
  BY DEF TypeOK, BuildsTyped
<1> QED
  BY <1>1, <1>2, <1>3

\* A call that returns having changed nothing.
LEMMA CallsTypedReturn ==
    ASSUME TypeInv, NEW p \in Procs,
           \/ ParseFails(p) \/ FinishLoadReturns(p) \/ QueryReturns(p) \/ ForeignQuery(p)
    PROVE  TypeInv'
<1>1. pc[p] \in InCall
  BY DEF ParseFails, FinishLoadReturns, QueryReturns, ForeignQuery, InCall, Stages, Reading
<1>2. CASE ParseFails(p)
  BY <1>1, <1>2, ReturnsTyped DEF ParseFails, Unlock, TypeInv, TypeOK
<1>3. CASE FinishLoadReturns(p)
  <2>1. PICK t : Return(p, LastIndexIs(t.index))
    BY <1>3 DEF FinishLoadReturns
  <2> QED
    BY <1>1, <1>3, <2>1, ReturnsTyped DEF FinishLoadReturns, Unlock, TypeInv, TypeOK
<1>4. CASE QueryReturns(p)
  <2>1. PICK a : Return(p, a)
    BY <1>4 DEF QueryReturns
  <2> QED
    BY <1>1, <1>4, <2>1, ReturnsTyped DEF QueryReturns, Unlock, TypeInv, TypeOK
<1>5. CASE ForeignQuery(p)
  <2>1. /\ pc' = [pc EXCEPT ![p] = "idle"]
        /\ todo' = [todo EXCEPT ![p] = Tail(@)]
    BY <1>5 DEF ForeignQuery, Return
  <2>2. /\ pc' \in [Procs -> Stages] /\ todo' \in [Procs -> Seq(Operation)]
        /\ CallsTyped'
    BY <1>1, <2>1, ReturnTyped DEF TypeInv
  <2>3. TypeOK'
    BY <1>5, <2>2 DEF ForeignQuery, TypeInv, TypeOK, dataVars, lockVars, buildVars
  <2>4. BuildsTyped'
    BY <1>5, <2>1 DEF ForeignQuery, TypeInv, TypeOK, BuildsTyped, dataVars, buildVars
  <2> QED
    BY <2>2, <2>3, <2>4 DEF TypeInv
<1> QED
  BY <1>2, <1>3, <1>4, <1>5

\* Every step keeps the types.
LEMMA TypePreserved == TypeInv /\ [Next]_vars => TypeInv'
<1> SUFFICES ASSUME TypeInv, [Next]_vars PROVE TypeInv'
  OBVIOUS
<1>1. ASSUME NEW p \in Procs, AddPanics(p) \/ FinishLoadPanics(p)
      PROVE  TypeInv'
  BY <1>1, PanicTyped
     DEF AddPanics, FinishLoadPanics, PanicCall, buildVars, TypeInv, TypeOK
<1>2. ASSUME NEW p \in Procs, OrderPanics(p)
      PROVE  TypeInv'
  <2>1. built' \in [Procs -> Results]
    BY <1>2 DEF OrderPanics, TypeInv, TypeOK, Results
  <2> QED
    BY <1>2, <2>1, PanicTyped DEF OrderPanics
<1>3. ASSUME NEW p \in Procs, TypeNotFound(p)
      PROVE  TypeInv'
  <2>1. readers' \subseteq Procs /\ writer' \in Procs \cup {None} /\ UNCHANGED poisoned
    BY <1>3, DropTyped DEF TypeNotFound, Unlock, TypeInv
  <2> QED
    BY <1>3, <2>1, EndBuildTyped
       DEF TypeNotFound, InCall, Stages, Reading, Results
<1>4. ASSUME NEW p \in Procs, BuildReturns(p)
      PROVE  TypeInv'
  <2>1. readers' \subseteq Procs /\ writer' \in Procs \cup {None} /\ UNCHANGED poisoned
    BY <1>4 DEF BuildReturns, lockVars, TypeInv, TypeOK
  <2> QED
    BY <1>4, <2>1, EndBuildTyped DEF BuildReturns, InCall, Stages, Results
<1>5. CASE UNCHANGED vars
  BY <1>5 DEF vars, TypeInv, TypeOK, CallsTyped, BuildsTyped, Call
<1>6. ASSUME NEW p \in Procs, Begin(p) \/ CallStep(p)
      PROVE  TypeInv'
  BY <1>1, <1>2, <1>3, <1>4, <1>6, BeginTyped, AcquireReadTyped, AcquireWriteTyped,
     SetTyped, ParseTyped, MergeTyped, CallsTypedReturn, CloneTyped, ReadBaseTyped,
     BeginTypeTyped, ResolveTyped
     DEF CallStep, AddStep, BuildStep
<1> QED
  BY <1>5, <1>6 DEF Next, HostDone

\* The variables have their types; every index in the file, in a snapshot and
\* in a token is a u32 (lib.rs:28-32, ast/src/lib.rs:31-34).
THEOREM TypeCorrect == Spec => []TypeOK
<1>1. TypeInv => TypeOK
  BY DEF TypeInv
<1> QED
  BY InitTyped, TypePreserved, <1>1, PTL DEF Spec

----------------------------------------------------------------------------
(* The lock                                                                *)

\* A writer merges, and nothing in a merge panics.
LockInv == /\ ~poisoned
           /\ \A p \in Procs : writer = p => pc[p] = "merge"

\* A thread that does not hold the write guard moves: the writer is where it was.
LEMMA LockKept ==
    ASSUME TypeInv, LockInv, NEW p \in Procs, pc[p] # "merge", NEW s,
           pc' = [pc EXCEPT ![p] = s], writer' = writer, poisoned' = poisoned
    PROVE  LockInv'
BY DEF LockInv, TypeInv, TypeOK

\* It drops what it holds, which is not the write guard, and poisons nothing.
LEMMA LockDropped ==
    ASSUME TypeInv, LockInv, NEW p \in Procs, pc[p] # "merge", NEW s,
           pc' = [pc EXCEPT ![p] = s], DropGuards(p),
           poisoned' = poisoned \/ poisoned' = (poisoned \/ writer = p)
    PROVE  LockInv'
<1>1. writer # p
  BY DEF LockInv
<1>2. writer' = writer
  BY <1>1 DEF DropGuards
<1>3. ~poisoned'
  BY <1>1, Zenon DEF LockInv
<1> QED
  BY <1>2, <1>3 DEF LockInv, TypeInv, TypeOK

\* Every step keeps the lock sound.
LEMMA LockPreserved == TypeInv /\ LockInv /\ [Next]_vars => LockInv'
<1> SUFFICES ASSUME TypeInv, LockInv, [Next]_vars PROVE LockInv'
  OBVIOUS
<1>1. ASSUME NEW p \in Procs, Begin(p) PROVE LockInv'
  BY <1>1, LockKept DEF Begin, lockVars
<1>2. ASSUME NEW p \in Procs, AcquireRead(p) PROVE LockInv'
  BY <1>2, LockKept DEF AcquireRead, ReadWaits
<1>3. ASSUME NEW p \in Procs, AcquireWrite(p) PROVE LockInv'
  BY <1>3, ProcsAssumption DEF AcquireWrite, AddStage, LockInv, TypeInv, TypeOK
<1>4. ASSUME NEW p \in Procs, Set(p) \/ Parse(p) \/ ForeignQuery(p) PROVE LockInv'
  BY <1>4, LockKept DEF Set, Parse, ForeignQuery, Return, lockVars
<1>5. ASSUME NEW p \in Procs, ParseFails(p) \/ FinishLoadReturns(p) \/ QueryReturns(p)
      PROVE  LockInv'
  <2>1. PICK a : Return(p, a)
    BY <1>5 DEF ParseFails, FinishLoadReturns, QueryReturns
  <2> QED
    BY <1>5, <2>1, LockDropped
       DEF ParseFails, FinishLoadReturns, QueryReturns, Return, Unlock
<1>6. ASSUME NEW p \in Procs, AddPanics(p) \/ FinishLoadPanics(p) \/ OrderPanics(p)
      PROVE  LockInv'
  BY <1>6, LockDropped DEF AddPanics, FinishLoadPanics, OrderPanics, PanicCall, Unwind
<1>7. ASSUME NEW p \in Procs, Merge(p) PROVE LockInv'
  <2>1. writer' # p /\ (writer' = writer \/ writer' = None) /\ poisoned' = poisoned
    BY <1>7, ProcsAssumption DEF Merge, Unlock, DropGuards
  <2>2. pc' = [pc EXCEPT ![p] = "idle"]
    BY <1>7 DEF Merge, Return
  <2> QED
    BY <2>1, <2>2, ProcsAssumption DEF LockInv, TypeInv, TypeOK
<1>8. ASSUME NEW p \in Procs, Clone(p) \/ ReadBase(p) \/ BeginType(p) \/ BuildReturns(p)
      PROVE  LockInv'
  BY <1>8, LockKept DEF Clone, ReadBase, BeginType, BuildReturns, EndBuild, lockVars
<1>9. ASSUME NEW p \in Procs, Resolve(p) \/ TypeNotFound(p) PROVE LockInv'
  BY <1>9, LockDropped DEF Resolve, TypeNotFound, EndBuild, Unlock
<1>10. CASE UNCHANGED vars
  BY <1>10 DEF vars, LockInv
<1> QED
  BY <1>1, <1>2, <1>3, <1>4, <1>5, <1>6, <1>7, <1>8, <1>9, <1>10
     DEF Next, HostDone, CallStep, AddStep, BuildStep

\* Whatever threads call, with whatever files, the lock is never poisoned
\* (lib.rs:57, 114-125, 129).
THEOREM LockNeverPoisoned == Spec => []NeverPoisoned
<1>1. Init => LockInv
  BY ProcsAssumption DEF Init, LockInv
<1>2. LockInv => NeverPoisoned
  BY DEF LockInv, NeverPoisoned
<1> QED
  BY InitTyped, TypePreserved, LockPreserved, <1>1, <1>2, PTL DEF Spec

----------------------------------------------------------------------------
(* The order of the types                                                  *)

IndexesOf(s) == {s[i].index : i \in DOMAIN s}

\* How many numbers an interval has.
LEMMA IntervalSize ==
    ASSUME NEW b \in Nat, NEW n \in Nat
    PROVE  /\ IsFiniteSet(1 .. n) /\ Cardinality(1 .. n) = n
           /\ Cardinality(b .. (b + n - 1)) = n
<1>1. IsFiniteSet(1 .. n) /\ Cardinality(1 .. n) = n
  BY FS_Interval
<1> DEFINE m == b + n - 1
<1>2. m \in Int /\ (b > m <=> n = 0) /\ m - b + 1 = n
  OBVIOUS
<1>3. Cardinality(b .. m) = IF b > m THEN 0 ELSE m - b + 1
  BY <1>2, FS_Interval
<1> QED
  BY <1>1, <1>2, <1>3

\* In a sorted sequence the indexes of which follow b up to a place, and not at
\* it, they do not tile an interval from b: if the index there is too high, the
\* one it should have is nowhere; if it is too low, it occurs twice.
LEMMA Misfit ==
    ASSUME NEW s \in Seq(Type), SortedByIndex(s), NEW b \in Nat,
           NEW k \in Nat, k < Len(s),
           \A i \in 1 .. k : s[i].index = b + i - 1,
           s[k + 1].index # b + k
    PROVE  IndexesOf(s) # b .. (b + Len(s) - 1)
<1> DEFINE n == Len(s)
           v == s[k + 1].index
           D == 1 .. n
           R == b .. (b + n - 1)
<1>1. n \in Nat /\ DOMAIN s = D /\ k + 1 \in D
  OBVIOUS
<1>2. \A i \in D : s[i].index \in Nat
  BY <1>1, TypesIndexed DEF Indexed
<1> SUFFICES ASSUME IndexesOf(s) = R PROVE FALSE
  OBVIOUS
<1>3. v \in R /\ v \in Nat
  BY <1>1, <1>2 DEF IndexesOf
<1>4. CASE v > b + k
  <2>1. b + k \in R
    BY <1>1
  <2>2. PICK j \in D : s[j].index = b + k
    BY <1>1, <2>1 DEF IndexesOf
  <2>3. j > k + 1
    BY <1>1, <1>4, <2>2
  <2>4. v <= s[j].index
    BY <1>1, <2>3 DEF SortedByIndex
  <2> QED
    BY <1>2, <1>3, <1>4, <2>2, <2>4
<1>5. CASE v < b + k
  <2> DEFINE E == D \ {k + 1}
             f == [i \in E |-> s[i].index]
             j == v - b + 1
  <2>1. j \in E /\ s[j].index = v
    <3>1. v \in Nat /\ b <= v
      BY <1>1, <1>3
    <3> HIDE DEF v
    <3>2. j \in 1 .. k /\ b + j - 1 = v
      BY <1>5, <3>1
    <3>3. s[j].index = b + j - 1
      BY <3>2
    <3>4. k < n
      OBVIOUS
    <3> HIDE DEF n, j
    <3> QED
      BY <1>1, <3>2, <3>3, <3>4
  <2>2. \A i \in E : s[i].index \in R
    BY <1>1 DEF IndexesOf
  <2>3. f \in [E -> R]
    BY <2>2
  <2>4. \A r \in R : \E i \in E : f[i] = r
    <3> SUFFICES ASSUME NEW r \in R PROVE \E i \in E : f[i] = r
      OBVIOUS
    <3>1. PICK i \in D : s[i].index = r
      BY <1>1 DEF IndexesOf
    <3>2. CASE i = k + 1
      BY <2>1, <3>1, <3>2
    <3>3. CASE i # k + 1
      BY <3>1, <3>3
    <3> QED
      BY <3>2, <3>3
  <2>5. f \in Surjection(E, R)
    BY <2>3, <2>4 DEF Surjection
  <2>6. /\ IsFiniteSet(D) /\ Cardinality(D) = n
        /\ Cardinality(R) = n
    BY <1>1, IntervalSize
  <2>7. IsFiniteSet(E) /\ Cardinality(E) = n - 1
    <3>1. IsFiniteSet(D) /\ k + 1 \in D
      BY <1>1, <2>6
    <3> QED
      BY ONLY <3>1, <2>6, FS_RemoveElement
  <2>8. Cardinality(R) <= Cardinality(E)
    BY <2>5, <2>7, FS_Surjection
  <2> QED
    BY <1>1, <2>6, <2>7, <2>8
<1> QED
  BY <1>3, <1>4, <1>5

\* Files are sorted, the types a build has begun have the indexes the build
\* gives them, and a build that failed the assertion stays as it was then.
BuildOrdered(p) ==
    /\ SortedByIndex(snapshot[p])
    /\ pc[p] \in {"type", "resolve_wait", "resolve"} =>
          \A i \in 1 .. at[p] : snapshot[p][i].index = buildBase[p] + i - 1
    /\ built[p] = "order_panic" =>
          /\ pc[p] = "dead"
          /\ IndexesOf(snapshot[p])
                # buildBase[p] .. (buildBase[p] + Len(snapshot[p]) - 1)

OrderInv == SortedByIndex(file) /\ \A p \in Procs : BuildOrdered(p)

\* Initially.
LEMMA InitOrdered == Init => OrderInv
BY DEF Init, OrderInv, BuildOrdered, SortedByIndex

\* A step of a thread leaves the builds of the others alone.
LEMMA OthersOrdered ==
    ASSUME OrderInv, NEW p \in Procs, SortedByIndex(file)', BuildOrdered(p)',
           \A q \in Procs \ {p} :
               /\ pc'[q] = pc[q] /\ built'[q] = built[q] /\ at'[q] = at[q]
               /\ snapshot'[q] = snapshot[q] /\ buildBase'[q] = buildBase[q]
    PROVE  OrderInv'
<1>1. ASSUME NEW q \in Procs \ {p} PROVE BuildOrdered(q)'
  <2>1. BuildOrdered(q)
    BY DEF OrderInv
  <2>2. /\ pc'[q] = pc[q] /\ built'[q] = built[q] /\ at'[q] = at[q]
        /\ snapshot'[q] = snapshot[q] /\ buildBase'[q] = buildBase[q]
    OBVIOUS
  <2> QED
    BY <2>1, <2>2 DEF BuildOrdered, IndexesOf, SortedByIndex
<1> QED
  BY <1>1 DEF OrderInv

\* What a step of a thread may do to its own build without breaking that.
LEMMA OrderKept ==
    ASSUME TypeInv, OrderInv, NEW p \in Procs, pc[p] # "dead", NEW s,
           pc' = [pc EXCEPT ![p] = s],
           s \in {"type", "resolve_wait", "resolve"} =>
               pc[p] \in {"type", "resolve_wait", "resolve"},
           built' = built \/ (\E r \in {"ok", "not_found"} : built' = [built EXCEPT ![p] = r]),
           UNCHANGED <<snapshot, buildBase, at>>, SortedByIndex(file)'
    PROVE  OrderInv'
<1>1. /\ pc'[p] = s /\ \A q \in Procs \ {p} : pc'[q] = pc[q]
      /\ \A q \in Procs \ {p} : built'[q] = built[q]
      /\ built'[p] = built[p] \/ built'[p] \in {"ok", "not_found"}
  BY DEF TypeInv, TypeOK
<1>2. BuildOrdered(p) /\ built[p] # "order_panic"
  BY DEF OrderInv, BuildOrdered
<1>3. BuildOrdered(p)'
  BY <1>1, <1>2 DEF BuildOrdered, SortedByIndex
<1> QED
  BY <1>1, <1>3, OthersOrdered

\* Every step keeps the order.
LEMMA OrderPreserved == TypeInv /\ OrderInv /\ [Next]_vars => OrderInv'
<1> SUFFICES ASSUME TypeInv, OrderInv, [Next]_vars PROVE OrderInv'
  OBVIOUS
<1>0. file' = file => SortedByIndex(file)'
  BY DEF OrderInv, SortedByIndex
<1>1. ASSUME NEW p \in Procs, Begin(p) PROVE OrderInv'
  <2>1. Call(p) \in Operation
    BY <1>1 DEF Begin, TypeInv, TypeOK, Call
  <2> QED
    BY <1>0, <1>1, <2>1, FirstStageType, OrderKept DEF Begin, buildVars, dataVars
<1>2. ASSUME NEW p \in Procs, AcquireRead(p) PROVE OrderInv'
  <2> DEFINE s == IF poisoned THEN "dead" ELSE AfterRead(pc[p])
  <2>1. s = "resolve" \/ s \notin {"type", "resolve_wait", "resolve"}
    BY <1>2 DEF AcquireRead, AfterRead, ReadWaits
  <2>2. s = "resolve" => pc[p] = "resolve_wait"
    BY <1>2 DEF AcquireRead, AfterRead, ReadWaits
  <2> QED
    BY <1>0, <1>2, <2>1, <2>2, OrderKept DEF AcquireRead, ReadWaits, buildVars, dataVars
<1>3. ASSUME NEW p \in Procs, AcquireWrite(p) PROVE OrderInv'
  BY <1>0, <1>3, OrderKept DEF AcquireWrite, AddStage, buildVars, dataVars
<1>4. ASSUME NEW p \in Procs, Set(p) \/ Parse(p) \/ ForeignQuery(p) PROVE OrderInv'
  BY <1>0, <1>4, OrderKept DEF Set, Parse, AddStage, ForeignQuery, Return, buildVars, dataVars
<1>5. ASSUME NEW p \in Procs, ParseFails(p) \/ FinishLoadReturns(p) \/ QueryReturns(p)
      PROVE  OrderInv'
  <2>1. PICK a : Return(p, a)
    BY <1>5 DEF ParseFails, FinishLoadReturns, QueryReturns
  <2> QED
    BY <1>0, <1>5, <2>1, OrderKept
       DEF ParseFails, FinishLoadReturns, QueryReturns, Return, buildVars, dataVars
<1>6. ASSUME NEW p \in Procs, AddPanics(p) \/ FinishLoadPanics(p) PROVE OrderInv'
  BY <1>0, <1>6, OrderKept
     DEF AddPanics, FinishLoadPanics, PanicCall, Unwind, buildVars, dataVars
<1>7. ASSUME NEW p \in Procs, Merge(p) PROVE OrderInv'
  <2>1. file \o parsed[p] \in Seq(Type)
    BY DEF TypeInv, TypeOK
  <2>2. SortedByIndex(file)'
    BY <1>7, <2>1, TypesIndexed, SortOrders DEF Merge, Merged, SortedByIndex
  <2> QED
    BY <1>7, <2>2, OrderKept DEF Merge, Return, buildVars
<1>8. ASSUME NEW p \in Procs, Clone(p) PROVE OrderInv'
  <2>1. /\ \A q \in Procs \ {p} : pc'[q] = pc[q] /\ snapshot'[q] = snapshot[q]
        /\ UNCHANGED <<buildBase, at, built, file>>
        /\ snapshot'[p] = file /\ pc[p] = "clone" /\ pc'[p] = "base"
    BY <1>8 DEF Clone, dataVars, TypeInv, TypeOK
  <2>2. BuildOrdered(p)'
    BY <2>1 DEF OrderInv, BuildOrdered, SortedByIndex
  <2> QED
    BY <1>0, <2>1, <2>2, OthersOrdered
<1>9. ASSUME NEW p \in Procs, ReadBase(p) PROVE OrderInv'
  <2>1. /\ \A q \in Procs \ {p} : /\ pc'[q] = pc[q] /\ at'[q] = at[q]
                                  /\ buildBase'[q] = buildBase[q]
        /\ UNCHANGED <<snapshot, built, file>>
        /\ pc[p] = "base" /\ at'[p] = 0
    BY <1>9 DEF ReadBase, dataVars, TypeInv, TypeOK
  <2>2. BuildOrdered(p)'
    BY <2>1 DEF OrderInv, BuildOrdered, SortedByIndex
  <2> QED
    BY <1>0, <2>1, <2>2, OthersOrdered
<1>10. ASSUME NEW p \in Procs, BeginType(p) PROVE OrderInv'
  <2>1. /\ at[p] \in Nat /\ buildBase[p] \in Nat
        /\ snapshot[p][at[p] + 1].index = buildBase[p] + at[p]
    BY <1>10, CatalogAssumption
       DEF BeginType, IndexFollows, NextType, TypeInv, TypeOK, Index
  <2>2. /\ \A q \in Procs \ {p} : pc'[q] = pc[q] /\ at'[q] = at[q]
        /\ UNCHANGED <<snapshot, built, buildBase, file>>
        /\ pc[p] = "type" /\ at'[p] = at[p] + 1
    BY <1>10 DEF BeginType, dataVars, TypeInv, TypeOK
  <2>3. BuildOrdered(p) /\ built[p] # "order_panic"
    BY <2>2 DEF OrderInv, BuildOrdered
  <2>4. \A i \in 1 .. (at[p] + 1) : snapshot[p][i].index = buildBase[p] + i - 1
    BY <2>1, <2>2, <2>3 DEF BuildOrdered
  <2>5. BuildOrdered(p)'
    BY <2>2, <2>3, <2>4 DEF BuildOrdered, SortedByIndex
  <2> QED
    BY <1>0, <2>2, <2>5, OthersOrdered
<1>11. ASSUME NEW p \in Procs, OrderPanics(p) PROVE OrderInv'
  <2>1. /\ at[p] \in Nat /\ buildBase[p] \in Nat /\ at[p] < Len(snapshot[p])
        /\ snapshot[p] \in Seq(Type) /\ SortedByIndex(snapshot[p])
        /\ \A i \in 1 .. at[p] : snapshot[p][i].index = buildBase[p] + i - 1
    BY <1>11, CatalogAssumption
       DEF OrderPanics, OrderInv, BuildOrdered, TypeInv, TypeOK, Index
  <2>2. snapshot[p][at[p] + 1].index \in Index
    BY <2>1, TypesIndexed
  <2>3. snapshot[p][at[p] + 1].index # buildBase[p] + at[p]
    BY <1>11, <2>1, <2>2, CatalogAssumption
       DEF OrderPanics, IndexFollows, NextType, Index
  <2>4. IndexesOf(snapshot[p]) # buildBase[p] .. (buildBase[p] + Len(snapshot[p]) - 1)
    BY <2>1, <2>3, Misfit
  <2>5. /\ \A q \in Procs \ {p} : pc'[q] = pc[q] /\ built'[q] = built[q]
        /\ UNCHANGED <<snapshot, at, buildBase, file>>
        /\ pc'[p] = "dead"
    BY <1>11 DEF OrderPanics, Unwind, dataVars, TypeInv, TypeOK
  <2>6. BuildOrdered(p)'
    BY <2>1, <2>4, <2>5 DEF BuildOrdered, IndexesOf, SortedByIndex
  <2> QED
    BY <1>0, <2>5, <2>6, OthersOrdered
<1>12. ASSUME NEW p \in Procs, Resolve(p) PROVE OrderInv'
  BY <1>0, <1>12, OrderKept DEF Resolve, dataVars
<1>13. ASSUME NEW p \in Procs, TypeNotFound(p) \/ BuildReturns(p) PROVE OrderInv'
  BY <1>0, <1>13, OrderKept DEF TypeNotFound, BuildReturns, EndBuild, dataVars
<1>14. CASE UNCHANGED vars
  BY <1>14 DEF vars, OrderInv, BuildOrdered, IndexesOf, SortedByIndex
<1> QED
  BY <1>1, <1>2, <1>3, <1>4, <1>5, <1>6, <1>7, <1>8, <1>9, <1>10, <1>11, <1>12, <1>13,
     <1>14 DEF Next, HostDone, CallStep, AddStep, BuildStep

\* In whatever order threads add the files, and whatever these hold, the
\* assertion of the build fails only when the indexes of the types do not tile
\* an interval from the last index (lib.rs:121-122, build_impl.rs:61-62).
THEOREM OrderPanicOnlyOnGap == Spec => []OrderPanicMeansGap
<1>1. OrderInv => OrderPanicMeansGap
  BY DEF OrderInv, BuildOrdered, OrderPanicMeansGap, IndexesOf
<1> QED
  BY InitTyped, TypePreserved, InitOrdered, OrderPreserved, <1>1, PTL DEF Spec

----------------------------------------------------------------------------
(* The tokens                                                              *)

Filling == {"type", "resolve_wait", "resolve"}

\* A thread's last build has ended well and it has not cloned the file again.
Filled(p) == built[p] = "ok" /\ pc[p] \notin Filling \cup {"base", "dead"}

\* Its tokens are of types of the clone, which has the indexes of a tiling.
Resolved(p) ==
    \A i \in DOMAIN tokens[p] : \A j \in DOMAIN tokens[p][i] :
        \E k \in DOMAIN snapshot[p] :
            tokens[p][i][j] = [name |-> snapshot[p][k].name, id |-> snapshot[p][k].index]

Tiled(p) == \A i \in DOMAIN snapshot[p] : snapshot[p][i].index = buildBase[p] + i - 1

\* A file only grows: one as long as a clone of it is that clone, and was it
\* at every lookup in between.
Landed(p) ==
    /\ Len(file) = Len(snapshot[p]) => file = snapshot[p]
    /\ pc[p] \in Filling \/ Filled(p) => (file = snapshot[p] => Resolved(p))
    /\ Filled(p) => Tiled(p)

LandInv == \A p \in Procs : Landed(p)

\* A step of a thread that leaves the file alone leaves the builds of the
\* others alone.
LEMMA OthersLanded ==
    ASSUME LandInv, NEW p \in Procs, file' = file, Landed(p)',
           \A q \in Procs \ {p} :
               /\ pc'[q] = pc[q] /\ built'[q] = built[q] /\ tokens'[q] = tokens[q]
               /\ snapshot'[q] = snapshot[q] /\ buildBase'[q] = buildBase[q]
    PROVE  LandInv'
<1>1. ASSUME NEW q \in Procs \ {p} PROVE Landed(q)'
  <2>1. Landed(q)
    BY DEF LandInv
  <2>2. /\ pc'[q] = pc[q] /\ built'[q] = built[q] /\ tokens'[q] = tokens[q]
        /\ snapshot'[q] = snapshot[q] /\ buildBase'[q] = buildBase[q]
    OBVIOUS
  <2> QED
    BY <2>1, <2>2 DEF Landed, Filled, Resolved, Tiled, Filling
<1> QED
  BY <1>1 DEF LandInv

\* A step of a thread that leaves the file and its build alone.
LEMMA LandKept ==
    ASSUME TypeInv, LandInv, NEW p \in Procs, NEW s, pc' = [pc EXCEPT ![p] = s],
           s \in Filling => pc[p] \in Filling,
           \/ s = "dead"
           \/ s \in Filling
           \/ pc[p] \notin Filling \cup {"base", "dead"} /\ built' = built
           \/ built' = [built EXCEPT ![p] = "not_found"],
           \/ built' = built
           \/ \E r : built' = [built EXCEPT ![p] = r],
           UNCHANGED <<file, snapshot, buildBase, tokens>>
    PROVE  LandInv'
<1>1. /\ pc'[p] = s /\ \A q \in Procs \ {p} : pc'[q] = pc[q]
      /\ \A q \in Procs \ {p} : built'[q] = built[q]
      /\ built' = [built EXCEPT ![p] = "not_found"] => built'[p] = "not_found"
  BY DEF TypeInv, TypeOK
<1>2. Landed(p)
  BY DEF LandInv
<1>3. Filled(p)' => Filled(p)
  BY <1>1 DEF Filled, Filling
<1>4. Landed(p)'
  BY <1>1, <1>2, <1>3 DEF Landed, Resolved, Tiled
<1> QED
  BY <1>1, <1>4, OthersLanded

\* A merge: an empty file changes nothing, any other makes every clone stale.
LEMMA LandMerge ==
    ASSUME TypeInv, OrderInv, LandInv, NEW p \in Procs, Merge(p)
    PROVE  LandInv'
<1>1. /\ file \in Seq(Type) /\ parsed[p] \in Seq(Type)
      /\ file \o parsed[p] \in Seq(Type)
      /\ Len(file \o parsed[p]) = Len(file) + Len(parsed[p])
      /\ Len(file) \in Nat /\ Len(parsed[p]) \in Nat
  BY DEF TypeInv, TypeOK
<1>2. file' = SortByIndex(file \o parsed[p]) /\ Len(file') = Len(file) + Len(parsed[p])
  BY <1>1, TypesIndexed, SortType DEF Merge, Merged
<1>3. parsed[p] = <<>> => file' = file
  <2>1. parsed[p] = <<>> => file \o parsed[p] = file
    BY <1>1
  <2> QED
    BY <1>1, <1>2, <2>1, TypesIndexed, SortKeepsSorted DEF OrderInv
<1>4. parsed[p] # <<>> => Len(file') > Len(file)
  BY <1>1, <1>2
<1>5. ASSUME NEW q \in Procs PROVE Landed(q)'
  <2>1. Landed(q) /\ Len(snapshot[q]) <= Len(file) /\ Len(snapshot[q]) \in Nat
    BY DEF LandInv, TypeInv, TypeOK, BuildsTyped
  <2>2. /\ UNCHANGED <<snapshot, buildBase, tokens, built>>
        /\ pc'[q] = pc[q] \/ (pc[q] = "merge" /\ pc'[q] = "idle")
    BY DEF Merge, Return, buildVars, TypeInv, TypeOK
  <2>3. CASE parsed[p] = <<>>
    BY <1>3, <2>1, <2>2, <2>3 DEF Landed, Filled, Resolved, Tiled, Filling
  <2>4. CASE parsed[p] # <<>>
    <3>1. Len(file') # Len(snapshot[q]) /\ file' # snapshot[q]
      BY <1>1, <1>2, <1>4, <2>1, <2>4
    <3> QED
      BY <2>1, <2>2, <3>1 DEF Landed, Filled, Tiled, Filling
  <2> QED
    BY <2>3, <2>4
<1> QED
  BY <1>5 DEF LandInv

\* Every step keeps the tokens where they land.
LEMMA LandPreserved == TypeInv /\ OrderInv /\ LandInv /\ [Next]_vars => LandInv'
<1> SUFFICES ASSUME TypeInv, OrderInv, LandInv, [Next]_vars PROVE LandInv'
  OBVIOUS
<1>1. ASSUME NEW p \in Procs, Begin(p) PROVE LandInv'
  <2>1. Call(p) \in Operation
    BY <1>1 DEF Begin, TypeInv, TypeOK, Call
  <2>2. FirstStage(Call(p)) \notin Filling
    BY <2>1, FirstStageType DEF Filling
  <2> QED
    BY <1>1, <2>2, LandKept DEF Begin, buildVars, dataVars, Filling
<1>2. ASSUME NEW p \in Procs, AcquireRead(p) PROVE LandInv'
  <2> DEFINE s == IF poisoned THEN "dead" ELSE AfterRead(pc[p])
  <2>1. \/ s = "dead"
        \/ s = "resolve" /\ pc[p] = "resolve_wait"
        \/ s \notin Filling /\ pc[p] \notin Filling \cup {"base", "dead"}
    BY <1>2 DEF AcquireRead, AfterRead, ReadWaits, Filling
  <2>2. pc' = [pc EXCEPT ![p] = s] /\ built' = built
    BY <1>2 DEF AcquireRead, buildVars
  <2>3. UNCHANGED <<file, snapshot, buildBase, tokens>>
    BY <1>2 DEF AcquireRead, buildVars, dataVars
  <2> QED
    BY <2>1, <2>2, <2>3, LandKept DEF Filling
<1>3. ASSUME NEW p \in Procs,
             AcquireWrite(p) \/ Set(p) \/ Parse(p) \/ ForeignQuery(p)
      PROVE  LandInv'
  BY <1>3, LandKept
     DEF AcquireWrite, Set, Parse, AddStage, ForeignQuery, Return, buildVars, dataVars,
         Filling
<1>4. ASSUME NEW p \in Procs, ParseFails(p) \/ FinishLoadReturns(p) \/ QueryReturns(p)
      PROVE  LandInv'
  <2>1. PICK a : Return(p, a)
    BY <1>4 DEF ParseFails, FinishLoadReturns, QueryReturns
  <2> QED
    BY <1>4, <2>1, LandKept
       DEF ParseFails, FinishLoadReturns, QueryReturns, Return, buildVars, dataVars, Filling
<1>5. ASSUME NEW p \in Procs, AddPanics(p) \/ FinishLoadPanics(p) \/ OrderPanics(p)
      PROVE  LandInv'
  BY <1>5, LandKept
     DEF AddPanics, FinishLoadPanics, OrderPanics, PanicCall, Unwind, buildVars, dataVars,
         Filling
<1>6. ASSUME NEW p \in Procs, Merge(p) PROVE LandInv'
  BY <1>6, LandMerge
<1>7. ASSUME NEW p \in Procs, Clone(p) PROVE LandInv'
  <2>1. /\ \A q \in Procs \ {p} : pc'[q] = pc[q] /\ snapshot'[q] = snapshot[q]
        /\ UNCHANGED <<buildBase, tokens, built, file>>
        /\ snapshot'[p] = file /\ pc'[p] = "base"
    BY <1>7 DEF Clone, dataVars, TypeInv, TypeOK
  <2>2. Landed(p)'
    BY <2>1 DEF Landed, Filled, Filling
  <2> QED
    BY <2>1, <2>2, OthersLanded
<1>8. ASSUME NEW p \in Procs, ReadBase(p) PROVE LandInv'
  <2>1. /\ \A q \in Procs \ {p} : /\ pc'[q] = pc[q] /\ tokens'[q] = tokens[q]
                                  /\ buildBase'[q] = buildBase[q]
        /\ UNCHANGED <<snapshot, built, file>>
        /\ pc'[p] = "type" /\ tokens'[p] = <<>>
    BY <1>8 DEF ReadBase, dataVars, TypeInv, TypeOK
  <2>2. Landed(p)'
    BY <2>1 DEF LandInv, Landed, Filled, Filling, Resolved
  <2> QED
    BY <2>1, <2>2, OthersLanded
<1>9. ASSUME NEW p \in Procs, BeginType(p) PROVE LandInv'
  <2>1. /\ \A q \in Procs \ {p} : pc'[q] = pc[q] /\ tokens'[q] = tokens[q]
        /\ UNCHANGED <<snapshot, built, buildBase, file>>
        /\ pc[p] = "type" /\ pc'[p] \in Filling
        /\ tokens'[p] = Append(tokens[p], <<>>) /\ tokens[p] \in Seq(Seq(Token))
    BY <1>9 DEF BeginType, dataVars, TypeInv, TypeOK, Filling
  <2>2. Resolved(p) => Resolved(p)'
    <3>1. PICK s, u : s = tokens[p] /\ u = tokens'[p]
      OBVIOUS
    <3>2. s \in Seq(Seq(Token)) /\ u = Append(s, <<>>)
      BY <2>1, <3>1
    <3>3. \A i \in DOMAIN u : u[i] = <<>> \/ (i \in DOMAIN s /\ u[i] = s[i])
      <4>1. /\ DOMAIN u = 1 .. (Len(s) + 1) /\ DOMAIN s = 1 .. Len(s) /\ Len(s) \in Nat
            /\ u[Len(s) + 1] = <<>> /\ \A i \in 1 .. Len(s) : u[i] = s[i]
        BY <3>2
      <4> QED
        BY <4>1
    <3>4. snapshot' = snapshot /\ DOMAIN <<>> = {}
      BY <2>1
    <3> QED
      BY <3>1, <3>3, <3>4 DEF Resolved
  <2>3. Landed(p)'
    BY <2>1, <2>2 DEF LandInv, Landed, Filled, Filling
  <2> QED
    BY <2>1, <2>3, OthersLanded
<1>10. ASSUME NEW p \in Procs, Resolve(p) PROVE LandInv'
  <2>1. PICK i \in DOMAIN file :
            tokens' = [tokens EXCEPT ![p][at[p]] =
                          Append(@, [name |-> file[i].name, id |-> file[i].index])]
    BY <1>10 DEF Resolve, Candidates
  <2>2. /\ \A q \in Procs \ {p} : pc'[q] = pc[q] /\ tokens'[q] = tokens[q]
        /\ UNCHANGED <<snapshot, built, buildBase, file>>
        /\ pc[p] = "resolve" /\ pc'[p] \in Filling
    BY <1>10, <2>1 DEF Resolve, dataVars, TypeInv, TypeOK, Filling
  <2>3. tokens[p] \in Seq(Seq(Token)) /\ at[p] \in 1 .. Len(tokens[p])
    BY <2>2 DEF TypeInv, TypeOK, BuildsTyped
  <2>4. /\ tokens'[p] = [tokens[p] EXCEPT ![at[p]] =
                            Append(@, [name |-> file[i].name, id |-> file[i].index])]
        /\ tokens[p][at[p]] \in Seq(Token)
    BY <2>1, <2>3 DEF TypeInv, TypeOK
  <2>5. file = snapshot[p] /\ Resolved(p) => Resolved(p)'
    <3> SUFFICES ASSUME file = snapshot[p], Resolved(p),
                        NEW a \in DOMAIN tokens'[p], NEW b \in DOMAIN tokens'[p][a]
                 PROVE  \E k \in DOMAIN file :
                            tokens'[p][a][b] = [name |-> file[k].name, id |-> file[k].index]
      BY <2>2 DEF Resolved
    <3> DEFINE old == tokens[p][at[p]]
               new == [name |-> file[i].name, id |-> file[i].index]
    <3>1. a \in DOMAIN tokens[p] /\ (a # at[p] => tokens'[p][a] = tokens[p][a])
      BY <2>3, <2>4
    <3>2. CASE a # at[p]
      BY <3>1, <3>2 DEF Resolved
    <3>3. CASE a = at[p]
      <4>1. tokens'[p][a] = Append(old, new) /\ old \in Seq(Token)
        BY <2>3, <2>4, <3>3
      <4>2. b \in 1 .. Len(old) + 1
        BY <4>1
      <4>3. CASE b = Len(old) + 1
        BY <4>1, <4>3
      <4>4. CASE b # Len(old) + 1
        <5>1. b \in DOMAIN old /\ tokens'[p][a][b] = old[b]
          BY <4>1, <4>2, <4>4
        <5> QED
          BY <2>3, <5>1 DEF Resolved
      <4> QED
        BY <4>3, <4>4
    <3> QED
      BY <3>2, <3>3
  <2>6. Landed(p)'
    BY <2>2, <2>5 DEF LandInv, Landed, Filled, Filling
  <2> QED
    BY <2>2, <2>6, OthersLanded
<1>11. ASSUME NEW p \in Procs, TypeNotFound(p) PROVE LandInv'
  BY <1>11, LandKept DEF TypeNotFound, EndBuild, dataVars, Filling
<1>12. ASSUME NEW p \in Procs, BuildReturns(p) PROVE LandInv'
  <2>1. /\ \A q \in Procs \ {p} : pc'[q] = pc[q] /\ built'[q] = built[q]
        /\ UNCHANGED <<snapshot, tokens, buildBase, file>>
        /\ pc[p] = "type" /\ at[p] = Len(snapshot[p]) /\ snapshot[p] \in Seq(Type)
    BY <1>12 DEF BuildReturns, EndBuild, dataVars, TypeInv, TypeOK
  <2>2. Tiled(p)
    BY <2>1 DEF OrderInv, BuildOrdered, Tiled
  <2>3. Landed(p)'
    BY <2>1, <2>2 DEF LandInv, Landed, Filling, Resolved, Tiled
  <2> QED
    BY <2>1, <2>3, OthersLanded
<1>13. CASE UNCHANGED vars
  BY <1>13 DEF vars, LandInv, Landed, Filled, Resolved, Tiled
<1> QED
  BY <1>1, <1>2, <1>3, <1>4, <1>5, <1>6, <1>7, <1>8, <1>9, <1>10, <1>11, <1>12, <1>13
     DEF Next, HostDone, CallStep, AddStep, BuildStep

\* A finished build's TypeDef tokens lead to the types they were made for
\* unless a file was added since its clone, however many threads add and build
\* (build_impl.rs:54, 219, 244-248).
THEOREM TokensLand == Spec => []TokensLandUnlessStale
<1>1. Init => LandInv
  BY DEF Init, LandInv, Landed, Filled, Filling
<1>2. TypeInv /\ LandInv => TokensLandUnlessStale
  <2> SUFFICES ASSUME TypeInv, LandInv, NEW p \in Procs,
                      built[p] = "ok", pc[p] = "idle", snapshot[p] = file,
                      NEW i \in DOMAIN tokens[p], NEW j \in DOMAIN tokens[p][i]
               PROVE  LET token == tokens[p][i][j]
                          place == token.id - buildBase[p] + 1 IN
                      place \in DOMAIN snapshot[p] /\ snapshot[p][place].name = token.name
    BY DEF TokensLandUnlessStale
  <2>1. Resolved(p) /\ Tiled(p)
    BY DEF LandInv, Landed, Filled, Filling
  <2>2. PICK k \in DOMAIN snapshot[p] :
            tokens[p][i][j] = [name |-> snapshot[p][k].name, id |-> snapshot[p][k].index]
    BY <2>1 DEF Resolved
  <2>3. snapshot[p] \in Seq(Type) /\ buildBase[p] \in Nat
    BY CatalogAssumption DEF TypeInv, TypeOK, Index
  <2>4. k \in Nat /\ snapshot[p][k].index = buildBase[p] + k - 1
    BY <2>1, <2>3 DEF Tiled
  <2>5. snapshot[p][k].index - buildBase[p] + 1 = k
    BY <2>3, <2>4
  <2> QED
    BY <2>2, <2>5
<1> QED
  BY InitTyped, TypePreserved, InitOrdered, OrderPreserved, LandPreserved, <1>1, <1>2, PTL
     DEF Spec

----------------------------------------------------------------------------
(* Bags of types                                                           *)

Where(s, x) == {i \in DOMAIN s : s[i] = x}
BagAt(s, P) == [x \in {s[i] : i \in P} |-> Cardinality({i \in P : s[i] = x})]

\* How often an element occurs is a number.
LEMMA CountType ==
    ASSUME NEW T, NEW s \in Seq(T), NEW x
    PROVE  /\ IsFiniteSet(Where(s, x)) /\ Cardinality(Where(s, x)) \in Nat
           /\ x \notin {s[i] : i \in DOMAIN s} => Cardinality(Where(s, x)) = 0
<1>1. DOMAIN s = 1 .. Len(s) /\ Len(s) \in Nat
  OBVIOUS
<1>2. IsFiniteSet(DOMAIN s)
  BY <1>1, FS_Interval
<1>3. Where(s, x) \in SUBSET DOMAIN s
  BY DEF Where
<1>4. IsFiniteSet(Where(s, x)) /\ Cardinality(Where(s, x)) \in Nat
  BY <1>2, <1>3, FS_Subset, FS_CardinalityType
<1>5. ASSUME x \notin {s[i] : i \in DOMAIN s} PROVE Cardinality(Where(s, x)) = 0
  <2>1. Where(s, x) = {}
    BY <1>5 DEF Where
  <2> QED
    BY <2>1, FS_EmptySet
<1> QED
  BY <1>4, <1>5

\* A bijection between sets of places that keeps the elements keeps how often
\* they occur.
LEMMA BagMoved ==
    ASSUME NEW T, NEW s \in Seq(T), NEW t \in Seq(T), NEW P \in SUBSET DOMAIN s,
           \E f \in Bijection(P, DOMAIN t) : \A i \in P : t[f[i]] = s[i]
    PROVE  BagOf(t) = BagAt(s, P)
<1>0. PICK f \in Bijection(P, DOMAIN t) : \A i \in P : t[f[i]] = s[i]
  OBVIOUS
<1>1. /\ f \in [P -> DOMAIN t] /\ \A i, j \in P : f[i] = f[j] => i = j
      /\ \A k \in DOMAIN t : \E i \in P : f[i] = k
  BY DEF Bijection, Injection, Surjection, IsInjective
<1>2. {t[k] : k \in DOMAIN t} = {s[i] : i \in P}
  <2>1. ASSUME NEW k \in DOMAIN t PROVE t[k] \in {s[i] : i \in P}
    <3>1. PICK i \in P : f[i] = k
      BY <1>1
    <3>2. t[k] = s[i]
      BY <1>0, <3>1
    <3> QED
      BY <3>2
  <2>2. ASSUME NEW i \in P PROVE s[i] \in {t[k] : k \in DOMAIN t}
    <3>1. f[i] \in DOMAIN t /\ t[f[i]] = s[i]
      BY <1>0, <1>1
    <3> QED
      BY <3>1
  <2> QED
    BY <2>1, <2>2
<1>3. ASSUME NEW x PROVE Cardinality(Where(t, x)) = Cardinality({i \in P : s[i] = x})
  <2> DEFINE A == {i \in P : s[i] = x}
             B == Where(t, x)
             g == [i \in A |-> f[i]]
  <2>1. g \in [A -> B]
    <3>1. ASSUME NEW i \in A PROVE f[i] \in B
      <4>1. i \in P /\ s[i] = x
        OBVIOUS
      <4>2. f[i] \in DOMAIN t /\ t[f[i]] = s[i]
        BY <1>0, <1>1, <4>1
      <4> QED
        BY <4>1, <4>2 DEF Where
    <3> QED
      BY <3>1
  <2>2. \A i, j \in A : g[i] = g[j] => i = j
    BY <1>1
  <2>3. ASSUME NEW k \in B PROVE \E i \in A : g[i] = k
    <3>1. k \in DOMAIN t /\ t[k] = x
      BY DEF Where
    <3>2. PICK i \in P : f[i] = k
      BY <1>1, <3>1
    <3>3. i \in A
      BY <1>0, <3>1, <3>2
    <3> QED
      BY <3>2, <3>3
  <2>4. g \in Injection(A, B)
    BY <2>1, <2>2 DEF Injection, IsInjective
  <2>5. g \in Surjection(A, B)
    BY <2>1, <2>3 DEF Surjection
  <2>6. ExistsBijection(A, B)
    BY <2>4, <2>5 DEF Bijection, ExistsBijection
  <2>7. IsFiniteSet(A)
    <3>1. A \in SUBSET Where(s, x)
      BY DEF Where
    <3> QED
      BY <3>1, CountType, FS_Subset
  <2> QED
    BY <2>6, <2>7, FS_Bijection
<1>4. BagOf(t) = [x \in {t[k] : k \in DOMAIN t} |-> Cardinality(Where(t, x))]
  BY DEF BagOf, Where
<1> QED
  BY <1>2, <1>3, <1>4 DEF BagAt

\* Sorting keeps the bag of the types (ast/src/lib.rs:61-67).
LEMMA BagSorted ==
    ASSUME NEW T, NEW s \in Seq(T), Indexed(s)
    PROVE  BagOf(SortByIndex(s)) = BagOf(s)
<1>1. SortByIndex(s) \in Seq(T) /\ DOMAIN SortByIndex(s) = DOMAIN s
  <2>1. SortByIndex(s) \in Seq(T) /\ Len(SortByIndex(s)) = Len(s)
    BY SortType
  <2> QED
    BY <2>1
<1>2. \E f \in Bijection(DOMAIN s, DOMAIN s) :
          \A i \in DOMAIN s : SortByIndex(s)[f[i]] = s[i]
  BY SortPermutes
<1>3. BagOf(SortByIndex(s)) = BagAt(s, DOMAIN s)
  <2>1. \E f \in Bijection(DOMAIN s, DOMAIN SortByIndex(s)) :
            \A i \in DOMAIN s : SortByIndex(s)[f[i]] = s[i]
    BY <1>1, <1>2, Zenon
  <2>2. DOMAIN s \in SUBSET DOMAIN s
    OBVIOUS
  <2> QED
    BY <1>1, <2>1, <2>2, BagMoved
<1> QED
  BY <1>3, Zenon DEF BagOf, BagAt

\* The bag of two sequences, one after the other, is the sum of their bags.
Joins(c, s, t) ==
    /\ DOMAIN c = DOMAIN BagOf(s) \cup DOMAIN BagOf(t)
    /\ \A x \in DOMAIN c : c[x] = Cardinality(Where(s, x)) + Cardinality(Where(t, x))

LEMMA BagJoined ==
    ASSUME NEW T, NEW s \in Seq(T), NEW t \in Seq(T)
    PROVE  Joins(BagOf(s \o t), s, t)
<1>1. PICK u, m, n : u = s \o t /\ m = Len(s) /\ n = Len(t)
  OBVIOUS
<1>2. /\ m \in Nat /\ n \in Nat /\ DOMAIN s = 1 .. m /\ DOMAIN t = 1 .. n
      /\ DOMAIN u = 1 .. (m + n) /\ u \in Seq(T)
      /\ \A i \in 1 .. m : u[i] = s[i]
      /\ \A i \in 1 .. n : u[m + i] = t[i]
  BY <1>1
<1>3. {u[k] : k \in DOMAIN u} = {s[i] : i \in DOMAIN s} \cup {t[i] : i \in DOMAIN t}
  <2>1. ASSUME NEW k \in 1 .. (m + n)
        PROVE  u[k] \in {s[i] : i \in 1 .. m} \cup {t[i] : i \in 1 .. n}
    <3>1. CASE k <= m
      <4>1. k \in 1 .. m
        BY <1>2, <3>1
      <4> QED
        BY <1>2, <4>1
    <3>2. CASE k > m
      <4>1. k - m \in 1 .. n /\ m + (k - m) = k
        BY <1>2, <3>2
      <4>2. u[k] = t[k - m]
        BY <1>2, <4>1
      <4> QED
        BY <4>1, <4>2
    <3> QED
      BY <1>2, <3>1, <3>2
  <2>2. ASSUME NEW i \in 1 .. m PROVE s[i] \in {u[k] : k \in 1 .. (m + n)}
    <3>1. i \in 1 .. (m + n)
      BY <1>2
    <3>2. s[i] = u[i]
      BY <1>2
    <3> QED
      BY <3>1, <3>2
  <2>3. ASSUME NEW i \in 1 .. n PROVE t[i] \in {u[k] : k \in 1 .. (m + n)}
    <3>1. m + i \in 1 .. (m + n) /\ t[i] = u[m + i]
      BY <1>2
    <3> QED
      BY <3>1
  <2>4. PICK U, S, V : /\ U = {u[k] : k \in 1 .. (m + n)}
                       /\ S = {s[i] : i \in 1 .. m} /\ V = {t[i] : i \in 1 .. n}
    OBVIOUS
  <2>5. U \subseteq S \cup V
    BY <2>1, <2>4
  <2>6. S \subseteq U
    BY <2>2, <2>4
  <2>7. V \subseteq U
    BY <2>3, <2>4
  <2>8. U = S \cup V
    BY <2>5, <2>6, <2>7
  <2> QED
    BY <1>2, <2>4, <2>8
<1>4. ASSUME NEW x
      PROVE  Cardinality(Where(u, x)) = Cardinality(Where(s, x)) + Cardinality(Where(t, x))
  <2> DEFINE A == Where(s, x)
             C == Where(t, x)
             B == {k \in (m + 1) .. (m + n) : u[k] = x}
             g == [i \in C |-> m + i]
  <2>1. /\ IsFiniteSet(A) /\ Cardinality(A) \in Nat
        /\ IsFiniteSet(C) /\ Cardinality(C) \in Nat
    BY CountType
  <2>2. \A i \in C : i \in 1 .. n /\ t[i] = x
    BY <1>2 DEF Where
  <2>3. \A i \in A : i \in 1 .. m /\ s[i] = x
    BY <1>2 DEF Where
  <2>4. g \in [C -> B] /\ \A i, j \in C : g[i] = g[j] => i = j
    <3>1. ASSUME NEW i \in C PROVE m + i \in B
      <4>1. i \in 1 .. n /\ t[i] = x
        BY <2>2
      <4>2. m + i \in (m + 1) .. (m + n) /\ u[m + i] = x
        BY <1>2, <4>1
      <4> QED
        BY <4>2
    <3>2. ASSUME NEW i \in C, NEW j \in C, m + i = m + j PROVE i = j
      <4>1. i \in Nat /\ j \in Nat
        BY <2>2
      <4> QED
        BY <1>2, <3>2, <4>1
    <3> QED
      BY <3>1, <3>2
  <2>5. ASSUME NEW k \in B PROVE \E i \in C : g[i] = k
    <3>1. k - m \in 1 .. n /\ m + (k - m) = k /\ u[k] = x
      BY <1>2
    <3>2. k - m \in C
      BY <1>2, <3>1 DEF Where
    <3> QED
      BY <3>1, <3>2
  <2>6. g \in Injection(C, B)
    BY <2>4 DEF Injection, IsInjective
  <2>7. g \in Surjection(C, B)
    BY <2>4, <2>5 DEF Surjection
  <2>8. ExistsBijection(C, B)
    BY <2>6, <2>7 DEF Bijection, ExistsBijection
  <2>9. IsFiniteSet(B) /\ Cardinality(B) = Cardinality(C)
    BY <2>1, <2>8, FS_Bijection
  <2>10. Where(u, x) = A \cup B
    <3>1. ASSUME NEW k \in Where(u, x) PROVE k \in A \cup B
      <4>1. k \in 1 .. (m + n) /\ u[k] = x
        BY <1>2 DEF Where
      <4>2. k \in 1 .. m \/ k \in (m + 1) .. (m + n)
        BY <1>2, <4>1
      <4>3. CASE k \in 1 .. m
        BY <1>2, <4>1, <4>3 DEF Where
      <4>4. CASE k \in (m + 1) .. (m + n)
        BY <4>1, <4>4
      <4> QED
        BY <4>2, <4>3, <4>4
    <3>2. ASSUME NEW k \in A PROVE k \in Where(u, x)
      <4>1. k \in 1 .. m /\ s[k] = x
        BY <2>3
      <4>2. k \in 1 .. (m + n) /\ u[k] = x
        BY <1>2, <4>1
      <4> QED
        BY <1>2, <4>2 DEF Where
    <3>3. ASSUME NEW k \in B PROVE k \in Where(u, x)
      <4>1. k \in 1 .. (m + n) /\ u[k] = x
        BY <1>2
      <4> QED
        BY <1>2, <4>1 DEF Where
    <3> QED
      BY <3>1, <3>2, <3>3
  <2>11. A \cap B = {}
    <3>1. ASSUME NEW k \in A, k \in B PROVE FALSE
      <4>1. k \in 1 .. m /\ k \in (m + 1) .. (m + n)
        BY <2>3, <3>1
      <4> QED
        BY <1>2, <4>1
    <3> QED
      BY <3>1
  <2>12. Cardinality(A \cup B) = Cardinality(A) + Cardinality(B) - Cardinality(A \cap B)
    BY <2>1, <2>9, FS_Union
  <2>13. Cardinality(A \cap B) = 0
    BY <2>11, FS_EmptySet
  <2> HIDE DEF A, B, C, g
  <2>14. Cardinality(A \cup B) = Cardinality(A) + Cardinality(C)
    BY <2>1, <2>9, <2>12, <2>13
  <2> QED
    BY <2>10, <2>14 DEF A, B, C
<1>5. BagOf(u) = [x \in {u[k] : k \in DOMAIN u} |-> Cardinality(Where(u, x))]
  BY DEF BagOf, Where
<1>6. /\ DOMAIN BagOf(s) = {s[i] : i \in DOMAIN s}
      /\ DOMAIN BagOf(t) = {t[i] : i \in DOMAIN t}
  BY DEF BagOf
<1>7. DOMAIN BagOf(u) = DOMAIN BagOf(s) \cup DOMAIN BagOf(t)
  BY <1>3, <1>5, <1>6
<1>8. \A x \in DOMAIN BagOf(u) :
         BagOf(u)[x] = Cardinality(Where(s, x)) + Cardinality(Where(t, x))
  BY <1>4, <1>5
<1> QED
  BY <1>1, <1>7, <1>8 DEF Joins

BagSum(a, b) ==
    [x \in (DOMAIN a) \cup (DOMAIN b) |->
        (IF x \in DOMAIN a THEN a[x] ELSE 0) + (IF x \in DOMAIN b THEN b[x] ELSE 0)]

\* It is their sum.
LEMMA BagAdded ==
    ASSUME NEW T, NEW s \in Seq(T), NEW t \in Seq(T)
    PROVE  BagOf(s \o t) = BagSum(BagOf(s), BagOf(t))
<1>1. PICK a, b, c : a = BagOf(s) /\ b = BagOf(t) /\ c = BagOf(s \o t)
  OBVIOUS
<1>2. /\ DOMAIN c = DOMAIN a \cup DOMAIN b
      /\ \A x \in DOMAIN c : c[x] = Cardinality(Where(s, x)) + Cardinality(Where(t, x))
  <2>1. Joins(c, s, t)
    BY <1>1, BagJoined, Zenon
  <2> QED
    BY <1>1, <2>1, Zenon DEF Joins
<1>3. /\ DOMAIN a = {s[i] : i \in DOMAIN s} /\ DOMAIN b = {t[i] : i \in DOMAIN t}
      /\ \A x \in DOMAIN a : a[x] = Cardinality(Where(s, x))
      /\ \A x \in DOMAIN b : b[x] = Cardinality(Where(t, x))
  BY <1>1, Zenon DEF BagOf, Where
<1>4. \A x : /\ Cardinality(Where(s, x)) \in Nat /\ Cardinality(Where(t, x)) \in Nat
             /\ x \notin DOMAIN a => Cardinality(Where(s, x)) = 0
             /\ x \notin DOMAIN b => Cardinality(Where(t, x)) = 0
  BY <1>3, CountType
<1>5. ASSUME NEW x \in DOMAIN c
      PROVE  c[x] = (IF x \in DOMAIN a THEN a[x] ELSE 0) + (IF x \in DOMAIN b THEN b[x] ELSE 0)
  <2> DEFINE m == Cardinality(Where(s, x))
             n == Cardinality(Where(t, x))
  <2>1. m \in Nat /\ n \in Nat /\ c[x] = m + n
    BY <1>2, <1>4
  <2>2. (IF x \in DOMAIN a THEN a[x] ELSE 0) = m
    BY <1>3, <1>4
  <2>3. (IF x \in DOMAIN b THEN b[x] ELSE 0) = n
    BY <1>3, <1>4
  <2> QED
    BY <2>1, <2>2, <2>3
<1>6. c = [x \in DOMAIN c |-> c[x]]
  BY <1>1 DEF BagOf
<1>7. c = [x \in DOMAIN a \cup DOMAIN b |->
             (IF x \in DOMAIN a THEN a[x] ELSE 0) + (IF x \in DOMAIN b THEN b[x] ELSE 0)]
  BY <1>2, <1>5, <1>6
<1> QED
  BY <1>1, <1>7 DEF BagSum

----------------------------------------------------------------------------
(* The calls as the host may understand them                               *)

\* The stages of a call.
AtStage(op, stage) ==
    \/ op.tag = "set_last_index" /\ stage = "set"
    \/ op.tag = "add_file" /\ stage \in {"parse", "add_wait", "merge"}
    \/ op.tag = "finish_load" /\ stage \in {"finish_wait", "finish"}
    \/ op.tag = "query" /\ ~op.options.foreign /\ stage \in {"query_wait", "query"}
    \/ op.tag = "query" /\ op.options.foreign /\ stage = "foreign"
    \/ op = Build /\ stage \in {"clone_wait", "clone", "base", "type", "resolve_wait", "resolve"}

\* Between its parse and its merge an add_file has the types of its file, with
\* the indexes that the last index it has read gives them.
Added(p) ==
    LET src == Call(p).source IN
    /\ base[p] # None /\ ~Overflows(src.types, base[p]) /\ src.result = "ok"
    /\ parsed[p] = Rebase(src.types, base[p])

\* A thread is in a stage of the call at the head of its list, which is one of
\* its script's; a thread that was answered with a panic is dead.
Following(p) ==
    /\ \A i \in DOMAIN todo[p] : todo[p][i] \in ScriptCalls
    /\ pc[p] \in InCall => AtStage(Call(p), pc[p])
    /\ pc[p] \in {"add_wait", "merge"} => Added(p)
    /\ answer[p].tag = "panic" => pc[p] = "dead"

CallInv == DOMAIN answer = Procs /\ \A p \in Procs : Following(p)

\* Initially.
LEMMA InitFollowing == Init => CallInv
<1> SUFFICES ASSUME Init PROVE CallInv
  OBVIOUS
<1>1. ASSUME NEW p \in Procs PROVE Following(p)
  <2>1. PICK s \in Scripts : todo = s
    BY DEF Init
  <2>2. \A i \in DOMAIN s[p] : s[p][i] \in ScriptCalls
    BY DEF ScriptCalls
  <2>3. pc[p] = "idle" /\ answer[p].tag = "none"
    BY DEF Init, NoAnswer, Answer
  <2> QED
    BY <2>1, <2>2, <2>3 DEF Following, InCall
<1> QED
  BY <1>1 DEF Init, CallInv

\* A thread's step leaves the others where they are in their calls.
LEMMA OthersFollow ==
    ASSUME CallInv, NEW p \in Procs, DOMAIN answer' = Procs, Following(p)',
           \A q \in Procs \ {p} :
               /\ todo'[q] = todo[q] /\ pc'[q] = pc[q] /\ base'[q] = base[q]
               /\ parsed'[q] = parsed[q] /\ answer'[q] = answer[q]
    PROVE  CallInv'
<1>1. ASSUME NEW q \in Procs \ {p} PROVE Following(q)'
  <2>1. Following(q)
    BY DEF CallInv
  <2>2. /\ todo'[q] = todo[q] /\ pc'[q] = pc[q] /\ base'[q] = base[q]
        /\ parsed'[q] = parsed[q] /\ answer'[q] = answer[q]
    OBVIOUS
  <2>3. Call(q)' = Call(q)
    BY <2>2 DEF Call
  <2>4. Added(q)' <=> Added(q)
    BY <2>2, <2>3, Zenon DEF Added
  <2> QED
    BY <2>1, <2>2, <2>3, <2>4, Zenon DEF Following
<1> QED
  BY <1>1 DEF CallInv

\* A call that ends, and leaves what follows it.
LEMMA FollowReturn ==
    ASSUME TypeInv, CallInv, NEW p \in Procs, pc[p] \in InCall,
           pc' = [pc EXCEPT ![p] = "idle"], todo' = [todo EXCEPT ![p] = Tail(@)],
           UNCHANGED <<base, parsed>>,
           \/ UNCHANGED answer
           \/ \E a : a.tag # "panic" /\ answer' = [answer EXCEPT ![p] = a]
    PROVE  CallInv'
<1>1. /\ todo[p] \in Seq(Operation) /\ todo[p] # <<>> /\ todo'[p] = Tail(todo[p])
      /\ pc'[p] = "idle" /\ pc[p] # "dead"
  BY DEF TypeInv, TypeOK, CallsTyped, InCall
<1>2. \A i \in DOMAIN todo[p] : todo[p][i] \in ScriptCalls
  BY DEF CallInv, Following
<1>3. \A i \in DOMAIN todo'[p] : todo'[p][i] \in ScriptCalls
  BY <1>1, <1>2
<1>4. answer'[p].tag # "panic" /\ DOMAIN answer' = Procs
  BY <1>1 DEF CallInv, Following
<1>5. Following(p)'
  BY <1>1, <1>3, <1>4 DEF Following, InCall
<1>6. \A q \in Procs \ {p} : /\ todo'[q] = todo[q] /\ pc'[q] = pc[q]
                             /\ base'[q] = base[q] /\ parsed'[q] = parsed[q]
                             /\ answer'[q] = answer[q]
  BY DEF TypeInv, TypeOK, CallInv
<1> QED
  BY <1>4, <1>5, <1>6, OthersFollow

\* A thread that dies.
LEMMA FollowDies ==
    ASSUME TypeInv, CallInv, NEW p \in Procs,
           pc' = [pc EXCEPT ![p] = "dead"], UNCHANGED <<todo, base, parsed>>,
           UNCHANGED answer \/ \E a : answer' = [answer EXCEPT ![p] = a]
    PROVE  CallInv'
<1>1. pc'[p] = "dead" /\ todo'[p] = todo[p] /\ DOMAIN answer' = Procs
  BY DEF TypeInv, TypeOK, CallInv
<1>2. Following(p)'
  BY <1>1 DEF CallInv, Following, InCall
<1>3. \A q \in Procs \ {p} : /\ todo'[q] = todo[q] /\ pc'[q] = pc[q]
                             /\ base'[q] = base[q] /\ parsed'[q] = parsed[q]
                             /\ answer'[q] = answer[q]
  BY DEF TypeInv, TypeOK, CallInv
<1> QED
  BY <1>1, <1>2, <1>3, OthersFollow

\* A thread that goes to another stage of its call.
LEMMA FollowMoves ==
    ASSUME TypeInv, CallInv, NEW p \in Procs, NEW s \in InCall,
           pc' = [pc EXCEPT ![p] = s], pc[p] # "dead",
           UNCHANGED <<todo, answer>>, AtStage(Call(p), s),
           s \in {"add_wait", "merge"} => Added(p)',
           \A q \in Procs \ {p} : base'[q] = base[q] /\ parsed'[q] = parsed[q]
    PROVE  CallInv'
<1>1. pc'[p] = s /\ DOMAIN answer' = Procs /\ answer[p].tag # "panic"
  BY DEF TypeInv, TypeOK, CallInv, Following
<1>2. Call(p)' = Call(p)
  BY DEF Call
<1>3. Following(p)'
  BY <1>1, <1>2 DEF CallInv, Following, InCall
<1>4. \A q \in Procs \ {p} : pc'[q] = pc[q]
  BY DEF TypeInv, TypeOK
<1> QED
  BY <1>1, <1>3, <1>4, OthersFollow

\* A build is just that.
LEMMA BuildIs == ASSUME NEW op \in Operation, op.tag = "build" PROVE op = Build
<1>1. op \in [tag : {"finish_load", "build"}]
  BY DEF Operation
<1> QED
  BY <1>1 DEF Build, Op

\* The first stage of a call is a stage of it.
LEMMA FirstAtStage ==
    ASSUME NEW op \in Operation
    PROVE  AtStage(op, FirstStage(op)) /\ FirstStage(op) \notin {"add_wait", "merge"}
<1>1. CASE op.tag = "set_last_index"
  BY <1>1 DEF FirstStage, AtStage
<1>2. CASE op.tag = "add_file"
  BY <1>2 DEF FirstStage, AddStage, AtStage
<1>3. CASE op.tag = "finish_load"
  BY <1>3 DEF FirstStage, AtStage
<1>4. CASE op.tag = "query"
  <2>1. op.options.foreign \in BOOLEAN
    BY <1>4 DEF Operation, Options
  <2> QED
    BY <1>4, <2>1 DEF FirstStage, AtStage
<1>5. CASE op.tag = "build"
  BY <1>5, BuildIs DEF FirstStage, AtStage
<1> QED
  BY <1>1, <1>2, <1>3, <1>4, <1>5 DEF Operation

\* Every step keeps the threads in their calls.
LEMMA CallPreserved == TypeInv /\ LockInv /\ CallInv /\ [Next]_vars => CallInv'
<1> SUFFICES ASSUME TypeInv, LockInv, CallInv, [Next]_vars PROVE CallInv'
  OBVIOUS
<1>0. ASSUME NEW p \in Procs, pc[p] \in InCall PROVE AtStage(Call(p), pc[p])
  BY <1>0 DEF CallInv, Following
<1>1. ASSUME NEW p \in Procs, Begin(p) PROVE CallInv'
  <2>1. Call(p) \in Operation
    BY <1>1 DEF Begin, TypeInv, TypeOK, Call
  <2> DEFINE s == FirstStage(Call(p))
  <2>2. s \in InCall /\ AtStage(Call(p), s) /\ s \notin {"add_wait", "merge"}
    BY <2>1, FirstStageType, FirstAtStage
  <2>3. \A q \in Procs \ {p} : base'[q] = base[q] /\ parsed'[q] = parsed[q]
    BY <1>1 DEF Begin, TypeInv, TypeOK
  <2> HIDE DEF s
  <2>4. pc' = [pc EXCEPT ![p] = s] /\ pc[p] # "dead" /\ UNCHANGED <<todo, answer>>
    BY <1>1 DEF Begin, s
  <2> QED
    BY <2>2, <2>3, <2>4, FollowMoves DEF s
<1>2. ASSUME NEW p \in Procs, AcquireRead(p) PROVE CallInv'
  <2> DEFINE s == AfterRead(pc[p])
  <2>1. pc[p] \in InCall /\ pc[p] \in ReadWaits
    BY <1>2 DEF AcquireRead, InCall, Stages, ReadWaits
  <2>2. AtStage(Call(p), s) /\ s \in InCall /\ s \notin {"add_wait", "merge"}
    <3>1. AtStage(Call(p), pc[p])
      BY <1>0, <2>1
    <3> QED
      BY <2>1, <3>1 DEF AtStage, AfterRead, ReadWaits, InCall, Stages, Reading
  <2>3. pc' = [pc EXCEPT ![p] = s] /\ pc[p] # "dead" /\ UNCHANGED <<todo, answer, base, parsed>>
    BY <1>2, <2>1 DEF AcquireRead, LockInv, InCall
  <2> HIDE DEF s
  <2> QED
    BY <2>2, <2>3, FollowMoves
<1>3. ASSUME NEW p \in Procs, AcquireWrite(p) PROVE CallInv'
  <2>1. /\ pc[p] = "add_wait" /\ pc[p] \in InCall /\ "merge" \in InCall
        /\ pc' = [pc EXCEPT ![p] = "merge"] /\ UNCHANGED <<todo, answer, base, parsed>>
    BY <1>3 DEF AcquireWrite, AddStage, LockInv, InCall, Stages
  <2>2. Call(p).tag = "add_file" /\ Added(p)
    BY <1>0, <2>1 DEF AtStage, CallInv, Following
  <2>3. Added(p)'
    BY <2>1, <2>2 DEF Added, Call
  <2> QED
    BY <2>1, <2>2, <2>3, FollowMoves DEF AtStage
<1>4. ASSUME NEW p \in Procs, Parse(p) PROVE CallInv'
  <2>1. /\ pc[p] = "parse" /\ pc[p] \in InCall /\ "add_wait" \in InCall
        /\ pc' = [pc EXCEPT ![p] = "add_wait"] /\ UNCHANGED <<todo, answer, base>>
    BY <1>4 DEF Parse, AddStage, InCall, Stages
  <2>2. Call(p).tag = "add_file" /\ parsed'[p] = Rebase(Call(p).source.types, base[p])
        /\ \A q \in Procs \ {p} : parsed'[q] = parsed[q]
    BY <1>0, <1>4, <2>1 DEF AtStage, Parse, TypeInv, TypeOK
  <2>3. Added(p)'
    BY <1>4, <2>1, <2>2 DEF Added, Call, Parse, IndexOverflows
  <2> QED
    BY <2>1, <2>2, <2>3, FollowMoves DEF AtStage
<1>5. ASSUME NEW p \in Procs, Set(p) \/ ForeignQuery(p) PROVE CallInv'
  <2>1. PICK a : Return(p, a) /\ a.tag # "panic"
    <3>1. Done.tag # "panic" /\ Found(<<>>).tag # "panic"
      BY DEF Done, Found, Answer
    <3> QED
      BY <1>5, <3>1 DEF Set, ForeignQuery
  <2>2. pc[p] \in InCall /\ UNCHANGED <<base, parsed>>
    BY <1>5 DEF Set, ForeignQuery, InCall, Stages
  <2> QED
    BY <2>1, <2>2, FollowReturn DEF Return
<1>6. ASSUME NEW p \in Procs, ParseFails(p) \/ Merge(p) PROVE CallInv'
  <2>1. PICK a : Return(p, a) /\ a.tag # "panic"
    <3>1. Done.tag # "panic" /\ Failed.tag # "panic"
      BY DEF Done, Failed, Answer
    <3> QED
      BY <1>6, <3>1 DEF ParseFails, Merge
  <2>2. pc[p] \in InCall /\ UNCHANGED <<base, parsed>>
    BY <1>6 DEF ParseFails, Merge, InCall, Stages
  <2> QED
    BY <2>1, <2>2, FollowReturn DEF Return
<1>7. ASSUME NEW p \in Procs, FinishLoadReturns(p) PROVE CallInv'
  <2>1. PICK n : Return(p, LastIndexIs(n))
    BY <1>7 DEF FinishLoadReturns
  <2>2. LastIndexIs(n).tag # "panic"
    BY DEF LastIndexIs, Answer
  <2>3. pc[p] \in InCall /\ UNCHANGED <<base, parsed>>
    BY <1>7 DEF FinishLoadReturns, InCall, Stages, Reading
  <2> QED
    BY <2>1, <2>2, <2>3, FollowReturn DEF Return
<1>8. ASSUME NEW p \in Procs, QueryReturns(p) PROVE CallInv'
  <2>1. PICK ts : Return(p, Found(ts))
    BY <1>8 DEF QueryReturns
  <2>2. Found(ts).tag # "panic"
    BY DEF Found, Answer
  <2>3. pc[p] \in InCall /\ UNCHANGED <<base, parsed>>
    BY <1>8 DEF QueryReturns, InCall, Stages, Reading
  <2> QED
    BY <2>1, <2>2, <2>3, FollowReturn DEF Return
<1>9. ASSUME NEW p \in Procs, AddPanics(p) \/ FinishLoadPanics(p) \/ OrderPanics(p)
      PROVE  CallInv'
  BY <1>9, FollowDies DEF AddPanics, FinishLoadPanics, OrderPanics, PanicCall, Unwind
<1>10. ASSUME NEW p \in Procs, TypeNotFound(p) \/ BuildReturns(p) PROVE CallInv'
  <2>1. pc[p] \in InCall /\ UNCHANGED <<base, parsed, answer>>
    BY <1>10 DEF TypeNotFound, BuildReturns, InCall, Stages, Reading
  <2> QED
    BY <1>10, <2>1, FollowReturn DEF TypeNotFound, BuildReturns, EndBuild
<1>11. ASSUME NEW p \in Procs, Clone(p) \/ ReadBase(p) \/ BeginType(p) \/ Resolve(p)
       PROVE  CallInv'
  <2>1. PICK s \in {"base", "type", "resolve_wait"} : pc' = [pc EXCEPT ![p] = s]
    BY <1>11 DEF Clone, ReadBase, BeginType, Resolve
  <2>2. /\ pc[p] \in {"clone", "base", "type", "resolve"}
        /\ UNCHANGED <<todo, answer, base, parsed>>
    BY <1>11 DEF Clone, ReadBase, BeginType, Resolve
  <2>3. pc[p] \in InCall /\ s \in InCall
    BY <2>1, <2>2 DEF InCall, Stages, ReadWaits, Reading
  <2>4. AtStage(Call(p), s)
    BY <1>0, <2>1, <2>2, <2>3 DEF AtStage
  <2> QED
    BY <2>1, <2>2, <2>3, <2>4, FollowMoves
<1>12. CASE UNCHANGED vars
  BY <1>12 DEF vars, CallInv, Following, Added, Call
<1> QED
  BY <1>1, <1>2, <1>3, <1>4, <1>5, <1>6, <1>7, <1>8, <1>9, <1>10, <1>11, <1>12
     DEF Next, HostDone, CallStep, AddStep, BuildStep

\* A bag is the same bag in the store.
LEMMA BagsAgree == ASSUME NEW s PROVE Store!BagOf(s) = BagOf(s)
<1>1. ASSUME NEW S PROVE Store!Cardinality(S) = Cardinality(S)
  BY Zenon DEF Store!Cardinality, Cardinality
<1> QED
  BY <1>1, Zenon DEF BagOf, Store!BagOf

\* The initial states are initial states of the store.
LEMMA InitRefines == Init => Store!Init
<1> SUFFICES ASSUME Init PROVE Store!Init
  OBVIOUS
<1>1. file = <<>> /\ lastIndex = None
  BY DEF Init
<1>2. BagOf(file) = Store!EmptyBag
  BY <1>1 DEF BagOf, Store!EmptyBag, Store!SetToBag
<1> QED
  BY <1>1, <1>2 DEF Init, CallOf, BaseOf, Store!Init, Store!NoAnswer, Store!Answer, NoAnswer,
     Answer

\* A step in which the host sees nothing happen.
LEMMA Stutters ==
    ASSUME UNCHANGED <<file, lastIndex, answer>>,
           \A p \in Procs : CallOf(p)' = CallOf(p) /\ BaseOf(p)' = BaseOf(p)
    PROVE  UNCHANGED Store!vars
<1>1. UNCHANGED BagOf(file)
  BY Zenon
<1>2. UNCHANGED [p \in Procs |-> CallOf(p)] /\ UNCHANGED [p \in Procs |-> BaseOf(p)]
  OBVIOUS
<1> QED
  BY <1>1, <1>2 DEF Store!vars

\* A thread that moves on in its call.
LEMMA MovesUnseen ==
    ASSUME TypeInv, NEW p \in Procs, NEW s, pc' = [pc EXCEPT ![p] = s],
           UNCHANGED <<file, lastIndex, answer, todo, base>>,
           \/ Call(p) = Build
           \/ /\ pc[p] \notin {"idle", "dead"} /\ s \notin {"idle", "dead"}
              /\ pc[p] \in {"parse", "add_wait", "merge"} <=> s \in {"parse", "add_wait", "merge"},
           Call(p) = Build => /\ s \notin {"parse", "add_wait", "merge"}
                              /\ pc[p] \notin {"parse", "add_wait", "merge"}
    PROVE  UNCHANGED Store!vars
<1>1. pc'[p] = s /\ \A q \in Procs \ {p} : pc'[q] = pc[q]
  BY DEF TypeInv, TypeOK
<1>2. \A q \in Procs : Call(q)' = Call(q) /\ base'[q] = base[q]
  BY DEF Call
<1>3. \A q \in Procs : CallOf(q)' = CallOf(q) /\ BaseOf(q)' = BaseOf(q)
  BY <1>1, <1>2 DEF CallOf, BaseOf
<1> QED
  BY <1>3, Stutters

\* A thread that returns to the host, with an answer or a panic.
LEMMA ReturnSeen ==
    ASSUME TypeInv, NEW p \in Procs, NEW s \in {"idle", "dead"}, NEW a,
           pc' = [pc EXCEPT ![p] = s], base' = base,
           \A q \in Procs \ {p} : todo'[q] = todo[q],
           answer' = [answer EXCEPT ![p] = a]
    PROVE  Store!Return(p, a)
<1>1. pc'[p] = s /\ \A q \in Procs \ {p} : pc'[q] = pc[q]
  BY DEF TypeInv, TypeOK
<1>2. \A q \in Procs \ {p} : Call(q)' = Call(q)
  BY DEF Call
<1>3. CallOf(p)' = None /\ \A q \in Procs \ {p} : CallOf(q)' = CallOf(q)
  BY <1>1, <1>2 DEF CallOf
<1>4. BaseOf(p)' = None /\ \A q \in Procs \ {p} : BaseOf(q)' = BaseOf(q)
  BY <1>1 DEF BaseOf
<1>5. [q \in Procs |-> CallOf(q)]' = [[q \in Procs |-> CallOf(q)] EXCEPT ![p] = None]
  BY <1>3
<1>6. [q \in Procs |-> BaseOf(q)]' = [[q \in Procs |-> BaseOf(q)] EXCEPT ![p] = None]
  BY <1>4
<1> QED
  BY <1>5, <1>6 DEF Store!Return


\* Where a thread is in a call other than a build, the host sees the call.
LEMMA CallIsSeen ==
    ASSUME TypeInv, CallInv, NEW p \in Procs, pc[p] \in InCall, Call(p).tag # "build"
    PROVE  /\ CallOf(p) = Call(p) /\ Call(p) # None /\ Call(p) \in Operation
           /\ AtStage(Call(p), pc[p])
<1>1. Call(p) \in Operation
  BY CallType
<1>2. Call(p) # Build
  BY DEF Build, Op
<1> QED
  BY <1>1, <1>2, CallAssumption DEF CallOf, InCall, CallInv, Following

\* A call begins.
LEMMA BeginRefines ==
    ASSUME TypeInv, CallInv, NEW p \in Procs, Begin(p)
    PROVE  (\E op \in ScriptCalls : Store!Start(p, op)) \/ UNCHANGED Store!vars
<1>1. /\ pc[p] = "idle" /\ todo[p] # <<>> /\ todo[p] \in Seq(Operation)
      /\ pc' = [pc EXCEPT ![p] = FirstStage(Call(p))]
      /\ UNCHANGED <<todo, answer, file, lastIndex>>
  BY DEF Begin, TypeInv, TypeOK, dataVars
<1>2. Call(p) \in Operation /\ Call(p) \in ScriptCalls
  <2>1. 1 \in DOMAIN todo[p] /\ Call(p) = todo[p][1]
    BY <1>1 DEF Call
  <2> QED
    BY <1>1, <2>1 DEF CallInv, Following
<1>3. /\ AtStage(Call(p), FirstStage(Call(p))) /\ FirstStage(Call(p)) \notin {"add_wait", "merge"}
      /\ FirstStage(Call(p)) \in InCall
  BY <1>2, FirstAtStage, FirstStageType
<1>4. PICK s : s = FirstStage(Call(p))
  OBVIOUS
<1>5. /\ pc'[p] = s /\ \A q \in Procs \ {p} : pc'[q] = pc[q]
      /\ \A q \in Procs : Call(q)' = Call(q)
      /\ \A q \in Procs \ {p} : base'[q] = base[q]
      /\ base'[p] = IF Call(p).tag = "add_file" THEN lastIndex ELSE base[p]
  BY <1>1, <1>4 DEF TypeInv, TypeOK, Call, Begin
<1>6. \A q \in Procs \ {p} : CallOf(q)' = CallOf(q) /\ BaseOf(q)' = BaseOf(q)
  BY <1>5 DEF CallOf, BaseOf
<1>7. CASE Call(p) = Build
  <2>1. s \notin {"parse", "add_wait", "merge"}
    BY <1>3, <1>4, <1>7 DEF AtStage, Build, Op
  <2>2. CallOf(p)' = CallOf(p) /\ BaseOf(p)' = BaseOf(p)
    BY <1>1, <1>5, <1>7, <2>1 DEF CallOf, BaseOf
  <2> QED
    BY <1>1, <1>6, <2>2, Stutters
<1>8. CASE Call(p) # Build
  <2>1. CallOf(p) = None /\ CallOf(p)' = Call(p)
    BY <1>1, <1>3, <1>4, <1>5, <1>8 DEF CallOf, InCall
  <2>2. BaseOf(p)' = IF Call(p).tag = "add_file" THEN lastIndex ELSE None
    BY <1>3, <1>4, <1>5, <1>8 DEF BaseOf, AtStage
  <2>3. [q \in Procs |-> CallOf(q)]' = [[q \in Procs |-> CallOf(q)] EXCEPT ![p] = Call(p)]
    BY <1>6, <2>1
  <2>4. [q \in Procs |-> BaseOf(q)]' =
            [[q \in Procs |-> BaseOf(q)] EXCEPT
                ![p] = IF Call(p).tag = "add_file" THEN lastIndex ELSE None]
    BY <1>6, <2>2
  <2>5. answer[p].tag # "panic"
    BY <1>1 DEF CallInv, Following
  <2>6. UNCHANGED BagOf(file)
    BY <1>1, Zenon
  <2>7. Store!Start(p, Call(p))
    BY <1>1, <2>1, <2>3, <2>4, <2>5, <2>6 DEF Store!Start
  <2> QED
    BY <1>2, <2>7
<1> QED
  BY <1>7, <1>8

\* set_last_index.
LEMMA SetRefines ==
    ASSUME TypeInv, CallInv, NEW p \in Procs, Set(p)
    PROVE  Store!DoSet(p)
<1>1. /\ pc[p] = "set" /\ pc[p] \in InCall /\ Call(p).tag = "set_last_index"
      /\ UNCHANGED <<base, file>> /\ lastIndex' = Call(p).index /\ Return(p, Done)
  BY DEF Set, InCall, Stages, TypeInv, CallsTyped
<1>2. CallOf(p) = Call(p) /\ Call(p) # None
  BY <1>1, CallIsSeen
<1>3. /\ pc' = [pc EXCEPT ![p] = "idle"] /\ \A q \in Procs \ {p} : todo'[q] = todo[q]
      /\ answer' = [answer EXCEPT ![p] = Done]
  BY <1>1 DEF Return, TypeInv, TypeOK
<1>4. Store!Return(p, Store!Done)
  BY <1>1, <1>3, ReturnSeen DEF Done, Answer, Store!Done, Store!Answer
<1>5. UNCHANGED BagOf(file)
  BY <1>1, Zenon
<1> QED
  BY <1>1, <1>2, <1>4, <1>5 DEF Store!DoSet

\* The base of an add_file that parses or merges.
LEMMA AddIsSeen ==
    ASSUME TypeInv, CallInv, NEW p \in Procs, pc[p] \in {"parse", "merge"}
    PROVE  /\ CallOf(p) = Call(p) /\ Call(p) # None /\ Call(p) \in Operation
           /\ Call(p).tag = "add_file" /\ BaseOf(p) = base[p]
<1>1. pc[p] \in InCall /\ BaseOf(p) = base[p]
  BY DEF InCall, Stages, BaseOf
<1>2. AtStage(Call(p), pc[p])
  BY <1>1 DEF CallInv, Following
<1>3. Call(p).tag = "add_file"
  BY <1>2 DEF AtStage, Build, Op
<1> QED
  BY <1>1, <1>3, CallIsSeen

\* The file cannot be read or parsed.
LEMMA ParseFailsRefines ==
    ASSUME TypeInv, CallInv, NEW p \in Procs, ParseFails(p)
    PROVE  Store!DoAdd(p)
<1>1. /\ pc[p] = "parse" /\ Call(p).source.result = "error" /\ Return(p, Failed)
      /\ UNCHANGED <<base, file, lastIndex>>
  BY DEF ParseFails, dataVars
<1>2. CallOf(p) = Call(p) /\ Call(p) # None /\ Call(p).tag = "add_file"
  BY <1>1, AddIsSeen
<1>3. /\ pc' = [pc EXCEPT ![p] = "idle"] /\ \A q \in Procs \ {p} : todo'[q] = todo[q]
      /\ answer' = [answer EXCEPT ![p] = Failed]
  BY <1>1 DEF Return, TypeInv, TypeOK
<1>4. Store!Return(p, Store!Failed)
  BY <1>1, <1>3, ReturnSeen DEF Failed, Answer, Store!Failed, Store!Answer
<1>5. UNCHANGED BagOf(file)
  BY <1>1, Zenon
<1> QED
  BY <1>1, <1>2, <1>4, <1>5 DEF Store!DoAdd

\* There is no last index, the parser panics, or an index overflows.
LEMMA AddPanicsRefines ==
    ASSUME TypeInv, CallInv, NEW p \in Procs, AddPanics(p)
    PROVE  Store!DoAdd(p)
<1>1. /\ pc[p] = "parse" /\ ParsePanics(p) /\ PanicCall(p)
      /\ UNCHANGED <<base, file, lastIndex>>
  BY DEF AddPanics, dataVars
<1>2. /\ CallOf(p) = Call(p) /\ Call(p) # None /\ Call(p).tag = "add_file"
      /\ BaseOf(p) = base[p]
  BY <1>1, AddIsSeen
<1>3. /\ pc' = [pc EXCEPT ![p] = "dead"] /\ UNCHANGED todo
      /\ answer' = [answer EXCEPT ![p] = Panicked]
  BY <1>1 DEF PanicCall, Unwind
<1>4. Store!Return(p, Store!Panicked)
  BY <1>1, <1>3, ReturnSeen DEF Panicked, Answer, Store!Panicked, Store!Answer
<1>5. UNCHANGED BagOf(file)
  BY <1>1, Zenon
<1>6. \/ base[p] = None \/ Store!Overflows(Call(p).source.types, base[p])
      \/ Call(p).source.result = "panic"
  BY <1>1 DEF ParsePanics, IndexOverflows, Overflows, Store!Overflows
<1> QED
  BY <1>1, <1>2, <1>4, <1>5, <1>6 DEF Store!DoAdd

\* The types appear, all at once.
LEMMA MergeRefines ==
    ASSUME TypeInv, CallInv, NEW p \in Procs, Merge(p)
    PROVE  Store!DoAdd(p)
<1>1. /\ pc[p] = "merge" /\ file' = Merged(p) /\ Return(p, Done)
      /\ UNCHANGED <<base, lastIndex>>
  BY DEF Merge
<1>2. /\ CallOf(p) = Call(p) /\ Call(p) # None /\ Call(p).tag = "add_file"
      /\ BaseOf(p) = base[p]
  BY <1>1, AddIsSeen
<1>3. /\ base[p] # None /\ ~Overflows(Call(p).source.types, base[p])
      /\ Call(p).source.result = "ok" /\ parsed[p] = Rebase(Call(p).source.types, base[p])
  BY <1>1 DEF CallInv, Following, Added
<1>4. /\ pc' = [pc EXCEPT ![p] = "idle"] /\ \A q \in Procs \ {p} : todo'[q] = todo[q]
      /\ answer' = [answer EXCEPT ![p] = Done]
  BY <1>1 DEF Return, TypeInv, TypeOK
<1>5. Store!Return(p, Store!Done)
  BY <1>1, <1>4, ReturnSeen DEF Done, Answer, Store!Done, Store!Answer
<1>6. BagOf(file)' = BagSum(BagOf(file), BagOf(parsed[p]))
  <2>1. file \in Seq(Type) /\ parsed[p] \in Seq(Type) /\ file \o parsed[p] \in Seq(Type)
    BY DEF TypeInv, TypeOK
  <2>2. Indexed(file \o parsed[p])
    BY <2>1, TypesIndexed
  <2>3. BagOf(SortByIndex(file \o parsed[p])) = BagOf(file \o parsed[p])
    BY <2>1, <2>2, BagSorted
  <2>4. BagOf(file \o parsed[p]) = BagSum(BagOf(file), BagOf(parsed[p]))
    BY <2>1, BagAdded
  <2>5. BagOf(file)' = BagOf(file')
    BY DEF BagOf
  <2> QED
    BY <1>1, <2>3, <2>4, <2>5, Zenon DEF Merged
<1>7. BagOf(parsed[p]) = Store!BagOf(parsed[p])
  BY BagsAgree, Zenon
<1>8. Store!With(parsed[p]) = BagSum(BagOf(file), Store!BagOf(parsed[p]))
  BY Zenon DEF Store!With, BagSum, Store!(+)
<1>9. parsed[p] = Store!Rebase(Call(p).source.types, base[p])
  BY <1>3, Zenon DEF Rebase, Store!Rebase
<1>10. BagOf(file)' = Store!With(Store!Rebase(Call(p).source.types, base[p]))
  BY <1>6, <1>7, <1>8, <1>9, Zenon
<1>11. ~Store!Overflows(Call(p).source.types, base[p])
  BY <1>3 DEF Overflows, Store!Overflows
<1> QED
  BY <1>1, <1>2, <1>3, <1>5, <1>10, <1>11 DEF Store!DoAdd

\* finish_load, on a file with types.
LEMMA FinishReturnsRefines ==
    ASSUME TypeInv, CallInv, NEW p \in Procs, FinishLoadReturns(p)
    PROVE  Store!DoFinish(p)
<1>1. /\ pc[p] = "finish" /\ pc[p] \in InCall /\ UNCHANGED <<base, file, lastIndex>>
  BY DEF FinishLoadReturns, dataVars, InCall, Stages, Reading
<1>2. PICK t \in {file[i] : i \in DOMAIN file} :
          /\ \A i \in DOMAIN file : file[i].index <= t.index
          /\ Return(p, LastIndexIs(t.index))
  BY DEF FinishLoadReturns
<1>3. Call(p).tag = "finish_load" /\ CallOf(p) = Call(p) /\ Call(p) # None
  <2>1. AtStage(Call(p), pc[p])
    BY <1>1 DEF CallInv, Following
  <2>2. Call(p).tag = "finish_load"
    BY <1>1, <2>1 DEF AtStage, Build, Op
  <2> QED
    BY <1>1, <2>2, CallIsSeen
<1>4. /\ pc' = [pc EXCEPT ![p] = "idle"] /\ \A q \in Procs \ {p} : todo'[q] = todo[q]
      /\ answer' = [answer EXCEPT ![p] = LastIndexIs(t.index)]
  BY <1>2 DEF Return, TypeInv, TypeOK
<1>5. Store!Return(p, Store!LastIndexIs(t.index))
  BY <1>1, <1>4, ReturnSeen DEF LastIndexIs, Answer, Store!LastIndexIs, Store!Answer
<1>6. Store!BagToSet(BagOf(file)) = {file[i] : i \in DOMAIN file}
  BY DEF Store!BagToSet, BagOf
<1>7. t \in Store!BagToSet(BagOf(file))
      /\ \A u \in Store!BagToSet(BagOf(file)) : u.index <= t.index
  BY <1>2, <1>6
<1>8. UNCHANGED BagOf(file)
  BY <1>1, Zenon
<1> QED
  BY <1>1, <1>3, <1>5, <1>7, <1>8 DEF Store!DoFinish

\* finish_load, on a file without a type.
LEMMA FinishPanicsRefines ==
    ASSUME TypeInv, CallInv, NEW p \in Procs, FinishLoadPanics(p)
    PROVE  Store!DoFinish(p)
<1>1. /\ pc[p] = "finish" /\ pc[p] \in InCall /\ UNCHANGED <<base, file, lastIndex>>
      /\ file = <<>> /\ PanicCall(p)
  BY DEF FinishLoadPanics, dataVars, InCall, Stages, Reading
<1>2. Call(p).tag = "finish_load" /\ CallOf(p) = Call(p) /\ Call(p) # None
  <2>1. AtStage(Call(p), pc[p])
    BY <1>1 DEF CallInv, Following
  <2>2. Call(p).tag = "finish_load"
    BY <1>1, <2>1 DEF AtStage, Build, Op
  <2> QED
    BY <1>1, <2>2, CallIsSeen
<1>3. /\ pc' = [pc EXCEPT ![p] = "dead"] /\ UNCHANGED todo
      /\ answer' = [answer EXCEPT ![p] = Panicked]
  BY <1>1 DEF PanicCall, Unwind
<1>4. Store!Return(p, Store!Panicked)
  BY <1>1, <1>3, ReturnSeen DEF Panicked, Answer, Store!Panicked, Store!Answer
<1>5. BagOf(file) = Store!EmptyBag
  BY <1>1 DEF BagOf, Store!EmptyBag, Store!SetToBag
<1>6. UNCHANGED BagOf(file)
  BY <1>1, Zenon
<1> QED
  BY <1>1, <1>2, <1>4, <1>5, <1>6 DEF Store!DoFinish

----------------------------------------------------------------------------
(* Queries                                                                 *)

Types(ts)   == {ts[i] : i \in DOMAIN ts}
Hit(ts, o)  == {t \in Types(ts) : Matches(t, o)}
Spots(ts, o) == {i \in DOMAIN ts : Matches(ts[i], o)}

\* What is kept of a file in order is in order, starts with the lowest match,
\* and has each match as often as the file.
LEMMA HitsAre ==
    ASSUME NEW ts \in Seq(Type), NEW o, SortedByIndex(ts),
           NEW h, h = Keep(ts, Spots(ts, o))
    PROVE  /\ h \in Seq(Types(ts))
           /\ BagOf(h) = [t \in Hit(ts, o) |-> BagOf(ts)[t]]
           /\ \A i, j \in DOMAIN h : i < j => h[i].index <= h[j].index
           /\ h = <<>> <=> Hit(ts, o) = {}
           /\ h # <<>> => /\ Head(h) \in Hit(ts, o)
                          /\ \A u \in Hit(ts, o) : Head(h).index <= u.index
<1> DEFINE P == Spots(ts, o)
<1>1. P \in SUBSET DOMAIN ts /\ ts \in Seq(Types(ts)) /\ DOMAIN ts = 1 .. Len(ts) /\ Len(ts) \in Nat
  <2>1. \A i \in 1 .. Len(ts) : ts[i] \in Types(ts)
    BY DEF Types
  <2> QED
    BY <2>1 DEF Spots
<1>2. /\ h \in Seq(Types(ts)) /\ Len(h) = Cardinality(P)
      /\ \A k \in 1 .. Cardinality(P) : Nth(P, k) \in P /\ h[k] = ts[Nth(P, k)]
      /\ \E f \in Bijection(P, DOMAIN h) : \A i \in P : h[f[i]] = ts[i]
  BY <1>1, KeepIs, Zenon
<1>3. /\ Cardinality(P) \in Nat
      /\ \A i \in P : Place(P, i) \in 1 .. Cardinality(P) /\ Nth(P, Place(P, i)) = i
      /\ \A k, l \in 1 .. Cardinality(P) : k < l => Nth(P, k) < Nth(P, l)
  <2>1. P \in SUBSET (1 .. Len(ts)) /\ Len(ts) \in Nat
    BY <1>1
  <2> QED
    BY <2>1, NthPlace, Zenon
<1>4. Hit(ts, o) = {ts[i] : i \in P}
  BY DEF Hit, Types, Spots
<1>5. BagOf(h) = [t \in Hit(ts, o) |-> BagOf(ts)[t]]
  <2>1. BagOf(h) = BagAt(ts, P)
    BY <1>1, <1>2, BagMoved
  <2>2. ASSUME NEW t \in Hit(ts, o) PROVE Cardinality({i \in P : ts[i] = t}) = BagOf(ts)[t]
    <3>1. {i \in P : ts[i] = t} = {i \in DOMAIN ts : ts[i] = t}
      BY DEF Hit, Spots
    <3>2. t \in {ts[i] : i \in DOMAIN ts}
      BY DEF Hit, Types
    <3> QED
      BY <3>1, <3>2, Zenon DEF BagOf
  <2>3. BagAt(ts, P) = [t \in Hit(ts, o) |-> Cardinality({i \in P : ts[i] = t})]
    BY <1>4, Zenon DEF BagAt
  <2> QED
    BY <2>1, <2>2, <2>3
<1>6. DOMAIN h = 1 .. Cardinality(P)
  BY <1>2, <1>3
<1>7. ASSUME NEW k \in DOMAIN h, NEW l \in DOMAIN h, k < l PROVE h[k].index <= h[l].index
  <2>1. /\ Nth(P, k) < Nth(P, l) /\ Nth(P, k) \in DOMAIN ts /\ Nth(P, l) \in DOMAIN ts
        /\ h[k] = ts[Nth(P, k)] /\ h[l] = ts[Nth(P, l)]
    BY <1>1, <1>2, <1>3, <1>6, <1>7
  <2> QED
    BY <2>1 DEF SortedByIndex
<1>8. \A u \in Hit(ts, o) : \E k \in DOMAIN h : h[k] = u
  <2>1. ASSUME NEW u \in Hit(ts, o) PROVE \E k \in DOMAIN h : h[k] = u
    <3>1. PICK i \in P : u = ts[i]
      BY <1>4
    <3>2. Place(P, i) \in DOMAIN h /\ h[Place(P, i)] = ts[Nth(P, Place(P, i))]
          /\ Nth(P, Place(P, i)) = i
      BY <1>2, <1>3, <1>6
    <3> QED
      BY <3>1, <3>2
  <2> QED
    BY <2>1
<1>9. \A k \in DOMAIN h : h[k] \in Hit(ts, o)
  BY <1>2, <1>4, <1>6
<1>10. h = <<>> <=> Hit(ts, o) = {}
  <2>1. h = <<>> => DOMAIN h = {}
    OBVIOUS
  <2>2. h # <<>> => 1 \in DOMAIN h
    BY <1>2
  <2> QED
    BY <1>8, <1>9, <2>1, <2>2
<1>11. ASSUME h # <<>>
       PROVE  /\ Head(h) \in Hit(ts, o)
              /\ \A u \in Hit(ts, o) : Head(h).index <= u.index
  <2>1. 1 \in DOMAIN h /\ Head(h) = h[1]
    BY <1>2, <1>11
  <2>2. ASSUME NEW u \in Hit(ts, o) PROVE h[1].index <= u.index
    <3>1. PICK k \in DOMAIN h : h[k] = u
      BY <1>8
    <3>2. CASE k = 1
      <4>1. u.index \in Nat
        <5>1. u \in Type
          BY DEF Hit, Types
        <5> QED
          BY <5>1, CatalogAssumption DEF Type, Index
      <4> QED
        BY <3>1, <3>2, <4>1
    <3>3. CASE k # 1
      <4>1. 1 < k
        BY <1>3, <1>6, <3>3
      <4> QED
        BY <1>7, <2>1, <3>1, <4>1
    <3> QED
      BY <3>2, <3>3
  <2> QED
    BY <1>9, <2>1, <2>2
<1> QED
  BY <1>2, <1>5, <1>7, <1>10, <1>11

\* What may be answered to a query that asks for this language and assembly.
LEMMA AnswersAre ==
    ASSUME NEW o, NEW r, ~o.foreign, NEW h, NEW ts, ts = file,
           BagOf(h) = [t \in Hit(ts, o) |-> BagOf(ts)[t]],
           \A i, j \in DOMAIN h : i < j => h[i].index <= h[j].index,
           h = <<>> <=> Hit(ts, o) = {},
           h # <<>> => /\ Head(h) \in Hit(ts, o)
                       /\ \A u \in Hit(ts, o) : Head(h).index <= u.index,
           r = IF o.exact /\ h # <<>> THEN <<Head(h)>> ELSE h
    PROVE  Store!Answers(o, r)
<1>1. Hit(ts, o) = {t \in Store!BagToSet(BagOf(file)) : Store!Matches(t, o)}
  BY DEF Hit, Types, BagOf, Matches, Store!Matches, Store!BagToSet
<1>2. PICK H : H = Hit(ts, o)
  OBVIOUS
<1>3. CASE o.exact /\ h # <<>>
  <2>1. H # {} /\ Head(h) \in Store!Lowest(H) /\ r = <<Head(h)>>
    BY <1>2, <1>3 DEF Store!Lowest
  <2> QED
    BY <1>1, <1>2, <1>3, <2>1, Zenon DEF Store!Answers
<1>4. CASE o.exact /\ h = <<>>
  <2>1. H = {} /\ r = <<>>
    BY <1>2, <1>4
  <2> QED
    BY <1>1, <1>2, <1>4, <2>1, Zenon DEF Store!Answers
<1>5. CASE ~o.exact
  <2>1. r = h
    BY <1>5
  <2>2. Store!BagOf(r) = [t \in H |-> BagOf(file)[t]]
    BY <1>2, <2>1, BagsAgree
  <2> QED
    BY <1>1, <1>2, <1>5, <2>1, <2>2, Zenon DEF Store!Answers
<1> QED
  BY <1>3, <1>4, <1>5

\* A query that asks for this language and assembly.
LEMMA QueryRefines ==
    ASSUME TypeInv, CallInv, SortedByIndex(file), NEW p \in Procs, QueryReturns(p)
    PROVE  Store!DoQuery(p)
<1> DEFINE o == Call(p).options
           h == Hits(o)
<1>1. PICK r : /\ r = IF o.exact /\ h # <<>> THEN <<Head(h)>> ELSE h
               /\ Return(p, Found(r))
  BY Zenon DEF QueryReturns
<1>2. /\ pc[p] = "query" /\ pc[p] \in InCall /\ UNCHANGED <<base, file, lastIndex>>
  BY DEF QueryReturns, dataVars, InCall, Stages, Reading
<1>3. /\ Call(p).tag = "query" /\ ~o.foreign
      /\ CallOf(p) = Call(p) /\ Call(p) # None
  <2>1. AtStage(Call(p), pc[p])
    BY <1>2 DEF CallInv, Following
  <2>2. Call(p).tag = "query" /\ ~o.foreign
    BY <1>2, <2>1 DEF AtStage, Build, Op
  <2> QED
    BY <1>2, <2>2, CallIsSeen
<1>4. file \in Seq(Type) /\ h = Keep(file, Spots(file, o))
  BY DEF TypeInv, TypeOK, Hits, Spots
<1> HIDE DEF h, o
<1>5. /\ h \in Seq(Types(file))
      /\ BagOf(h) = [t \in Hit(file, o) |-> BagOf(file)[t]]
      /\ \A i, j \in DOMAIN h : i < j => h[i].index <= h[j].index
      /\ h = <<>> <=> Hit(file, o) = {}
      /\ h # <<>> => /\ Head(h) \in Hit(file, o)
                     /\ \A u \in Hit(file, o) : Head(h).index <= u.index
  BY <1>4, HitsAre
<1>6. Store!Answers(o, r)
  BY <1>1, <1>3, <1>5, AnswersAre
<1>7. r \in Seq(Store!BagToSet(BagOf(file)))
  <2>1. Store!BagToSet(BagOf(file)) = Types(file)
    BY DEF Store!BagToSet, BagOf, Types
  <2>2. r \in Seq(Types(file))
    <3>1. h # <<>> => Head(h) \in Types(file)
      BY <1>5
    <3> QED
      BY <1>1, <1>5, <3>1
  <2> QED
    BY <2>1, <2>2
<1>8. /\ pc' = [pc EXCEPT ![p] = "idle"] /\ \A q \in Procs \ {p} : todo'[q] = todo[q]
      /\ answer' = [answer EXCEPT ![p] = Found(r)]
  BY <1>1 DEF Return, TypeInv, TypeOK
<1>9. Store!Return(p, Store!Found(r))
  BY <1>2, <1>8, ReturnSeen DEF Found, Answer, Store!Found, Store!Answer
<1>10. answer'[p].types = r
  BY <1>8 DEF CallInv, Found, Answer
<1>11. UNCHANGED BagOf(file)
  BY <1>2, Zenon
<1> QED
  BY <1>2, <1>3, <1>6, <1>7, <1>9, <1>10, <1>11 DEF Store!DoQuery, o

\* A query that asks for another language or assembly.
LEMMA ForeignRefines ==
    ASSUME TypeInv, CallInv, NEW p \in Procs, ForeignQuery(p)
    PROVE  Store!DoQuery(p)
<1> DEFINE o == Call(p).options
<1>1. /\ pc[p] = "foreign" /\ pc[p] \in InCall /\ UNCHANGED <<base, file, lastIndex>>
      /\ Return(p, Found(<<>>))
  BY DEF ForeignQuery, dataVars, InCall, Stages
<1>2. /\ Call(p).tag = "query" /\ o.foreign
      /\ CallOf(p) = Call(p) /\ Call(p) # None
  <2>1. AtStage(Call(p), pc[p])
    BY <1>1 DEF CallInv, Following
  <2>2. Call(p).tag = "query" /\ o.foreign
    BY <1>1, <2>1 DEF AtStage, Build, Op
  <2> QED
    BY <1>1, <2>2, CallIsSeen
<1> HIDE DEF o
<1>3. PICK r : r = <<>>
  OBVIOUS
<1>4. Store!Answers(o, r)
  <2>1. BagOf(r) = [t \in {} |-> BagOf(file)[t]]
    BY <1>3 DEF BagOf
  <2>2. Store!BagOf(r) = [t \in {} |-> BagOf(file)[t]]
    BY <2>1, BagsAgree, Zenon
  <2>3. \A i, j \in DOMAIN r : i < j => r[i].index <= r[j].index
    BY <1>3
  <2> QED
    BY <1>2, <1>3, <2>2, <2>3, Zenon DEF Store!Answers
<1>5. r \in Seq(Store!BagToSet(BagOf(file)))
  BY <1>3
<1>6. /\ pc' = [pc EXCEPT ![p] = "idle"] /\ \A q \in Procs \ {p} : todo'[q] = todo[q]
      /\ answer' = [answer EXCEPT ![p] = Found(r)]
  BY <1>1, <1>3 DEF Return, TypeInv, TypeOK
<1>7. Store!Return(p, Store!Found(r))
  BY <1>1, <1>6, ReturnSeen DEF Found, Answer, Store!Found, Store!Answer
<1>8. answer'[p].types = r
  BY <1>6 DEF CallInv, Found, Answer
<1>9. UNCHANGED BagOf(file)
  BY <1>1, Zenon
<1> QED
  BY <1>1, <1>2, <1>4, <1>5, <1>7, <1>8, <1>9 DEF Store!DoQuery, o

----------------------------------------------------------------------------
\* What the host sees nothing of: the lock, the parse and the build.
LEMMA UnseenRefines ==
    ASSUME TypeInv, LockInv, CallInv, NEW p \in Procs,
           \/ AcquireRead(p) \/ AcquireWrite(p) \/ Parse(p)
           \/ Clone(p) \/ ReadBase(p) \/ BeginType(p) \/ OrderPanics(p) \/ Resolve(p)
    PROVE  UNCHANGED Store!vars
<1>1. CASE AcquireRead(p) \/ AcquireWrite(p) \/ Parse(p)
  <2>1. PICK s \in Reading \cup {"add_wait", "merge"} : pc' = [pc EXCEPT ![p] = s]
    BY <1>1 DEF AcquireRead, AfterRead, AcquireWrite, Parse, AddStage, LockInv, Reading,
                ReadWaits
  <2>2. /\ UNCHANGED <<file, lastIndex, answer, todo, base>>
        /\ pc[p] \in InCall
    BY <1>1 DEF AcquireRead, AcquireWrite, Parse, dataVars, InCall, Stages, ReadWaits
  <2>3. pc[p] \in {"parse", "add_wait", "merge"} <=> s \in {"parse", "add_wait", "merge"}
    <3>1. pc'[p] = s
      BY <2>1 DEF TypeInv, TypeOK
    <3> QED
      BY <1>1, <3>1 DEF AcquireRead, AfterRead, AcquireWrite, Parse, AddStage, LockInv,
                        ReadWaits, TypeInv, TypeOK
  <2>4. Call(p) = Build => pc[p] \notin {"parse", "add_wait", "merge"}
    BY <2>2 DEF CallInv, Following, AtStage, Build, Op
  <2> QED
    BY <2>1, <2>2, <2>3, <2>4, MovesUnseen DEF InCall, Reading
<1>2. CASE Clone(p) \/ ReadBase(p) \/ BeginType(p) \/ OrderPanics(p) \/ Resolve(p)
  <2>1. PICK s \in {"base", "type", "resolve_wait", "dead"} : pc' = [pc EXCEPT ![p] = s]
    BY <1>2 DEF Clone, ReadBase, BeginType, OrderPanics, Unwind, Resolve
  <2>2. /\ UNCHANGED <<file, lastIndex, answer, todo, base>>
        /\ pc[p] \in {"clone", "base", "type", "resolve"}
    BY <1>2 DEF Clone, ReadBase, BeginType, OrderPanics, Unwind, Resolve, dataVars
  <2>3. Call(p) = Build
    BY <2>2 DEF CallInv, Following, AtStage, InCall, Stages, ReadWaits, Reading
  <2> QED
    BY <2>1, <2>2, <2>3, MovesUnseen
<1> QED
  BY <1>1, <1>2

\* The end of a build.
LEMMA BuildEndRefines ==
    ASSUME TypeInv, CallInv, NEW p \in Procs, TypeNotFound(p) \/ BuildReturns(p)
    PROVE  UNCHANGED Store!vars
<1>1. /\ pc' = [pc EXCEPT ![p] = "idle"] /\ todo' = [todo EXCEPT ![p] = Tail(@)]
      /\ UNCHANGED <<file, lastIndex, answer, base>> /\ pc[p] \in {"resolve", "type"}
  BY DEF TypeNotFound, BuildReturns, EndBuild, dataVars
<1>2. Call(p) = Build
  BY <1>1 DEF CallInv, Following, AtStage, InCall, Stages, Reading
<1>3. /\ pc'[p] = "idle"
      /\ \A q \in Procs \ {p} : pc'[q] = pc[q] /\ todo'[q] = todo[q] /\ base'[q] = base[q]
  BY <1>1 DEF TypeInv, TypeOK
<1>4. \A q \in Procs \ {p} : CallOf(q)' = CallOf(q) /\ BaseOf(q)' = BaseOf(q)
  BY <1>3 DEF CallOf, BaseOf, Call
<1>5. CallOf(p)' = CallOf(p) /\ BaseOf(p)' = BaseOf(p)
  BY <1>1, <1>2, <1>3 DEF CallOf, BaseOf
<1> QED
  BY <1>1, <1>4, <1>5, Stutters

\* Every step is a step of the store, or none.
LEMMA StepRefines ==
    TypeInv /\ LockInv /\ OrderInv /\ CallInv /\ [Next]_vars => [Store!Next]_(Store!vars)
<1> SUFFICES ASSUME TypeInv, LockInv, OrderInv, CallInv, [Next]_vars
             PROVE  [Store!Next]_(Store!vars)
  OBVIOUS
<1>1. ASSUME NEW p \in Procs, Begin(p) PROVE [Store!Next]_(Store!vars)
  BY <1>1, BeginRefines, Zenon DEF Store!Next
<1>2. ASSUME NEW p \in Procs,
             \/ AcquireRead(p) \/ AcquireWrite(p) \/ Parse(p)
             \/ Clone(p) \/ ReadBase(p) \/ BeginType(p) \/ OrderPanics(p) \/ Resolve(p)
      PROVE  [Store!Next]_(Store!vars)
  BY <1>2, UnseenRefines, Zenon
<1>3. ASSUME NEW p \in Procs, TypeNotFound(p) \/ BuildReturns(p)
      PROVE  [Store!Next]_(Store!vars)
  BY <1>3, BuildEndRefines, Zenon
<1>4. ASSUME NEW p \in Procs, Set(p) PROVE [Store!Next]_(Store!vars)
  BY <1>4, SetRefines, Zenon DEF Store!Next
<1>5. ASSUME NEW p \in Procs, ParseFails(p) \/ AddPanics(p) \/ Merge(p)
      PROVE  [Store!Next]_(Store!vars)
  BY <1>5, ParseFailsRefines, AddPanicsRefines, MergeRefines, Zenon DEF Store!Next
<1>6. ASSUME NEW p \in Procs, FinishLoadReturns(p) \/ FinishLoadPanics(p)
      PROVE  [Store!Next]_(Store!vars)
  BY <1>6, FinishReturnsRefines, FinishPanicsRefines, Zenon DEF Store!Next
<1>7. ASSUME NEW p \in Procs, QueryReturns(p) \/ ForeignQuery(p)
      PROVE  [Store!Next]_(Store!vars)
  BY <1>7, QueryRefines, ForeignRefines, Zenon DEF Store!Next, OrderInv
<1>8. CASE UNCHANGED vars
  <2>1. UNCHANGED <<file, lastIndex, answer, todo, pc, base>>
    BY <1>8 DEF vars
  <2>2. \A q \in Procs : CallOf(q)' = CallOf(q) /\ BaseOf(q)' = BaseOf(q)
    BY <2>1 DEF CallOf, BaseOf, Call
  <2> QED
    BY <2>1, <2>2, Stutters
<1> QED
  BY <1>1, <1>2, <1>3, <1>4, <1>5, <1>6, <1>7, <1>8
     DEF Next, HostDone, CallStep, AddStep, BuildStep

\* However many threads call and whatever they call, adds are atomic and lose
\* nothing, and queries and finish_load answer from the types of one moment:
\* every behaviour of the compiler's interface is one of the store
\* (lib.rs:44-136).
THEOREM StoreImplemented == Spec => ImplementsStore
<1>1. Init => LockInv
  BY ProcsAssumption DEF Init, LockInv
<1> QED
  BY InitTyped, TypePreserved, <1>1, LockPreserved, InitOrdered, OrderPreserved,
     InitFollowing, CallPreserved, InitRefines, StepRefines, PTL
     DEF Spec, ImplementsStore, Store!Spec
============================================================================
