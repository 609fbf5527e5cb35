---------------------------- MODULE MCTypeTokens ----------------------------
(***************************************************************************)
(* References of every shape: local and foreign, with and without type     *)
(* arguments, nested twice, with an argument that is not found after one   *)
(* that was pushed, parameters; methods with and without type arguments.   *)
(***************************************************************************)
EXTENDS TypeTokens, TLC

Local(i, a)   == [kind |-> "common", assembly |-> "Own", id |-> i, args |-> a]
Foreign(i, a) == [kind |-> "common", assembly |-> "Core", id |-> i, args |-> a]
Param(k, i)   == [kind |-> k, assembly |-> "Own", id |-> i, args |-> <<>>]
MethodRef(i, a) == [id |-> i, args |-> a]

\* Lists of the local type 0; lists of lists, next to a type parameter.
R == ("local"   :> Local(0, <<>>)) @@ ("foreign" :> Foreign(1, <<>>))
  @@ ("lost"    :> Local(None, <<>>)) @@ ("T" :> Param("TypeGeneric", 0))
  @@ ("M"       :> Param("MethodGeneric", 1))
  @@ ("list"    :> Foreign(2, <<"local">>)) @@ ("own"  :> Local(1, <<"T">>))
  @@ ("map"     :> Foreign(3, <<"list", "own">>))
  @@ ("broken"  :> Foreign(2, <<"list", "lost">>))

MS == ("m0" :> MethodRef(0, <<>>)) @@ ("m1" :> MethodRef(1, <<"map", "foreign">>))
   @@ ("m2" :> MethodRef(1, <<"M", "broken">>)) @@ ("m3" :> MethodRef(None, <<"T">>))

MCRefs == DOMAIN R
MCMethodRefs == DOMAIN MS
MCKind == [r \in MCRefs |-> R[r].kind]
MCAssembly == [r \in MCRefs |-> R[r].assembly]
MCId == [r \in MCRefs |-> R[r].id] @@ [m \in MCMethodRefs |-> MS[m].id]
MCArgs == [r \in MCRefs |-> R[r].args] @@ [m \in MCMethodRefs |-> MS[m].args]
============================================================================
