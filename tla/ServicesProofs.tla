--------------------------- MODULE ServicesProofs ---------------------------
(***************************************************************************)
(* The properties of MCServices that follow from the theorems about two of *)
(* its components, the remote catalogs and the views, and those of two     *)
(* others, the catalog mirror and the refresh of a materialized view.      *)
(*                                                                         *)
(* The theorems are about the modules for any constants; here they are     *)
(* instantiated with the constants MCServices gives, whichever values its  *)
(* own have.  A lemma ...Same says that the instance the proofs are about  *)
(* is the instance MCServices composes: expanded, their definitions are    *)
(* the same.  A lemma ...Behaves says that a behaviour of MCServices that  *)
(* chose a component is a behaviour of that component throughout, and one  *)
(* that chose another never is.                                            *)
(***************************************************************************)
EXTENDS MCServices, TLAPS

RemoteProofs == INSTANCE RemoteCatalogProofs
  WITH Clients <- Peers, InstanceOf <- [c \in Peers |-> c],
       Services <- {"glue", "s3tables", "rest"}, MaxFiles <- 3

ViewProofs == INSTANCE ViewsProofs
  WITH Clients <- Peers, InstanceOf <- [c \in Peers |-> "a"],
       Backends <- {"sql", "file"}, Kinds <- {"view", "materialized_view"}, MaxTxns <- 4,
       Transactions <- {<<Representation("d1", "s0", "main")>>,
                        <<Representation("d2", "s1", "dev")>>,
                        <<[op |-> "properties"]>>,
                        <<Representation("d1", "s1", ""), Representation("d2", "s2", "dev")>>}

-----------------------------------------------------------------------------
(* The remote catalogs *)

\* The instance the proofs are about is the one that is composed.
LEMMA RemoteSame ==
  /\ Remote!Init <=> RemoteProofs!Init
  /\ Remote!Next <=> RemoteProofs!Next
  /\ Remote!vars = RemoteProofs!vars
  /\ Remote!CommitsKept <=> RemoteProofs!CommitsKept
  /\ Remote!CacheMatchesVersion <=> RemoteProofs!CacheMatchesVersion
  /\ Remote!AppliedIsReported <=> RemoteProofs!AppliedIsReported
  BY DEF Remote!Instances, RemoteProofs!Instances, Remote!Ids, RemoteProofs!Ids,
         Remote!Kinds, RemoteProofs!Kinds, Remote!NoMetadata, RemoteProofs!NoMetadata,
         Remote!NoEntry, RemoteProofs!NoEntry, Remote!NoTabular, RemoteProofs!NoTabular,
         Remote!vars, RemoteProofs!vars, Remote!IdleTask, RemoteProofs!IdleTask,
         Remote!glue_load_tabular, RemoteProofs!glue_load_tabular,
         Remote!glue_create_table, RemoteProofs!glue_create_table, Remote!glue_create_view,
         RemoteProofs!glue_create_view, Remote!glue_create_materialized_view,
         RemoteProofs!glue_create_materialized_view, Remote!glue_update_table,
         RemoteProofs!glue_update_table, Remote!glue_update_view,
         RemoteProofs!glue_update_view, Remote!glue_update_materialized_view,
         RemoteProofs!glue_update_materialized_view, Remote!glue_register_table,
         RemoteProofs!glue_register_table, Remote!s3_load_tabular,
         RemoteProofs!s3_load_tabular, Remote!s3_create_table,
         RemoteProofs!s3_create_table, Remote!s3_create_view, RemoteProofs!s3_create_view,
         Remote!s3_create_materialized_view, RemoteProofs!s3_create_materialized_view,
         Remote!s3_update_table, RemoteProofs!s3_update_table, Remote!s3_update_view,
         RemoteProofs!s3_update_view, Remote!s3_update_materialized_view,
         RemoteProofs!s3_update_materialized_view, Remote!s3_register_table,
         RemoteProofs!s3_register_table, Remote!rest_load_tabular,
         RemoteProofs!rest_load_tabular, Remote!rest_create_table,
         RemoteProofs!rest_create_table, Remote!rest_create_view,
         RemoteProofs!rest_create_view, Remote!rest_create_materialized_view,
         RemoteProofs!rest_create_materialized_view, Remote!rest_update_table,
         RemoteProofs!rest_update_table, Remote!rest_update_view,
         RemoteProofs!rest_update_view, Remote!rest_update_materialized_view,
         RemoteProofs!rest_update_materialized_view, Remote!rest_register_table,
         RemoteProofs!rest_register_table, Remote!Of, RemoteProofs!Of, Remote!Methods,
         RemoteProofs!Methods, Remote!Program, RemoteProofs!Program,
         Remote!check_requirements, RemoteProofs!check_requirements, Remote!apply_updates,
         RemoteProofs!apply_updates, Remote!NewMetadata, RemoteProofs!NewMetadata,
         Remote!put_metadata, RemoteProofs!put_metadata, Remote!Built, RemoteProofs!Built,
         Remote!Init, RemoteProofs!Init, Remote!Begin, RemoteProofs!Begin,
         Remote!load_tabular, RemoteProofs!load_tabular, Remote!create,
         RemoteProofs!create, Remote!register_table, RemoteProofs!register_table,
         Remote!update, RemoteProofs!update, Remote!Step, RemoteProofs!Step, Remote!Then,
         RemoteProofs!Then, Remote!Err, RemoteProofs!Err, Remote!At, RemoteProofs!At,
         Remote!Put, RemoteProofs!Put, Remote!NextVersion, RemoteProofs!NextVersion,
         Remote!ServiceCreate, RemoteProofs!ServiceCreate, Remote!ServiceGet,
         RemoteProofs!ServiceGet, Remote!swaps, RemoteProofs!swaps, Remote!ServiceSwap,
         RemoteProofs!ServiceSwap, Remote!Read, RemoteProofs!Read, Remote!Ok,
         RemoteProofs!Ok, Remote!CacheEntry, RemoteProofs!CacheEntry, Remote!Done,
         RemoteProofs!Done, Remote!Served, RemoteProofs!Served, Remote!ServerWrites,
         RemoteProofs!ServerWrites, Remote!ServerLoad, RemoteProofs!ServerLoad,
         Remote!ServerCreate, RemoteProofs!ServerCreate, Remote!ServerUpdate,
         RemoteProofs!ServerUpdate, Remote!ServerRegister, RemoteProofs!ServerRegister,
         Remote!Drop, RemoteProofs!Drop, Remote!glue_drop, RemoteProofs!glue_drop,
         Remote!s3_drop, RemoteProofs!s3_drop, Remote!rest_drop, RemoteProofs!rest_drop,
         Remote!Fail, RemoteProofs!Fail, Remote!Call, RemoteProofs!Call, Remote!Proceed,
         RemoteProofs!Proceed, Remote!Next, RemoteProofs!Next, Remote!Current,
         RemoteProofs!Current, Remote!InFlight, RemoteProofs!InFlight, Remote!Fenced,
         RemoteProofs!Fenced, Remote!CommitsKept, RemoteProofs!CommitsKept,
         Remote!CacheMatchesVersion, RemoteProofs!CacheMatchesVersion,
         Remote!AppliedIsReported, RemoteProofs!AppliedIsReported,
         Remote!Range, RemoteProofs!Range

\* Each of the two clients has its catalog instance.
LEMMA RemoteDeployment == RemoteProofs!Deployment
  BY DEF RemoteProofs!Deployment

\* A behaviour of this component is one throughout.
LEMMA RemoteBehaves ==
  /\ Spec /\ part = "remote" => RemoteProofs!Spec /\ [](part = "remote")
  /\ Spec /\ ~(part = "remote") => [](~(part = "remote"))
  <1>1. Init /\ part = "remote" => RemoteProofs!Init
    BY RemoteSame DEF Init
  <1>2. part = "remote" /\ [Next]_vars => [RemoteProofs!Next]_(RemoteProofs!vars) /\ (part = "remote")'
    <2> SUFFICES ASSUME part = "remote", [Next]_vars
                 PROVE  [RemoteProofs!Next]_(RemoteProofs!vars) /\ (part = "remote")'
      OBVIOUS
    <2>1. CASE Next
      BY <2>1, RemoteSame DEF Next
    <2>2. CASE UNCHANGED vars
      BY <2>2 DEF vars, RemoteProofs!vars, remoteVars, viewVars, refreshVars, mirrorVars, scanVars
    <2> QED
      BY <2>1, <2>2
  <1>3. ~(part = "remote") /\ [Next]_vars => ~(part = "remote")'
    BY DEF Next, vars
  <1>4. Spec /\ part = "remote" => RemoteProofs!Spec /\ [](part = "remote")
    BY <1>1, <1>2, PTL DEF Spec, RemoteProofs!Spec
  <1>5. Spec /\ ~(part = "remote") => [](~(part = "remote"))
    BY <1>3, PTL DEF Spec
  <1> QED
    BY <1>4, <1>5

\* No commit update_table of the Glue, S3 Tables or REST catalog reported Ok is
\* lost to another client's, for any bound on the failures.
THEOREM CommitsKeptHolds == Spec => []CommitsKept
  <1>1. RemoteProofs!Spec => []RemoteProofs!CommitsKept
    BY RemoteProofs!CommitsKeptAlways, RemoteDeployment
  <1>2. RemoteProofs!CommitsKept => CommitsKept
    BY RemoteSame DEF CommitsKept
  <1>3. ~(part = "remote") => CommitsKept
    BY DEF CommitsKept
  <1> QED
    BY <1>1, <1>2, <1>3, RemoteBehaves, PTL

\* The version id in the cache of a Glue or S3 Tables catalog belongs to the
\* metadata cached with it, however requests of two clients interleave.
THEOREM CacheMatchesVersionHolds == Spec => []CacheMatchesVersion
  <1>1. RemoteProofs!Spec => []RemoteProofs!CacheMatchesVersion
    BY RemoteProofs!CacheMatchesVersionAlways, RemoteDeployment
  <1>2. RemoteProofs!CacheMatchesVersion => CacheMatchesVersion
    BY RemoteSame DEF CacheMatchesVersion
  <1>3. ~(part = "remote") => CacheMatchesVersion
    BY DEF CacheMatchesVersion
  <1> QED
    BY <1>1, <1>2, <1>3, RemoteBehaves, PTL

\* Without failures of the network, update_table reports what the service applied.
THEOREM AppliedIsReportedHolds == Spec => []AppliedIsReported
  <1>1. RemoteProofs!Spec => []RemoteProofs!AppliedIsReported
    BY RemoteProofs!AppliedIsReportedAlways, RemoteDeployment
  <1>2. RemoteProofs!AppliedIsReported => AppliedIsReported
    BY RemoteSame DEF AppliedIsReported
  <1>3. ~(part = "remote") => AppliedIsReported
    BY DEF AppliedIsReported
  <1> QED
    BY <1>1, <1>2, <1>3, RemoteBehaves, PTL

-----------------------------------------------------------------------------
(* The catalog mirror                                                      *)
(*                                                                         *)
(* NamesHaveNodes says nothing of a name somebody works on.  The           *)
(* strengthening says who does: a name without a relation node belongs to  *)
(* a call between its two steps, a register_table about to make the node   *)
(* or a deregister_table about to remove the name.                         *)

\* The two operations and the steps a call has left.
CallsTyped ==
  pc \in [Peers -> [op : {"none", "register", "deregister"}, name : Mirrored!Names \cup {"none"},
                      left : 0..2]]

\* The names some call has made its first step for and not its second.
HalfDone == {pc[c].name : c \in {d \in Peers : pc[d].left = 1}}

\* A name in a namespace has its node, or a call about it is half done.
Accounted ==
  \A s \in DOMAIN namespaces : \A t \in namespaces[s] : t \in relations \/ t \in HalfDone

MirrorInv == CallsTyped /\ Accounted

\* A step of register_table or deregister_table touches one client's pc: only
\* the client that moves can stop being half done.
LEMMA HalfDoneKept ==
  ASSUME CallsTyped, NEW c \in Peers, NEW v, pc' = [pc EXCEPT ![c] = v],
         NEW t, t \in HalfDone, pc[c].name # t \/ pc[c].left # 1
  PROVE  t \in HalfDone'
  <1>1. PICK d \in Peers : pc[d].name = t /\ pc[d].left = 1
    BY DEF HalfDone
  <1>2. d # c
    BY <1>1
  <1>3. pc'[d] = pc[d]
    BY <1>2 DEF CallsTyped
  <1> QED
    BY <1>1, <1>3 DEF HalfDone

\* Initially the mirror lists the catalog, nodes included, or is empty.
LEMMA MirrorInit == Mirrored!Init => MirrorInv
  <1> SUFFICES ASSUME Mirrored!Init PROVE MirrorInv
    OBVIOUS
  <1>1. CallsTyped
    BY DEF Mirrored!Init, CallsTyped, Mirrored!Idle
  <1>2. Accounted
    BY DEF Mirrored!Init, Accounted
  <1> QED
    BY <1>1, <1>2 DEF MirrorInv

\* register_table: the name enters with its call half done; the node ends it.
LEMMA MirrorRegister ==
  ASSUME MirrorInv, NEW c \in Peers, Mirrored!RegisterTable(c)
  PROVE  MirrorInv'
  <1> DEFINE r == pc[c]
             t == r.name
  <1>0. CallsTyped /\ Accounted
    BY DEF MirrorInv
  <1>1. CallsTyped'
    BY <1>0 DEF Mirrored!RegisterTable, CallsTyped, Mirrored!Idle
  <1>2. CASE r.left = 2
    <2>1. namespaces' = Mirrored!WithName(t) /\ relations' = relations
      BY <1>2 DEF Mirrored!RegisterTable, Mirrored!enters_name
    <2>2. pc' = [pc EXCEPT ![c] = [r EXCEPT !.left = 1]]
      BY <1>2 DEF Mirrored!RegisterTable
    <2>3. t \in HalfDone'
      <3>1. pc'[c] = [r EXCEPT !.left = 1]
        BY <2>2, <1>0 DEF CallsTyped
      <3>2. pc'[c].name = t /\ pc'[c].left = 1
        BY <3>1, <1>0 DEF CallsTyped
      <3> QED
        BY <3>2 DEF HalfDone
    <2>4. ASSUME NEW s \in DOMAIN namespaces', NEW u \in namespaces'[s]
          PROVE  u \in relations' \/ u \in HalfDone'
      <3>1. CASE u = t
        BY <3>1, <2>3
      <3>2. CASE u # t
        <4>1. s \in DOMAIN namespaces /\ u \in namespaces[s]
          BY <2>1, <3>2 DEF Mirrored!WithName
        <4>2. u \in relations \/ u \in HalfDone
          BY <4>1, <1>0 DEF Accounted
        <4>3. u \in HalfDone => u \in HalfDone'
          BY <1>0, <2>2, <3>2, HalfDoneKept
        <4> QED
          BY <4>2, <4>3, <2>1
      <3> QED
        BY <3>1, <3>2
    <2> QED
      BY <1>1, <2>4 DEF MirrorInv, Accounted
  <1>3. CASE r.left # 2
    <2>1. relations' = relations \cup {t} /\ namespaces' = namespaces
      BY <1>3 DEF Mirrored!RegisterTable, Mirrored!enters_name
    <2>2. PICK v : pc' = [pc EXCEPT ![c] = v]
      BY DEF Mirrored!RegisterTable
    <2>3. ASSUME NEW s \in DOMAIN namespaces', NEW u \in namespaces'[s], u # t
          PROVE  u \in relations' \/ u \in HalfDone'
      <3>1. u \in relations \/ u \in HalfDone
        BY <2>1, <1>0, <2>3 DEF Accounted
      <3>2. u \in HalfDone => u \in HalfDone'
        BY <1>0, <2>2, <2>3, HalfDoneKept
      <3> QED
        BY <3>1, <3>2, <2>1
    <2> QED
      BY <1>1, <2>1, <2>3 DEF MirrorInv, Accounted
  <1> QED
    BY <1>2, <1>3

\* deregister_table: losing the node makes the call half done; without a node
\* some other call already is; the second step takes the name away.
LEMMA MirrorDeregister ==
  ASSUME MirrorInv, NEW c \in Peers, Mirrored!DeregisterTable(c)
  PROVE  MirrorInv'
  <1> DEFINE r == pc[c]
             t == r.name
  <1>0. CallsTyped /\ Accounted
    BY DEF MirrorInv
  <1>1. CallsTyped'
    BY <1>0 DEF Mirrored!DeregisterTable, CallsTyped, Mirrored!Idle
  <1>2. PICK v : pc' = [pc EXCEPT ![c] = v]
    BY DEF Mirrored!DeregisterTable
  <1>3. CASE r.left = 2
    <2>1. relations' = relations \ {t} /\ namespaces' = namespaces
      BY <1>3 DEF Mirrored!DeregisterTable
    <2>2. ASSUME NEW u, u \in HalfDone
          PROVE  u \in HalfDone'
      <3>1. pc[c].left # 1
        BY <1>3
      <3> QED
        BY <1>0, <1>2, <2>2, <3>1, HalfDoneKept
    <2>3. t \in relations => t \in HalfDone'
      <3> SUFFICES ASSUME t \in relations PROVE t \in HalfDone'
        OBVIOUS
      <3>1. pc'[c] = [r EXCEPT !.left = 1]
        BY <1>3, <1>0 DEF Mirrored!DeregisterTable, CallsTyped
      <3>2. pc'[c].name = t /\ pc'[c].left = 1
        BY <3>1, <1>0 DEF CallsTyped
      <3> QED
        BY <3>2 DEF HalfDone
    <2>4. ASSUME NEW s \in DOMAIN namespaces', NEW u \in namespaces'[s]
          PROVE  u \in relations' \/ u \in HalfDone'
      <3>1. u \in relations \/ u \in HalfDone
        BY <2>1, <1>0 DEF Accounted
      <3> QED
        BY <3>1, <2>1, <2>2, <2>3
    <2> QED
      BY <1>1, <2>4 DEF MirrorInv, Accounted
  <1>4. CASE r.left # 2
    <2>1. namespaces' = Mirrored!WithoutName(t) /\ relations' = relations
      BY <1>4 DEF Mirrored!DeregisterTable
    <2>2. ASSUME NEW s \in DOMAIN namespaces', NEW u \in namespaces'[s]
          PROVE  u \in relations' \/ u \in HalfDone'
      <3>1. s \in DOMAIN namespaces /\ u \in namespaces[s] /\ u # t
        BY <2>1 DEF Mirrored!WithoutName
      <3>2. u \in relations \/ u \in HalfDone
        BY <3>1, <1>0 DEF Accounted
      <3>3. u \in HalfDone => u \in HalfDone'
        BY <1>0, <1>2, <3>1, HalfDoneKept
      <3> QED
        BY <3>2, <3>3, <2>1
    <2> QED
      BY <1>1, <2>2 DEF MirrorInv, Accounted
  <1> QED
    BY <1>3, <1>4

\* A call begins with neither of its steps made.
LEMMA MirrorCall ==
  ASSUME MirrorInv, NEW c \in Peers, NEW op \in {"register", "deregister"}, NEW t \in Mirrored!Names,
         Mirrored!Call(c, op, t)
  PROVE  MirrorInv'
  <1>0. CallsTyped /\ Accounted
    BY DEF MirrorInv
  <1>1. CallsTyped'
    BY <1>0 DEF Mirrored!Call, CallsTyped
  <1>2. ASSUME NEW u, u \in HalfDone
        PROVE  u \in HalfDone'
    <2>0. pc[c] = Mirrored!Idle
      BY DEF Mirrored!Call
    <2>1. pc[c].left # 1
      BY <2>0 DEF Mirrored!Idle
    <2> QED
      BY <1>0, <1>2, <2>1, HalfDoneKept DEF Mirrored!Call
  <1>3. Accounted'
    BY <1>0, <1>2 DEF Mirrored!Call, Accounted
  <1> QED
    BY <1>1, <1>3 DEF MirrorInv

\* The operations on schemas only empty or remove sets of names, and the
\* catalog's own changes do not reach the mirror.
LEMMA MirrorOthers ==
  ASSUME MirrorInv,
         \/ \E s \in {"s1", "s2"} : Mirrored!RegisterSchema(s) \/ Mirrored!DeregisterSchema(s)
         \/ \E t \in Mirrored!Names : Mirrored!CatalogChanges(t)
         \/ UNCHANGED Mirrored!vars
  PROVE  MirrorInv'
  <1>0. CallsTyped /\ Accounted
    BY DEF MirrorInv
  <1>1. pc' = pc /\ relations' = relations
    BY DEF Mirrored!RegisterSchema, Mirrored!DeregisterSchema, Mirrored!CatalogChanges, Mirrored!vars
  <1>2. ASSUME NEW s \in DOMAIN namespaces', NEW u \in namespaces'[s]
        PROVE  s \in DOMAIN namespaces /\ u \in namespaces[s]
    BY DEF Mirrored!RegisterSchema, Mirrored!DeregisterSchema, Mirrored!CatalogChanges, Mirrored!vars
  <1> QED
    BY <1>0, <1>1, <1>2 DEF MirrorInv, CallsTyped, Accounted, HalfDone

\* It holds of every behaviour of this component.
LEMMA MirrorHolds == Spec => [](part = "mirror" => MirrorInv)
  <1>1. Init => (part = "mirror" => MirrorInv)
    <2> SUFFICES ASSUME Init, part = "mirror" PROVE MirrorInv
      OBVIOUS
    <2>1. Mirrored!Init
      BY DEF Init
    <2> QED
      BY <2>1, MirrorInit
  <1>2. (part = "mirror" => MirrorInv) /\ [Next]_vars => (part = "mirror" => MirrorInv)'
    <2> SUFFICES ASSUME part = "mirror" => MirrorInv, [Next]_vars, (part = "mirror")' PROVE MirrorInv'
      OBVIOUS
    <2>1. CASE Next
      BY <2>1, MirrorRegister, MirrorDeregister, MirrorCall, MirrorOthers DEF Next, Mirrored!Next
    <2>2. CASE UNCHANGED vars
      BY <2>2, MirrorOthers DEF vars, mirrorVars, Mirrored!vars
    <2> QED
      BY <2>1, <2>2
  <1> QED
    BY <1>1, <1>2, PTL DEF Spec

\* However any number of clients interleave register_table, deregister_table
\* and the schema operations, no name is left in a namespace without its
\* relation node once no call is about it.
THEOREM NamesHaveNodesHolds == Spec => []NamesHaveNodes
  <1>1. (part = "mirror" => MirrorInv) => NamesHaveNodes
    BY DEF MirrorInv, Accounted, HalfDone, NamesHaveNodes, Mirrored!NamesHaveNodes,
           Mirrored!table_names, Mirrored!table_exists
  <1> QED
    BY <1>1, MirrorHolds, PTL

-----------------------------------------------------------------------------
(* Views *)

\* The instance the proofs are about is the one that is composed.
LEMMA ViewSame ==
  /\ View!Init <=> ViewProofs!Init
  /\ View!Next <=> ViewProofs!Next
  /\ View!vars = ViewProofs!vars
  /\ View!ViewResolves <=> ViewProofs!ViewResolves
  /\ (View!KeepsHistoryStep /\ View!SameViewStep)
       <=> (ViewProofs!KeepsHistoryStep /\ ViewProofs!SameViewStep)
  BY DEF View!Instances, ViewProofs!Instances, View!NoMetadata, ViewProofs!NoMetadata,
         View!NoEntry, ViewProofs!NoEntry, View!vars, ViewProofs!vars, View!IdleTask,
         ViewProofs!IdleTask, View!Insert, ViewProofs!Insert, View!MaxKey,
         ViewProofs!MaxKey, View!current_version_id, ViewProofs!current_version_id,
         View!current_version, ViewProofs!current_version, View!current_schema,
         ViewProofs!current_schema, View!upsert_representation,
         ViewProofs!upsert_representation, View!new_version_id, ViewProofs!new_version_id,
         View!schema_changed, ViewProofs!schema_changed, View!AddSchema,
         ViewProofs!AddSchema, View!UpdateRepresentations,
         ViewProofs!UpdateRepresentations, View!execute, ViewProofs!execute,
         View!check_view_requirements, ViewProofs!check_view_requirements,
         View!apply_view_update, ViewProofs!apply_view_update, View!apply_view_updates,
         ViewProofs!apply_view_updates, View!NewView, ViewProofs!NewView,
         View!ViewMetadataV1, ViewProofs!ViewMetadataV1, View!view_metadata_try_from,
         ViewProofs!view_metadata_try_from, View!Parsed, ViewProofs!Parsed, View!Init,
         ViewProofs!Init, View!NewTxn, ViewProofs!NewTxn, View!Goto, ViewProofs!Goto,
         View!Fail, ViewProofs!Fail, View!tabular_exists,
         ViewProofs!tabular_exists, View!StartCreate, ViewProofs!StartCreate,
         View!sql_create, ViewProofs!sql_create, View!file_create_view,
         ViewProofs!file_create_view, View!file_create_storage,
         ViewProofs!file_create_storage, View!sql_drop, ViewProofs!sql_drop,
         View!load_tabular, ViewProofs!load_tabular, View!StartUpdate,
         ViewProofs!StartUpdate, View!row_matches, ViewProofs!row_matches, View!Swap,
         ViewProofs!Swap, View!Finish, ViewProofs!Finish, View!Next, ViewProofs!Next,
         View!ViewResolves, ViewProofs!ViewResolves, View!KeepsBut, ViewProofs!KeepsBut,
         View!Commits, ViewProofs!Commits, View!KeepsHistoryStep,
         ViewProofs!KeepsHistoryStep, View!SameViewStep, ViewProofs!SameViewStep,
         View!Range, ViewProofs!Range, View!Max, ViewProofs!Max

\* All clients use one catalog instance, and transactions are sequences.
LEMMA ViewDeployment == ViewProofs!Deployment
<1>1. ASSUME NEW a, NEW b PROVE /\ Len(<<a>>) = 1 /\ DOMAIN <<a>> = 1 .. 1
                                /\ Len(<<a, b>>) = 2 /\ DOMAIN <<a, b>> = 1 .. 2
  OBVIOUS
<1> QED
  BY <1>1 DEF ViewProofs!Deployment

\* A behaviour of this component is one throughout.
LEMMA ViewBehaves ==
  /\ Spec /\ part = "views" => ViewProofs!Spec /\ [](part = "views")
  /\ Spec /\ ~(part = "views") => [](~(part = "views"))
  <1>1. Init /\ part = "views" => ViewProofs!Init
    BY ViewSame DEF Init
  <1>2. part = "views" /\ [Next]_vars => [ViewProofs!Next]_(ViewProofs!vars) /\ (part = "views")'
    <2> SUFFICES ASSUME part = "views", [Next]_vars
                 PROVE  [ViewProofs!Next]_(ViewProofs!vars) /\ (part = "views")'
      OBVIOUS
    <2>1. CASE Next
      BY <2>1, ViewSame DEF Next
    <2>2. CASE UNCHANGED vars
      BY <2>2 DEF vars, ViewProofs!vars, remoteVars, viewVars, refreshVars, mirrorVars, scanVars
    <2> QED
      BY <2>1, <2>2
  <1>3. ~(part = "views") /\ [Next]_vars => ~(part = "views")'
    BY DEF Next, vars
  <1>4. Spec /\ part = "views" => ViewProofs!Spec /\ [](part = "views")
    BY <1>1, <1>2, PTL DEF Spec, ViewProofs!Spec
  <1>5. Spec /\ ~(part = "views") => [](~(part = "views"))
    BY <1>3, PTL DEF Spec
  <1> QED
    BY <1>4, <1>5

\* The current version, the branches and the schemas of the stored view resolve
\* after any transactions of update_view, committed or refused, stale or not.
THEOREM ViewResolvesHolds == Spec => []ViewResolves
  <1>1. ViewProofs!Spec => []ViewProofs!ViewResolves
    BY ViewProofs!ViewResolvesAlways, ViewDeployment
  <1>2. ViewProofs!ViewResolves => ViewResolves
    BY ViewSame DEF ViewResolves
  <1>3. ~(part = "views") => ViewResolves
    BY DEF ViewResolves
  <1> QED
    BY <1>1, <1>2, <1>3, ViewBehaves, PTL

\* No committed view transaction changes a version or schema its client knew of,
\* or lands on another view.
THEOREM ViewHistoryHolds == Spec => ViewHistory
  <1> DEFINE A == ViewProofs!KeepsHistoryStep /\ ViewProofs!SameViewStep
             B == part = "views" => View!KeepsHistoryStep /\ View!SameViewStep
  <1>1. ViewProofs!Spec => [][A]_(ViewProofs!vars)
    BY ViewProofs!ViewHistoryAlways, ViewDeployment DEF ViewProofs!ViewHistory
  <1>2. part = "views" /\ [Next]_vars /\ [A]_(ViewProofs!vars) => [B]_vars
    <2> SUFFICES ASSUME part = "views", [Next]_vars, [A]_(ViewProofs!vars), vars' # vars PROVE A
      BY ViewSame
    <2>1. Next
      OBVIOUS
    <2>2. CASE A
      BY <2>2
    <2>3. CASE ViewProofs!vars' = ViewProofs!vars
      <3>1. UNCHANGED part /\ UNCHANGED <<files, table, remoteVars, refreshVars, mirrorVars, scanVars>>
        BY <2>1 DEF Next
      <3>2. vars' = vars
        BY <2>3, <3>1 DEF vars, ViewProofs!vars, viewVars
      <3> QED
        BY <3>2
    <2> QED
      BY <2>2, <2>3
  <1>3. ~(part = "views") /\ [Next]_vars => [B]_vars
    OBVIOUS
  <1>4. [][B]_vars <=> ViewHistory
    BY DEF ViewHistory
  <1> HIDE DEF A, B
  <1> QED
    BY <1>1, <1>2, <1>3, <1>4, ViewBehaves, PTL DEF Spec

-----------------------------------------------------------------------------
(* The refresh of a materialized view, on main *)

\* What a refresh knows of the storage table, of which main is the snapshot
\* and which has n snapshots so far: before its commit, that a base with the
\* current id is the current snapshot; after a full refresh, that the files
\* it is going to delete are not in the table any more.
RefreshKnows(t, main, n) ==
  /\ DOMAIN t = DOMAIN Fresh!IdleTask
  /\ t.branch = "main"
  /\ t.pc = "swap" =>
       /\ t.base.id \in 0 .. n
       /\ t.mainFiles \subseteq 1 .. n
       /\ t.base.id = main.id => t.base = main /\ t.mainFiles = main.files
  /\ t.pc = "delete" \/ (t.pc = "view" /\ ~ Fresh!IncrementalAppend(t.plan)) =>
       t.mainFiles \subseteq 1 .. n /\ t.mainFiles \cap main.files = {}

\* Files are the numbers of the snapshots that added them, and snapshot ids
\* are not used twice.
RefreshInv ==
  /\ snapshots \in Nat
  /\ storage = [b \in {"main"} |-> storage["main"]]
  /\ task = [r \in Peers |-> task[r]]
  /\ storage["main"].id \in 0 .. snapshots
  /\ storage["main"].files \subseteq 1 .. snapshots
  /\ deleted \subseteq 1 .. snapshots
  /\ deleted \cap storage["main"].files = {}
  /\ \A r \in Peers : RefreshKnows(task[r], storage["main"], snapshots)

\* A step of one refresh that leaves the storage table alone.
LEMMA RefreshStep ==
  ASSUME RefreshInv, NEW r \in Peers, NEW u,
         task' = [task EXCEPT ![r] = u],
         RefreshKnows(u, storage["main"], snapshots),
         UNCHANGED <<storage, snapshots, deleted>>
  PROVE  RefreshInv'
  <1>1. \A q \in Peers : task'[q] = IF q = r THEN u ELSE task[q]
    BY DEF RefreshInv
  <1>2. task' = [q \in Peers |-> task'[q]]
    BY DEF RefreshInv
  <1>3. \A q \in Peers : RefreshKnows(task'[q], storage["main"], snapshots)
    BY <1>1 DEF RefreshInv
  <1>4. \A q \in Peers : RefreshKnows(task[q], storage["main"], snapshots)'
    BY <1>3
  <1> QED
    BY <1>2, <1>4 DEF RefreshInv

\* A refresh that goes on to a point at which it knows nothing.
LEMMA RefreshGoesOn ==
  ASSUME RefreshInv, NEW u, DOMAIN u = DOMAIN Fresh!IdleTask, u.branch = "main",
         u.pc \in {"idle", "sources", "commit"}
  PROVE  RefreshKnows(u, storage["main"], snapshots)
  BY DEF RefreshKnows

LEMMA IdleRefresh ==
  ASSUME RefreshInv
  PROVE  RefreshKnows(Fresh!IdleTask, storage["main"], snapshots)
  <1>1. Fresh!IdleTask.branch = "main" /\ Fresh!IdleTask.pc = "idle"
    BY DEF Fresh!IdleTask
  <1> QED
    BY <1>1, RefreshGoesOn

\* The commit of a refresh: the new snapshot keeps the files of the current
\* one, which is the base, or none of them; its own is new.
LEMMA RefreshCommit ==
  ASSUME RefreshInv, NEW r \in Peers, Fresh!CommitStorage(r)
  PROVE  RefreshInv'
  <1> DEFINE t == task[r]
             main == storage["main"]
             n == snapshots
             new == Fresh!NewSnapshot(t, n + 1)
  <1>1. /\ t.pc = "swap" /\ t.branch = "main" /\ DOMAIN t = DOMAIN Fresh!IdleTask
        /\ RefreshKnows(t, main, n)
    BY DEF RefreshInv, RefreshKnows, Fresh!CommitStorage
  <1>2. CASE ~ Fresh!Changes(t)
    <2>1. Fresh!IncrementalAppend(t.plan)
      BY <1>2 DEF Fresh!Changes
    <2> DEFINE u == [t EXCEPT !.pc = "view"]
    <2>2. DOMAIN u = DOMAIN Fresh!IdleTask /\ u.pc = "view" /\ u.branch = "main" /\ u.plan = t.plan
      BY <1>1 DEF Fresh!IdleTask
    <2>3. RefreshKnows(u, main, n)
      BY <2>1, <2>2 DEF RefreshKnows
    <2>4. task' = [task EXCEPT ![r] = u] /\ UNCHANGED <<storage, snapshots, deleted>>
      BY <1>2 DEF Fresh!CommitStorage, Fresh!Goto
    <2> HIDE DEF u
    <2> QED
      BY <2>3, <2>4, RefreshStep
  <1>3. CASE Fresh!Changes(t) /\ ~ Fresh!requirement_holds(t)
    <2>1. task' = [task EXCEPT ![r] = Fresh!IdleTask] /\ UNCHANGED <<storage, snapshots, deleted>>
      BY <1>3 DEF Fresh!CommitStorage, Fresh!Goto
    <2> QED
      BY <2>1, IdleRefresh, RefreshStep
  <1>4. CASE Fresh!Changes(t) /\ Fresh!requirement_holds(t)
    <2> DEFINE u == [t EXCEPT !.pc = "view"]
    <2>1. t.base = main /\ t.mainFiles = main.files
      BY <1>1, <1>4 DEF RefreshKnows, Fresh!requirement_holds
    <2>2. /\ snapshots' = n + 1
          /\ storage' = [storage EXCEPT !["main"] = new]
          /\ task' = [task EXCEPT ![r] = u]
          /\ deleted' = deleted
      BY <1>1, <1>4 DEF Fresh!CommitStorage, Fresh!Goto
    <2>3. /\ new.id = n + 1
          /\ new.files = IF Fresh!IncrementalAppend(t.plan) THEN main.files \cup {n + 1} ELSE {n + 1}
      BY <2>1 DEF Fresh!NewSnapshot
    <2>4. /\ storage' = [b \in {"main"} |-> storage'["main"]]
          /\ storage'["main"] = new
      BY <2>2 DEF RefreshInv
    <2>5. DOMAIN u = DOMAIN Fresh!IdleTask /\ u.pc = "view" /\ u.branch = "main" /\ u.plan = t.plan
          /\ u.mainFiles = t.mainFiles
      BY <1>1 DEF Fresh!IdleTask
    <2> HIDE DEF u, new
    <2>6. task' = [q \in Peers |-> task'[q]] /\ \A q \in Peers : task'[q] = IF q = r THEN u ELSE task[q]
      BY <2>2 DEF RefreshInv
    <2>7. /\ n \in Nat /\ main.id \in 0 .. n /\ main.files \subseteq 1 .. n
          /\ deleted \subseteq 1 .. n /\ deleted \cap main.files = {}
      BY DEF RefreshInv
    <2>8. RefreshKnows(u, new, n + 1)
      BY <2>1, <2>3, <2>5, <2>7 DEF RefreshKnows
    <2>9. ASSUME NEW q \in Peers PROVE RefreshKnows(task[q], new, n + 1)
      <3>1. RefreshKnows(task[q], main, n)
        BY DEF RefreshInv
      <3>2. task[q].pc = "swap" => task[q].base.id \in 0 .. n + 1 /\ task[q].base.id # new.id
        BY <2>3, <2>7, <3>1 DEF RefreshKnows
      <3>3. ASSUME NEW s \in SUBSET (1 .. n) PROVE s \subseteq 1 .. n + 1 /\ (s \cap main.files = {} => s \cap new.files = {})
        BY <2>3, <2>7
      <3> QED
        BY <3>1, <3>2, <3>3 DEF RefreshKnows
    <2>10. /\ snapshots' \in Nat /\ new.id \in 0 .. n + 1 /\ new.files \subseteq 1 .. n + 1
           /\ deleted \subseteq 1 .. n + 1 /\ deleted \cap new.files = {}
      BY <2>2, <2>3, <2>7
    <2>11. \A q \in Peers : RefreshKnows(task'[q], new, n + 1)
      BY <2>6, <2>8, <2>9
    <2>12. \A q \in Peers : RefreshKnows(task[q], storage["main"], snapshots)'
      BY <2>2, <2>4, <2>11
    <2> QED
      BY <2>2, <2>4, <2>6, <2>10, <2>12 DEF RefreshInv
  <1> QED
    BY <1>2, <1>3, <1>4

LEMMA RefreshInductive ==
  ASSUME Branches = {"main"}, RefreshInv, Fresh!Next
  PROVE  RefreshInv'
  <1>1. ASSUME UNCHANGED <<task, storage, snapshots, deleted>> PROVE RefreshInv'
    BY <1>1 DEF RefreshInv
  <1>2. CASE \E s \in {"a", "b"}, k \in {"k1", "null"} : Fresh!AppendSource(s, k)
    BY <1>1, <1>2 DEF Fresh!AppendSource
  <1>3. ASSUME NEW p, Fresh!Redefine(p) PROVE RefreshInv'
    BY <1>1, <1>3 DEF Fresh!Redefine
  <1>4. ASSUME NEW r \in Peers, Fresh!Start(r, "main") PROVE RefreshInv'
    <2> DEFINE u == [Fresh!IdleTask EXCEPT !.pc = "sources", !.branch = "main", !.version = view.version,
                        !.plan = view.plan, !.seen = storage["main"],
                        !.old = Fresh!refresh_state(storage["main"], view.version)]
    <2>1. DOMAIN u = DOMAIN Fresh!IdleTask /\ u.pc = "sources" /\ u.branch = "main"
      BY DEF Fresh!IdleTask
    <2>2. task' = [task EXCEPT ![r] = u] /\ UNCHANGED <<storage, snapshots, deleted>>
      BY <1>4 DEF Fresh!Start, Fresh!Goto
    <2> HIDE DEF u
    <2> QED
      BY <2>1, <2>2, RefreshGoesOn, RefreshStep
  <1>5. ASSUME NEW r \in Peers, NEW s, Fresh!LoadSource(r, s) PROVE RefreshInv'
    <2> DEFINE u == [task[r] EXCEPT !.loaded = (s :> Fresh!Current(s)) @@ @]
    <2>1. DOMAIN task[r] = DOMAIN Fresh!IdleTask /\ task[r].branch = "main" /\ task[r].pc = "sources"
      BY <1>5 DEF RefreshInv, RefreshKnows, Fresh!LoadSource
    <2>2. DOMAIN u = DOMAIN Fresh!IdleTask /\ u.pc = "sources" /\ u.branch = "main"
      BY <2>1 DEF Fresh!IdleTask
    <2>3. task' = [task EXCEPT ![r] = u] /\ UNCHANGED <<storage, snapshots, deleted>>
      BY <1>5 DEF Fresh!LoadSource, Fresh!Goto
    <2> HIDE DEF u
    <2> QED
      BY <2>2, <2>3, RefreshGoesOn, RefreshStep
  <1>6. ASSUME NEW r \in Peers, Fresh!Execute(r) PROVE RefreshInv'
    <2>1. DOMAIN task[r] = DOMAIN Fresh!IdleTask /\ task[r].branch = "main"
      BY DEF RefreshInv, RefreshKnows
    <2> DEFINE append == [task[r] EXCEPT !.pc = "commit",
                            !.pos = Fresh!PosDelta(task[r].plan, Fresh!Env(task[r])),
                            !.neg = Fresh!NegDelta(task[r].plan, Fresh!Env(task[r]))]
               full == [task[r] EXCEPT !.pc = "commit",
                          !.pos = Fresh!Eval(task[r].plan, [s \in {"a", "b"} |-> Fresh!Last(source[s])])]
    <2>2. DOMAIN append = DOMAIN Fresh!IdleTask /\ append.pc = "commit" /\ append.branch = "main"
      BY <2>1 DEF Fresh!IdleTask
    <2>3. DOMAIN full = DOMAIN Fresh!IdleTask /\ full.pc = "commit" /\ full.branch = "main"
      BY <2>1 DEF Fresh!IdleTask
    <2>4. /\ \E u \in {Fresh!IdleTask, append, full} : task' = [task EXCEPT ![r] = u]
          /\ UNCHANGED <<storage, snapshots, deleted>>
      BY <1>6 DEF Fresh!Execute, Fresh!Goto
    <2> HIDE DEF append, full
    <2>5. \A u \in {Fresh!IdleTask, append, full} : RefreshKnows(u, storage["main"], snapshots)
      BY <2>2, <2>3, RefreshGoesOn, IdleRefresh
    <2> QED
      BY <2>4, <2>5, RefreshStep
  <1>7. ASSUME NEW r \in Peers, Fresh!LoadStorage(r) PROVE RefreshInv'
    <2>1. DOMAIN task[r] = DOMAIN Fresh!IdleTask /\ task[r].branch = "main"
      BY DEF RefreshInv, RefreshKnows
    <2> DEFINE u == [task[r] EXCEPT !.pc = "swap", !.base = storage["main"], !.mainFiles = storage["main"].files]
    <2>2. /\ DOMAIN u = DOMAIN Fresh!IdleTask /\ u.pc = "swap" /\ u.branch = "main"
          /\ u.base = storage["main"] /\ u.mainFiles = storage["main"].files
      BY <2>1 DEF Fresh!IdleTask
    <2>3. task' = [task EXCEPT ![r] = u] /\ UNCHANGED <<storage, snapshots, deleted>>
      BY <1>7, <2>1 DEF Fresh!LoadStorage, Fresh!Goto
    <2> HIDE DEF u
    <2>4. RefreshKnows(u, storage["main"], snapshots)
      BY <2>2 DEF RefreshInv, RefreshKnows
    <2> QED
      BY <2>3, <2>4, RefreshStep
  <1>8. ASSUME NEW r \in Peers, Fresh!CommitView(r) PROVE RefreshInv'
    <2>1. RefreshKnows(task[r], storage["main"], snapshots) /\ task[r].pc = "view"
      BY <1>8 DEF RefreshInv, Fresh!CommitView
    <2> DEFINE u == [task[r] EXCEPT !.pc = "delete"]
    <2>2. /\ DOMAIN u = DOMAIN Fresh!IdleTask /\ u.pc = "delete" /\ u.branch = "main"
          /\ u.mainFiles = task[r].mainFiles
      BY <2>1 DEF RefreshKnows, Fresh!IdleTask
    <2>3. /\ task' = [task EXCEPT ![r] = IF Fresh!IncrementalAppend(task[r].plan) THEN Fresh!IdleTask ELSE u]
          /\ UNCHANGED <<storage, snapshots, deleted>>
      BY <1>8 DEF Fresh!CommitView, Fresh!Goto
    <2> HIDE DEF u
    <2>4. ~ Fresh!IncrementalAppend(task[r].plan) => RefreshKnows(u, storage["main"], snapshots)
      BY <2>1, <2>2 DEF RefreshKnows
    <2> QED
      BY <2>3, <2>4, IdleRefresh, RefreshStep
  <1>9. ASSUME NEW r \in Peers, Fresh!DeleteOld(r) PROVE RefreshInv'
    <2>1. /\ task' = [task EXCEPT ![r] = Fresh!IdleTask] /\ UNCHANGED <<storage, snapshots>>
          /\ deleted' = deleted \cup task[r].mainFiles
      BY <1>9 DEF Fresh!DeleteOld, Fresh!Goto
    <2>2. task[r].mainFiles \subseteq 1 .. snapshots /\ task[r].mainFiles \cap storage["main"].files = {}
      BY <1>9 DEF RefreshInv, RefreshKnows, Fresh!DeleteOld
    <2>3. deleted' \subseteq 1 .. snapshots /\ deleted' \cap storage["main"].files = {}
      BY <2>1, <2>2 DEF RefreshInv
    <2>4. task' = [q \in Peers |-> task'[q]] /\ \A q \in Peers : RefreshKnows(task'[q], storage["main"], snapshots)
      BY <2>1, IdleRefresh DEF RefreshInv
    <2>5. \A q \in Peers : RefreshKnows(task[q], storage["main"], snapshots)'
      BY <2>1, <2>4
    <2> QED
      BY <2>1, <2>3, <2>4, <2>5 DEF RefreshInv
  <1>10. ASSUME NEW r \in Peers, Fresh!Fail(r) PROVE RefreshInv'
    <2>1. task' = [task EXCEPT ![r] = Fresh!IdleTask] /\ UNCHANGED <<storage, snapshots, deleted>>
      BY <1>10 DEF Fresh!Fail, Fresh!Goto
    <2> QED
      BY <2>1, IdleRefresh, RefreshStep
  <1> QED
    BY <1>2, <1>3, <1>4, <1>5, <1>6, <1>7, <1>8, <1>9, <1>10, RefreshCommit DEF Fresh!Next

\* A behaviour of this component is one throughout.
LEMMA RefreshBehaves ==
  ASSUME Branches = {"main"}
  PROVE  Spec => [](part = "refresh" => RefreshInv)
  <1>1. Init => (part = "refresh" => RefreshInv)
    <2> SUFFICES ASSUME Init, part = "refresh" PROVE RefreshInv
      OBVIOUS
    <2>1. /\ storage = [b \in {"main"} |-> Fresh!NoSnapshot] /\ snapshots = 0 /\ deleted = {}
          /\ task = [r \in Peers |-> Fresh!IdleTask]
      BY DEF Init, Fresh!Init
    <2>2. Fresh!NoSnapshot.id = 0 /\ Fresh!NoSnapshot.files = {}
      BY DEF Fresh!NoSnapshot
    <2>3. Fresh!IdleTask.branch = "main" /\ Fresh!IdleTask.pc = "idle"
      BY DEF Fresh!IdleTask
    <2> QED
      BY <2>1, <2>2, <2>3 DEF RefreshInv, RefreshKnows
  <1>2. (part = "refresh" => RefreshInv) /\ [Next]_vars => (part = "refresh" => RefreshInv)'
    <2> SUFFICES ASSUME part = "refresh" => RefreshInv, [Next]_vars, (part = "refresh")' PROVE RefreshInv'
      OBVIOUS
    <2>1. CASE Next
      BY <2>1, RefreshInductive DEF Next
    <2>2. CASE UNCHANGED vars
      BY <2>2 DEF vars, refreshVars, RefreshInv
    <2> QED
      BY <2>1, <2>2
  <1> QED
    BY <1>1, <1>2, PTL DEF Spec

\* While main is the only branch that is refreshed, no refresh deletes data
\* files its snapshot has: a full refresh deletes the files its commit replaced,
\* and no later snapshot takes them up again, whatever refreshes, failures and
\* redefinitions fall between the commit and the deletion.
THEOREM BranchFilesKeptHolds == Branches = {"main"} => (Spec => []BranchFilesKept)
  <1> SUFFICES ASSUME Branches = {"main"} PROVE Spec => []BranchFilesKept
    OBVIOUS
  <1>1. (part = "refresh" => RefreshInv) => BranchFilesKept
    BY DEF BranchFilesKept, Fresh!BranchFilesKept, RefreshInv
  <1> QED
    BY <1>1, RefreshBehaves, PTL

=============================================================================
