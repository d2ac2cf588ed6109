------------------------ MODULE RemoteCatalogProofs ------------------------
(***************************************************************************)
(* CommitsKept, CacheMatchesVersion and AppliedIsReported for every set of *)
(* clients and instances, every choice of services and every number of     *)
(* files and faults.                                                       *)
(*                                                                         *)
(* A call holds a version id and file locations across requests.  While    *)
(* the id is the current one of "main", what was read with it is still     *)
(* true; once it is not, the service refuses the swap and nothing needs to *)
(* be known.  So a step of one client either leaves "main" alone, and what *)
(* the others know stays (TaskKept, OthersStay), or it takes a fresh id,   *)
(* and what they know is void.  What remains is one lemma per request,     *)
(* about the client that makes it.                                         *)
(*                                                                         *)
(* The last part is about what does not go wrong without faults: while     *)
(* there are none "main" stays and keeps its kind, whoever knows it knows  *)
(* its kind, and whoever knows a REST table has the object store it is on. *)
(* Hence nothing is refused after a swap.                                  *)
(***************************************************************************)
EXTENDS RemoteCatalogInv, TLAPS

-----------------------------------------------------------------------------
(* Control: the requests of each method, one after the other *)

\* A load.
LEMMA LoadNext ==
  ASSUME NEW q \in LoadPoints
  PROVE  /\ q # <<>> /\ q \in Todos
         /\ Head(q) \in {"get", "read", "cache"}
         /\ Head(q) = "get" => Tail(q) \in LoadPoints /\ Head(Tail(q)) = "read"
         /\ Head(q) = "read" => Tail(q) \in LoadPoints /\ Head(Tail(q)) = "cache"
  <1>1. CASE q = <<"get", "read", "cache">>
    BY <1>1 DEF LoadPoints, Todos
  <1>2. CASE q = <<"read", "cache">>
    BY <1>2 DEF LoadPoints, Todos
  <1>3. CASE q = <<"cache">>
    BY <1>3 DEF LoadPoints, Todos
  <1> QED
    BY <1>1, <1>2, <1>3 DEF LoadPoints

\* A creation in Glue.
LEMMA GlueCreateNext ==
  ASSUME NEW q \in GlueCreatePoints
  PROVE  /\ q # <<>> /\ q \in Todos
         /\ Head(q) \in {"put", "put_storage", "create", "create_storage", "get", "cache"}
         /\ Head(q) # "cache" => Tail(q) \in GlueCreatePoints /\ Head(Tail(q)) # "put"
         /\ Head(q) \in {"put", "put_storage"} => Head(Tail(q)) \in {"put_storage", "create"}
         /\ Head(q) = "create" => Head(Tail(q)) \in {"create_storage", "get"}
         /\ Head(q) = "create_storage" => Head(Tail(q)) = "get"
         /\ Head(q) = "get" => Head(Tail(q)) = "cache"
  <1>1. CASE q = <<"put", "create", "get", "cache">>
    BY <1>1 DEF GlueCreatePoints, Todos
  <1>2. CASE q = <<"create", "get", "cache">>
    BY <1>2 DEF GlueCreatePoints, Todos
  <1>3. CASE q = <<"get", "cache">>
    BY <1>3 DEF GlueCreatePoints, Todos
  <1>4. CASE q = <<"cache">>
    BY <1>4 DEF GlueCreatePoints, Todos
  <1>5. CASE q = <<"put", "put_storage", "create", "create_storage", "get", "cache">>
    BY <1>5 DEF GlueCreatePoints, Todos
  <1>6. CASE q = <<"put_storage", "create", "create_storage", "get", "cache">>
    BY <1>6 DEF GlueCreatePoints, Todos
  <1>7. CASE q = <<"create", "create_storage", "get", "cache">>
    BY <1>7 DEF GlueCreatePoints, Todos
  <1>8. CASE q = <<"create_storage", "get", "cache">>
    BY <1>8 DEF GlueCreatePoints, Todos
  <1> QED
    BY <1>1, <1>2, <1>3, <1>4, <1>5, <1>6, <1>7, <1>8 DEF GlueCreatePoints

\* An update in Glue.
LEMMA GlueUpdateNext ==
  ASSUME NEW q \in GlueUpdatePoints
  PROVE  /\ q # <<>> /\ q \in Todos
         /\ Head(q) \in {"put", "swap", "get", "reread", "cache"}
         /\ Head(q) = "put" => Tail(q) \in GlueUpdatePoints /\ Head(Tail(q)) = "swap"
         /\ Head(q) = "swap" => Tail(q) \in GlueUpdatePoints /\ Head(Tail(q)) = "get"
         /\ Head(q) = "get" => Tail(q) \in GlueUpdatePoints /\ Head(Tail(q)) = "reread"
         /\ Head(q) = "reread" => Tail(q) \in GlueUpdatePoints /\ Head(Tail(q)) = "cache"
  <1>1. CASE q = <<"put", "swap", "get", "reread", "cache">>
    BY <1>1 DEF GlueUpdatePoints, Todos
  <1>2. CASE q = <<"swap", "get", "reread", "cache">>
    BY <1>2 DEF GlueUpdatePoints, Todos
  <1>3. CASE q = <<"get", "reread", "cache">>
    BY <1>3 DEF GlueUpdatePoints, Todos
  <1>4. CASE q = <<"reread", "cache">>
    BY <1>4 DEF GlueUpdatePoints, Todos
  <1>5. CASE q = <<"cache">>
    BY <1>5 DEF GlueUpdatePoints, Todos
  <1> QED
    BY <1>1, <1>2, <1>3, <1>4, <1>5 DEF GlueUpdatePoints

\* A registration in Glue.
LEMMA GlueRegisterNext ==
  ASSUME NEW q \in GlueRegisterPoints
  PROVE  /\ q # <<>> /\ q \in Todos
         /\ Head(q) \in {"read_registered", "create_bare", "get", "cache"}
         /\ Head(q) = "read_registered"
              => Tail(q) \in GlueRegisterPoints /\ Head(Tail(q)) = "create_bare"
         /\ Head(q) = "create_bare" => Tail(q) \in GlueRegisterPoints /\ Head(Tail(q)) = "get"
         /\ Head(q) = "get" => Tail(q) \in GlueRegisterPoints /\ Head(Tail(q)) = "cache"
  <1>1. CASE q = <<"read_registered", "create_bare", "get", "cache">>
    BY <1>1 DEF GlueRegisterPoints, Todos
  <1>2. CASE q = <<"create_bare", "get", "cache">>
    BY <1>2 DEF GlueRegisterPoints, Todos
  <1>3. CASE q = <<"get", "cache">>
    BY <1>3 DEF GlueRegisterPoints, Todos
  <1>4. CASE q = <<"cache">>
    BY <1>4 DEF GlueRegisterPoints, Todos
  <1> QED
    BY <1>1, <1>2, <1>3, <1>4 DEF GlueRegisterPoints

\* A creation in S3 Tables up to its swap ...
LEMMA S3BeforeNext ==
  ASSUME NEW q \in S3BeforePoints
  PROVE  /\ q # <<>> /\ q \in Todos
         /\ Head(q) \in {"create_bare", "get", "create_bare_storage", "get_storage", "put",
                         "put_storage", "swap"}
         /\ Head(q) # "swap" => Tail(q) \in S3BeforePoints /\ Head(Tail(q)) # "create_bare"
         /\ Head(q) \notin {"put", "put_storage", "swap"}
              => Head(Tail(q)) \notin {"put_storage", "swap"}
         /\ Head(q) = "swap" => Tail(q) \in S3AfterPoints
  <1>1. CASE q = <<"create_bare", "get", "put", "swap", "cache">>
    BY <1>1 DEF S3BeforePoints, Todos
  <1>2. CASE q = <<"get", "put", "swap", "cache">>
    BY <1>2 DEF S3BeforePoints, Todos
  <1>3. CASE q = <<"put", "swap", "cache">>
    BY <1>3 DEF S3BeforePoints, Todos
  <1>4. CASE q = <<"swap", "cache">>
    BY <1>4 DEF S3BeforePoints, Todos, S3AfterPoints
  <1>5. CASE q = <<"create_bare", "get", "create_bare_storage", "get_storage", "put",
                     "put_storage", "swap", "create_bare_storage", "swap_storage", "cache">>
    BY <1>5 DEF S3BeforePoints, Todos
  <1>6. CASE q = <<"get", "create_bare_storage", "get_storage", "put", "put_storage", "swap",
                     "create_bare_storage", "swap_storage", "cache">>
    BY <1>6 DEF S3BeforePoints, Todos
  <1>7. CASE q = <<"create_bare_storage", "get_storage", "put", "put_storage", "swap",
                     "create_bare_storage", "swap_storage", "cache">>
    BY <1>7 DEF S3BeforePoints, Todos
  <1>8. CASE q = <<"get_storage", "put", "put_storage", "swap", "create_bare_storage",
                     "swap_storage", "cache">>
    BY <1>8 DEF S3BeforePoints, Todos
  <1>9. CASE q = <<"put", "put_storage", "swap", "create_bare_storage", "swap_storage", "cache">>
    BY <1>9 DEF S3BeforePoints, Todos
  <1>10. CASE q = <<"put_storage", "swap", "create_bare_storage", "swap_storage", "cache">>
    BY <1>10 DEF S3BeforePoints, Todos
  <1>11. CASE q = <<"swap", "create_bare_storage", "swap_storage", "cache">>
    BY <1>11 DEF S3BeforePoints, Todos, S3AfterPoints
  <1> QED
    BY <1>1, <1>2, <1>3, <1>4, <1>5, <1>6, <1>7, <1>8, <1>9, <1>10, <1>11 DEF S3BeforePoints

\* ... and after it.
LEMMA S3AfterNext ==
  ASSUME NEW q \in S3AfterPoints
  PROVE  /\ q # <<>> /\ q \in Todos
         /\ Head(q) \in {"create_bare_storage", "swap_storage", "cache"}
         /\ Head(q) # "cache" => Tail(q) \in S3AfterPoints
  <1>1. CASE q = <<"create_bare_storage", "swap_storage", "cache">>
    BY <1>1 DEF S3AfterPoints, Todos
  <1>2. CASE q = <<"swap_storage", "cache">>
    BY <1>2 DEF S3AfterPoints, Todos
  <1>3. CASE q = <<"cache">>
    BY <1>3 DEF S3AfterPoints, Todos
  <1> QED
    BY <1>1, <1>2, <1>3 DEF S3AfterPoints

\* An update in S3 Tables.
LEMMA S3UpdateNext ==
  ASSUME NEW q \in S3UpdatePoints
  PROVE  /\ q # <<>> /\ q \in Todos
         /\ Head(q) \in {"put", "swap", "reread", "cache"}
         /\ Head(q) = "put" => Tail(q) \in S3UpdatePoints /\ Head(Tail(q)) = "swap"
         /\ Head(q) = "swap" => Tail(q) \in S3UpdatePoints /\ Head(Tail(q)) = "reread"
         /\ Head(q) = "reread" => Tail(q) \in S3UpdatePoints /\ Head(Tail(q)) = "cache"
  <1>1. CASE q = <<"put", "swap", "reread", "cache">>
    BY <1>1 DEF S3UpdatePoints, Todos
  <1>2. CASE q = <<"swap", "reread", "cache">>
    BY <1>2 DEF S3UpdatePoints, Todos
  <1>3. CASE q = <<"reread", "cache">>
    BY <1>3 DEF S3UpdatePoints, Todos
  <1>4. CASE q = <<"cache">>
    BY <1>4 DEF S3UpdatePoints, Todos
  <1> QED
    BY <1>1, <1>2, <1>3, <1>4 DEF S3UpdatePoints

\* A registration in S3 Tables.
LEMMA S3RegisterNext ==
  ASSUME NEW q \in S3RegisterPoints
  PROVE  /\ q # <<>> /\ q \in Todos
         /\ Head(q) \in {"read_registered", "create_bare", "swap", "cache"}
         /\ Head(q) = "read_registered"
              => Tail(q) \in S3RegisterPoints /\ Head(Tail(q)) = "create_bare"
         /\ Head(q) = "create_bare" => Tail(q) \in S3RegisterPoints /\ Head(Tail(q)) = "swap"
         /\ Head(q) = "swap" => Tail(q) \in S3RegisterPoints /\ Head(Tail(q)) = "cache"
  <1>1. CASE q = <<"read_registered", "create_bare", "swap", "cache">>
    BY <1>1 DEF S3RegisterPoints, Todos
  <1>2. CASE q = <<"create_bare", "swap", "cache">>
    BY <1>2 DEF S3RegisterPoints, Todos
  <1>3. CASE q = <<"swap", "cache">>
    BY <1>3 DEF S3RegisterPoints, Todos
  <1>4. CASE q = <<"cache">>
    BY <1>4 DEF S3RegisterPoints, Todos
  <1> QED
    BY <1>1, <1>2, <1>3, <1>4 DEF S3RegisterPoints

\* A load from a REST server.
LEMMA RestLoadNext ==
  ASSUME NEW q \in RestLoadPoints
  PROVE  /\ q # <<>> /\ q \in Todos
         /\ Head(q) \in {"load_table", "load_view", "done", "cache"}
         /\ Head(q) = "load_table" => Tail(q) \in RestLoadPoints /\ Head(Tail(q)) = "load_view"
         /\ Head(q) = "load_view" => Tail(q) \in RestLoadPoints /\ Head(Tail(q)) = "done"
  <1>1. CASE q = <<"load_table", "load_view", "done">>
    BY <1>1 DEF RestLoadPoints, Todos
  <1>2. CASE q = <<"load_view", "done">>
    BY <1>2 DEF RestLoadPoints, Todos
  <1>3. CASE q = <<"done">>
    BY <1>3 DEF RestLoadPoints, Todos
  <1>4. CASE q = <<"cache">>
    BY <1>4 DEF RestLoadPoints, Todos
  <1> QED
    BY <1>1, <1>2, <1>3, <1>4 DEF RestLoadPoints

\* A creation by a REST server.
LEMMA RestCreateNext ==
  ASSUME NEW q \in RestCreatePoints
  PROVE  /\ q # <<>> /\ q \in Todos
         /\ Head(q) \in {"server_create_table", "server_create", "done", "cache"}
         /\ Head(q) = "server_create_table"
              => Tail(q) \in RestCreatePoints /\ Head(Tail(q)) = "server_create"
         /\ Head(q) = "server_create"
              => Tail(q) \in RestCreatePoints /\ Head(Tail(q)) \in {"done", "cache"}
  <1>1. CASE q = <<"server_create_table", "server_create", "done">>
    BY <1>1 DEF RestCreatePoints, Todos
  <1>2. CASE q = <<"server_create", "done">>
    BY <1>2 DEF RestCreatePoints, Todos
  <1>3. CASE q = <<"server_create", "cache">>
    BY <1>3 DEF RestCreatePoints, Todos
  <1>4. CASE q = <<"done">>
    BY <1>4 DEF RestCreatePoints, Todos
  <1>5. CASE q = <<"cache">>
    BY <1>5 DEF RestCreatePoints, Todos
  <1> QED
    BY <1>1, <1>2, <1>3, <1>4, <1>5 DEF RestCreatePoints

\* An update by a REST server.
LEMMA RestUpdateNext ==
  ASSUME NEW q \in RestUpdatePoints
  PROVE  /\ q # <<>> /\ q \in Todos
         /\ Head(q) \in {"server_update", "done"}
         /\ Head(q) = "server_update" => Tail(q) \in RestUpdatePoints /\ Head(Tail(q)) = "done"
  <1>1. CASE q = <<"server_update", "done">>
    BY <1>1 DEF RestUpdatePoints, Todos
  <1>2. CASE q = <<"done">>
    BY <1>2 DEF RestUpdatePoints, Todos
  <1> QED
    BY <1>1, <1>2 DEF RestUpdatePoints

\* A registration by a REST server.
LEMMA RestRegisterNext ==
  ASSUME NEW q \in RestRegisterPoints
  PROVE  /\ q # <<>> /\ q \in Todos
         /\ Head(q) \in {"server_register", "done"}
         /\ Head(q) = "server_register" => Tail(q) \in RestRegisterPoints /\ Head(Tail(q)) = "done"
  <1>1. CASE q = <<"server_register", "done">>
    BY <1>1 DEF RestRegisterPoints, Todos
  <1>2. CASE q = <<"done">>
    BY <1>2 DEF RestRegisterPoints, Todos
  <1> QED
    BY <1>1, <1>2 DEF RestRegisterPoints

\* The programs of Glue's methods.
LEMMA GluePrograms ==
  ASSUME service = "glue", NEW k \in Kinds
  PROVE  /\ Program("load", "table") \in LoadPoints
         /\ Head(Program("load", "table")) = "get"
         /\ Program("create", k) \in GlueCreatePoints
         /\ Head(Program("create", k)) = "put"
         /\ Program("update", k) \in GlueUpdatePoints
         /\ Head(Program("update", k)) = "put"
         /\ Program("register", "table") \in GlueRegisterPoints
         /\ Head(Program("register", "table")) = "read_registered"
  BY DEF Program, Methods, Of, Kinds, LoadPoints, GlueCreatePoints, GlueUpdatePoints,
         GlueRegisterPoints, glue_load_tabular, glue_create_table, glue_create_view,
         glue_create_materialized_view, glue_update_table, glue_update_view,
         glue_update_materialized_view, glue_register_table

\* The programs of S3 Tables' methods.
LEMMA S3Programs ==
  ASSUME service = "s3tables", NEW k \in Kinds
  PROVE  /\ Program("load", "table") \in LoadPoints
         /\ Head(Program("load", "table")) = "get"
         /\ Program("create", k) \in S3BeforePoints
         /\ Head(Program("create", k)) = "create_bare"
         /\ Program("update", k) \in S3UpdatePoints
         /\ Head(Program("update", k)) = "put"
         /\ Program("register", "table") \in S3RegisterPoints
         /\ Head(Program("register", "table")) = "read_registered"
  BY DEF Program, Methods, Of, Kinds, LoadPoints, S3BeforePoints, S3UpdatePoints,
         S3RegisterPoints, s3_load_tabular, s3_create_table, s3_create_view,
         s3_create_materialized_view, s3_update_table, s3_update_view,
         s3_update_materialized_view, s3_register_table

\* The programs of the REST catalog's methods.
LEMMA RestPrograms ==
  ASSUME service = "rest", NEW k \in Kinds
  PROVE  /\ Program("load", "table") \in RestLoadPoints
         /\ Head(Program("load", "table")) = "load_table"
         /\ Program("create", k) \in RestCreatePoints
         /\ Head(Program("create", k)) \in {"server_create_table", "server_create"}
         /\ Program("update", k) \in RestUpdatePoints
         /\ Head(Program("update", k)) = "server_update"
         /\ Program("register", "table") \in RestRegisterPoints
         /\ Head(Program("register", "table")) = "server_register"
  BY DEF Program, Methods, Of, Kinds, RestLoadPoints, RestCreatePoints, RestUpdatePoints,
         RestRegisterPoints, rest_load_tabular, rest_create_table, rest_create_view,
         rest_create_materialized_view, rest_update_table, rest_update_view,
         rest_update_materialized_view, rest_register_table

-----------------------------------------------------------------------------
(* What a step leaves alone *)

\* Files are only added, version ids only grow, and what is known of the
\* pointer changes only with a version id that nobody holds.
Grows ==
  /\ service' = service
  /\ versions' \in Nat /\ versions <= versions'
  /\ Len(files') \in Nat /\ Len(files) <= Len(files')
  /\ \A l \in 1..Len(files) : files'[l] = files[l]
  /\ applied \subseteq applied'
  /\ origin # "existing" => origin' # "existing"
  /\ \/ pointer'["main"] = pointer["main"] /\ origin' = origin /\ applied' = applied
     \/ pointer'["main"].version \notin 1..versions

\* The part of the invariant about the state between calls.
Base == TypeOK /\ PointerOK /\ FilesOK /\ AppliedOK

MainKept == pointer'["main"] = pointer["main"] /\ origin' = origin /\ applied' = applied

\* The types of the fields of a call.
LEMMA TaskFields ==
  ASSUME TypeOK, NEW c \in Clients
  PROVE  /\ task[c].op \in {"none", "load", "create", "update", "register"}
         /\ task[c].todo \in Todos
         /\ task[c].id \in Nat /\ task[c].loc \in Nat /\ task[c].version \in Nat
         /\ task[c].metadata \in Metadata
         /\ task[c].storage \in [loc : Nat, version : Nat]
         /\ task[c].storage.loc \in Nat /\ task[c].storage.version \in Nat
  BY DEF TypeOK, Calls

\* The types of the fields of the pointers, and the length of the file store.
LEMMA StateFields ==
  ASSUME TypeOK
  PROVE  /\ \A i \in Ids : pointer[i] \in [version : Nat, loc : Nat]
         /\ pointer["main"].version \in Nat /\ pointer["main"].loc \in Nat
         /\ pointer["storage"].version \in Nat /\ pointer["storage"].loc \in Nat
         /\ Len(files) \in Nat
         /\ \A l \in 1..Len(files) : files[l] \in Metadata
         /\ NoMetadata \in Metadata
  <1>1. \A i \in Ids : pointer[i] \in [version : Nat, loc : Nat]
    BY DEF TypeOK
  <1>2. "main" \in Ids /\ "storage" \in Ids
    BY DEF Ids
  <1>3. NoMetadata \in Metadata
    BY DEF NoMetadata, Metadata
  <1>4. Len(files) \in Nat /\ \A l \in 1..Len(files) : files[l] \in Metadata
    BY DEF TypeOK
  <1> QED
    BY <1>1, <1>2, <1>3, <1>4

\* Metadata that is held or in a file stays so while files are added.
LEMMA ProperKept ==
  ASSUME TypeOK, Grows, NEW m
  PROVE  /\ m \in Metadata /\ m.uuid <= Len(files) => m.uuid <= Len(files')
         /\ m \in Metadata => m.uuid \in Nat /\ m.kind \in Kinds \cup {"none"} /\ m.commits \in Seq(Nat)
  BY StateFields DEF Grows, Metadata

\* What the pointer names does not change when the pointer does not.
LEMMA CurrentKept ==
  ASSUME Base, Grows, MainKept
  PROVE  Current' = Current /\ Fenced' = Fenced
  <1>1. pointer["main"].loc = 0 \/ pointer["main"].loc \in 1..Len(files)
    BY StateFields DEF Base, PointerOK
  <1> QED
    BY <1>1 DEF Current, Fenced, MainKept, Grows

\* A call whose version id is current after a step had it before.
LEMMA CurrentBefore ==
  ASSUME Base, Grows, NEW v \in Nat, v >= 1, v <= versions, v = pointer'["main"].version
  PROVE  v = pointer["main"].version /\ MainKept
  BY StateFields DEF Base, TypeOK, Grows, MainKept

\* What a call that does not move knows stays true.
LEMMA TaskKept ==
  ASSUME Base, Grows, NEW c \in Clients, TaskOK(c), task'[c] = task[c]
  PROVE  TaskOK(c)'
  <1> DEFINE t == task[c]
  <1>0. TypeOK /\ PointerOK /\ FilesOK /\ AppliedOK
    BY DEF Base
  <1>1. /\ t.id \in Nat /\ t.loc \in Nat /\ t.version \in Nat /\ t.metadata \in Metadata
        /\ t.metadata.uuid \in Nat
        /\ Len(files) \in Nat /\ Len(files') \in Nat
        /\ \A l \in 1..Len(files) : l \in 1..Len(files') /\ files'[l] = files[l]
    <2>1. /\ t.id \in Nat /\ t.loc \in Nat /\ t.version \in Nat /\ t.metadata \in Metadata
      BY <1>0, TaskFields
    <2>2. t.metadata.uuid \in Nat
      BY <2>1 DEF Metadata
    <2>3. Len(files) \in Nat /\ Len(files') \in Nat /\ Len(files) <= Len(files')
      BY <1>0, StateFields DEF Grows
    <2>4. \A l \in 1..Len(files) : l \in 1..Len(files') /\ files'[l] = files[l]
      BY <2>3 DEF Grows
    <2> QED
      BY <2>1, <2>2, <2>3, <2>4
  <1>2. Held(t.metadata) /\ t.loc <= Len(files) /\ t.version <= versions
    BY DEF TaskOK
  <1>3. /\ Held(task[c].metadata)'
        /\ Proper(t.metadata) => Proper(task[c].metadata)'
        /\ (task[c].loc <= Len(files))' /\ (task[c].version <= versions)'
    BY <1>0, <1>1, <1>2 DEF Held, Proper, Grows, TypeOK
  <1>4. IsCurrent(c)' => IsCurrent(c) /\ MainKept
    BY <1>1, <1>2, CurrentBefore DEF IsCurrent
  <1>5. /\ HasFile(c) => HasFile(c)'
        /\ Got(c) => Got(c)'
        /\ Applied(c) => Applied(c)'
    <2>1. HasFile(c) => HasFile(c)'
      BY <1>1 DEF HasFile
    <2>2. Got(c) => Got(c)'
      BY <1>1, <1>4 DEF Got, MainKept
    <2>3. Applied(c) => Applied(c)'
      BY <1>1 DEF Applied, Grows
    <2> QED
      BY <2>1, <2>2, <2>3
  <1>6. (Fenced /\ IsCurrent(c))' => Fenced /\ IsCurrent(c) /\ Current' = Current
    BY <1>4, CurrentKept
  <1>7. service' = service /\ (origin # "existing" => origin' # "existing")
    BY DEF Grows
  <1>8. CASE t = IdleTask
    BY <1>3, <1>8 DEF TaskOK
  <1>9. CASE service # "rest" /\ t.op = "load" /\ LoadOK(c)
    <2>1. LoadOK(c)'
      BY <1>1, <1>5, <1>9 DEF LoadOK, At, AtOneOf, Step
    <2> QED
      BY <1>3, <1>7, <1>9, <2>1 DEF TaskOK
  <1>10. CASE service # "rest" /\ t.op = "update" /\ UpdateOK(c)
    <2>1. UpdateOK(c)'
      BY <1>1, <1>3, <1>5, <1>6, <1>7, <1>10 DEF UpdateOK, At, AtOneOf, Step, apply_updates
    <2> QED
      BY <1>3, <1>7, <1>10, <2>1 DEF TaskOK
  <1>11. CASE service = "glue" /\ t.op = "create" /\ GlueCreateOK(c)
    <2>1. GlueCreateOK(c)'
      BY <1>3, <1>5, <1>7, <1>11 DEF GlueCreateOK, At, AtOneOf, Step
    <2> QED
      BY <1>3, <1>7, <1>11, <2>1 DEF TaskOK
  <1>12. CASE service = "glue" /\ t.op = "register" /\ GlueRegisterOK(c)
    <2>1. GlueRegisterOK(c)'
      BY <1>3, <1>7, <1>12 DEF GlueRegisterOK, At, AtOneOf, Step
    <2> QED
      BY <1>3, <1>7, <1>12, <2>1 DEF TaskOK
  <1>13. CASE service = "s3tables" /\ t.op = "create" /\ S3CreateOK(c)
    <2>1. S3CreateOK(c)'
      BY <1>4, <1>5, <1>13 DEF S3CreateOK, At, AtOneOf, Step, MainKept
    <2> QED
      BY <1>3, <1>7, <1>13, <2>1 DEF TaskOK
  <1>14. CASE service = "s3tables" /\ t.op = "register" /\ S3RegisterOK(c)
    <2>1. S3RegisterOK(c)'
      BY <1>1, <1>4, <1>5, <1>14 DEF S3RegisterOK, At, AtOneOf, Step, MainKept
    <2> QED
      BY <1>3, <1>7, <1>14, <2>1 DEF TaskOK
  <1>15. CASE service = "rest" /\ t.op # "none" /\ RestOK(c)
    <2>1. RestOK(c)'
      BY <1>1, <1>3, <1>5, <1>15 DEF RestOK, At, AtOneOf, Step, Grows
    <2> QED
      BY <1>3, <1>7, <1>15, <2>1 DEF TaskOK
  <1> QED
    BY <1>8, <1>9, <1>10, <1>11, <1>12, <1>13, <1>14, <1>15 DEF TaskOK

\* The caches stay right when no step writes them.
LEMMA CachesKept ==
  ASSUME Base, Grows, CachesOK, cache' = cache
  PROVE  CachesOK'
  <1> SUFFICES ASSUME NEW i \in Instances', cache'[i] # NoEntry
               PROVE  EntryOK(i)'
    BY DEF CachesOK, EntryOK
  <1>0. TypeOK /\ i \in Instances /\ EntryOK(i) /\ cache[i] # NoEntry
    BY DEF Base, CachesOK, Instances
  <1>1. cache[i].version \in Nat /\ cache[i].metadata \in Metadata
    BY <1>0 DEF TypeOK
  <1>2. service # "rest" => (cache[i].version \in 1..versions /\ Proper(cache[i].metadata))'
    <2> SUFFICES ASSUME service # "rest"
                 PROVE  (cache[i].version \in 1..versions /\ Proper(cache[i].metadata))'
      OBVIOUS
    <2>1. cache[i].version \in 1..versions /\ Proper(cache[i].metadata)
      BY <1>0 DEF EntryOK
    <2>2. cache[i].metadata.uuid <= Len(files')
      BY <1>0, <1>1, <2>1, ProperKept DEF Proper, Held
    <2> QED
      BY <1>0, <1>1, <2>1, <2>2 DEF Proper, Held, Grows, TypeOK
  <1>3. Fenced' => service # "rest"
    BY DEF Fenced, Grows
  <1>4. Fenced' /\ cache[i].version = pointer'["main"].version => cache[i].metadata = Current'
    <2> SUFFICES ASSUME Fenced', cache[i].version = pointer'["main"].version
                 PROVE  cache[i].metadata = Current'
      OBVIOUS
    <2>1. cache[i].version \in 1..versions
      BY <1>0, <1>3 DEF EntryOK
    <2>2. cache[i].version = pointer["main"].version /\ MainKept
      BY <1>1, <2>1, CurrentBefore
    <2> QED
      BY <1>0, <2>2, CurrentKept DEF EntryOK
  <1> QED
    BY <1>2, <1>4 DEF EntryOK, Grows

\* What the service applied is kept while the pointer stays.
LEMMA AppliedKeptKept ==
  ASSUME Base, Grows, MainKept, AppliedKept
  PROVE  AppliedKept'
  BY CurrentKept DEF AppliedKept, MainKept, Grows

-----------------------------------------------------------------------------
(* How a call moves *)

OthersStay(c) == \A d \in Clients : d # c => task'[d] = task[d]

Moves(c, id, loc, version, metadata) ==
  /\ task'[c].op = task[c].op /\ task'[c].todo = Tail(task[c].todo)
  /\ task'[c].id = id /\ task'[c].loc = loc /\ task'[c].version = version
  /\ task'[c].metadata = metadata

\* The idle call is one.
LEMMA IdleTyped ==
  /\ IdleTask \in Calls
  /\ IdleTask.todo = <<>> /\ IdleTask.loc = 0 /\ IdleTask.version = 0
  /\ IdleTask.metadata = NoMetadata
  BY DEF IdleTask, Calls, Todos, NoMetadata, Metadata

\* The next request: what Then does to the fields of the call.
LEMMA ThenMoves ==
  ASSUME TypeOK, NEW c \in Clients, NEW r \in Calls, Then(c, r), r.op = task[c].op,
         r.todo = task[c].todo, Tail(task[c].todo) \in Todos
  PROVE  /\ task' \in [Clients -> Calls] /\ OthersStay(c)
         /\ Moves(c, r.id, r.loc, r.version, r.metadata)
  <1>1. task' = [task EXCEPT ![c] = [r EXCEPT !.todo = Tail(@)]]
    BY DEF Then
  <1>2. [r EXCEPT !.todo = Tail(@)] \in Calls
    BY DEF Calls
  <1>3. task' \in [Clients -> Calls] /\ OthersStay(c)
    BY <1>1, <1>2 DEF TypeOK, OthersStay
  <1>4. task'[c] = [r EXCEPT !.todo = Tail(@)]
    BY <1>1 DEF TypeOK
  <1>5. Moves(c, r.id, r.loc, r.version, r.metadata)
    BY <1>4 DEF Moves, Calls
  <1> QED
    BY <1>3, <1>5

\* A call that ends leaves nothing behind.
LEMMA EndTyped ==
  ASSUME TypeOK, NEW c \in Clients, task' = [task EXCEPT ![c] = IdleTask]
  PROVE  /\ task' \in [Clients -> Calls] /\ OthersStay(c)
         /\ task'[c] = IdleTask
  BY IdleTyped DEF TypeOK, OthersStay

\* An idle call knows nothing.
LEMMA IdleOK ==
  ASSUME NEW c \in Clients, TypeOK', task'[c] = IdleTask
  PROVE  TaskOK(c)'
  <1>1. Len(files') \in Nat /\ versions' \in Nat
    BY DEF TypeOK
  <1>2. NoMetadata.uuid = 0 /\ NoMetadata \in Metadata
    BY DEF NoMetadata, Metadata
  <1> QED
    BY <1>1, <1>2, IdleTyped DEF TaskOK, Held

\* The calls after a step of one of them.
LEMMA TasksKept ==
  ASSUME Base, Grows, \A d \in Clients : TaskOK(d), NEW c \in Clients, OthersStay(c), TaskOK(c)'
  PROVE  \A d \in Clients : TaskOK(d)'
  <1> SUFFICES ASSUME NEW d \in Clients, d # c PROVE TaskOK(d)'
    OBVIOUS
  <1> QED
    BY TaskKept DEF OthersStay

\* The state every call shares.
Shared == <<service, pointer, files, versions, applied, origin>>

\* Then nothing a call knows is undone.
LEMMA SharedGrows ==
  ASSUME Base, UNCHANGED Shared
  PROVE  Grows /\ MainKept
  BY StateFields DEF Shared, Grows, MainKept, Base, TypeOK

\* A step that changes only the call that makes it.
LEMMA LocalKeeps ==
  ASSUME IInv, NEW c \in Clients, UNCHANGED <<Shared, cache, handle, acked>>,
         task' \in [Clients -> Calls], OthersStay(c), TaskOK(c)'
  PROVE  IInv'
  <1>0. UNCHANGED Shared /\ cache' = cache /\ handle' = handle /\ acked' = acked
    OBVIOUS
  <1>1. Base /\ (\A d \in Clients : TaskOK(d)) /\ CachesOK /\ AppliedKept /\ HandlesOK
    BY DEF IInv, Base
  <1>2. Grows /\ MainKept
    BY <1>0, <1>1, SharedGrows
  <1>3. TypeOK'
    BY <1>0, <1>1 DEF Base, TypeOK, Shared
  <1>4. PointerOK' /\ FilesOK' /\ AppliedOK' /\ HandlesOK'
    BY <1>0, <1>1 DEF Base, PointerOK, FilesOK, AppliedOK, HandlesOK, Shared, Proper, Held
  <1>5. \A d \in Clients : TaskOK(d)'
    BY <1>1, <1>2, TasksKept
  <1>6. CachesOK' /\ AppliedKept'
    BY <1>0, <1>1, <1>2, CachesKept, AppliedKeptKept
  <1> QED
    BY <1>3, <1>4, <1>5, <1>6 DEF IInv

\* A call that ends with an error.
LEMMA ErrKeeps ==
  ASSUME IInv, NEW c \in Clients, UNCHANGED <<Shared, cache, handle, acked>>, Err(c)
  PROVE  IInv'
  <1>1. TypeOK
    BY DEF IInv
  <1>2. task' \in [Clients -> Calls] /\ OthersStay(c) /\ task'[c] = IdleTask
    BY <1>1, EndTyped DEF Err
  <1>3. TypeOK'
    BY <1>1, <1>2 DEF TypeOK, Shared
  <1>4. TaskOK(c)'
    BY <1>2, <1>3, IdleOK
  <1> QED
    BY <1>2, <1>4, LocalKeeps

-----------------------------------------------------------------------------
(* Steps that only read *)

\* The requests of the methods, for a call that is to make one of them.
LEMMA Requests ==
  ASSUME NEW c \in Clients, TypeOK, TaskOK(c), task[c].todo # <<>>
  PROVE  \/ service = "rest" /\ task[c].op # "none" /\ RestOK(c)
            /\ Step(c) \in {"load_table", "load_view", "server_create", "server_create_table",
                            "server_update", "server_register", "cache", "done"}
         \/ service # "rest" /\ task[c].op = "load" /\ LoadOK(c)
            /\ Step(c) \in {"get", "read", "cache"}
         \/ service = "glue" /\ task[c].op = "update" /\ UpdateOK(c)
            /\ Step(c) \in {"put", "swap", "get", "reread", "cache"}
         \/ service = "s3tables" /\ task[c].op = "update" /\ UpdateOK(c)
            /\ Step(c) \in {"put", "swap", "reread", "cache"}
         \/ service = "glue" /\ task[c].op = "create" /\ GlueCreateOK(c)
            /\ Step(c) \in {"put", "put_storage", "create", "create_storage", "get", "cache"}
         \/ service = "glue" /\ task[c].op = "register" /\ GlueRegisterOK(c)
            /\ Step(c) \in {"read_registered", "create_bare", "get", "cache"}
         \/ service = "s3tables" /\ task[c].op = "create" /\ S3CreateOK(c)
            /\ task[c].todo \in S3BeforePoints
            /\ Step(c) \in {"create_bare", "get", "create_bare_storage", "get_storage", "put",
                            "put_storage", "swap"}
         \/ service = "s3tables" /\ task[c].op = "create" /\ S3CreateOK(c)
            /\ task[c].todo \in S3AfterPoints
            /\ Step(c) \in {"create_bare_storage", "swap_storage", "cache"}
         \/ service = "s3tables" /\ task[c].op = "register" /\ S3RegisterOK(c)
            /\ Step(c) \in {"read_registered", "create_bare", "swap", "cache"}
  <1>1. CASE task[c] = IdleTask
    BY <1>1, IdleTyped
  <1>2. CASE service = "rest" /\ task[c].op # "none" /\ RestOK(c)
    <2>1. task[c].op \in {"load", "create", "update", "register"}
      BY <1>2, TaskFields
    <2> QED
      BY <1>2, <2>1, RestLoadNext, RestCreateNext, RestUpdateNext, RestRegisterNext DEF RestOK, Step
  <1>3. CASE service # "rest" /\ task[c].op = "load" /\ LoadOK(c)
    BY <1>3, LoadNext DEF LoadOK, Step
  <1>4. CASE service # "rest" /\ task[c].op = "update" /\ UpdateOK(c)
    BY <1>4, GlueUpdateNext, S3UpdateNext DEF UpdateOK, Step, TypeOK
  <1>5. CASE service = "glue" /\ task[c].op = "create" /\ GlueCreateOK(c)
    BY <1>5, GlueCreateNext DEF GlueCreateOK, Step
  <1>6. CASE service = "glue" /\ task[c].op = "register" /\ GlueRegisterOK(c)
    BY <1>6, GlueRegisterNext DEF GlueRegisterOK, Step
  <1>7. CASE service = "s3tables" /\ task[c].op = "create" /\ S3CreateOK(c)
    BY <1>7, S3BeforeNext, S3AfterNext DEF S3CreateOK, Step
  <1>8. CASE service = "s3tables" /\ task[c].op = "register" /\ S3RegisterOK(c)
    BY <1>8, S3RegisterNext DEF S3RegisterOK, Step
  <1> QED
    BY <1>1, <1>2, <1>3, <1>4, <1>5, <1>6, <1>7, <1>8 DEF TaskOK

\* The bounds of what a call holds after it moved.
LEMMA MovesHeld ==
  ASSUME NEW c \in Clients, UNCHANGED <<files, versions>>, NEW id, NEW loc, NEW version, NEW m,
         Moves(c, id, loc, version, m), Held(m), loc <= Len(files), version <= versions
  PROVE  /\ Held(task[c].metadata)' /\ (task[c].loc <= Len(files))'
         /\ (task[c].version <= versions)'
         /\ Proper(m) => Proper(task[c].metadata)'
  BY DEF Moves, Held, Proper

StorageOnly(c) ==
  /\ task' \in [Clients -> Calls] /\ OthersStay(c)
  /\ Moves(c, task[c].id, task[c].loc, task[c].version, task[c].metadata)

\* The next request of a call that learnt something of the storage table.
LEMMA StorageMoves ==
  ASSUME TypeOK, NEW c \in Clients, NEW n \in Nat, Tail(task[c].todo) \in Todos,
         \/ Then(c, [task[c] EXCEPT !.storage.version = n])
         \/ Then(c, [task[c] EXCEPT !.storage.loc = n])
         \/ Then(c, task[c])
  PROVE  StorageOnly(c)
  <1> DEFINE t == task[c]
             r1 == [t EXCEPT !.storage.version = n]
             r2 == [t EXCEPT !.storage.loc = n]
  <1>1. t \in Calls
    BY DEF TypeOK
  <1>2. /\ r1 \in Calls /\ r1.op = t.op /\ r1.todo = t.todo /\ r1.id = t.id /\ r1.loc = t.loc
        /\ r1.version = t.version /\ r1.metadata = t.metadata
    BY <1>1 DEF Calls
  <1>3. /\ r2 \in Calls /\ r2.op = t.op /\ r2.todo = t.todo /\ r2.id = t.id /\ r2.loc = t.loc
        /\ r2.version = t.version /\ r2.metadata = t.metadata
    BY <1>1 DEF Calls
  <1>4. CASE Then(c, r1)
    BY <1>2, <1>4, ThenMoves DEF StorageOnly
  <1>5. CASE Then(c, r2)
    BY <1>3, <1>5, ThenMoves DEF StorageOnly
  <1>6. CASE Then(c, t)
    BY <1>1, <1>6, ThenMoves DEF StorageOnly
  <1> QED
    BY <1>4, <1>5, <1>6

\* get_table: the version id, and the location that goes with it.
LEMMA GetKeeps ==
  ASSUME IInv, NEW c \in Clients, ServiceGet(c)
  PROVE  IInv'
  <1> DEFINE t == task[c]
             p == pointer["main"]
  <1>0. TypeOK /\ PointerOK /\ FilesOK /\ TaskOK(c) /\ UNCHANGED <<Shared, cache, handle, acked>>
    BY DEF IInv, ServiceGet, Shared
  <1>1. CASE Err(c)
    BY <1>0, <1>1, ErrKeeps
  <1>2. CASE ~Err(c) /\ At(c, "get")
    <2>0. /\ p # NoTabular /\ ~(t.op = "load" /\ p.loc = 0)
          /\ Then(c, IF t.op = "create" THEN [t EXCEPT !.version = p.version]
                     ELSE [t EXCEPT !.version = p.version, !.loc = p.loc])
      BY <1>2 DEF ServiceGet, At
    <2>1. p.version \in Nat /\ p.loc \in Nat /\ p.version \in 1..versions /\ p.loc <= Len(files)
          /\ Len(files) \in Nat /\ versions \in Nat
      BY <1>0, <2>0, StateFields DEF PointerOK, Ids, TypeOK
    <2>2. t.todo # <<>> /\ Step(c) = "get"
      BY <1>2 DEF At
    <2>3. ASSUME t.op # "create", Tail(t.todo) \in Todos
          PROVE  /\ task' \in [Clients -> Calls] /\ OthersStay(c)
                 /\ Moves(c, t.id, p.loc, p.version, t.metadata)
      <3>1. t \in Calls
        BY <1>0 DEF TypeOK
      <3>2. Then(c, [t EXCEPT !.version = p.version, !.loc = p.loc])
        BY <2>0, <2>3
      <3> DEFINE r == [t EXCEPT !.version = p.version, !.loc = p.loc]
      <3>3. /\ r \in Calls /\ r.op = t.op /\ r.todo = t.todo /\ r.id = t.id /\ r.loc = p.loc
            /\ r.version = p.version /\ r.metadata = t.metadata
        BY <3>1, <2>1 DEF Calls
      <3> QED
        BY <1>0, <2>3, <3>2, <3>3, ThenMoves
    <2>4. ASSUME t.op = "create", Tail(t.todo) \in Todos
          PROVE  /\ task' \in [Clients -> Calls] /\ OthersStay(c)
                 /\ Moves(c, t.id, t.loc, p.version, t.metadata)
      <3>1. t \in Calls
        BY <1>0 DEF TypeOK
      <3>2. Then(c, [t EXCEPT !.version = p.version])
        BY <2>0, <2>4
      <3> DEFINE r == [t EXCEPT !.version = p.version]
      <3>3. /\ r \in Calls /\ r.op = t.op /\ r.todo = t.todo /\ r.id = t.id /\ r.loc = t.loc
            /\ r.version = p.version /\ r.metadata = t.metadata
        BY <3>1, <2>1 DEF Calls
      <3> QED
        BY <1>0, <2>4, <3>2, <3>3, ThenMoves
    <2>5. /\ service' = service /\ pointer' = pointer /\ files' = files /\ versions' = versions
          /\ applied' = applied /\ origin' = origin
      BY <1>0 DEF Shared
    <2>6. ASSUME NEW loc \in Nat, loc <= Len(files), Moves(c, t.id, loc, p.version, t.metadata)
          PROVE  /\ Held(task[c].metadata)' /\ (task[c].loc <= Len(files))'
                 /\ (task[c].version <= versions)'
                 /\ Proper(t.metadata) => Proper(task[c].metadata)'
      BY <1>0, <2>1, <2>5, <2>6 DEF Moves, TaskOK, Held, Proper
    <2>8. CASE service # "rest" /\ t.op = "load" /\ LoadOK(c)
      <3>1. Tail(t.todo) \in LoadPoints /\ Head(Tail(t.todo)) = "read" /\ Tail(t.todo) # <<>>
            /\ Tail(t.todo) \in Todos
        BY <2>2, <2>8, LoadNext DEF LoadOK, Step
      <3>2. Moves(c, t.id, p.loc, p.version, t.metadata)
        BY <2>3, <2>8, <3>1
      <3>3. p.loc \in 1..Len(files) /\ p.version >= 1
        BY <2>0, <2>1, <2>8
      <3>4. LoadOK(c)'
        BY <2>5, <3>1, <3>2, <3>3 DEF LoadOK, At, AtOneOf, Step, Got, IsCurrent, Moves
      <3>5. TaskOK(c)'
        BY <2>1, <2>5, <2>6, <2>8, <3>2, <3>4 DEF TaskOK, Moves
      <3> QED
        BY <1>0, <2>3, <2>8, <3>1, <3>5, LocalKeeps
    <2>9. CASE service = "glue" /\ t.op = "update" /\ UpdateOK(c)
      <3>1. Tail(t.todo) \in GlueUpdatePoints /\ Head(Tail(t.todo)) = "reread" /\ Tail(t.todo) # <<>>
            /\ Tail(t.todo) \in Todos
        BY <2>2, <2>9, GlueUpdateNext DEF UpdateOK, Step
      <3>2. Moves(c, t.id, p.loc, p.version, t.metadata)
        BY <2>3, <2>9, <3>1
      <3>3. Applied(c)
        BY <2>2, <2>9 DEF UpdateOK, AtOneOf
      <3>4. UpdateOK(c)'
        BY <2>1, <2>5, <2>9, <3>1, <3>2, <3>3
           DEF UpdateOK, At, AtOneOf, Step, Got, IsCurrent, Applied, Moves
      <3>5. TaskOK(c)'
        BY <2>1, <2>5, <2>6, <2>9, <3>2, <3>4 DEF TaskOK, Moves
      <3> QED
        BY <1>0, <2>3, <2>9, <3>1, <3>5, LocalKeeps
    <2>10. CASE service = "glue" /\ t.op = "create" /\ GlueCreateOK(c)
      <3>1. Tail(t.todo) \in GlueCreatePoints /\ Head(Tail(t.todo)) = "cache" /\ Tail(t.todo) # <<>>
            /\ Tail(t.todo) \in Todos
        BY <2>2, <2>10, GlueCreateNext DEF GlueCreateOK, Step
      <3>2. Moves(c, t.id, t.loc, p.version, t.metadata)
        BY <2>4, <2>10, <3>1
      <3>3. t.loc \in Nat /\ t.loc <= Len(files)
        BY <1>0, TaskFields DEF TaskOK
      <3>4. Proper(t.metadata) /\ origin # "existing" /\ t.metadata.kind \in Kinds
        BY <2>2, <2>10 DEF GlueCreateOK, At, AtOneOf
      <3>5. GlueCreateOK(c)'
        BY SMTT(60), <2>1, <2>5, <2>6, <3>1, <3>2, <3>4, <3>3 DEF GlueCreateOK, At, AtOneOf, Step, Moves
      <3>6. TaskOK(c)'
        BY <2>5, <2>6, <2>10, <3>2, <3>5, <3>3 DEF TaskOK, Moves
      <3> QED
        BY <1>0, <2>4, <2>10, <3>1, <3>6, LocalKeeps
    <2>11. CASE service = "glue" /\ t.op = "register" /\ GlueRegisterOK(c)
      <3>1. Tail(t.todo) \in GlueRegisterPoints /\ Head(Tail(t.todo)) = "cache" /\ Tail(t.todo) # <<>>
            /\ Tail(t.todo) \in Todos
        BY <2>2, <2>11, GlueRegisterNext DEF GlueRegisterOK, Step
      <3>2. Moves(c, t.id, p.loc, p.version, t.metadata)
        BY <2>3, <2>11, <3>1
      <3>3. Proper(t.metadata) /\ origin # "existing"
        BY <2>2, <2>11 DEF GlueRegisterOK, At, AtOneOf
      <3>4. GlueRegisterOK(c)'
        BY <2>1, <2>5, <2>6, <3>1, <3>2, <3>3 DEF GlueRegisterOK, At, AtOneOf, Step, Moves
      <3>5. TaskOK(c)'
        BY <2>1, <2>5, <2>6, <2>11, <3>2, <3>4 DEF TaskOK, Moves
      <3> QED
        BY <1>0, <2>3, <2>11, <3>1, <3>5, LocalKeeps
    <2>12. CASE service = "s3tables" /\ t.op = "create" /\ S3CreateOK(c) /\ t.todo \in S3BeforePoints
      <3>1. Tail(t.todo) \in S3BeforePoints /\ Tail(t.todo) \in Todos
            /\ Head(Tail(t.todo)) \notin {"create_bare", "put_storage", "swap"}
        BY <2>2, <2>12, S3BeforeNext DEF Step
      <3>2. Moves(c, t.id, t.loc, p.version, t.metadata)
        BY <2>4, <2>12, <3>1
      <3>3. t.metadata.kind \in Kinds
        <4>1. t.todo \notin S3AfterPoints
          BY <2>2, S3AfterNext DEF Step
        <4> QED
          BY <2>12, <4>1 DEF S3CreateOK
      <3>4. S3CreateOK(c)'
        BY <2>1, <2>5, <3>1, <3>2, <3>3 DEF S3CreateOK, At, AtOneOf, Step, Moves
      <3>5. t.loc \in Nat /\ t.loc <= Len(files)
        BY <1>0, TaskFields DEF TaskOK
      <3>6. TaskOK(c)'
        BY <2>5, <2>6, <2>12, <3>2, <3>4, <3>5 DEF TaskOK, Moves
      <3> QED
        BY <1>0, <2>4, <2>12, <3>1, <3>6, LocalKeeps
    <2> QED
      BY <1>0, <2>2, <2>8, <2>9, <2>10, <2>11, <2>12, Requests
  <1>3. CASE ~Err(c) /\ ~At(c, "get")
    <2>1. t.todo # <<>> /\ Step(c) = "get_storage"
      BY <1>3 DEF ServiceGet, At
    <2>2. Then(c, [t EXCEPT !.storage.version = pointer["storage"].version])
      BY <1>3, <2>1 DEF ServiceGet
    <2>3. service = "s3tables" /\ t.op = "create" /\ S3CreateOK(c) /\ t.todo \in S3BeforePoints
      BY <1>0, <2>1, Requests
    <2>4. Tail(t.todo) \in S3BeforePoints /\ Tail(t.todo) \in Todos
          /\ Head(Tail(t.todo)) \notin {"create_bare", "put_storage", "swap"}
      BY <2>1, <2>3, S3BeforeNext DEF Step
    <2>5. StorageOnly(c)
      BY <1>0, <2>2, <2>4, StateFields, StorageMoves
    <2>6. S3CreateOK(c)'
      BY <1>0, <2>1, <2>3, <2>4, <2>5, S3AfterNext
         DEF S3CreateOK, At, AtOneOf, Step, StorageOnly, Moves
    <2>7. TaskOK(c)'
      BY <1>0, <2>3, <2>5, <2>6 DEF TaskOK, StorageOnly, Moves, Held, Shared
    <2> QED
      BY <1>0, <2>5, <2>7, LocalKeeps DEF StorageOnly
  <1> QED
    BY <1>1, <1>2, <1>3

\* A metadata file that the call then has.
LEMMA ReadKeeps ==
  ASSUME IInv, NEW c \in Clients, Read(c)
  PROVE  IInv'
  <1> DEFINE t == task[c]
             m == files[t.loc]
             r == [t EXCEPT !.metadata = m]
  <1>0. TypeOK /\ FilesOK /\ TaskOK(c) /\ UNCHANGED <<Shared, cache, handle, acked>>
    BY DEF IInv, Read, Shared
  <1>1. CASE Err(c)
    BY <1>0, <1>1, ErrKeeps
  <1>2. CASE ~Err(c)
    <2>1. /\ t.todo # <<>> /\ Step(c) \in {"read", "reread", "read_registered"}
          /\ t.loc # 0 /\ (Step(c) = "reread" => m.kind = t.metadata.kind)
          /\ Then(c, r)
      BY <1>2 DEF Read, At
    <2>2. /\ t \in Calls /\ t.loc \in Nat /\ t.loc <= Len(files) /\ t.version <= versions
          /\ Len(files) \in Nat
      BY <1>0, TaskFields, StateFields DEF TaskOK, TypeOK
    <2>3. t.loc \in 1..Len(files) /\ Proper(m) /\ Held(m) /\ m \in Metadata
      BY <1>0, <2>1, <2>2 DEF FilesOK, Proper, Held
    <2>4. /\ r \in Calls /\ r.op = t.op /\ r.todo = t.todo /\ r.id = t.id /\ r.loc = t.loc
          /\ r.version = t.version /\ r.metadata = m
      BY <2>2, <2>3 DEF Calls
    <2>5. ASSUME Tail(t.todo) \in Todos
          PROVE  /\ task' \in [Clients -> Calls] /\ OthersStay(c)
                 /\ Moves(c, t.id, t.loc, t.version, m)
      BY <1>0, <2>1, <2>4, <2>5, ThenMoves
    <2>6. /\ service' = service /\ pointer' = pointer /\ files' = files /\ versions' = versions
          /\ applied' = applied /\ origin' = origin
      BY <1>0 DEF Shared
    <2>7. ASSUME Moves(c, t.id, t.loc, t.version, m)
          PROVE  /\ Held(task[c].metadata)' /\ (task[c].loc <= Len(files))'
                 /\ (task[c].version <= versions)' /\ Proper(task[c].metadata)' /\ HasFile(c)'
      BY <2>2, <2>3, <2>6, <2>7, MovesHeld DEF HasFile, Moves
    <2>8. CASE service # "rest" /\ t.op = "load" /\ LoadOK(c)
      <3>1. /\ Tail(t.todo) \in LoadPoints /\ Head(Tail(t.todo)) = "cache" /\ Tail(t.todo) # <<>>
            /\ Tail(t.todo) \in Todos
        BY <2>1, <2>8, LoadNext DEF LoadOK, Step
      <3>2. Moves(c, t.id, t.loc, t.version, m)
        BY <2>5, <3>1
      <3>3. Got(c)
        BY <2>1, <2>8, LoadNext DEF LoadOK, AtOneOf, Step
      <3>4. LoadOK(c)'
        BY <2>3, <2>6, <2>7, <3>1, <3>2, <3>3 DEF LoadOK, At, AtOneOf, Step, Got, IsCurrent, Moves
      <3>5. TaskOK(c)'
        BY <2>6, <2>7, <2>8, <3>2, <3>4 DEF TaskOK, Moves
      <3> QED
        BY <1>0, <2>5, <3>1, <3>5, LocalKeeps
    <2>9. CASE service # "rest" /\ t.op = "update" /\ UpdateOK(c)
      <3>1. /\ Tail(t.todo) \in GlueUpdatePoints \/ service # "glue"
            /\ Tail(t.todo) \in S3UpdatePoints \/ service = "glue"
            /\ Head(Tail(t.todo)) = "cache" /\ Tail(t.todo) # <<>>
            /\ Tail(t.todo) \in Todos /\ Step(c) = "reread"
        BY <2>1, <2>9, GlueUpdateNext, S3UpdateNext DEF UpdateOK, Step
      <3>2. Moves(c, t.id, t.loc, t.version, m)
        BY <2>5, <3>1
      <3>3. Applied(c) /\ Got(c) /\ t.version >= 1
        BY <2>1, <2>9, <3>1 DEF UpdateOK, AtOneOf
      <3>4. UpdateOK(c)'
        BY <2>6, <2>7, <3>1, <3>2, <3>3
           DEF UpdateOK, At, AtOneOf, Step, Got, IsCurrent, Applied, Moves
      <3>5. TaskOK(c)'
        BY <2>6, <2>7, <2>9, <3>2, <3>4 DEF TaskOK, Moves
      <3> QED
        BY <1>0, <2>5, <3>1, <3>5, LocalKeeps
    <2>10. CASE service = "glue" /\ t.op = "register" /\ GlueRegisterOK(c)
      <3>1. /\ Tail(t.todo) \in GlueRegisterPoints /\ Head(Tail(t.todo)) = "create_bare"
            /\ Tail(t.todo) # <<>> /\ Tail(t.todo) \in Todos
        BY <2>1, <2>10, GlueRegisterNext DEF GlueRegisterOK, Step
      <3>2. Moves(c, t.id, t.loc, t.version, m)
        BY <2>5, <3>1
      <3>3. GlueRegisterOK(c)'
        BY <2>6, <2>7, <3>1, <3>2 DEF GlueRegisterOK, At, AtOneOf, Step, Moves
      <3>4. TaskOK(c)'
        BY <2>6, <2>7, <2>10, <3>2, <3>3 DEF TaskOK, Moves
      <3> QED
        BY <1>0, <2>5, <3>1, <3>4, LocalKeeps
    <2>11. CASE service = "s3tables" /\ t.op = "register" /\ S3RegisterOK(c)
      <3>1. /\ Tail(t.todo) \in S3RegisterPoints /\ Head(Tail(t.todo)) = "create_bare"
            /\ Tail(t.todo) # <<>> /\ Tail(t.todo) \in Todos
        BY <2>1, <2>11, S3RegisterNext DEF S3RegisterOK, Step
      <3>2. Moves(c, t.id, t.loc, t.version, m)
        BY <2>5, <3>1
      <3>3. S3RegisterOK(c)'
        BY <2>3, <2>6, <2>7, <3>1, <3>2 DEF S3RegisterOK, At, AtOneOf, Step, Moves
      <3>4. TaskOK(c)'
        BY <2>6, <2>7, <2>11, <3>2, <3>3 DEF TaskOK, Moves
      <3> QED
        BY <1>0, <2>5, <3>1, <3>4, LocalKeeps
    <2> QED
      BY <1>0, <2>1, <2>8, <2>9, <2>10, <2>11, Requests
  <1> QED
    BY <1>1, <1>2

\* loadTable and loadView: what the server's pointer names.
LEMMA ServerLoadKeeps ==
  ASSUME IInv, NEW c \in Clients, ServerLoad(c)
  PROVE  IInv'
  <1> DEFINE t == task[c]
             p == pointer["main"]
             isTable == p # NoTabular /\ Served.kind = "table"
             found == [t EXCEPT !.metadata = Served]
  <1>0. TypeOK /\ PointerOK /\ FilesOK /\ TaskOK(c) /\ UNCHANGED <<Shared, cache, handle, acked>>
    BY DEF IInv, ServerLoad, Shared
  <1>1. t.todo # <<>> /\ Step(c) \in {"load_table", "load_view"} /\ t \in Calls /\ t.version <= versions
        /\ t.loc <= Len(files) /\ Held(t.metadata)
    BY <1>0 DEF ServerLoad, At, TypeOK, TaskOK
  <1>2. service = "rest" /\ t.op = "load" /\ RestOK(c) /\ t.todo \in RestLoadPoints
    <2>1. service = "rest" /\ RestOK(c) /\ t.op \in {"load", "create", "update", "register"}
      BY <1>0, <1>1, Requests, TaskFields
    <2> QED
      BY <1>1, <2>1, RestCreateNext, RestUpdateNext, RestRegisterNext DEF RestOK, Step
  <1>3. Step(c) = "load_table" => Tail(t.todo) \in RestLoadPoints /\ Head(Tail(t.todo)) = "load_view"
    BY <1>2, RestLoadNext DEF Step
  <1>4. Step(c) = "load_view" => Tail(t.todo) \in RestLoadPoints /\ Head(Tail(t.todo)) = "done"
    BY <1>2, RestLoadNext DEF Step
  <1>5. Tail(t.todo) # <<>> /\ Tail(t.todo) \in Todos
    BY <1>1, <1>3, <1>4, RestLoadNext
  <1>6. /\ service' = service /\ pointer' = pointer /\ files' = files /\ versions' = versions
        /\ applied' = applied /\ origin' = origin
    BY <1>0 DEF Shared
  <1>7. p # NoTabular => Proper(Served) /\ Held(Served) /\ Served \in Metadata
    BY <1>0, <1>2, StateFields DEF PointerOK, FilesOK, Served, Proper, Held
  <1>8. p # NoTabular =>
          /\ found \in Calls /\ found.op = t.op /\ found.todo = t.todo /\ found.id = t.id
          /\ found.loc = t.loc /\ found.version = t.version /\ found.metadata = Served
    BY <1>1, <1>7 DEF Calls
  <1>9. CASE Step(c) = "load_table" /\ isTable
    <2>1. task' = [task EXCEPT ![c] = [found EXCEPT !.todo = <<"cache">>]]
      BY <1>9 DEF ServerLoad
    <2>2. <<"cache">> \in RestLoadPoints
      BY DEF RestLoadPoints
    <2>3. <<"cache">> \in Todos /\ Head(<<"cache">>) = "cache" /\ <<"cache">> # <<>>
      BY <2>2, RestLoadNext
    <2>4. [found EXCEPT !.todo = <<"cache">>] \in Calls
      BY <1>8, <1>9, <2>3 DEF Calls
    <2>5. task' \in [Clients -> Calls] /\ OthersStay(c) /\ task'[c] = [found EXCEPT !.todo = <<"cache">>]
      BY <1>0, <2>1, <2>4 DEF TypeOK, OthersStay
    <2>6. /\ task'[c].op = "load" /\ task'[c].todo = <<"cache">> /\ task'[c].loc = t.loc
          /\ task'[c].version = t.version /\ task'[c].metadata = Served
      BY <1>2, <1>8, <1>9, <2>5 DEF Calls
    <2>7. RestOK(c)'
      BY <1>6, <1>7, <1>9, <2>2, <2>3, <2>6 DEF RestOK, At, AtOneOf, Step, Proper, Held
    <2>8. TaskOK(c)'
      BY <1>1, <1>2, <1>6, <1>7, <1>9, <2>6, <2>7 DEF TaskOK, Held
    <2> QED
      BY <1>0, <2>5, <2>8, LocalKeeps
  <1>10. CASE Step(c) = "load_table" /\ ~isTable
    <2>1. Then(c, t)
      BY <1>10 DEF ServerLoad
    <2>2. task' \in [Clients -> Calls] /\ OthersStay(c) /\ Moves(c, t.id, t.loc, t.version, t.metadata)
      BY <1>0, <1>1, <1>5, <2>1, ThenMoves
    <2>3. RestOK(c)'
      BY <1>2, <1>3, <1>5, <1>10, <2>2 DEF RestOK, At, AtOneOf, Step, Moves
    <2>4. TaskOK(c)'
      BY <1>1, <1>2, <1>6, <2>2, <2>3 DEF TaskOK, Held, Moves
    <2> QED
      BY <1>0, <2>2, <2>4, LocalKeeps
  <1>11. CASE Step(c) = "load_view" /\ (p = NoTabular \/ isTable)
    <2>1. Err(c)
      BY <1>11 DEF ServerLoad
    <2> QED
      BY <1>0, <2>1, ErrKeeps
  <1>12. CASE Step(c) = "load_view" /\ ~(p = NoTabular \/ isTable)
    <2>1. Then(c, found)
      BY <1>12 DEF ServerLoad
    <2>2. task' \in [Clients -> Calls] /\ OthersStay(c) /\ Moves(c, t.id, t.loc, t.version, Served)
      BY <1>0, <1>5, <1>8, <1>12, <2>1, ThenMoves
    <2>3. RestOK(c)'
      BY <1>2, <1>4, <1>5, <1>6, <1>7, <1>12, <2>2 DEF RestOK, At, AtOneOf, Step, Moves, Proper, Held
    <2>4. TaskOK(c)'
      BY <1>1, <1>2, <1>6, <1>7, <1>12, <2>2, <2>3 DEF TaskOK, Held, Moves
    <2> QED
      BY <1>0, <2>2, <2>4, LocalKeeps
  <1> QED
    BY <1>1, <1>9, <1>10, <1>11, <1>12

-----------------------------------------------------------------------------
(* Calls begin and fail *)

\* A call that begins.
LEMMA BeginTyped ==
  ASSUME TypeOK, NEW c \in Clients, NEW r \in Calls, Begin(c, r)
  PROVE  /\ task' \in [Clients -> Calls] /\ OthersStay(c) /\ task'[c] = r
         /\ UNCHANGED <<Shared, cache, handle, acked>>
  BY DEF Begin, TypeOK, OthersStay, Shared

\* What does not depend on the method: a call that begins with metadata held
\* by somebody.
LEMMA BeginHeld ==
  ASSUME TypeOK, NEW c \in Clients, task'[c].loc <= Len(files), task'[c].version <= versions,
         Held(task'[c].metadata), UNCHANGED Shared
  PROVE  Held(task[c].metadata)' /\ (task[c].loc <= Len(files))' /\ (task[c].version <= versions)'
  BY DEF Shared, Held

\* A call that begins with no metadata.
LEMMA NothingHeld ==
  ASSUME TypeOK
  PROVE  Held(NoMetadata) /\ 0 <= Len(files) /\ 0 <= versions
  BY StateFields DEF Held, NoMetadata, TypeOK

\* load_tabular.
LEMMA LoadKeeps ==
  ASSUME IInv, NEW c \in Clients, load_tabular(c)
  PROVE  IInv'
  <1> DEFINE p == Program("load", "table")
             r == [IdleTask EXCEPT !.op = "load", !.todo = p]
  <1>0. TypeOK /\ Begin(c, r) /\ "table" \in Kinds
    BY DEF IInv, load_tabular, Kinds
  <1>1. /\ service = "rest" => p \in RestLoadPoints /\ Head(p) = "load_table"
        /\ service # "rest" => p \in LoadPoints /\ Head(p) = "get"
    BY <1>0, GluePrograms, S3Programs, RestPrograms DEF TypeOK
  <1>2. p \in Todos
    BY <1>1, LoadNext, RestLoadNext
  <1> HIDE DEF p
  <1>3. /\ r \in Calls /\ r.op = "load" /\ r.todo = p /\ r.loc = 0 /\ r.version = 0
        /\ r.metadata = NoMetadata
    BY <1>2, IdleTyped DEF Calls
  <1> HIDE DEF r
  <1>4. /\ task' \in [Clients -> Calls] /\ OthersStay(c) /\ task'[c] = r
        /\ UNCHANGED <<Shared, cache, handle, acked>>
    BY <1>0, <1>3, BeginTyped
  <1>5. Held(task[c].metadata)' /\ (task[c].loc <= Len(files))' /\ (task[c].version <= versions)'
    BY <1>0, <1>3, <1>4, NothingHeld, BeginHeld
  <1>6. CASE service = "rest"
    <2>1. RestOK(c)'
      BY <1>1, <1>3, <1>4, <1>6 DEF RestOK, At, AtOneOf, Step
    <2>2. TaskOK(c)'
      BY <1>3, <1>4, <1>5, <1>6, <2>1 DEF TaskOK, Shared
    <2> QED
      BY <1>4, <2>2, LocalKeeps
  <1>7. CASE service # "rest"
    <2>1. LoadOK(c)'
      BY <1>1, <1>3, <1>4, <1>7 DEF LoadOK, At, AtOneOf, Step
    <2>2. TaskOK(c)'
      BY <1>3, <1>4, <1>5, <1>7, <2>1 DEF TaskOK, Shared
    <2> QED
      BY <1>4, <2>2, LocalKeeps
  <1> QED
    BY <1>6, <1>7

\* Metadata of a new tabular.
LEMMA NewIs ==
  ASSUME NEW k \in Kinds, NEW u \in Nat
  PROVE  /\ NewMetadata(k, u) \in Metadata
         /\ NewMetadata(k, u).kind = k /\ NewMetadata(k, u).uuid = u
  <1>1. NoMetadata \in Metadata
    BY DEF NoMetadata, Metadata
  <1>2. NewMetadata(k, u) = [NoMetadata EXCEPT !.kind = k, !.uuid = u]
    BY DEF NewMetadata
  <1> QED
    BY <1>1, <1>2 DEF Metadata

\* create_table, create_view and create_materialized_view.
LEMMA CreateKeeps ==
  ASSUME IInv, NEW c \in Clients, create(c)
  PROVE  IInv'
  <1>1. PICK k \in Kinds :
          Begin(c, [IdleTask EXCEPT !.op = "create", !.todo = Program("create", k),
                                    !.metadata = NewMetadata(k, 0)])
    BY DEF create
  <1> DEFINE p == Program("create", k)
             m == NewMetadata(k, 0)
             r == [IdleTask EXCEPT !.op = "create", !.todo = p, !.metadata = m]
  <1>0. TypeOK /\ Begin(c, r)
    BY <1>1 DEF IInv
  <1>2. /\ service = "rest" => /\ p \in RestCreatePoints
                               /\ Head(p) \in {"server_create_table", "server_create"}
        /\ service = "glue" => p \in GlueCreatePoints /\ Head(p) = "put"
        /\ service = "s3tables" => p \in S3BeforePoints /\ Head(p) = "create_bare"
    BY <1>0, GluePrograms, S3Programs, RestPrograms
  <1>3. p \in Todos /\ p # <<>>
    BY <1>0, <1>2, GlueCreateNext, S3BeforeNext, RestCreateNext DEF TypeOK
  <1> HIDE DEF p
  <1>4. m \in Metadata /\ m.kind = k /\ m.uuid = 0
    BY <1>1, NewIs
  <1> HIDE DEF m
  <1>5. /\ r \in Calls /\ r.op = "create" /\ r.todo = p /\ r.loc = 0 /\ r.version = 0
        /\ r.metadata = m
    BY <1>3, <1>4, IdleTyped DEF Calls
  <1> HIDE DEF r
  <1>6. /\ task' \in [Clients -> Calls] /\ OthersStay(c) /\ task'[c] = r
        /\ UNCHANGED <<Shared, cache, handle, acked>>
    BY <1>0, <1>5, BeginTyped
  <1>7. Held(task[c].metadata)' /\ (task[c].loc <= Len(files))' /\ (task[c].version <= versions)'
    <2>1. Held(m) /\ 0 <= Len(files) /\ 0 <= versions
      BY <1>0, <1>4, NothingHeld DEF Held
    <2> QED
      BY <1>0, <1>5, <1>6, <2>1, BeginHeld
  <1>8. CASE service = "rest"
    <2>1. RestOK(c)'
      BY <1>2, <1>4, <1>5, <1>6, <1>8 DEF RestOK, At, AtOneOf, Step
    <2>2. TaskOK(c)'
      BY <1>5, <1>6, <1>7, <1>8, <2>1 DEF TaskOK, Shared
    <2> QED
      BY <1>6, <2>2, LocalKeeps
  <1>9. CASE service = "glue"
    <2>1. GlueCreateOK(c)'
      BY <1>2, <1>3, <1>4, <1>5, <1>6, <1>9 DEF GlueCreateOK, At, AtOneOf, Step
    <2>2. TaskOK(c)'
      BY <1>5, <1>6, <1>7, <1>9, <2>1 DEF TaskOK, Shared
    <2> QED
      BY <1>6, <2>2, LocalKeeps
  <1>10. CASE service = "s3tables"
    <2>1. S3CreateOK(c)'
      BY <1>2, <1>3, <1>4, <1>5, <1>6, <1>10 DEF S3CreateOK, At, AtOneOf, Step
    <2>2. TaskOK(c)'
      BY <1>5, <1>6, <1>7, <1>10, <2>1 DEF TaskOK, Shared
    <2> QED
      BY <1>6, <2>2, LocalKeeps
  <1> QED
    BY <1>0, <1>8, <1>9, <1>10 DEF TypeOK

\* register_table.
LEMMA RegisterKeeps ==
  ASSUME IInv, NEW c \in Clients, register_table(c)
  PROVE  IInv'
  <1> DEFINE p == Program("register", "table")
             r == [IdleTask EXCEPT !.op = "register", !.todo = p, !.loc = 1]
  <1>0. TypeOK /\ Begin(c, r) /\ "table" \in Kinds /\ files # <<>> /\ files[1].kind = "table"
    BY DEF IInv, register_table, Kinds
  <1>1. /\ service = "rest" => p \in RestRegisterPoints /\ Head(p) = "server_register"
        /\ service = "glue" => p \in GlueRegisterPoints /\ Head(p) = "read_registered"
        /\ service = "s3tables" => p \in S3RegisterPoints /\ Head(p) = "read_registered"
    BY <1>0, GluePrograms, S3Programs, RestPrograms
  <1>2. p \in Todos /\ p # <<>>
    BY <1>0, <1>1, GlueRegisterNext, S3RegisterNext, RestRegisterNext DEF TypeOK
  <1> HIDE DEF p
  <1>3. /\ r \in Calls /\ r.op = "register" /\ r.todo = p /\ r.loc = 1 /\ r.version = 0
        /\ r.metadata = NoMetadata
    BY <1>2, IdleTyped DEF Calls
  <1> HIDE DEF r
  <1>4. /\ task' \in [Clients -> Calls] /\ OthersStay(c) /\ task'[c] = r
        /\ UNCHANGED <<Shared, cache, handle, acked>>
    BY <1>0, <1>3, BeginTyped
  <1>5. 1 \in 1..Len(files)
    <2>1. files \in Seq(Metadata) /\ Len(files) \in Nat
      BY <1>0, StateFields DEF TypeOK
    <2>2. Len(files) # 0
      BY <1>0, <2>1
    <2> QED
      BY <2>1, <2>2
  <1>6. Held(task[c].metadata)' /\ (task[c].loc <= Len(files))' /\ (task[c].version <= versions)'
    BY <1>0, <1>3, <1>4, <1>5, NothingHeld, BeginHeld
  <1>7. CASE service = "rest"
    <2>1. RestOK(c)'
      BY <1>0, <1>1, <1>3, <1>4, <1>5, <1>7 DEF RestOK, At, AtOneOf, Step, Shared
    <2>2. TaskOK(c)'
      BY <1>3, <1>4, <1>6, <1>7, <2>1 DEF TaskOK, Shared
    <2> QED
      BY <1>4, <2>2, LocalKeeps
  <1>8. CASE service = "glue"
    <2>1. GlueRegisterOK(c)'
      BY <1>1, <1>2, <1>3, <1>4, <1>8 DEF GlueRegisterOK, At, AtOneOf, Step
    <2>2. TaskOK(c)'
      BY <1>3, <1>4, <1>6, <1>8, <2>1 DEF TaskOK, Shared
    <2> QED
      BY <1>4, <2>2, LocalKeeps
  <1>9. CASE service = "s3tables"
    <2>1. S3RegisterOK(c)'
      BY <1>1, <1>2, <1>3, <1>4, <1>5, <1>9 DEF S3RegisterOK, At, AtOneOf, Step, Shared
    <2>2. TaskOK(c)'
      BY <1>3, <1>4, <1>6, <1>9, <2>1 DEF TaskOK, Shared
    <2> QED
      BY <1>4, <2>2, LocalKeeps
  <1> QED
    BY <1>0, <1>7, <1>8, <1>9 DEF TypeOK

\* update_table, update_view and update_materialized_view: a cached entry
\* whose version id is current is what the service has.
LEMMA UpdateKeeps ==
  ASSUME Deployment, IInv, NEW c \in Clients, update(c)
  PROVE  IInv'
  <1> DEFINE k == handle[c].kind
             i == InstanceOf[c]
             e == cache[i]
             p == Program("update", k)
  <1>0. TypeOK /\ handle[c] # NoMetadata /\ Proper(handle[c]) /\ k \in Kinds
    BY DEF IInv, update, HandlesOK, Proper
  <1>1. /\ service = "rest" => p \in RestUpdatePoints /\ Head(p) = "server_update"
        /\ service = "glue" => p \in GlueUpdatePoints /\ Head(p) = "put"
        /\ service = "s3tables" => p \in S3UpdatePoints /\ Head(p) = "put"
    BY <1>0, GluePrograms, S3Programs, RestPrograms
  <1>2. p \in Todos /\ p # <<>>
    BY <1>0, <1>1, GlueUpdateNext, S3UpdateNext, RestUpdateNext DEF TypeOK
  <1>3. CASE service = "rest"
    <2> DEFINE r == [IdleTask EXCEPT !.op = "update", !.todo = p]
    <2>1. Begin(c, r)
      BY <1>3 DEF update
    <2> HIDE DEF p
    <2>2. /\ r \in Calls /\ r.op = "update" /\ r.todo = p /\ r.loc = 0 /\ r.version = 0
          /\ r.metadata = NoMetadata
      BY <1>2, IdleTyped DEF Calls
    <2> HIDE DEF r
    <2>3. /\ task' \in [Clients -> Calls] /\ OthersStay(c) /\ task'[c] = r
          /\ UNCHANGED <<Shared, cache, handle, acked>>
      BY <1>0, <2>1, <2>2, BeginTyped
    <2>4. Held(task[c].metadata)' /\ (task[c].loc <= Len(files))' /\ (task[c].version <= versions)'
      BY <1>0, <2>2, <2>3, NothingHeld, BeginHeld
    <2>5. RestOK(c)'
      BY <1>1, <1>3, <2>2, <2>3 DEF RestOK, At, AtOneOf, Step
    <2>6. TaskOK(c)'
      BY <1>3, <2>2, <2>3, <2>4, <2>5 DEF TaskOK, Shared
    <2> QED
      BY <2>3, <2>6, LocalKeeps
  <1>4. CASE service # "rest"
    <2> DEFINE r == [IdleTask EXCEPT !.op = "update", !.todo = p, !.version = e.version,
                                     !.metadata = e.metadata]
    <2>1. Begin(c, r) /\ e # NoEntry
      BY <1>4 DEF update
    <2>2. i \in Instances
      BY DEF Deployment, Instances, Range
    <2>3. /\ e.version \in 1..versions /\ Proper(e.metadata)
          /\ Fenced /\ e.version = pointer["main"].version => e.metadata = Current
          /\ e.version \in Nat /\ e.metadata \in Metadata /\ versions \in Nat
      BY <1>0, <1>4, <2>1, <2>2 DEF IInv, CachesOK, EntryOK, TypeOK, Proper, Held
    <2> HIDE DEF p, e
    <2>4. /\ r \in Calls /\ r.op = "update" /\ r.todo = p /\ r.loc = 0 /\ r.version = e.version
          /\ r.metadata = e.metadata
      BY <1>2, <2>3, IdleTyped DEF Calls
    <2> HIDE DEF r
    <2>5. /\ task' \in [Clients -> Calls] /\ OthersStay(c) /\ task'[c] = r
          /\ UNCHANGED <<Shared, cache, handle, acked>>
      BY <1>0, <2>1, <2>4, BeginTyped
    <2>6. Held(task[c].metadata)' /\ (task[c].loc <= Len(files))' /\ (task[c].version <= versions)'
      BY <1>0, <2>3, <2>4, <2>5, NothingHeld, BeginHeld DEF Proper
    <2>7. UNCHANGED <<Current, Fenced>> /\ Proper(e.metadata) /\ Proper(task[c].metadata)'
      BY <2>3, <2>4, <2>5, <2>6 DEF Shared, Current, Fenced, Proper
    <2>8. UpdateOK(c)'
      BY <1>0, <1>1, <1>2, <1>4, <2>3, <2>4, <2>5, <2>7
         DEF UpdateOK, At, AtOneOf, Step, IsCurrent, Shared, TypeOK
    <2>9. TaskOK(c)'
      BY <1>4, <2>4, <2>5, <2>6, <2>8 DEF TaskOK, Shared
    <2> QED
      BY <2>5, <2>9, LocalKeeps
  <1> QED
    BY <1>3, <1>4

-----------------------------------------------------------------------------
(* Metadata files *)

\* A step that does not touch the caches and the handles.
LEMMA StateKeeps ==
  ASSUME IInv, Grows, NEW c \in Clients, OthersStay(c), UNCHANGED <<cache, handle>>,
         TypeOK', PointerOK', FilesOK', AppliedOK', TaskOK(c)', AppliedKept'
  PROVE  IInv'
  <1>1. Base /\ (\A d \in Clients : TaskOK(d)) /\ CachesOK /\ HandlesOK /\ TypeOK
    BY DEF IInv, Base
  <1>2. \A d \in Clients : TaskOK(d)'
    BY <1>1, TasksKept
  <1>3. CachesOK'
    BY <1>1, CachesKept
  <1>4. HandlesOK'
    <2> SUFFICES ASSUME NEW d \in Clients, handle[d] # NoMetadata PROVE Proper(handle[d])'
      BY DEF HandlesOK
    <2>1. Proper(handle[d]) /\ handle[d] \in Metadata /\ handle[d].uuid <= Len(files)
      BY <1>1 DEF HandlesOK, Proper, Held
    <2>2. handle[d].uuid <= Len(files')
      BY <1>1, <2>1, ProperKept
    <2> QED
      BY <2>1, <2>2 DEF Proper, Held
  <1> QED
    BY <1>2, <1>3, <1>4 DEF IInv

\* A new file; the old ones stay as they are.
LEMMA Appended ==
  ASSUME TypeOK, FilesOK, NEW m \in Metadata, files' = Append(files, m),
         m.kind \in Kinds, m.uuid \in 1..(Len(files) + 1)
  PROVE  /\ files' \in Seq(Metadata) /\ Len(files') = Len(files) + 1 /\ Len(files) \in Nat
         /\ \A l \in 1..Len(files) : files'[l] = files[l]
         /\ files'[Len(files) + 1] = m
         /\ FilesOK' /\ Proper(files[Len(files)])'
  <1>1. /\ files' \in Seq(Metadata) /\ Len(files') = Len(files) + 1 /\ Len(files) \in Nat
        /\ \A l \in 1..Len(files) : files'[l] = files[l]
        /\ files'[Len(files) + 1] = m
    BY DEF TypeOK
  <1>2. ASSUME NEW l \in 1..Len(files') PROVE Proper(files[l])'
    <2>1. CASE l = Len(files')
      BY <1>1, <2>1 DEF Proper, Held
    <2>2. CASE l # Len(files')
      <3>1. l \in 1..Len(files)
        BY <1>1, <2>2
      <3>2. Proper(files[l]) /\ files[l] \in Metadata /\ files[l].uuid \in Nat
        BY <3>1 DEF FilesOK, Proper, Held, Metadata
      <3> QED
        BY <1>1, <3>1, <3>2 DEF Proper, Held
    <2> QED
      BY <2>1, <2>2
  <1>3. Len(files') \in 1..Len(files')
    BY <1>1
  <1> QED
    BY <1>1, <1>2, <1>3 DEF FilesOK

\* What was applied is in the files that are left as they are.
LEMMA AppliedStays ==
  ASSUME Base, Grows, UNCHANGED <<applied, acked>>
  PROVE  AppliedOK'
  BY StateFields DEF Base, AppliedOK, Grows

\* The updates of a metadata builder.
LEMMA UpdatesApplied ==
  ASSUME NEW m \in Metadata, NEW id \in Nat
  PROVE  /\ apply_updates(m, id) \in Metadata
         /\ apply_updates(m, id).uuid = m.uuid /\ apply_updates(m, id).kind = m.kind
         /\ apply_updates(m, id).commits = Append(m.commits, id)
  <1>1. m.commits \in Seq(Nat) /\ Append(m.commits, id) \in Seq(Nat)
    BY DEF Metadata
  <1>2. apply_updates(m, id) = [m EXCEPT !.commits = Append(m.commits, id), !.head = id]
    BY DEF apply_updates
  <1> QED
    BY <1>1, <1>2 DEF Metadata

\* What a call that writes its metadata file builds.
LEMMA BuiltProper ==
  ASSUME TypeOK, NEW c \in Clients, task[c].op \in {"update", "create"},
         task[c].op = "update" => Proper(task[c].metadata),
         task[c].op = "create" => task[c].metadata.kind \in Kinds
  PROVE  /\ Built(task[c]) \in Metadata /\ Built(task[c]).kind = task[c].metadata.kind
         /\ Built(task[c]).kind \in Kinds /\ Built(task[c]).uuid \in 1..(Len(files) + 1)
         /\ task[c].op = "update" => Built(task[c]) = apply_updates(task[c].metadata, Len(files) + 1)
         /\ task[c].op = "create" => Built(task[c]).uuid = Len(files) + 1
  <1> DEFINE m == task[c].metadata
  <1>1. m \in Metadata /\ Len(files) \in Nat
    BY TaskFields, StateFields
  <1>2. CASE task[c].op = "update"
    <2>1. Built(task[c]) = apply_updates(m, Len(files) + 1)
      BY <1>2 DEF Built
    <2>2. m.uuid \in 1..Len(files) /\ m.kind \in Kinds
      BY <1>1, <1>2 DEF Proper, Held, Metadata
    <2> QED
      BY <1>1, <1>2, <2>1, <2>2, UpdatesApplied
  <1>3. CASE task[c].op = "create"
    <2>1. Built(task[c]) = [m EXCEPT !.uuid = Len(files) + 1]
      BY <1>3 DEF Built
    <2> QED
      BY <1>1, <1>3, <2>1 DEF Metadata
  <1> QED
    BY <1>2, <1>3

\* put_metadata, of a call's metadata or of a storage table's.
LEMMA PutKeeps ==
  ASSUME IInv, NEW c \in Clients, Put(c)
  PROVE  IInv'
  <1> DEFINE t == task[c]
             n == Len(files) + 1
  <1>0. /\ Base /\ TypeOK /\ PointerOK /\ FilesOK /\ TaskOK(c) /\ AppliedKept
        /\ AppliedOK /\ t \in Calls /\ t.todo # <<>> /\ Step(c) \in {"put", "put_storage"}
        /\ UNCHANGED <<service, pointer, versions, applied, origin, acked, cache, handle>>
    BY DEF IInv, Base, Put, At, TypeOK
  <1>1. /\ t.op \in {"none", "load", "create", "update", "register"} /\ t.id \in Nat /\ t.loc \in Nat
        /\ t.version \in Nat /\ t.metadata \in Metadata /\ Len(files) \in Nat /\ versions \in Nat
        /\ t.version <= versions /\ t.loc <= Len(files) /\ Held(t.metadata)
    BY <1>0, TaskFields, StateFields DEF TaskOK, TypeOK
  <1>2. /\ t.op \in {"update", "create"}
        /\ t.op = "create" => t.metadata.kind \in Kinds
        /\ Step(c) = "put" /\ t.op = "update" => Proper(t.metadata)
    <2>1. t.op \in {"update", "create"}
      BY <1>0, Requests
    <2>2. t.op = "create" => t.metadata.kind \in Kinds
      <3>1. t.todo \notin S3AfterPoints
        BY <1>0, S3AfterNext DEF Step
      <3> QED
        BY <1>0, <3>1, Requests DEF GlueCreateOK, S3CreateOK
    <2>3. Step(c) = "put" /\ t.op = "update" => Proper(t.metadata)
      BY <1>0, Requests DEF UpdateOK, At
    <2> QED
      BY <2>1, <2>2, <2>3
  <1>3. ASSUME NEW m \in Metadata, files' = Append(files, m), m.kind \in Kinds, m.uuid \in 1..n,
               task' \in [Clients -> Calls], OthersStay(c), Grows /\ MainKept => TaskOK(c)'
        PROVE  IInv'
    <2>1. /\ files' \in Seq(Metadata) /\ Len(files') = Len(files) + 1
          /\ \A l \in 1..Len(files) : files'[l] = files[l]
          /\ FilesOK'
      BY <1>0, <1>3, Appended
    <2>2. Grows /\ MainKept
      BY <1>0, <1>1, <2>1 DEF Grows, MainKept
    <2>3. TypeOK'
      BY <1>0, <1>3, <2>1 DEF TypeOK
    <2>4. PointerOK'
      BY <1>0, <1>1, <2>1, StateFields DEF PointerOK
    <2>5. AppliedOK' /\ AppliedKept'
      BY <1>0, <2>2, AppliedStays, AppliedKeptKept
    <2> QED
      BY <1>0, <1>3, <2>1, <2>2, <2>3, <2>4, <2>5, StateKeeps
  <1>4. CASE Step(c) = "put"
    <2> DEFINE m == Built(t)
               r == [t EXCEPT !.id = n, !.loc = n, !.metadata = m]
    <2>1. files' = Append(files, m) /\ Then(c, r)
      BY <1>4 DEF Put, put_metadata
    <2>2. /\ m \in Metadata /\ m.kind = t.metadata.kind /\ m.kind \in Kinds /\ m.uuid \in 1..n
          /\ t.op = "update" => m = apply_updates(t.metadata, n)
          /\ t.op = "create" => m.uuid = n
      BY <1>0, <1>2, <1>4, BuiltProper
    <2> HIDE DEF m
    <2>3. /\ r \in Calls /\ r.op = t.op /\ r.todo = t.todo /\ r.id = n /\ r.loc = n
          /\ r.version = t.version /\ r.metadata = m
      <3>1. t \in Calls /\ m \in Metadata /\ n \in Nat
        BY <1>0, <1>1, <2>2
      <3> QED
        BY ONLY <3>1 DEF Calls
    <2>4. ASSUME Tail(t.todo) \in Todos
          PROVE  /\ task' \in [Clients -> Calls] /\ OthersStay(c) /\ Moves(c, n, n, t.version, m)
      BY <1>0, <2>1, <2>3, <2>4, ThenMoves
    <2>5. /\ files' \in Seq(Metadata) /\ Len(files') = n /\ files'[n] = m
          /\ \A l \in 1..Len(files) : files'[l] = files[l]
      BY <1>0, <2>1, <2>2, Appended
    <2>6. ASSUME Moves(c, n, n, t.version, m)
          PROVE  /\ Held(task[c].metadata)' /\ (task[c].loc <= Len(files))'
                 /\ (task[c].version <= versions)' /\ Proper(task[c].metadata)' /\ HasFile(c)'
                 /\ task'[c].id = task'[c].loc
      BY <1>0, <1>1, <2>2, <2>5, <2>6 DEF Moves, Held, Proper, HasFile
    <2>7. CASE service # "rest" /\ t.op = "update" /\ UpdateOK(c)
      <3>1. /\ Tail(t.todo) \in GlueUpdatePoints \/ service # "glue"
            /\ Tail(t.todo) \in S3UpdatePoints \/ service = "glue"
            /\ Head(Tail(t.todo)) = "swap" /\ Tail(t.todo) # <<>> /\ Tail(t.todo) \in Todos
        BY <1>4, <2>7, GlueUpdateNext, S3UpdateNext DEF UpdateOK, Step
      <3>2. Moves(c, n, n, t.version, m)
        BY <2>4, <3>1
      <3>3. Fenced /\ IsCurrent(c) => t.metadata = Current
        BY <1>0, <1>4, <2>7 DEF UpdateOK, At
      <3>4. ASSUME Grows /\ MainKept PROVE TaskOK(c)'
        <4>1. Current' = Current /\ Fenced' = Fenced
          BY <1>0, <3>4, CurrentKept
        <4>2. IsCurrent(c)' = IsCurrent(c)
          BY <1>0, <3>2 DEF IsCurrent, Moves
        <4>3. (Fenced /\ IsCurrent(c))' => m = apply_updates(Current', task'[c].id)
          BY <2>2, <2>7, <3>2, <3>3, <4>1, <4>2 DEF Moves
        <4>4. UpdateOK(c)'
          BY <1>0, <2>6, <2>7, <3>1, <3>2, <4>3 DEF UpdateOK, At, AtOneOf, Step, Moves
        <4> QED
          BY <1>0, <2>6, <2>7, <3>2, <4>4 DEF TaskOK, Moves
      <3> QED
        BY <1>3, <2>1, <2>2, <2>4, <3>1, <3>4
    <2>8. CASE service = "glue" /\ t.op = "create" /\ GlueCreateOK(c)
      <3>1. /\ Tail(t.todo) \in GlueCreatePoints /\ Tail(t.todo) # <<>> /\ Tail(t.todo) \in Todos
            /\ Head(Tail(t.todo)) \in {"put_storage", "create"}
        BY <1>4, <2>8, GlueCreateNext DEF GlueCreateOK, Step
      <3>2. Moves(c, n, n, t.version, m)
        BY <2>4, <3>1
      <3>3. GlueCreateOK(c)'
        BY <2>2, <2>6, <3>1, <3>2 DEF GlueCreateOK, At, AtOneOf, Step, Moves
      <3>4. TaskOK(c)'
        BY <1>0, <2>6, <2>8, <3>2, <3>3 DEF TaskOK, Moves
      <3> QED
        BY <1>3, <2>1, <2>2, <2>4, <3>1, <3>4
    <2>9. CASE service = "s3tables" /\ t.op = "create" /\ S3CreateOK(c) /\ t.todo \in S3BeforePoints
      <3>1. /\ Tail(t.todo) \in S3BeforePoints /\ Tail(t.todo) # <<>> /\ Tail(t.todo) \in Todos
        BY <1>4, <2>9, S3BeforeNext DEF Step
      <3>2. Moves(c, n, n, t.version, m)
        BY <2>4, <3>1
      <3>3. t.version >= 1
        <4>1. t.todo \notin S3AfterPoints
          BY <1>0, S3AfterNext DEF Step
        <4> QED
          BY <1>4, <2>9, <4>1 DEF S3CreateOK, At
      <3>4. \A k \in applied : k.uuid # m.uuid
        <4> SUFFICES ASSUME NEW k \in applied PROVE k.uuid # n
          BY <2>2, <2>9
        <4>1. k.id \in 1..Len(files) /\ k.uuid = files[k.id].uuid
          BY <1>0 DEF AppliedOK
        <4>2. files[k.id].uuid \in Nat /\ files[k.id].uuid <= Len(files)
          BY <1>0, <4>1 DEF FilesOK, Proper, Held, Metadata
        <4> QED
          BY <1>1, <4>1, <4>2
      <3>5. S3CreateOK(c)'
        BY <1>0, <1>1, <2>2, <2>6, <3>1, <3>2, <3>3, <3>4
           DEF S3CreateOK, At, AtOneOf, Step, Moves
      <3>6. TaskOK(c)'
        BY <1>0, <2>6, <2>9, <3>2, <3>5 DEF TaskOK, Moves
      <3> QED
        BY <1>3, <2>1, <2>2, <2>4, <3>1, <3>6
    <2> QED
      BY <1>0, <1>4, <2>7, <2>8, <2>9, Requests
  <1>5. CASE Step(c) = "put_storage"
    <2> DEFINE m == NewMetadata("table", n)
    <2>1. files' = Append(files, m) /\ Then(c, [t EXCEPT !.storage.loc = n])
      BY <1>5 DEF Put, put_metadata
    <2>2. m \in Metadata /\ m.kind \in Kinds /\ m.uuid \in 1..n
      <3>1. n \in Nat /\ n \in 1..n /\ "table" \in Kinds
        BY <1>1 DEF Kinds
      <3> QED
        BY <3>1, NewIs
    <2> HIDE DEF m
    <2>3. /\ files' \in Seq(Metadata) /\ Len(files') = n
          /\ \A l \in 1..Len(files) : files'[l] = files[l]
      BY <1>0, <2>1, <2>2, Appended
    <2>4. ASSUME StorageOnly(c)
          PROVE  /\ Held(task[c].metadata)' /\ (task[c].loc <= Len(files))'
                 /\ (task[c].version <= versions)'
                 /\ Proper(t.metadata) => Proper(task[c].metadata)'
                 /\ HasFile(c) => HasFile(c)'
      <3>1. t.metadata.uuid \in Nat
        BY <1>1 DEF Metadata
      <3> QED
        BY <1>0, <1>1, <2>3, <2>4, <3>1 DEF StorageOnly, Moves, Held, Proper, HasFile
    <2>5. CASE service = "glue" /\ t.op = "create" /\ GlueCreateOK(c)
      <3>1. /\ Tail(t.todo) \in GlueCreatePoints /\ Tail(t.todo) # <<>> /\ Tail(t.todo) \in Todos
            /\ Head(Tail(t.todo)) \in {"put_storage", "create"}
        BY <1>5, <2>5, GlueCreateNext DEF GlueCreateOK, Step
      <3>2. StorageOnly(c)
        <4>1. n \in Nat
          BY <1>1
        <4> QED
          BY <1>0, <2>1, <3>1, <4>1, StorageMoves
      <3>3. Proper(t.metadata) /\ t.metadata.kind \in Kinds /\ HasFile(c)
        BY <1>0, <1>5, <2>5 DEF GlueCreateOK, At, AtOneOf
      <3>4. GlueCreateOK(c)'
        BY <2>4, <3>1, <3>2, <3>3 DEF GlueCreateOK, At, AtOneOf, Step, Moves, StorageOnly
      <3>5. TaskOK(c)'
        BY <1>0, <2>4, <2>5, <3>2, <3>4 DEF TaskOK, Moves, StorageOnly
      <3> QED
        BY <1>3, <2>1, <2>2, <3>2, <3>5 DEF StorageOnly
    <2>6. CASE service = "s3tables" /\ t.op = "create" /\ S3CreateOK(c) /\ t.todo \in S3BeforePoints
      <3>1. /\ Tail(t.todo) \in S3BeforePoints /\ Tail(t.todo) # <<>> /\ Tail(t.todo) \in Todos
        BY <1>5, <2>6, S3BeforeNext DEF Step
      <3>2. StorageOnly(c)
        <4>1. n \in Nat
          BY <1>1
        <4> QED
          BY <1>0, <2>1, <3>1, <4>1, StorageMoves
      <3>3. /\ t.version >= 1 /\ HasFile(c)
            /\ IsCurrent(c) => \A k \in applied : k.uuid # t.metadata.uuid
        <4>1. t.todo \notin S3AfterPoints
          BY <1>0, S3AfterNext DEF Step
        <4> QED
          BY <1>0, <1>5, <2>6, <4>1 DEF S3CreateOK, At, AtOneOf
      <3>4. S3CreateOK(c)'
        BY <1>0, <1>1, <1>2, <2>4, <2>6, <3>1, <3>2, <3>3
           DEF S3CreateOK, At, AtOneOf, Step, Moves, StorageOnly, IsCurrent
      <3>5. TaskOK(c)'
        BY <1>0, <2>4, <2>6, <3>2, <3>4 DEF TaskOK, Moves, StorageOnly
      <3> QED
        BY <1>3, <2>1, <2>2, <3>2, <3>5 DEF StorageOnly
    <2> QED
      BY <1>0, <1>5, <2>5, <2>6, Requests
  <1> QED
    BY <1>0, <1>4, <1>5

-----------------------------------------------------------------------------
(* The service's pointer changes *)

\* No point of a creation in S3 Tables is both before and after its swap.
LEMMA Apart == S3BeforePoints \cap S3AfterPoints = {}
  BY DEF S3BeforePoints, S3AfterPoints

\* An identifier gets a version id that nobody has seen.
LEMMA PointerMoved ==
  ASSUME TypeOK, PointerOK, NEW id \in Ids, NEW loc \in Nat,
         pointer' = [pointer EXCEPT ![id] = [version |-> NextVersion, loc |-> loc]],
         versions' = NextVersion, service' = service, files' \in Seq(Metadata),
         Len(files) <= Len(files'),
         id = "main" => loc <= Len(files') /\ (service = "rest" => loc >= 1)
  PROVE  /\ pointer' \in [Ids -> [version : Nat, loc : Nat]] /\ versions' \in Nat \ {0}
         /\ versions' = versions + 1 /\ versions \in Nat
         /\ PointerOK'
         /\ id = "main" => /\ pointer'["main"].version = versions + 1 /\ pointer'["main"].loc = loc
                           /\ pointer'["main"].version \notin 1..versions
         /\ id = "storage" => pointer'["main"] = pointer["main"]
  <1> DEFINE q == [version |-> versions + 1, loc |-> loc]
  <1>1. versions \in Nat \ {0} /\ versions' = versions + 1 /\ pointer' = [pointer EXCEPT ![id] = q]
        /\ Len(files) \in Nat /\ Len(files') \in Nat /\ pointer["main"].loc \in Nat
    BY StateFields DEF TypeOK, NextVersion
  <1>2. pointer \in [Ids -> [version : Nat, loc : Nat]] /\ Ids = {"main", "storage"}
    BY DEF TypeOK, Ids
  <1>3. q \in [version : Nat, loc : Nat] /\ q.version = versions + 1 /\ q.loc = loc
        /\ q # NoTabular
    BY <1>1 DEF NoTabular
  <1> HIDE DEF q
  <1>4. /\ pointer' \in [Ids -> [version : Nat, loc : Nat]]
        /\ pointer'[id] = q /\ \A i \in Ids : i # id => pointer'[i] = pointer[i]
    BY <1>1, <1>2, <1>3
  <1>5. PointerOK'
    <2>1. ASSUME NEW i \in Ids, pointer'[i] # NoTabular PROVE pointer'[i].version \in 1..versions'
      <3>1. CASE i = id
        BY <1>1, <1>3, <1>4, <3>1
      <3>2. CASE i # id
        <4>1. pointer'[i] = pointer[i]
          BY <1>4, <3>2
        <4>2. pointer[i].version \in 1..versions
          BY <2>1, <4>1 DEF PointerOK
        <4> QED
          BY <1>1, <4>1, <4>2
      <3> QED
        BY <3>1, <3>2
    <2>2. pointer'["main"].loc <= Len(files')
      BY <1>1, <1>2, <1>3, <1>4 DEF PointerOK
    <2>3. service' = "rest" /\ pointer'["main"] # NoTabular => pointer'["main"].loc >= 1
      BY <1>2, <1>3, <1>4 DEF PointerOK
    <2> QED
      BY <2>1, <2>2, <2>3 DEF PointerOK
  <1> QED
    BY <1>1, <1>2, <1>3, <1>4, <1>5

\* A version id of its own is what a creation then holds.
LEMMA VersionMoves ==
  ASSUME TypeOK, NEW c \in Clients, NEW v \in Nat, Tail(task[c].todo) \in Todos,
         Then(c, [task[c] EXCEPT !.version = v])
  PROVE  /\ task' \in [Clients -> Calls] /\ OthersStay(c)
         /\ Moves(c, task[c].id, task[c].loc, v, task[c].metadata)
  <1> DEFINE t == task[c]
             r == [t EXCEPT !.version = v]
  <1>1. t \in Calls
    BY DEF TypeOK
  <1>2. /\ r \in Calls /\ r.op = t.op /\ r.todo = t.todo /\ r.id = t.id /\ r.loc = t.loc
        /\ r.version = v /\ r.metadata = t.metadata
    BY <1>1 DEF Calls
  <1> QED
    BY <1>2, ThenMoves

\* The bounds of what a call holds, when only its version id is new.
LEMMA VersionHeld ==
  ASSUME TypeOK, NEW c \in Clients, TaskOK(c), UNCHANGED files, versions \in Nat,
         versions' = versions + 1, NEW v \in Nat, v <= versions + 1,
         Moves(c, task[c].id, task[c].loc, v, task[c].metadata)
  PROVE  /\ Held(task[c].metadata)' /\ (task[c].loc <= Len(files))'
         /\ (task[c].version <= versions)'
         /\ Proper(task[c].metadata) => Proper(task[c].metadata)'
         /\ HasFile(c) => HasFile(c)'
  BY DEF TaskOK, Moves, Held, Proper, HasFile

\* create_table of the service, for the tabular itself.
LEMMA MainCreateKeeps ==
  ASSUME IInv, NEW c \in Clients, ServiceCreate(c), Step(c) \in {"create", "create_bare"}
  PROVE  IInv'
  <1> DEFINE t == task[c]
             loc == IF Step(c) = "create" THEN t.loc ELSE 0
             v == versions + 1
  <1>0. /\ Base /\ TypeOK /\ PointerOK /\ FilesOK /\ TaskOK(c) /\ AppliedOK /\ t.todo # <<>>
        /\ UNCHANGED <<service, files, cache, handle, applied, acked>>
    BY DEF IInv, Base, ServiceCreate
  <1>1. CASE pointer["main"] # NoTabular
    <2>1. Err(c) /\ UNCHANGED <<pointer, versions, origin>>
      BY <1>1 DEF ServiceCreate
    <2> QED
      BY <1>0, <2>1, ErrKeeps DEF Shared
  <1>2. CASE pointer["main"] = NoTabular
    <2>1. /\ pointer' = [pointer EXCEPT !["main"] = [version |-> NextVersion, loc |-> loc]]
          /\ versions' = NextVersion /\ origin' = t.op
          /\ Then(c, [t EXCEPT !.version = NextVersion])
      BY <1>2 DEF ServiceCreate
    <2>2. /\ t.op \in {"create", "register"} /\ t.op \in {"existing", "create", "register"}
          /\ service \in {"glue", "s3tables"} /\ (service = "s3tables" => Step(c) = "create_bare")
      BY <1>0, Requests
    <2>3. /\ t.loc \in Nat /\ loc \in Nat /\ loc <= Len(files) /\ Len(files) \in Nat
          /\ "main" \in Ids /\ files \in Seq(Metadata)
      BY <1>0, TaskFields, StateFields DEF TaskOK, Ids, TypeOK
    <2> HIDE DEF loc
    <2>4. /\ pointer' \in [Ids -> [version : Nat, loc : Nat]] /\ versions' \in Nat \ {0}
          /\ versions' = versions + 1 /\ versions \in Nat /\ PointerOK'
          /\ pointer'["main"].version = v /\ pointer'["main"].loc = loc
          /\ pointer'["main"].version \notin 1..versions
      <3>1. files' \in Seq(Metadata) /\ Len(files) <= Len(files') /\ loc <= Len(files')
        BY <1>0, <2>3
      <3>2. service # "rest" /\ service' = service
        BY <1>0, <2>2
      <3> QED
        BY <1>0, <2>1, <2>3, <3>1, <3>2, PointerMoved
    <2>5. Grows
      BY <1>0, <2>1, <2>2, <2>3, <2>4 DEF Grows
    <2>6. ASSUME Tail(t.todo) \in Todos
          PROVE  /\ task' \in [Clients -> Calls] /\ OthersStay(c)
                 /\ Moves(c, t.id, t.loc, v, t.metadata)
      BY <1>0, <2>1, <2>4, <2>6, VersionMoves DEF NextVersion
    <2>7. ASSUME Moves(c, t.id, t.loc, v, t.metadata)
          PROVE  /\ Held(task[c].metadata)' /\ (task[c].loc <= Len(files))'
                 /\ (task[c].version <= versions)'
                 /\ Proper(t.metadata) => Proper(task[c].metadata)'
                 /\ HasFile(c) => HasFile(c)'
      BY <1>0, <2>4, <2>7, VersionHeld
    <2>8. FilesOK' /\ AppliedOK'
      BY <1>0, <2>5, AppliedStays DEF FilesOK, Proper, Held
    <2>9. AppliedKept'
      <3>1. service' # "rest" /\ (service' = "glue" => ~Fenced')
        BY <1>0, <2>1, <2>2 DEF Fenced
      <3>2. service' = "s3tables" => Current' = NoMetadata
        BY <1>0, <2>2, <2>4 DEF Current, loc
      <3>3. \A k \in applied : k.uuid # NoMetadata.uuid
        BY <1>0 DEF AppliedOK, FilesOK, Proper, NoMetadata
      <3> QED
        BY <1>0, <2>2, <3>1, <3>2, <3>3 DEF AppliedKept, Fenced
    <2>10. ASSUME task' \in [Clients -> Calls], OthersStay(c), TaskOK(c)'
           PROVE  IInv'
      <3>1. TypeOK'
        BY <1>0, <2>1, <2>2, <2>4, <2>10 DEF TypeOK
      <3> QED
        BY <1>0, <2>4, <2>5, <2>8, <2>9, <2>10, <3>1, StateKeeps
    <2>11. CASE service = "glue" /\ t.op = "create" /\ GlueCreateOK(c)
      <3>1. /\ Tail(t.todo) \in GlueCreatePoints /\ Tail(t.todo) # <<>> /\ Tail(t.todo) \in Todos
            /\ Head(Tail(t.todo)) \in {"create_storage", "get"}
        BY <1>0, <2>11, GlueCreateNext DEF GlueCreateOK, Step
      <3>2. Moves(c, t.id, t.loc, v, t.metadata)
        BY <2>6, <3>1
      <3>3. Proper(t.metadata) /\ t.metadata.kind \in Kinds
        BY <2>11 DEF GlueCreateOK, At
      <3>4. GlueCreateOK(c)'
        BY <2>1, <2>7, <2>11, <3>1, <3>2, <3>3 DEF GlueCreateOK, At, AtOneOf, Step, Moves
      <3>5. TaskOK(c)'
        BY <1>0, <2>7, <2>11, <3>2, <3>4 DEF TaskOK, Moves
      <3> QED
        BY <2>6, <2>10, <3>1, <3>5
    <2>12. CASE service = "glue" /\ t.op = "register" /\ GlueRegisterOK(c)
      <3>1. /\ Tail(t.todo) \in GlueRegisterPoints /\ Tail(t.todo) # <<>> /\ Tail(t.todo) \in Todos
            /\ Head(Tail(t.todo)) = "get" /\ Step(c) = "create_bare"
        BY <1>0, <2>12, GlueRegisterNext DEF GlueRegisterOK, Step
      <3>2. Moves(c, t.id, t.loc, v, t.metadata)
        BY <2>6, <3>1
      <3>3. Proper(t.metadata)
        BY <2>12, <3>1 DEF GlueRegisterOK, At
      <3>4. GlueRegisterOK(c)'
        BY <2>1, <2>7, <2>12, <3>1, <3>2, <3>3 DEF GlueRegisterOK, At, AtOneOf, Step, Moves
      <3>5. TaskOK(c)'
        BY <1>0, <2>7, <2>12, <3>2, <3>4 DEF TaskOK, Moves
      <3> QED
        BY <2>6, <2>10, <3>1, <3>5
    <2>13. CASE service = "s3tables" /\ t.op = "create" /\ S3CreateOK(c) /\ t.todo \in S3BeforePoints
      <3>1. /\ Tail(t.todo) \in S3BeforePoints /\ Tail(t.todo) # <<>> /\ Tail(t.todo) \in Todos
            /\ Head(Tail(t.todo)) \notin {"create_bare", "put_storage", "swap"}
        BY <1>0, <2>2, <2>13, S3BeforeNext DEF Step
      <3>2. Moves(c, t.id, t.loc, v, t.metadata)
        BY <2>6, <3>1
      <3>3. t.metadata.kind \in Kinds
        <4>1. t.todo \notin S3AfterPoints
          BY <1>0, S3AfterNext DEF Step
        <4> QED
          BY <2>13, <4>1 DEF S3CreateOK
      <3>4. S3CreateOK(c)'
        BY <2>4, <3>1, <3>2, <3>3 DEF S3CreateOK, At, AtOneOf, Step, Moves
      <3>5. TaskOK(c)'
        BY <1>0, <2>7, <2>13, <3>2, <3>4 DEF TaskOK, Moves
      <3> QED
        BY <2>6, <2>10, <3>1, <3>5
    <2>14. CASE service = "s3tables" /\ t.op = "register" /\ S3RegisterOK(c)
      <3>1. /\ Tail(t.todo) \in S3RegisterPoints /\ Tail(t.todo) # <<>> /\ Tail(t.todo) \in Todos
            /\ Head(Tail(t.todo)) = "swap" /\ Step(c) = "create_bare"
        BY <1>0, <2>14, S3RegisterNext DEF S3RegisterOK, Step
      <3>2. Moves(c, t.id, t.loc, v, t.metadata)
        BY <2>6, <3>1
      <3>3. HasFile(c) /\ t.loc \in 1..Len(files)
        BY <2>14, <3>1 DEF S3RegisterOK, At
      <3>4. S3RegisterOK(c)'
        BY SMTT(60), <1>0, <2>1, <2>4, <2>7, <2>14, <3>1, <3>2, <3>3
           DEF S3RegisterOK, At, AtOneOf, Step, Moves
      <3>5. TaskOK(c)'
        BY <1>0, <2>7, <2>14, <3>2, <3>4 DEF TaskOK, Moves
      <3> QED
        BY <2>6, <2>10, <3>1, <3>5
    <2> QED
      BY <1>0, <2>11, <2>12, <2>13, <2>14, Requests
  <1> QED
    BY <1>1, <1>2

\* create_table of the service, for the storage table.
LEMMA StorageCreateKeeps ==
  ASSUME IInv, NEW c \in Clients, ServiceCreate(c), Step(c) \notin {"create", "create_bare"}
  PROVE  IInv'
  <1> DEFINE t == task[c]
             v == versions + 1
  <1>0. /\ Base /\ TypeOK /\ PointerOK /\ FilesOK /\ TaskOK(c) /\ AppliedOK /\ t.todo # <<>>
        /\ AppliedKept
        /\ UNCHANGED <<service, files, cache, handle, applied, acked>>
        /\ Step(c) \in {"create_storage", "create_bare_storage"}
    BY DEF IInv, Base, ServiceCreate
  <1>1. CASE pointer["storage"] # NoTabular
    <2>1. Err(c) /\ UNCHANGED <<pointer, versions, origin>>
      BY <1>0, <1>1 DEF ServiceCreate
    <2> QED
      BY <1>0, <2>1, ErrKeeps DEF Shared
  <1>2. CASE pointer["storage"] = NoTabular
    <2> DEFINE loc == IF Step(c) = "create_storage" THEN t.storage.loc ELSE 0
    <2>1. /\ pointer' = [pointer EXCEPT !["storage"] = [version |-> NextVersion, loc |-> loc]]
          /\ versions' = NextVersion /\ origin' = origin
          /\ Then(c, [t EXCEPT !.storage.version = NextVersion])
      BY <1>0, <1>2 DEF ServiceCreate
    <2>2. /\ loc \in Nat /\ "storage" \in Ids /\ files \in Seq(Metadata) /\ Len(files) \in Nat
      BY <1>0, TaskFields, StateFields DEF Ids, TypeOK
    <2> HIDE DEF loc
    <2>3. /\ pointer' \in [Ids -> [version : Nat, loc : Nat]] /\ versions' \in Nat \ {0}
          /\ versions' = versions + 1 /\ versions \in Nat /\ PointerOK'
          /\ pointer'["main"] = pointer["main"]
      <3>1. files' \in Seq(Metadata) /\ Len(files) <= Len(files') /\ "storage" # "main"
        BY <1>0, <2>2
      <3> QED
        BY <1>0, <2>1, <2>2, <3>1, PointerMoved
    <2>4. Grows /\ MainKept
      BY <1>0, <2>1, <2>2, <2>3 DEF Grows, MainKept
    <2>5. Tail(t.todo) \in Todos => StorageOnly(c)
      BY <1>0, <2>1, <2>3, StorageMoves DEF NextVersion
    <2>6. ASSUME StorageOnly(c)
          PROVE  /\ Held(task[c].metadata)' /\ (task[c].loc <= Len(files))'
                 /\ (task[c].version <= versions)'
                 /\ Proper(t.metadata) => Proper(task[c].metadata)'
                 /\ HasFile(c) => HasFile(c)'
      <3>1. t.version \in Nat /\ t.version <= versions + 1
        BY <1>0, <2>3, TaskFields DEF TaskOK
      <3> QED
        BY <1>0, <2>3, <2>6, <3>1, VersionHeld DEF StorageOnly
    <2>7. FilesOK' /\ AppliedOK' /\ AppliedKept'
      BY <1>0, <2>4, AppliedStays, AppliedKeptKept DEF FilesOK, Proper, Held
    <2>8. ASSUME StorageOnly(c), TaskOK(c)'
          PROVE  IInv'
      <3>1. TypeOK'
        BY <1>0, <2>1, <2>3, <2>8 DEF TypeOK, StorageOnly
      <3> QED
        BY <1>0, <2>3, <2>4, <2>7, <2>8, <3>1, StateKeeps DEF StorageOnly
    <2>9. CASE service = "glue" /\ t.op = "create" /\ GlueCreateOK(c)
      <3>1. /\ Tail(t.todo) \in GlueCreatePoints /\ Tail(t.todo) # <<>> /\ Tail(t.todo) \in Todos
            /\ Head(Tail(t.todo)) = "get" /\ Step(c) = "create_storage"
        BY <1>0, <2>9, GlueCreateNext DEF GlueCreateOK, Step
      <3>2. Proper(t.metadata) /\ t.metadata.kind \in Kinds /\ origin # "existing"
        BY <1>0, <2>9, <3>1 DEF GlueCreateOK, At, AtOneOf
      <3>3. GlueCreateOK(c)'
        BY <2>1, <2>5, <2>6, <2>9, <3>1, <3>2 DEF GlueCreateOK, At, AtOneOf, Step, Moves, StorageOnly
      <3>4. TaskOK(c)'
        BY <1>0, <2>5, <2>6, <2>9, <3>1, <3>3 DEF TaskOK, Moves, StorageOnly
      <3> QED
        BY <2>5, <2>8, <3>1, <3>4
    <2>10. CASE service = "s3tables" /\ t.op = "create" /\ S3CreateOK(c) /\ t.todo \in S3BeforePoints
                /\ t.todo \notin S3AfterPoints
      <3>1. /\ Tail(t.todo) \in S3BeforePoints /\ Tail(t.todo) # <<>> /\ Tail(t.todo) \in Todos
            /\ Head(Tail(t.todo)) \notin {"create_bare", "put_storage", "swap"}
        BY <1>0, <2>10, S3BeforeNext DEF Step
      <3>2. t.metadata.kind \in Kinds /\ t.version >= 1
        BY <1>0, <2>10 DEF S3CreateOK, At
      <3>3. S3CreateOK(c)'
        BY <2>5, <3>1, <3>2 DEF S3CreateOK, At, AtOneOf, Step, Moves, StorageOnly
      <3>4. TaskOK(c)'
        BY <1>0, <2>5, <2>6, <2>10, <3>1, <3>3 DEF TaskOK, Moves, StorageOnly
      <3> QED
        BY <2>5, <2>8, <3>1, <3>4
    <2>11. CASE service = "s3tables" /\ t.op = "create" /\ S3CreateOK(c) /\ t.todo \in S3AfterPoints
                /\ t.todo \notin S3BeforePoints
      <3>1. Tail(t.todo) \in S3AfterPoints /\ Tail(t.todo) \in Todos
        BY <1>0, <2>11, S3AfterNext DEF Step
      <3>2. Got(c) /\ HasFile(c)
        BY <2>11 DEF S3CreateOK
      <3>3. S3CreateOK(c)'
        BY <2>3, <2>5, <2>6, <3>1, <3>2 DEF S3CreateOK, Got, IsCurrent, Moves, StorageOnly
      <3>4. TaskOK(c)'
        BY <1>0, <2>5, <2>6, <2>11, <3>1, <3>3 DEF TaskOK, Moves, StorageOnly
      <3> QED
        BY <2>5, <2>8, <3>1, <3>4
    <2> QED
      BY <1>0, <2>9, <2>10, <2>11, Requests, Apart
  <1> QED
    BY <1>1, <1>2

\* The commits of metadata that a commit was appended to.
LEMMA RangeAppend ==
  ASSUME NEW s \in Seq(Nat), NEW e \in Nat
  PROVE  e \in Range(Append(s, e)) /\ \A x \in Range(s) : x \in Range(Append(s, e))
  <1>1. /\ Append(s, e) \in Seq(Nat) /\ Len(Append(s, e)) = Len(s) + 1 /\ Len(s) \in Nat
        /\ Append(s, e)[Len(s) + 1] = e
        /\ \A i \in 1..Len(s) : Append(s, e)[i] = s[i]
    OBVIOUS
  <1>2. DOMAIN Append(s, e) = 1..(Len(s) + 1) /\ DOMAIN s = 1..Len(s)
    BY <1>1
  <1>3. e \in Range(Append(s, e))
    BY <1>1, <1>2 DEF Range
  <1>4. ASSUME NEW x \in Range(s) PROVE x \in Range(Append(s, e))
    <2>1. PICK i \in 1..Len(s) : x = s[i]
      BY <1>2 DEF Range
    <2>2. i \in 1..(Len(s) + 1) /\ Append(s, e)[i] = x
      BY <1>1, <2>1
    <2> QED
      BY <1>2, <2>2 DEF Range
  <1> QED
    BY <1>3, <1>4

\* An update of the current metadata keeps what was applied and adds itself.
LEMMA UpdateKept ==
  ASSUME AppliedKept, origin' = origin, Fenced' => Fenced, service' = service,
         NEW n \in Nat, NEW m \in Metadata,
         applied' = applied \cup {[id |-> n, uuid |-> m.uuid]},
         service = "rest" \/ Fenced => Current' = apply_updates(m, n) /\ m = Current
  PROVE  AppliedKept'
  <1> SUFFICES ASSUME origin # "register", service = "rest" \/ Fenced, NEW k \in applied',
                      Current'.uuid = k.uuid
               PROVE  k.id \in Range(Current'.commits)
    BY DEF AppliedKept
  <1>1. Current' = apply_updates(m, n) /\ m = Current /\ m.commits \in Seq(Nat)
    BY DEF Metadata
  <1>2. Current'.commits = Append(m.commits, n) /\ Current'.uuid = m.uuid
    BY <1>1, UpdatesApplied
  <1>3. CASE k = [id |-> n, uuid |-> m.uuid]
    BY <1>1, <1>2, <1>3, RangeAppend
  <1>4. CASE k \in applied
    <2>1. k.id \in Range(m.commits)
      BY <1>1, <1>2, <1>4 DEF AppliedKept
    <2> QED
      BY <1>1, <1>2, <2>1, RangeAppend
  <1> QED
    BY <1>3, <1>4

\* The update under a version id, of the tabular itself.
LEMMA MainSwapKeeps ==
  ASSUME IInv, NEW c \in Clients, ServiceSwap(c), Step(c) = "swap"
  PROVE  IInv'
  <1> DEFINE t == task[c]
             v == versions + 1
             k == [id |-> t.id, uuid |-> t.metadata.uuid]
  <1>0. /\ Base /\ TypeOK /\ PointerOK /\ FilesOK /\ TaskOK(c) /\ AppliedOK /\ AppliedKept
        /\ t.todo # <<>> /\ UNCHANGED <<service, files, cache, handle, acked, origin>>
    BY DEF IInv, Base, ServiceSwap, At
  <1>1. CASE ~swaps(pointer["main"], t.version)
    <2>1. Err(c) /\ UNCHANGED <<pointer, versions, applied>>
      BY <1>1 DEF ServiceSwap
    <2> QED
      BY <1>0, <2>1, ErrKeeps DEF Shared
  <1>2. CASE swaps(pointer["main"], t.version)
    <2>1. /\ pointer' = [pointer EXCEPT !["main"] = [version |-> NextVersion, loc |-> t.loc]]
          /\ versions' = NextVersion
          /\ applied' = IF t.op = "update" THEN applied \cup {k} ELSE applied
          /\ Then(c, [t EXCEPT !.version = NextVersion])
          /\ t.version = pointer["main"].version
      BY <1>2 DEF ServiceSwap, swaps
    <2>2. /\ t.loc \in Nat /\ t.id \in Nat /\ t.loc <= Len(files) /\ Len(files) \in Nat
          /\ t.metadata \in Metadata /\ t.metadata.uuid \in Nat
          /\ "main" \in Ids /\ files \in Seq(Metadata)
      BY <1>0, TaskFields, StateFields DEF TaskOK, Ids, TypeOK, Metadata
    <2>3. /\ t.op \in {"update", "create", "register"} /\ service \in {"glue", "s3tables"}
          /\ t.version >= 1 /\ HasFile(c)
      <3>1. t.todo \notin S3AfterPoints
        BY <1>0, S3AfterNext DEF Step
      <3> QED
        BY <1>0, <3>1, Requests DEF UpdateOK, S3CreateOK, S3RegisterOK, At, AtOneOf
    <2>4. IsCurrent(c)
      BY <2>1, <2>3 DEF IsCurrent
    <2>5. /\ pointer' \in [Ids -> [version : Nat, loc : Nat]] /\ versions' \in Nat \ {0}
          /\ versions' = versions + 1 /\ versions \in Nat /\ PointerOK'
          /\ pointer'["main"].version = v /\ pointer'["main"].loc = t.loc
          /\ pointer'["main"].version \notin 1..versions
      <3>1. files' \in Seq(Metadata) /\ Len(files) <= Len(files') /\ t.loc <= Len(files')
        BY <1>0, <2>2
      <3>2. service # "rest" /\ service' = service
        BY <1>0, <2>3
      <3> QED
        BY <1>0, <2>1, <2>2, <3>1, <3>2, PointerMoved
    <2>6. Grows
      BY <1>0, <2>1, <2>2, <2>5 DEF Grows
    <2>7. Current' = t.metadata /\ t.metadata = files[t.loc]
      BY <1>0, <2>3, <2>5 DEF Current, HasFile
    <2>8. ASSUME Tail(t.todo) \in Todos
          PROVE  /\ task' \in [Clients -> Calls] /\ OthersStay(c)
                 /\ Moves(c, t.id, t.loc, v, t.metadata)
      BY <1>0, <2>1, <2>5, <2>8, VersionMoves DEF NextVersion
    <2>9. ASSUME Moves(c, t.id, t.loc, v, t.metadata)
          PROVE  /\ Held(task[c].metadata)' /\ (task[c].loc <= Len(files))'
                 /\ (task[c].version <= versions)' /\ HasFile(c)' /\ Got(c)'
      <3>1. v \in Nat /\ v <= versions + 1
        BY <2>5
      <3>2. /\ Held(task[c].metadata)' /\ (task[c].loc <= Len(files))'
            /\ (task[c].version <= versions)' /\ HasFile(c)'
        BY <1>0, <2>3, <2>5, <2>9, <3>1, VersionHeld
      <3>3. Got(c)'
        BY <2>5, <2>9 DEF Got, Moves
      <3> QED
        BY <3>2, <3>3
    <2>10. FilesOK'
      BY <1>0, <2>3 DEF FilesOK, Proper, Held
    <2>11. ASSUME task' \in [Clients -> Calls], OthersStay(c), TaskOK(c)', AppliedOK', AppliedKept',
                  t.op = "update" => k \in [id : Nat, uuid : Nat]
           PROVE  IInv'
      <3>1. TypeOK'
        BY <1>0, <2>1, <2>5, <2>11 DEF TypeOK
      <3> QED
        BY <1>0, <2>5, <2>6, <2>10, <2>11, <3>1, StateKeeps
    <2>12. CASE service # "rest" /\ t.op = "update" /\ UpdateOK(c)
      <3>1. /\ Tail(t.todo) \in GlueUpdatePoints \/ service # "glue"
            /\ Tail(t.todo) \in S3UpdatePoints \/ service = "glue"
            /\ Head(Tail(t.todo)) \in {"get", "reread"} /\ Tail(t.todo) # <<>> /\ Tail(t.todo) \in Todos
        BY <1>0, <2>12, GlueUpdateNext, S3UpdateNext DEF UpdateOK, Step
      <3>2. Moves(c, t.id, t.loc, v, t.metadata)
        BY <2>8, <3>1
      <3>3. /\ t.id = t.loc /\ t.id \in 1..Len(files)
            /\ Fenced => t.metadata = apply_updates(Current, t.id)
        BY <1>0, <2>3, <2>4, <2>12 DEF UpdateOK, At, HasFile
      <3>4. applied' = applied \cup {k} /\ k \in [id : Nat, uuid : Nat]
        BY <2>1, <2>2, <2>12
      <3>5. AppliedOK'
        <4>1. k.id \in 1..Len(files) /\ k.uuid = files[k.id].uuid
          BY <2>7, <3>3
        <4> QED
          BY <1>0, <3>4, <4>1 DEF AppliedOK
      <3>6. AppliedKept'
        <4>1. Fenced' = Fenced
          BY <1>0 DEF Fenced
        <4>2. ~(service = "rest" \/ Fenced) => AppliedKept'
          BY <1>0, <4>1 DEF AppliedKept
        <4>3. CASE Fenced
          <5>1. pointer["main"].loc \in 1..Len(files) => Current \in Metadata
            BY <1>0, StateFields DEF Current
          <5>2. pointer["main"].loc = 0 => Current \in Metadata
            BY <1>0, StateFields DEF Current
          <5>3. Current \in Metadata
            BY <1>0, <5>1, <5>2, StateFields DEF PointerOK
          <5>4. k = [id |-> t.id, uuid |-> Current.uuid]
            BY ZenonT(60), <2>2, <3>3, <4>3, <5>3, UpdatesApplied
          <5> QED
            BY <1>0, <2>2, <2>7, <3>3, <3>4, <4>1, <4>3, <5>3, <5>4, UpdateKept
        <4> QED
          BY <2>3, <4>2, <4>3
      <3>7. Applied(c)'
        <4>1. task'[c].id = t.id
          BY <3>2 DEF Moves
        <4>2. k = [id |-> t.id, uuid |-> files[t.id].uuid] /\ k \in applied'
          BY <2>7, <3>3, <3>4
        <4> QED
          BY <1>0, <3>3, <4>1, <4>2 DEF Applied
      <3>8. UpdateOK(c)'
        <4>1. /\ task'[c].todo = Tail(t.todo) /\ task'[c].version >= 1
              /\ task'[c].todo \in IF service' = "glue" THEN GlueUpdatePoints ELSE S3UpdatePoints
          BY <1>0, <2>5, <3>1, <3>2 DEF Moves
        <4>2. HasFile(c)' /\ Got(c)'
          BY <2>9, <3>2
        <4> QED
          BY <3>1, <3>7, <4>1, <4>2 DEF UpdateOK, At, AtOneOf, Step
      <3>9. TaskOK(c)'
        BY <1>0, <2>9, <2>12, <3>2, <3>8 DEF TaskOK, Moves
      <3> QED
        BY <2>8, <2>11, <3>1, <3>4, <3>5, <3>6, <3>9
    <2>13. ASSUME t.op # "update"
           PROVE  applied' = applied /\ AppliedOK'
      BY <1>0, <2>1, <2>6, <2>13, AppliedStays
    <2>14. CASE service = "s3tables" /\ t.op = "create" /\ S3CreateOK(c) /\ t.todo \in S3BeforePoints
                /\ t.todo \notin S3AfterPoints
      <3>1. Tail(t.todo) \in S3AfterPoints /\ Tail(t.todo) \in Todos
        BY <1>0, <2>14, S3BeforeNext, S3AfterNext DEF Step
      <3>2. Moves(c, t.id, t.loc, v, t.metadata)
        BY <2>8, <3>1
      <3>3. \A j \in applied : j.uuid # t.metadata.uuid
        BY <1>0, <2>4, <2>14 DEF S3CreateOK, AtOneOf
      <3>4. AppliedKept'
        BY <2>7, <2>13, <2>14, <3>3 DEF AppliedKept
      <3>5. S3CreateOK(c)'
        BY <2>9, <3>1, <3>2 DEF S3CreateOK, Moves
      <3>6. TaskOK(c)'
        BY <1>0, <2>9, <2>14, <3>2, <3>5 DEF TaskOK, Moves
      <3> QED
        BY <2>8, <2>11, <2>13, <2>14, <3>1, <3>4, <3>6
    <2>15. CASE service = "s3tables" /\ t.op = "register" /\ S3RegisterOK(c)
      <3>1. /\ Tail(t.todo) \in S3RegisterPoints /\ Tail(t.todo) # <<>> /\ Tail(t.todo) \in Todos
            /\ Head(Tail(t.todo)) = "cache"
        BY <1>0, <2>15, S3RegisterNext DEF S3RegisterOK, Step
      <3>2. Moves(c, t.id, t.loc, v, t.metadata)
        BY <2>8, <3>1
      <3>3. origin = "register" /\ t.loc \in 1..Len(files)
        BY <1>0, <2>4, <2>15 DEF S3RegisterOK, At
      <3>4. AppliedKept'
        BY <1>0, <3>3 DEF AppliedKept
      <3>5. S3RegisterOK(c)'
        BY <1>0, <2>9, <3>1, <3>2, <3>3 DEF S3RegisterOK, At, AtOneOf, Step, Moves
      <3>6. TaskOK(c)'
        BY <1>0, <2>9, <2>15, <3>2, <3>5 DEF TaskOK, Moves
      <3> QED
        BY <2>8, <2>11, <2>13, <2>15, <3>1, <3>4, <3>6
    <2> QED
      BY <1>0, <2>12, <2>14, <2>15, Requests, Apart
  <1> QED
    BY <1>1, <1>2

\* The update under a version id, of the storage table.
LEMMA StorageSwapKeeps ==
  ASSUME IInv, NEW c \in Clients, ServiceSwap(c), Step(c) # "swap"
  PROVE  IInv'
  <1> DEFINE t == task[c]
  <1>0. /\ Base /\ TypeOK /\ PointerOK /\ FilesOK /\ TaskOK(c) /\ AppliedOK /\ AppliedKept
        /\ t.todo # <<>> /\ Step(c) = "swap_storage"
        /\ UNCHANGED <<service, files, cache, handle, acked, origin>>
    BY DEF IInv, Base, ServiceSwap, At
  <1>1. CASE ~swaps(pointer["storage"], t.storage.version)
    <2>1. Err(c) /\ UNCHANGED <<pointer, versions, applied>>
      BY <1>0, <1>1 DEF ServiceSwap
    <2> QED
      BY <1>0, <2>1, ErrKeeps DEF Shared
  <1>2. CASE swaps(pointer["storage"], t.storage.version)
    <2>0. service = "s3tables" /\ t.op = "create" /\ S3CreateOK(c) /\ t.todo \in S3AfterPoints
      BY <1>0, Requests
    <2>1. /\ pointer' = [pointer EXCEPT !["storage"] = [version |-> NextVersion, loc |-> t.storage.loc]]
          /\ versions' = NextVersion /\ applied' = applied
          /\ Then(c, t)
      BY <1>0, <1>2, <2>0 DEF ServiceSwap
    <2>2. /\ t.storage.loc \in Nat /\ "storage" \in Ids /\ files \in Seq(Metadata)
          /\ Len(files) \in Nat
      BY <1>0, TaskFields, StateFields DEF Ids, TypeOK
    <2>3. /\ pointer' \in [Ids -> [version : Nat, loc : Nat]] /\ versions' \in Nat \ {0}
          /\ versions' = versions + 1 /\ versions \in Nat /\ PointerOK'
          /\ pointer'["main"] = pointer["main"]
      <3>1. files' \in Seq(Metadata) /\ Len(files) <= Len(files') /\ "storage" # "main"
        BY <1>0, <2>2
      <3> QED
        BY <1>0, <2>1, <2>2, <3>1, PointerMoved
    <2>4. Grows /\ MainKept
      BY <1>0, <2>1, <2>2, <2>3 DEF Grows, MainKept
    <2>5. Tail(t.todo) \in S3AfterPoints /\ Tail(t.todo) \in Todos
      BY <1>0, <2>0, S3AfterNext DEF Step
    <2>6. StorageOnly(c)
      <3>1. 0 \in Nat
        OBVIOUS
      <3> QED
        BY <1>0, <2>1, <2>5, <3>1, StorageMoves
    <2>7. /\ Held(task[c].metadata)' /\ (task[c].loc <= Len(files))'
          /\ (task[c].version <= versions)'
          /\ HasFile(c) => HasFile(c)'
      <3>1. t.version \in Nat /\ t.version <= versions + 1
        BY <1>0, <2>3, TaskFields DEF TaskOK
      <3> QED
        BY <1>0, <2>3, <2>6, <3>1, VersionHeld DEF StorageOnly
    <2>8. Got(c) /\ HasFile(c)
      BY <2>0, Apart DEF S3CreateOK
    <2>9. S3CreateOK(c)'
      BY <2>3, <2>5, <2>6, <2>7, <2>8 DEF S3CreateOK, Got, IsCurrent, Moves, StorageOnly
    <2>10. TaskOK(c)'
      BY <1>0, <2>0, <2>6, <2>7, <2>9 DEF TaskOK, Moves, StorageOnly
    <2>11. FilesOK' /\ AppliedOK' /\ AppliedKept'
      BY <1>0, <2>1, <2>4, AppliedStays, AppliedKeptKept DEF FilesOK, Proper, Held
    <2>12. TypeOK'
      BY <1>0, <2>1, <2>3, <2>6 DEF TypeOK, StorageOnly
    <2> QED
      BY <1>0, <2>3, <2>4, <2>6, <2>10, <2>11, <2>12, StateKeeps DEF StorageOnly
  <1> QED
    BY <1>1, <1>2

-----------------------------------------------------------------------------
(* A method returns with Ok *)

\* What a call knows before it returns: its commit was applied, and a version
\* id that is current is the one of its metadata.
LEMMA AtTheEnd ==
  ASSUME Base, NEW c \in Clients, TaskOK(c), At(c, "cache") \/ At(c, "done")
  PROVE  /\ Proper(task[c].metadata)
         /\ task[c].op = "update" => Applied(c)
         /\ service # "rest" =>
              /\ task[c].version \in 1..versions
              /\ Fenced /\ task[c].version = pointer["main"].version => task[c].metadata = Current
  <1> DEFINE t == task[c]
  <1>0. /\ TypeOK /\ PointerOK /\ FilesOK /\ t.todo # <<>> /\ Step(c) \in {"cache", "done"}
        /\ t.version <= versions
    BY DEF Base, At, TaskOK
  <1>1. ASSUME Got(c), HasFile(c)
        PROVE  /\ Proper(t.metadata) /\ t.version >= 1
               /\ t.version = pointer["main"].version => t.metadata = Current
    <2>1. Proper(t.metadata) /\ t.version >= 1
      BY <1>0, <1>1 DEF FilesOK, HasFile, Got
    <2>2. t.version = pointer["main"].version => t.metadata = Current
      BY <1>1 DEF Got, HasFile, IsCurrent, Current
    <2> QED
      BY <2>1, <2>2
  <1>2. t.version \in Nat /\ versions \in Nat
    BY <1>0, TaskFields DEF TypeOK
  <1>3. CASE service = "rest" /\ RestOK(c)
    BY <1>0, <1>3 DEF RestOK, AtOneOf
  <1>4. CASE service # "rest" /\ t.op = "load" /\ LoadOK(c) /\ Step(c) = "cache"
    BY <1>0, <1>1, <1>2, <1>4 DEF LoadOK, At, AtOneOf
  <1>5. CASE service # "rest" /\ t.op = "update" /\ UpdateOK(c) /\ Step(c) = "cache"
    BY <1>0, <1>1, <1>2, <1>5 DEF UpdateOK, At, AtOneOf
  <1>6. CASE service = "glue" /\ t.op = "create" /\ GlueCreateOK(c) /\ Step(c) = "cache"
    BY <1>0, <1>2, <1>6 DEF GlueCreateOK, At, AtOneOf, Fenced
  <1>7. CASE service = "glue" /\ t.op = "register" /\ GlueRegisterOK(c) /\ Step(c) = "cache"
    BY <1>0, <1>2, <1>7 DEF GlueRegisterOK, At, AtOneOf, Fenced
  <1>8. CASE service = "s3tables" /\ t.op = "create" /\ S3CreateOK(c) /\ t.todo \in S3AfterPoints
    BY <1>0, <1>1, <1>2, <1>8, Apart DEF S3CreateOK
  <1>9. CASE service = "s3tables" /\ t.op = "register" /\ S3RegisterOK(c) /\ Step(c) = "cache"
    BY <1>0, <1>1, <1>2, <1>9 DEF S3RegisterOK, At
  <1> QED
    BY <1>0, <1>3, <1>4, <1>5, <1>6, <1>7, <1>8, <1>9, Requests

\* The part of the invariant that a return with Ok touches.
LEMMA ReturnKeeps ==
  ASSUME IInv, NEW c \in Clients, At(c, "cache") \/ At(c, "done"), UNCHANGED Shared,
         Ok(c, task[c].metadata), cache' \in [Instances -> [version : Nat, loc : Nat, metadata : Metadata]],
         CachesOK'
  PROVE  IInv'
  <1> DEFINE t == task[c]
             k == [id |-> t.id, uuid |-> files[t.id].uuid]
  <1>0. /\ Base /\ TypeOK /\ PointerOK /\ FilesOK /\ AppliedOK /\ HandlesOK /\ AppliedKept
        /\ \A d \in Clients : TaskOK(d)
        /\ service' = service /\ pointer' = pointer /\ files' = files /\ versions' = versions
        /\ applied' = applied /\ origin' = origin
    BY DEF IInv, Base, Shared
  <1>1. Proper(t.metadata) /\ (t.op = "update" => Applied(c)) /\ t.metadata \in Metadata
    BY <1>0, AtTheEnd DEF Proper, Held
  <1>2. Grows /\ MainKept
    BY <1>0, SharedGrows
  <1>3. task' \in [Clients -> Calls] /\ OthersStay(c) /\ task'[c] = IdleTask
    BY <1>0, EndTyped DEF Ok
  <1>4. handle' = [handle EXCEPT ![c] = t.metadata] /\ handle \in [Clients -> Metadata]
    BY <1>0 DEF Ok, TypeOK
  <1>5. TypeOK'
    <2>1. handle' \in [Clients -> Metadata]
      BY <1>1, <1>4
    <2> QED
      BY <1>0, <1>3, <2>1 DEF TypeOK
  <1>6. PointerOK' /\ FilesOK' /\ AppliedKept'
    BY <1>0, <1>2, AppliedKeptKept DEF PointerOK, FilesOK, Proper, Held
  <1>7. AppliedOK'
    <2>1. acked' = IF t.op = "update" THEN acked \cup {k} ELSE acked
      BY DEF Ok
    <2>2. t.op = "update" => k \in applied
      BY <1>1 DEF Applied
    <2>3. acked' \subseteq applied
      BY <1>0, <2>1, <2>2 DEF AppliedOK
    <2> QED
      BY <1>0, <2>3 DEF AppliedOK
  <1>8. HandlesOK'
    <2> SUFFICES ASSUME NEW d \in Clients PROVE handle'[d] = NoMetadata \/ Proper(handle[d])'
      BY DEF HandlesOK
    <2>1. CASE d = c
      BY <1>0, <1>1, <1>4, <2>1 DEF Proper, Held
    <2>2. CASE d # c
      BY <1>0, <1>4, <2>2 DEF HandlesOK, Proper, Held
    <2> QED
      BY <2>1, <2>2
  <1>9. TaskOK(c)'
    BY <1>3, <1>5, IdleOK
  <1>10. \A d \in Clients : TaskOK(d)'
    BY <1>0, <1>2, <1>3, <1>9, TasksKept
  <1> QED
    BY <1>5, <1>6, <1>7, <1>8, <1>10 DEF IInv

\* The cache entry.
LEMMA CacheEntryKeeps ==
  ASSUME Deployment, IInv, NEW c \in Clients, CacheEntry(c)
  PROVE  IInv'
  <1> DEFINE t == task[c]
             i == InstanceOf[c]
             e == [version |-> IF service = "rest" THEN 1 ELSE t.version,
                   loc |-> IF service = "rest" THEN 0 ELSE t.loc,
                   metadata |-> IF service = "rest" THEN NoMetadata ELSE t.metadata]
  <1>0. /\ Base /\ TypeOK /\ TaskOK(c) /\ CachesOK /\ At(c, "cache") /\ UNCHANGED Shared
        /\ cache' = [cache EXCEPT ![i] = e] /\ Ok(c, t.metadata)
    BY DEF IInv, Base, CacheEntry, Shared
  <1>1. i \in Instances
    BY DEF Deployment, Instances, Range
  <1>2. e \in [version : Nat, loc : Nat, metadata : Metadata]
    <2>1. /\ 1 \in Nat /\ 0 \in Nat /\ NoMetadata \in Metadata /\ t.version \in Nat /\ t.loc \in Nat
          /\ t.metadata \in Metadata
      BY <1>0, TaskFields, StateFields
    <2> QED
      BY <2>1
  <1>3. /\ service = "rest" => ~Fenced
        /\ service # "rest" => e.version = t.version /\ e.metadata = t.metadata
    BY DEF Fenced
  <1> HIDE DEF e
  <1>4. /\ cache' \in [Instances -> [version : Nat, loc : Nat, metadata : Metadata]]
        /\ cache'[i] = e /\ \A j \in Instances : j # i => cache'[j] = cache[j]
    BY <1>0, <1>1, <1>2 DEF TypeOK
  <1>5. /\ service' = service /\ pointer' = pointer /\ files' = files /\ versions' = versions
        /\ origin' = origin
    BY <1>0 DEF Shared
  <1>6. UNCHANGED <<Current, Fenced>>
    BY <1>5 DEF Current, Fenced
  <1>7. CachesOK'
    <2> SUFFICES ASSUME NEW j \in Instances PROVE EntryOK(j)'
      BY DEF CachesOK, Instances
    <2>1. CASE j = i
      <3>1. service # "rest" =>
              /\ t.version \in 1..versions /\ Proper(t.metadata)
              /\ Fenced /\ t.version = pointer["main"].version => t.metadata = Current
        BY <1>0, AtTheEnd
      <3> QED
        BY <1>3, <1>4, <1>5, <1>6, <2>1, <3>1 DEF EntryOK, Proper, Held
    <2>2. CASE j # i
      BY <1>0, <1>4, <1>5, <1>6, <2>2 DEF CachesOK, EntryOK, Proper, Held
    <2> QED
      BY <2>1, <2>2
  <1> QED
    BY <1>0, <1>4, <1>7, ReturnKeeps

\* REST's methods that leave the caches alone.
LEMMA DoneKeeps ==
  ASSUME IInv, NEW c \in Clients, Done(c)
  PROVE  IInv'
  <1>0. /\ Base /\ TypeOK /\ CachesOK /\ At(c, "done") /\ UNCHANGED <<Shared, cache>>
    BY DEF IInv, Base, Done, Shared
  <1>1. CASE Err(c) /\ UNCHANGED <<handle, acked>>
    BY <1>0, <1>1, ErrKeeps
  <1>2. CASE Ok(c, task[c].metadata)
    <2>1. Grows
      BY <1>0, SharedGrows
    <2>2. CachesOK'
      BY <1>0, <2>1, CachesKept
    <2> QED
      BY <1>0, <1>2, <2>2, ReturnKeeps DEF TypeOK
  <1> QED
    BY <1>1, <1>2 DEF Done

-----------------------------------------------------------------------------
(* The REST server *)

\* The methods of the REST catalog, by the request a call is to make.
LEMMA RestRequests ==
  ASSUME NEW c \in Clients, TypeOK, TaskOK(c), task[c].todo # <<>>,
         Step(c) \in {"server_create", "server_create_table", "server_update", "server_register"}
  PROVE  /\ service = "rest" /\ RestOK(c) /\ Tail(task[c].todo) # <<>> /\ Tail(task[c].todo) \in Todos
         /\ Step(c) = "server_create" =>
              /\ task[c].op = "create" /\ Tail(task[c].todo) \in RestCreatePoints
              /\ Head(Tail(task[c].todo)) \in {"done", "cache"}
         /\ Step(c) = "server_create_table" =>
              /\ task[c].op = "create" /\ Tail(task[c].todo) \in RestCreatePoints
              /\ Head(Tail(task[c].todo)) = "server_create"
         /\ Step(c) = "server_update" =>
              /\ task[c].op = "update" /\ Tail(task[c].todo) \in RestUpdatePoints
              /\ Head(Tail(task[c].todo)) = "done"
         /\ Step(c) = "server_register" =>
              /\ task[c].op = "register" /\ Tail(task[c].todo) \in RestRegisterPoints
              /\ Head(Tail(task[c].todo)) = "done"
  <1> DEFINE q == task[c].todo
  <1>1. service = "rest" /\ RestOK(c) /\ task[c].op \in {"load", "create", "update", "register"}
    BY Requests, TaskFields
  <1>2. CASE task[c].op = "load"
    BY <1>1, <1>2, RestLoadNext DEF RestOK, Step
  <1>3. CASE task[c].op = "create"
    <2>1. q \in RestCreatePoints /\ Head(q) \in {"server_create", "server_create_table"}
      BY <1>1, <1>3, RestCreateNext DEF RestOK, Step
    <2>2. Tail(q) \in RestCreatePoints
      BY <2>1, RestCreateNext
    <2> QED
      BY <1>1, <1>3, <2>1, <2>2, RestCreateNext DEF Step
  <1>4. CASE task[c].op = "update"
    <2>1. q \in RestUpdatePoints /\ Head(q) = "server_update"
      BY <1>1, <1>4, RestUpdateNext DEF RestOK, Step
    <2>2. Tail(q) \in RestUpdatePoints
      BY <2>1, RestUpdateNext
    <2> QED
      BY <1>1, <1>4, <2>1, <2>2, RestUpdateNext DEF Step
  <1>5. CASE task[c].op = "register"
    <2>1. q \in RestRegisterPoints /\ Head(q) = "server_register"
      BY <1>1, <1>5, RestRegisterNext DEF RestOK, Step
    <2>2. Tail(q) \in RestRegisterPoints
      BY <2>1, RestRegisterNext
    <2> QED
      BY <1>1, <1>5, <2>1, <2>2, RestRegisterNext DEF Step
  <1> QED
    BY <1>1, <1>2, <1>3, <1>4, <1>5

\* What a call holds when the server answered with metadata it wrote.
LEMMA AnswerMoves ==
  ASSUME TypeOK, NEW c \in Clients, NEW m \in Metadata, NEW id \in Nat, Tail(task[c].todo) \in Todos,
         Then(c, [task[c] EXCEPT !.metadata = m, !.id = id])
  PROVE  /\ task' \in [Clients -> Calls] /\ OthersStay(c)
         /\ Moves(c, id, task[c].loc, task[c].version, m)
  <1> DEFINE t == task[c]
             r == [t EXCEPT !.metadata = m, !.id = id]
  <1>1. t \in Calls
    BY DEF TypeOK
  <1>2. /\ r \in Calls /\ r.op = t.op /\ r.todo = t.todo /\ r.id = id /\ r.loc = t.loc
        /\ r.version = t.version /\ r.metadata = m
    BY <1>1 DEF Calls
  <1> QED
    BY <1>2, ThenMoves

\* The file the server writes, and the pointer to it.
LEMMA WriteDoes ==
  ASSUME Base, NEW c \in Clients, TaskOK(c), NEW m \in Metadata, ServerWrites(m),
         m.kind \in Kinds, m.uuid \in 1..(Len(files) + 1), service' = service
  PROVE  /\ pointer' \in [Ids -> [version : Nat, loc : Nat]] /\ versions' \in Nat \ {0}
         /\ versions' = versions + 1 /\ versions \in Nat
         /\ PointerOK' /\ FilesOK' /\ files' \in Seq(Metadata)
         /\ pointer'["main"].version \notin 1..versions
         /\ Current' = m /\ pointer'["main"] # NoTabular
         /\ Len(files') = Len(files) + 1 /\ Len(files) \in Nat /\ files'[Len(files) + 1] = m
         /\ \A l \in 1..Len(files) : files'[l] = files[l]
         /\ task[c].loc \in Nat /\ task[c].loc <= Len(files')
         /\ task[c].version \in Nat /\ task[c].version <= versions'
  <1> DEFINE n == Len(files) + 1
  <1>1. /\ TypeOK /\ PointerOK /\ FilesOK /\ files' = Append(files, m) /\ versions' = NextVersion
        /\ pointer' = [pointer EXCEPT !["main"] = [version |-> NextVersion, loc |-> n]]
        /\ task[c].loc <= Len(files) /\ task[c].version <= versions /\ "main" \in Ids
    BY DEF Base, ServerWrites, put_metadata, TaskOK, Ids
  <1>2. /\ files' \in Seq(Metadata) /\ Len(files') = n /\ Len(files) \in Nat
        /\ \A l \in 1..Len(files) : files'[l] = files[l]
        /\ files'[n] = m /\ FilesOK'
    BY <1>1, Appended
  <1>3. n \in Nat /\ n >= 1 /\ Len(files) <= Len(files') /\ n <= Len(files')
    BY <1>2
  <1>4. /\ pointer' \in [Ids -> [version : Nat, loc : Nat]] /\ versions' \in Nat \ {0}
        /\ versions' = versions + 1 /\ versions \in Nat
        /\ PointerOK'
        /\ pointer'["main"].version = versions + 1 /\ pointer'["main"].loc = n
        /\ pointer'["main"].version \notin 1..versions
    BY <1>1, <1>2, <1>3, PointerMoved
  <1>5. Current' = m /\ pointer'["main"] # NoTabular
    BY <1>2, <1>3, <1>4 DEF Current, NoTabular
  <1>6. task[c].loc \in Nat /\ task[c].version \in Nat
    BY <1>1, TaskFields
  <1> QED
    BY <1>1, <1>2, <1>3, <1>4, <1>5, <1>6

\* The metadata that createTable or createView makes current, and what the
\* call holds then: after the first request of a materialized view what it had.
LEMMA ServerCreates ==
  ASSUME TypeOK, NEW c \in Clients, TaskOK(c), task[c].todo # <<>>, ServerCreate(c),
         pointer["main"] = NoTabular, NEW m, NEW a,
         m = IF Step(c) = "server_create" THEN Built(task[c]) ELSE NewMetadata("table", Len(files) + 1),
         a = IF Step(c) = "server_create" THEN m ELSE task[c].metadata
  PROVE  /\ ServerWrites(m) /\ Then(c, [task[c] EXCEPT !.metadata = a]) /\ origin' = "create"
         /\ m \in Metadata /\ m.kind \in Kinds /\ m.uuid = Len(files) + 1
         /\ m.uuid \in 1..(Len(files) + 1)
         /\ a \in Metadata /\ a.kind = task[c].metadata.kind /\ a.uuid \in 0..(Len(files) + 1)
  <1> DEFINE t == task[c]
             n == Len(files) + 1
  <1>0. /\ t \in Calls /\ t.metadata \in Metadata /\ Len(files) \in Nat
        /\ Step(c) \in {"server_create", "server_create_table"}
    BY TaskFields, StateFields DEF TypeOK, ServerCreate, At
  <1>1. service = "rest" /\ t.op = "create" /\ t.metadata.kind \in Kinds
    BY <1>0, RestRequests DEF RestOK
  <1>2. n \in Nat /\ n \in 1..n /\ n \in 0..n /\ "table" \in Kinds
    BY <1>0 DEF Kinds
  <1>3. CASE Step(c) = "server_create"
    <2>1. /\ ServerWrites(Built(t)) /\ Then(c, [t EXCEPT !.metadata = Built(t)])
          /\ origin' = "create"
      BY <1>3 DEF ServerCreate
    <2>2. /\ Built(t) \in Metadata /\ Built(t).kind = t.metadata.kind
          /\ Built(t).kind \in Kinds /\ Built(t).uuid = n
      BY <1>1, BuiltProper
    <2>3. m = Built(t) /\ a = Built(t)
      BY <1>3
    <2> QED
      BY ONLY <1>2, <2>1, <2>2, <2>3
  <1>4. CASE Step(c) = "server_create_table"
    <2>1. /\ ServerWrites(NewMetadata("table", n)) /\ Then(c, t) /\ origin' = "create"
      BY <1>4 DEF ServerCreate
    <2>2. /\ NewMetadata("table", n) \in Metadata /\ NewMetadata("table", n).kind = "table"
          /\ NewMetadata("table", n).uuid = n
      BY <1>2, NewIs
    <2>3. m = NewMetadata("table", n) /\ a = t.metadata
      BY <1>4
    <2>4. [t EXCEPT !.metadata = t.metadata] = t
      BY <1>0 DEF Calls
    <2>5. t.metadata.uuid \in 0..n
      BY <1>0 DEF TaskOK, Held, Metadata
    <2>6. Then(c, [t EXCEPT !.metadata = a])
      BY ONLY <2>1, <2>3, <2>4
    <2> QED
      BY ONLY <1>0, <1>2, <2>1, <2>2, <2>3, <2>5, <2>6
  <1> QED
    BY <1>0, <1>3, <1>4

\* createTable and createView: the tabular itself, under a uuid nobody
\* committed to.
LEMMA ServerCreateKeeps ==
  ASSUME IInv, NEW c \in Clients, ServerCreate(c)
  PROVE  IInv'
  <1> DEFINE t == task[c]
             n == Len(files) + 1
             m == IF Step(c) = "server_create" THEN Built(t) ELSE NewMetadata("table", n)
             a == IF Step(c) = "server_create" THEN m ELSE t.metadata
  <1>0. /\ Base /\ TypeOK /\ FilesOK /\ AppliedOK /\ AppliedKept /\ TaskOK(c)
        /\ t.todo # <<>> /\ Step(c) \in {"server_create", "server_create_table"}
        /\ UNCHANGED <<service, cache, handle, acked, applied>>
    BY DEF IInv, Base, ServerCreate, At
  <1>1. /\ service = "rest" /\ RestOK(c) /\ Tail(t.todo) # <<>> /\ Tail(t.todo) \in Todos
        /\ t.op = "create" /\ Tail(t.todo) \in RestCreatePoints /\ t.metadata.kind \in Kinds
        /\ Head(Tail(t.todo)) \in
             (IF Step(c) = "server_create" THEN {"done", "cache"} ELSE {"server_create"})
    BY <1>0, RestRequests DEF RestOK
  <1>2. CASE pointer["main"] # NoTabular
    <2>1. Err(c) /\ UNCHANGED <<files, pointer, versions, origin>>
      BY <1>2 DEF ServerCreate
    <2> QED
      BY <1>0, <2>1, ErrKeeps DEF Shared
  <1>3. CASE pointer["main"] = NoTabular
    <2>1. /\ ServerWrites(m) /\ Then(c, [t EXCEPT !.metadata = a]) /\ origin' = "create"
          /\ m \in Metadata /\ m.kind \in Kinds /\ m.uuid = n /\ m.uuid \in 1..n
          /\ a \in Metadata /\ a.kind = t.metadata.kind /\ a.uuid \in 0..n
      BY <1>0, <1>3, ServerCreates
    <2>2. Step(c) = "server_create" => a = m
      OBVIOUS
    <2> HIDE DEF m, a
    <2>3. /\ pointer' \in [Ids -> [version : Nat, loc : Nat]] /\ versions' \in Nat \ {0}
          /\ versions' = versions + 1 /\ versions \in Nat
          /\ PointerOK' /\ FilesOK' /\ files' \in Seq(Metadata)
          /\ pointer'["main"].version \notin 1..versions
          /\ Current' = m
          /\ Len(files') = n /\ Len(files) \in Nat /\ files'[n] = m
          /\ \A l \in 1..Len(files) : files'[l] = files[l]
          /\ t.loc \in Nat /\ t.loc <= Len(files')
          /\ t.version \in Nat /\ t.version <= versions'
      BY <1>0, <2>1, WriteDoes
    <2>4. Grows
      BY <1>0, <2>1, <2>3 DEF Grows
    <2>5. AppliedOK'
      BY <1>0, <2>4, AppliedStays
    <2>6. Then(c, [t EXCEPT !.metadata = a, !.id = t.id])
      <3>1. t \in Calls
        BY <1>0 DEF TypeOK
      <3>2. [t EXCEPT !.metadata = a, !.id = t.id] = [t EXCEPT !.metadata = a]
        BY <3>1 DEF Calls
      <3> QED
        BY <2>1, <3>2
    <2>7. /\ task' \in [Clients -> Calls] /\ OthersStay(c)
          /\ Moves(c, t.id, t.loc, t.version, a)
      BY <1>0, <1>1, <2>1, <2>6, TaskFields, AnswerMoves
    <2>8. AppliedKept'
      <3> SUFFICES ASSUME NEW k \in applied PROVE k.uuid # n
        BY <1>0, <2>1, <2>3 DEF AppliedKept
      <3>1. k.id \in 1..Len(files) /\ k.uuid = files[k.id].uuid
        BY <1>0 DEF AppliedOK
      <3>2. files[k.id].uuid \in Nat /\ files[k.id].uuid <= Len(files)
        BY <1>0, <3>1 DEF FilesOK, Proper, Held, Metadata
      <3> QED
        BY <2>3, <3>1, <3>2
    <2>9. Held(task[c].metadata)'
      BY <2>1, <2>3, <2>7 DEF Moves, Held
    <2>10. Step(c) = "server_create" => Proper(task[c].metadata)'
      BY <2>1, <2>2, <2>3, <2>7, <2>9 DEF Moves, Proper
    <2>11. RestOK(c)'
      BY <1>0, <1>1, <2>1, <2>7, <2>10 DEF RestOK, At, AtOneOf, Step, Moves
    <2>12. TaskOK(c)'
      BY <1>0, <1>1, <2>3, <2>7, <2>9, <2>11 DEF TaskOK, Moves
    <2>13. TypeOK'
      BY <1>0, <2>1, <2>3, <2>7 DEF TypeOK
    <2> QED
      BY <1>0, <2>3, <2>4, <2>5, <2>7, <2>8, <2>12, <2>13, StateKeeps
  <1> QED
    BY <1>2, <1>3

\* updateTable and replaceView: the server builds on what it has.
LEMMA ServerUpdateKeeps ==
  ASSUME IInv, NEW c \in Clients, ServerUpdate(c)
  PROVE  IInv'
  <1> DEFINE t == task[c]
             n == Len(files) + 1
             m == apply_updates(Served, n)
             k == [id |-> n, uuid |-> m.uuid]
  <1>0. /\ Base /\ TypeOK /\ PointerOK /\ FilesOK /\ AppliedOK /\ AppliedKept
        /\ TaskOK(c) /\ t.todo # <<>> /\ Step(c) = "server_update"
        /\ UNCHANGED <<service, cache, handle, acked, origin>>
    BY DEF IInv, Base, ServerUpdate, At
  <1>1. /\ service = "rest" /\ RestOK(c) /\ Tail(t.todo) # <<>> /\ Tail(t.todo) \in Todos
        /\ t.op = "update" /\ Tail(t.todo) \in RestUpdatePoints /\ Head(Tail(t.todo)) = "done"
    BY <1>0, RestRequests
  <1>2. CASE Err(c) /\ UNCHANGED <<files, pointer, versions, applied>>
    BY <1>0, <1>2, ErrKeeps DEF Shared
  <1>3. CASE ~(Err(c) /\ UNCHANGED <<files, pointer, versions, applied>>)
    <2>1. /\ pointer["main"] # NoTabular
          /\ ServerWrites(m) /\ applied' = applied \cup {k}
          /\ Then(c, [t EXCEPT !.metadata = m, !.id = n])
      BY <1>3 DEF ServerUpdate
    <2>2. /\ pointer["main"].loc \in 1..Len(files) /\ Served \in Metadata
          /\ Served.kind \in Kinds /\ Served.uuid \in 1..Len(files) /\ Len(files) \in Nat /\ n \in Nat
      <3>1. pointer["main"].loc \in 1..Len(files) /\ Len(files) \in Nat
        BY <1>0, <1>1, <2>1, StateFields DEF PointerOK
      <3>2. Proper(Served)
        BY <1>0, <3>1 DEF FilesOK, Served
      <3> QED
        BY <3>1, <3>2 DEF Proper, Held, Metadata
    <2>3. Served = Current
      BY <2>2 DEF Served, Current
    <2>4. m \in Metadata /\ m.kind = Served.kind /\ m.uuid = Served.uuid /\ m.uuid \in 1..n
      <3>1. m \in Metadata /\ m.kind = Served.kind /\ m.uuid = Served.uuid
        BY <2>2, UpdatesApplied
      <3> QED
        BY ONLY <2>2, <3>1
    <2> HIDE DEF m
    <2>5. "main" \in Ids /\ service' = service
      BY <1>0 DEF Ids
    <2>6. /\ pointer' \in [Ids -> [version : Nat, loc : Nat]] /\ versions' \in Nat \ {0}
          /\ versions' = versions + 1 /\ versions \in Nat
          /\ PointerOK' /\ FilesOK' /\ files' \in Seq(Metadata)
          /\ pointer'["main"].version \notin 1..versions
          /\ Current' = m
          /\ Len(files') = n /\ files'[n] = m
          /\ \A l \in 1..Len(files) : files'[l] = files[l]
          /\ t.loc \in Nat /\ t.loc <= Len(files')
          /\ t.version \in Nat /\ t.version <= versions'
      BY <1>0, <2>1, <2>2, <2>4, <2>5, WriteDoes
    <2>7. Grows
      BY <1>0, <2>1, <2>2, <2>6 DEF Grows
    <2>8. /\ task' \in [Clients -> Calls] /\ OthersStay(c) /\ Moves(c, n, t.loc, t.version, m)
      BY <1>0, <1>1, <2>1, <2>2, <2>4, AnswerMoves
    <2>9. AppliedOK'
      <3>1. \A j \in applied : j.id \in 1..Len(files') /\ j.uuid = files'[j.id].uuid
        BY <1>0, <2>2, <2>6 DEF AppliedOK
      <3>2. k.id \in 1..Len(files') /\ k.uuid = files'[k.id].uuid
        BY <2>2, <2>6
      <3> QED
        BY <1>0, <2>1, <3>1, <3>2 DEF AppliedOK
    <2>10. AppliedKept'
      <3>1. Fenced' => Fenced
        BY <1>1, <2>5 DEF Fenced
      <3>2. Current' = apply_updates(Served, n) /\ k = [id |-> n, uuid |-> Served.uuid]
        BY <2>4, <2>6 DEF m
      <3> QED
        BY <1>0, <2>1, <2>2, <2>3, <3>1, <3>2, UpdateKept
    <2>11. Proper(task[c].metadata)' /\ Held(task[c].metadata)'
      BY <2>2, <2>4, <2>6, <2>8 DEF Moves, Proper, Held
    <2>12. Applied(c)'
      <3>1. task'[c].id = n /\ n \in 1..Len(files') /\ k \in applied'
        BY <2>1, <2>2, <2>6, <2>8 DEF Moves
      <3> QED
        BY <2>6, <3>1 DEF Applied
    <2>13. RestOK(c)'
      BY <1>1, <2>8, <2>11, <2>12 DEF RestOK, At, AtOneOf, Step, Moves
    <2>14. TaskOK(c)'
      BY <1>0, <1>1, <2>6, <2>8, <2>11, <2>13 DEF TaskOK, Moves
    <2>15. TypeOK'
      <3>1. k \in [id : Nat, uuid : Nat]
        BY <2>2, <2>4
      <3> QED
        BY <1>0, <2>1, <2>6, <2>8, <3>1 DEF TypeOK
    <2> QED
      BY <1>0, <2>6, <2>7, <2>8, <2>9, <2>10, <2>14, <2>15, StateKeeps
  <1> QED
    BY <1>2, <1>3

\* registerTable: the pointer goes to a metadata file that is in the store.
LEMMA ServerRegisterKeeps ==
  ASSUME IInv, NEW c \in Clients, ServerRegister(c)
  PROVE  IInv'
  <1> DEFINE t == task[c]
             m == files[t.loc]
  <1>0. /\ Base /\ TypeOK /\ PointerOK /\ FilesOK /\ AppliedOK
        /\ TaskOK(c) /\ t.todo # <<>> /\ Step(c) = "server_register"
        /\ UNCHANGED <<service, files, cache, handle, acked, applied>>
    BY DEF IInv, Base, ServerRegister, At
  <1>1. /\ service = "rest" /\ RestOK(c) /\ Tail(t.todo) # <<>> /\ Tail(t.todo) \in Todos
        /\ t.op = "register" /\ Tail(t.todo) \in RestRegisterPoints /\ Head(Tail(t.todo)) = "done"
    BY <1>0, RestRequests
  <1>2. CASE pointer["main"] # NoTabular
    <2>1. Err(c) /\ UNCHANGED <<pointer, versions, origin>>
      BY <1>2 DEF ServerRegister
    <2> QED
      BY <1>0, <2>1, ErrKeeps DEF Shared
  <1>3. CASE pointer["main"] = NoTabular
    <2>1. /\ pointer' = [pointer EXCEPT !["main"] = [version |-> NextVersion, loc |-> t.loc]]
          /\ versions' = NextVersion /\ origin' = "register"
          /\ Then(c, [t EXCEPT !.metadata = m])
      BY <1>3 DEF ServerRegister
    <2>2. /\ t.loc \in 1..Len(files) /\ m.kind = "table" /\ t.id \in Nat /\ t.loc \in Nat
          /\ t.version \in Nat /\ t.version <= versions /\ Len(files) \in Nat
          /\ "main" \in Ids /\ files' \in Seq(Metadata) /\ Len(files) <= Len(files') /\ files' = files
      <3>1. t.loc \in 1..Len(files) /\ m.kind = "table"
        BY <1>0, <1>1 DEF RestOK, At
      <3>2. t.id \in Nat /\ t.loc \in Nat /\ t.version \in Nat /\ t.version <= versions
        BY <1>0, TaskFields DEF TaskOK
      <3>3. /\ Len(files) \in Nat /\ files' = files /\ Len(files) <= Len(files')
            /\ "main" \in Ids /\ files' \in Seq(Metadata)
        BY <1>0, StateFields DEF Ids, TypeOK
      <3> QED
        BY <3>1, <3>2, <3>3
    <2>3. Proper(m) /\ Held(m) /\ m \in Metadata
      BY <1>0, <2>2 DEF FilesOK, Proper, Held
    <2>4. /\ pointer' \in [Ids -> [version : Nat, loc : Nat]] /\ versions' \in Nat \ {0}
          /\ versions' = versions + 1 /\ versions \in Nat /\ PointerOK'
          /\ pointer'["main"].loc = t.loc
          /\ pointer'["main"].version \notin 1..versions
      <3>1. t.loc <= Len(files') /\ t.loc >= 1 /\ service' = service
        BY <1>0, <2>2
      <3> QED
        BY <1>0, <2>1, <2>2, <3>1, PointerMoved
    <2>5. Grows
      BY <1>0, <2>1, <2>2, <2>4 DEF Grows
    <2>6. FilesOK' /\ AppliedOK'
      BY <1>0, <2>5, AppliedStays DEF FilesOK, Proper, Held
    <2>7. AppliedKept'
      BY <2>1 DEF AppliedKept
    <2>8. /\ task' \in [Clients -> Calls] /\ OthersStay(c) /\ Moves(c, t.id, t.loc, t.version, m)
      <3>1. t \in Calls
        BY <1>0 DEF TypeOK
      <3>2. [t EXCEPT !.metadata = m, !.id = t.id] = [t EXCEPT !.metadata = m]
        BY <3>1 DEF Calls
      <3>3. Then(c, [t EXCEPT !.metadata = m, !.id = t.id])
        BY <2>1, <3>2
      <3> QED
        BY <1>0, <1>1, <2>2, <2>3, <3>3, AnswerMoves
    <2>9. /\ Held(task[c].metadata)' /\ Proper(task[c].metadata)'
           /\ (task[c].loc <= Len(files))' /\ (task[c].version <= versions)'
      BY <2>2, <2>3, <2>4, <2>8 DEF Moves, Held, Proper
    <2>10. RestOK(c)'
      BY <1>1, <2>8, <2>9 DEF RestOK, At, AtOneOf, Step, Moves
    <2>11. TaskOK(c)'
      BY <1>0, <1>1, <2>8, <2>9, <2>10 DEF TaskOK, Moves
    <2>12. TypeOK'
      BY <1>0, <2>1, <2>4, <2>8 DEF TypeOK
    <2> QED
      BY <1>0, <2>4, <2>5, <2>6, <2>7, <2>8, <2>11, <2>12, StateKeeps
  <1> QED
    BY <1>2, <1>3

-----------------------------------------------------------------------------
(* Faults *)

\* A drop takes what the pointer named away, and with it what calls and
\* caches knew of it.
LEMMA DropKeeps ==
  ASSUME IInv, NEW c \in Clients, NEW s, Drop(c, s)
  PROVE  IInv'
  <1>0. /\ Base /\ TypeOK /\ PointerOK /\ FilesOK /\ AppliedOK /\ HandlesOK /\ CachesOK
        /\ \A d \in Clients : TaskOK(d)
        /\ service' = service /\ files' = files /\ cache' = cache /\ handle' = handle
        /\ task' = task /\ versions' = versions /\ acked' = acked /\ applied' = applied
        /\ origin' = origin /\ pointer' = [pointer EXCEPT !["main"] = NoTabular]
    BY DEF IInv, Base, Drop
  <1>1. pointer \in [Ids -> [version : Nat, loc : Nat]] /\ Ids = {"main", "storage"}
    BY <1>0 DEF TypeOK, Ids
  <1>2. NoTabular \in [version : Nat, loc : Nat] /\ NoTabular.version = 0 /\ NoTabular.loc = 0
    BY DEF NoTabular
  <1>3. /\ pointer' \in [Ids -> [version : Nat, loc : Nat]] /\ pointer'["main"] = NoTabular
        /\ pointer'["storage"] = pointer["storage"]
    BY <1>0, <1>1, <1>2
  <1>4. Grows
    BY <1>0, <1>2, <1>3, StateFields DEF Grows, TypeOK
  <1>5. TypeOK'
    BY <1>0, <1>3 DEF TypeOK
  <1>6. PointerOK' /\ FilesOK' /\ AppliedOK'
    <2>1. PointerOK'
      BY <1>0, <1>1, <1>2, <1>3, StateFields DEF PointerOK
    <2> QED
      BY <1>0, <1>4, <2>1, AppliedStays DEF FilesOK, Proper, Held
  <1>7. Current' = NoMetadata
    BY <1>2, <1>3 DEF Current
  <1>8. AppliedKept'
    <2>1. \A k \in applied : k.uuid # NoMetadata.uuid
      BY <1>0 DEF AppliedOK, FilesOK, Proper, NoMetadata
    <2> QED
      BY <1>0, <1>7, <2>1 DEF AppliedKept
  <1>9. TaskOK(c)'
    BY <1>0, <1>4, TaskKept
  <1> QED
    BY <1>0, <1>4, <1>5, <1>6, <1>8, <1>9, StateKeeps DEF OthersStay

\* A call that stops.
LEMMA FailKeeps ==
  ASSUME IInv, NEW c \in Clients, Fail(c)
  PROVE  IInv'
  BY ErrKeeps DEF Fail, Shared

-----------------------------------------------------------------------------
(* The invariant *)

\* A table, a view or a materialized view, or nothing.
LEMMA InitEstablishes ==
  ASSUME Deployment, Init
  PROVE  IInv
  <1>1. PICK fs \in {<<>>} \cup {<<NewMetadata(k, 1)>> : k \in Kinds} : files = fs
    BY DEF Init
  <1>2. files = <<>> \/ \E k \in Kinds : files = <<NewMetadata(k, 1)>>
    BY <1>1
  <1>3. /\ files \in Seq(Metadata) /\ Len(files) \in {0, 1} /\ (files # <<>> <=> Len(files) = 1)
        /\ FilesOK
    <2>1. CASE files = <<>>
      BY <2>1 DEF FilesOK
    <2>2. CASE files # <<>>
      <3>1. PICK k \in Kinds : files = <<NewMetadata(k, 1)>>
        BY <1>2, <2>2
      <3>2. /\ NewMetadata(k, 1) \in Metadata /\ NewMetadata(k, 1).kind = k
            /\ NewMetadata(k, 1).uuid = 1
        BY <3>1, NewIs
      <3> DEFINE m == NewMetadata(k, 1)
      <3> HIDE DEF m
      <3>3. files = <<m>> /\ m \in Metadata /\ m.kind \in Kinds /\ m.uuid = 1
        BY <3>1, <3>2 DEF m
      <3>4. files \in Seq(Metadata) /\ Len(files) = 1 /\ files[1] = m
        BY <3>3
      <3> QED
        BY <3>3, <3>4 DEF FilesOK, Proper, Held
    <2> QED
      BY <2>1, <2>2
  <1>4. /\ pointer \in [Ids -> [version : Nat, loc : Nat]]
        /\ \A i \in Ids : \/ pointer[i] = NoTabular
                          \/ pointer[i] = [version |-> 1, loc |-> 1] /\ Len(files) = 1
    <2>1. pointer = [i \in Ids |-> IF files # <<>> /\ (i = "main" \/ files[1].kind = "materialized_view")
                                   THEN [version |-> 1, loc |-> 1] ELSE NoTabular]
      BY DEF Init
    <2>2. "main" \in Ids /\ "storage" \in Ids /\ [version |-> 1, loc |-> 1] # NoTabular
          /\ NoTabular \in [version : Nat, loc : Nat]
          /\ [version |-> 1, loc |-> 1] \in [version : Nat, loc : Nat]
      BY DEF Ids, NoTabular
    <2> QED
      BY <1>3, <2>1, <2>2
  <1>5. /\ service \in {"glue", "s3tables", "rest"} /\ versions = 1 /\ acked = {} /\ applied = {}
        /\ origin = "existing" /\ cache = [i \in Instances |-> NoEntry]
        /\ handle = [d \in Clients |-> NoMetadata] /\ task = [d \in Clients |-> IdleTask]
    BY DEF Init, Deployment
  <1>6. NoEntry \in [version : Nat, loc : Nat, metadata : Metadata] /\ NoMetadata \in Metadata
        /\ NoMetadata.uuid = 0
    BY DEF NoEntry, NoMetadata, Metadata
  <1>7. TypeOK
    BY <1>3, <1>4, <1>5, <1>6, IdleTyped DEF TypeOK
  <1>8. PointerOK
    <2>1. "main" \in Ids /\ NoTabular.loc = 0
      BY DEF Ids, NoTabular
    <2> QED
      BY <1>3, <1>4, <1>5, <2>1 DEF PointerOK
  <1>9. AppliedOK /\ HandlesOK /\ CachesOK /\ AppliedKept
    BY <1>5 DEF AppliedOK, HandlesOK, CachesOK, EntryOK, AppliedKept
  <1>10. ASSUME NEW d \in Clients PROVE TaskOK(d)
    BY <1>3, <1>5, <1>6, IdleTyped DEF TaskOK, Held
  <1> QED
    BY <1>3, <1>7, <1>8, <1>9, <1>10 DEF IInv

\* Nothing happens.
LEMMA StutterKeeps ==
  ASSUME IInv, UNCHANGED vars
  PROVE  IInv'
  <1>1. /\ Base /\ TypeOK /\ CachesOK /\ AppliedKept
        /\ UNCHANGED Shared /\ cache' = cache /\ handle' = handle /\ task' = task /\ acked' = acked
    BY DEF IInv, Base, vars, Shared
  <1>2. Grows /\ MainKept
    BY <1>1, SharedGrows
  <1>3. \A d \in Clients : TaskOK(d)'
    BY <1>1, <1>2, TaskKept DEF IInv
  <1>4. CachesOK' /\ AppliedKept'
    BY <1>1, <1>2, CachesKept, AppliedKeptKept
  <1>5. TypeOK' /\ PointerOK' /\ FilesOK' /\ AppliedOK' /\ HandlesOK'
    BY <1>1 DEF IInv, Base, Shared, TypeOK, PointerOK, FilesOK, AppliedOK, HandlesOK, Proper, Held
  <1> QED
    BY <1>3, <1>4, <1>5 DEF IInv

\* Every step of every client.
LEMMA StepKeeps ==
  ASSUME Deployment, IInv, [Next]_vars
  PROVE  IInv'
  <1>1. CASE UNCHANGED vars
    BY <1>1, StutterKeeps
  <1>2. ASSUME NEW c \in Clients, Call(c)
        PROVE  IInv'
    BY <1>2, LoadKeeps, CreateKeeps, RegisterKeeps, UpdateKeeps, DropKeeps
       DEF Call, glue_drop, s3_drop, rest_drop
  <1>3. ASSUME NEW c \in Clients, Proceed(c)
        PROVE  IInv'
    BY <1>3, PutKeeps, MainCreateKeeps, StorageCreateKeeps, GetKeeps, MainSwapKeeps, StorageSwapKeeps,
       ReadKeeps, ServerLoadKeeps, ServerCreateKeeps, ServerUpdateKeeps, ServerRegisterKeeps,
       CacheEntryKeeps, DoneKeeps
       DEF Proceed
  <1>4. ASSUME NEW c \in Clients, Fail(c)
        PROVE  IInv'
    BY <1>4, FailKeeps
  <1> QED
    BY <1>1, <1>2, <1>3, <1>4 DEF Next

\* The inductive invariant holds always.
THEOREM InvariantHolds == Deployment => (Spec => []IInv)
  <1> SUFFICES ASSUME Deployment PROVE Spec => []IInv
    OBVIOUS
  <1>1. Init => IInv
    BY InitEstablishes
  <1>2. IInv /\ [Next]_vars => IInv'
    BY StepKeeps
  <1> QED
    BY <1>1, <1>2, PTL DEF Spec

\* What was acknowledged was applied, and what was applied is kept.
LEMMA Implied ==
  ASSUME Deployment, IInv
  PROVE  CommitsKept /\ CacheMatchesVersion
  <1>1. CommitsKept
    BY DEF IInv, AppliedOK, AppliedKept, CommitsKept
  <1>2. CacheMatchesVersion
    BY DEF IInv, CachesOK, EntryOK, CacheMatchesVersion
  <1> QED
    BY <1>1, <1>2

\* A commit that a catalog reported Ok stays in the history of its table, view
\* or materialized view, however the requests of all clients interleave, fail
\* or lose their replies.
THEOREM CommitsKeptAlways == Deployment => (Spec => []CommitsKept)
  <1> SUFFICES ASSUME Deployment PROVE Spec => []CommitsKept
    OBVIOUS
  <1>1. IInv => CommitsKept
    BY Implied
  <1> QED
    BY <1>1, InvariantHolds, PTL

\* A cached version id that is the current one comes with the current
\* metadata: the requirements checked on the cache hold of what the swap
\* replaces.
THEOREM CacheMatchesVersionAlways == Deployment => (Spec => []CacheMatchesVersion)
  <1> SUFFICES ASSUME Deployment PROVE Spec => []CacheMatchesVersion
    OBVIOUS
  <1>1. IInv => CacheMatchesVersion
    BY Implied
  <1> QED
    BY <1>1, InvariantHolds, PTL

-----------------------------------------------------------------------------
(* Without faults, an applied commit is reported *)

FilesStay ==
  /\ Len(files') \in Nat /\ Len(files) \in Nat /\ Len(files) <= Len(files')
  /\ \A l \in 1..Len(files) : files'[l] = files[l]

KindKept == pointer["main"] # NoTabular => pointer'["main"] # NoTabular /\ Current'.kind = Current.kind

\* "main" comes to be in one step, which is the one that sets origin.
MainStays ==
  /\ pointer["main"] # NoTabular => pointer'["main"] # NoTabular /\ origin' = origin
  /\ origin' = origin \/ pointer'["main"] # NoTabular

\* What a call knows of kinds stays true for a step of another.
LEMMA KnownStays ==
  ASSUME TypeOK, NEW d \in Clients, TaskOK(d), FilesStay, KindKept, service' = service, service # "s3tables",
         task'[d] = task[d], handle'[d] = handle[d], CallKnown(d)
  PROVE  CallKnown(d)'
  <1> DEFINE t == task[d]
  <1>1. t.op = "load" /\ AtOneOf(d, {"read", "cache"}) /\ service = "glue" => t.loc \in 1..Len(files)
    BY IdleTyped DEF TaskOK, LoadOK, AtOneOf
  <1>2. t.loc \in Nat /\ t.loc <= Len(files) /\ Len(files) \in Nat
    BY TaskFields DEF TaskOK, FilesStay
  <1>3. t.loc >= 1 => files'[t.loc] = files[t.loc]
    BY <1>2 DEF FilesStay
  <1>4. CASE service = "glue"
    <2>1. GlueKnown(d)
      BY <1>4 DEF CallKnown
    <2>2. GlueKnown(d)'
      BY <1>2, <1>3, <2>1 DEF GlueKnown, KnownKind, KindKept, AtOneOf, At, Step
    <2> QED
      BY <1>4, <2>2 DEF CallKnown
  <1>5. CASE service # "glue"
    <2>1. RestKnown(d)
      BY <1>5 DEF CallKnown
    <2>2. RestKnown(d)'
      BY <2>1 DEF RestKnown, KnownKind, KindKept, AtOneOf, At, Step
    <2> QED
      BY <1>5, <2>2 DEF CallKnown
  <1> QED
    BY <1>4, <1>5

\* A step that leaves the caches and what the callers hold alone.
LEMMA StepReports ==
  ASSUME IInv, RInv, NEW c \in Clients, FilesStay, MainStays, OthersStay(c), service' = service,
         UNCHANGED <<faults, cache, handle, acked>>,
         faults = 0 /\ service # "s3tables" /\ Registering(c)' => origin' = "register",
         Quiet /\ origin' # "register" /\ service # "s3tables" /\ KindsKnown =>
           /\ KindKept /\ CallKnown(c)'
           /\ pointer'["main"] # NoTabular => pointer'["main"].loc >= 1,
         Quiet /\ origin' # "register" /\ PastSwap(c) => PastSwap(c)' /\ task'[c].id = task[c].id,
         \A k \in applied' : k \in applied \/ (PastSwap(c)' /\ task'[c].id = k.id)
  PROVE  RInv'
  <1>1. TypeOK /\ (\A d \in Clients : TaskOK(d)) /\ faults' = faults /\ cache' = cache
        /\ handle' = handle /\ acked' = acked
    BY DEF IInv
  <1>2. faults = 0 /\ origin' # "register" => Quiet
    BY DEF RInv, OriginOK, MainStays, Quiet
  <1>3. OriginOK'
    BY <1>1 DEF RInv, OriginOK, MainStays
  <1>4. ASSUME faults = 0, service # "s3tables", NEW d \in Clients, Registering(d)'
        PROVE  origin' = "register"
    <2>1. CASE d = c
      BY <1>4, <2>1
    <2>2. CASE d # c
      <3>1. Registering(d)
        BY <1>4, <2>2 DEF OthersStay, Registering, AtOneOf, Step
      <3>2. origin = "register"
        BY <1>4, <3>1 DEF RInv
      <3> QED
        BY <1>4, <3>2 DEF RInv, OriginOK, MainStays
    <2> QED
      BY <2>1, <2>2
  <1>5. ASSUME Quiet', service # "s3tables"
        PROVE  KindsKnown'
    <2>1. Quiet /\ KindsKnown
      BY <1>1, <1>2, <1>5 DEF Quiet, RInv
    <2>2. /\ KindKept /\ CallKnown(c)'
          /\ pointer'["main"] # NoTabular => pointer'["main"].loc >= 1
      BY <1>5, <2>1 DEF Quiet
    <2>3. ASSUME NEW i \in Instances PROVE CacheKnown(i)'
      BY <1>1, <2>1, <2>2 DEF KindsKnown, CacheKnown, KnownKind, KindKept
    <2>4. ASSUME NEW d \in Clients PROVE HandleKnown(d)'
      BY <1>1, <2>1, <2>2 DEF KindsKnown, HandleKnown, KnownKind, KindKept
    <2>5. ASSUME NEW d \in Clients PROVE CallKnown(d)'
      <3>1. CASE d = c
        BY <2>2, <3>1
      <3>2. CASE d # c
        <4>1. CallKnown(d) /\ task'[d] = task[d] /\ handle'[d] = handle[d]
          BY <1>1, <2>1, <3>2 DEF KindsKnown, OthersStay
        <4> QED
          BY <1>1, <1>5, <2>2, <4>1, KnownStays
      <3> QED
        BY <3>1, <3>2
    <2> QED
      BY <2>2, <2>3, <2>4, <2>5 DEF KindsKnown, Instances
  <1>6. ASSUME Quiet', NEW k \in applied'
        PROVE  k \in acked \/ Reporting(k)'
    <2>1. Quiet /\ origin' # "register"
      BY <1>1, <1>2, <1>6 DEF Quiet
    <2>2. CASE PastSwap(c)' /\ task'[c].id = k.id
      BY <2>2 DEF Reporting
    <2>3. CASE k \in applied
      <3>1. k \in acked \/ Reporting(k)
        BY <2>1, <2>3 DEF RInv
      <3>2. ASSUME NEW d \in Clients, PastSwap(d), task[d].id = k.id
            PROVE  PastSwap(d)' /\ task'[d].id = k.id
        <4>1. CASE d = c
          BY <2>1, <3>2, <4>1
        <4>2. CASE d # c
          BY <3>2, <4>2 DEF OthersStay, PastSwap, AtOneOf, Step
        <4> QED
          BY <4>1, <4>2
      <3> QED
        BY <3>1, <3>2 DEF Reporting
    <2> QED
      BY <1>6, <2>2, <2>3
  <1> QED
    BY <1>1, <1>3, <1>4, <1>5, <1>6 DEF RInv

\* A step that changes only the call that makes it.
LEMMA LocalReports ==
  ASSUME IInv, RInv, NEW c \in Clients, OthersStay(c), UNCHANGED <<Shared, faults, cache, handle, acked>>,
         faults = 0 /\ service # "s3tables" /\ Registering(c)' => origin = "register",
         Quiet /\ service # "s3tables" /\ KindsKnown => CallKnown(c)',
         Quiet /\ PastSwap(c) => PastSwap(c)' /\ task'[c].id = task[c].id
  PROVE  RInv'
  <1>1. /\ service' = service /\ pointer' = pointer /\ files' = files /\ applied' = applied
        /\ origin' = origin /\ UNCHANGED <<faults, cache, handle, acked>>
    BY DEF Shared
  <1>2. FilesStay /\ MainStays /\ KindKept
    BY <1>1, StateFields DEF IInv, FilesStay, MainStays, KindKept, Current
  <1>3. Quiet /\ service # "s3tables" /\ KindsKnown =>
          (pointer'["main"] # NoTabular => pointer'["main"].loc >= 1)
    BY <1>1 DEF KindsKnown
  <1> QED
    BY <1>1, <1>2, <1>3, StepReports

\* A call that ends with an error, unless it is an update past its swap.
LEMMA ErrReports ==
  ASSUME IInv, RInv, NEW c \in Clients, UNCHANGED <<Shared, faults, cache, handle, acked>>, Err(c),
         Quiet => ~PastSwap(c)
  PROVE  RInv'
  <1>1. OthersStay(c) /\ task'[c] = IdleTask
    BY EndTyped DEF IInv, Err
  <1>2. ~Registering(c)'
    BY <1>1 DEF Registering, IdleTask
  <1>3. CallKnown(c)'
    BY <1>1 DEF CallKnown, GlueKnown, RestKnown, At, AtOneOf, IdleTask
  <1> QED
    BY <1>1, <1>2, <1>3, LocalReports

-----------------------------------------------------------------------------
(* Calls begin *)

\* A call that begins has no request behind it.
LEMMA BeginReports ==
  ASSUME IInv, RInv, NEW c \in Clients, NEW r \in Calls, Begin(c, r),
         r.op \in {"load", "create", "register", "update"},
         r.op = "load" => Head(r.todo) \in {"get", "load_table"},
         r.op = "create" =>
           Head(r.todo) \in {"put", "create_bare", "server_create", "server_create_table"},
         r.op = "register" => Head(r.todo) \in {"read_registered", "server_register"},
         r.op = "update" => Head(r.todo) \in {"put", "server_update"},
         r.op = "create" /\ service = "rest" /\ r.metadata.kind = "table" =>
           r.todo = <<"server_create", "cache">>,
         r.op = "update" /\ KindsKnown =>
           /\ service = "glue" => KnownKind(r.metadata)
           /\ service = "rest" => handle[c] # NoMetadata
  PROVE  RInv'
  <1>1. /\ UNCHANGED <<Shared, faults, cache, handle, acked>> /\ task[c] = IdleTask
        /\ task' = [task EXCEPT ![c] = r] /\ TypeOK
        /\ pointer' = pointer /\ files' = files /\ service' = service /\ handle' = handle
    BY DEF Begin, Shared, IInv
  <1>2. OthersStay(c) /\ task'[c] = r
    BY <1>1 DEF TypeOK, OthersStay
  <1>3. ~PastSwap(c)
    BY <1>1 DEF PastSwap, IdleTask
  <1>4. ~Registering(c)'
    BY <1>2 DEF Registering, AtOneOf, Step
  <1>5. service # "s3tables" /\ KindsKnown => CallKnown(c)'
    <2> SUFFICES ASSUME service # "s3tables", KindsKnown PROVE CallKnown(c)'
      OBVIOUS
    <2>1. CASE service = "glue"
      <3>1. GlueKnown(c)'
        BY <1>1, <1>2, <2>1 DEF GlueKnown, AtOneOf, At, Step, KnownKind, Current
      <3> QED
        BY <1>1, <2>1, <3>1 DEF CallKnown
    <2>2. CASE service = "rest"
      <3>1. RestKnown(c)'
        BY <1>1, <1>2, <2>2 DEF RestKnown, AtOneOf, At, Step
      <3> QED
        BY <1>1, <2>2, <3>1 DEF CallKnown
    <2> QED
      BY <1>1, <2>1, <2>2 DEF TypeOK
  <1> QED
    BY <1>1, <1>2, <1>3, <1>4, <1>5, LocalReports

\* load_tabular.
LEMMA LoadReports ==
  ASSUME IInv, RInv, NEW c \in Clients, load_tabular(c)
  PROVE  RInv'
  <1> DEFINE p == Program("load", "table")
             r == [IdleTask EXCEPT !.op = "load", !.todo = p]
  <1>0. TypeOK /\ Begin(c, r) /\ "table" \in Kinds
    BY DEF IInv, load_tabular, Kinds
  <1>1. p \in Todos /\ Head(p) \in {"get", "load_table"}
    BY <1>0, GluePrograms, S3Programs, RestPrograms, LoadNext, RestLoadNext DEF TypeOK
  <1> HIDE DEF p
  <1>2. r \in Calls /\ r.op = "load" /\ r.todo = p
    BY <1>1, IdleTyped DEF Calls
  <1> HIDE DEF r
  <1> QED
    BY <1>0, <1>1, <1>2, BeginReports

\* create_table, create_view and create_materialized_view.
LEMMA CreateReports ==
  ASSUME IInv, RInv, NEW c \in Clients, create(c)
  PROVE  RInv'
  <1>1. PICK k \in Kinds :
          Begin(c, [IdleTask EXCEPT !.op = "create", !.todo = Program("create", k),
                                    !.metadata = NewMetadata(k, 0)])
    BY DEF create
  <1> DEFINE p == Program("create", k)
             m == NewMetadata(k, 0)
             r == [IdleTask EXCEPT !.op = "create", !.todo = p, !.metadata = m]
  <1>0. TypeOK /\ Begin(c, r)
    BY <1>1 DEF IInv
  <1>2. /\ p \in Todos
        /\ Head(p) \in {"put", "create_bare", "server_create", "server_create_table"}
    BY <1>0, GluePrograms, S3Programs, RestPrograms, GlueCreateNext, S3BeforeNext, RestCreateNext
       DEF TypeOK
  <1>3. service = "rest" /\ k = "table" => p = <<"server_create", "cache">>
    BY DEF Program, Methods, Of, Kinds, rest_create_table
  <1> HIDE DEF p
  <1>4. m \in Metadata /\ m.kind = k
    BY <1>1, NewIs
  <1> HIDE DEF m
  <1>5. r \in Calls /\ r.op = "create" /\ r.todo = p /\ r.metadata = m
    BY <1>2, <1>4, IdleTyped DEF Calls
  <1> HIDE DEF r
  <1> QED
    BY <1>0, <1>2, <1>3, <1>4, <1>5, BeginReports

\* register_table.
LEMMA RegisterReports ==
  ASSUME IInv, RInv, NEW c \in Clients, register_table(c)
  PROVE  RInv'
  <1> DEFINE p == Program("register", "table")
             r == [IdleTask EXCEPT !.op = "register", !.todo = p, !.loc = 1]
  <1>0. TypeOK /\ Begin(c, r) /\ "table" \in Kinds
    BY DEF IInv, register_table, Kinds
  <1>1. p \in Todos /\ Head(p) \in {"read_registered", "server_register"}
    BY <1>0, GluePrograms, S3Programs, RestPrograms, GlueRegisterNext, S3RegisterNext, RestRegisterNext
       DEF TypeOK
  <1> HIDE DEF p
  <1>2. r \in Calls /\ r.op = "register" /\ r.todo = p
    BY <1>1, IdleTyped DEF Calls
  <1> HIDE DEF r
  <1> QED
    BY <1>0, <1>1, <1>2, BeginReports

\* update_table, update_view and update_materialized_view: the kind of the
\* cached entry is the one of what is there.
LEMMA UpdateReports ==
  ASSUME Deployment, IInv, RInv, NEW c \in Clients, update(c)
  PROVE  RInv'
  <1> DEFINE k == handle[c].kind
             i == InstanceOf[c]
             e == cache[i]
             p == Program("update", k)
  <1>0. TypeOK /\ handle[c] # NoMetadata /\ k \in Kinds
    BY DEF IInv, update, HandlesOK, Proper
  <1>1. p \in Todos /\ Head(p) \in {"put", "server_update"}
    BY <1>0, GluePrograms, S3Programs, RestPrograms, GlueUpdateNext, S3UpdateNext, RestUpdateNext
       DEF TypeOK
  <1>2. CASE service = "rest"
    <2> DEFINE r == [IdleTask EXCEPT !.op = "update", !.todo = p]
    <2>1. Begin(c, r)
      BY <1>2 DEF update
    <2> HIDE DEF p
    <2>2. r \in Calls /\ r.op = "update" /\ r.todo = p
      BY <1>1, IdleTyped DEF Calls
    <2> HIDE DEF r
    <2> QED
      BY <1>0, <1>1, <1>2, <2>1, <2>2, BeginReports
  <1>3. CASE service # "rest"
    <2> DEFINE r == [IdleTask EXCEPT !.op = "update", !.todo = p, !.version = e.version,
                                     !.metadata = e.metadata]
    <2>1. Begin(c, r) /\ e # NoEntry
      BY <1>3 DEF update
    <2>2. i \in Instances
      BY DEF Deployment, Instances, Range
    <2>3. e.version \in Nat /\ e.metadata \in Metadata
      BY <1>0, <2>2 DEF TypeOK
    <2>4. service = "glue" /\ KindsKnown => KnownKind(e.metadata)
      BY <2>1, <2>2 DEF KindsKnown, CacheKnown
    <2> HIDE DEF p, e
    <2>5. r \in Calls /\ r.op = "update" /\ r.todo = p /\ r.metadata = e.metadata
      BY <1>1, <2>3, IdleTyped DEF Calls
    <2> HIDE DEF r
    <2> QED
      BY <1>1, <1>3, <2>1, <2>4, <2>5, BeginReports
  <1> QED
    BY <1>2, <1>3

-----------------------------------------------------------------------------
(* Requests of Glue and S3 Tables *)

\* The next request: what Then does, whatever the requests after it.
LEMMA ThenIs ==
  ASSUME TypeOK, NEW c \in Clients, NEW r \in Calls, Then(c, r)
  PROVE  /\ OthersStay(c)
         /\ task'[c].todo = Tail(r.todo) /\ task'[c].op = r.op /\ task'[c].id = r.id
         /\ task'[c].loc = r.loc /\ task'[c].metadata = r.metadata
  <1>1. task' = [task EXCEPT ![c] = [r EXCEPT !.todo = Tail(@)]]
    BY DEF Then
  <1>2. OthersStay(c)
    BY <1>1 DEF TypeOK, OthersStay
  <1>3. task'[c] = [r EXCEPT !.todo = Tail(@)]
    BY <1>1 DEF TypeOK
  <1> QED
    BY <1>2, <1>3 DEF Calls

\* The requests after the one a call is to make.
LEMMA NextRequest ==
  ASSUME NEW c \in Clients, TypeOK, TaskOK(c), task[c].todo # <<>>, service # "rest"
  PROVE  /\ task[c].op \in {"load", "create", "update", "register"}
         /\ task[c].op = "load" => Step(c) \in {"get", "read", "cache"}
         /\ task[c].op = "update" => Step(c) \in {"put", "swap", "get", "reread", "cache"}
         /\ task[c].op = "update" /\ Step(c) # "cache" =>
              Tail(task[c].todo) # <<>> /\ Head(Tail(task[c].todo)) \in {"swap", "get", "reread", "cache"}
         /\ task[c].op = "update" /\ Step(c) = "put" => Head(Tail(task[c].todo)) = "swap"
         /\ task[c].op = "update" /\ Step(c) = "swap" => Head(Tail(task[c].todo)) \in {"get", "reread"}
         /\ task[c].op = "update" /\ service = "glue" /\ Step(c) = "swap" => Head(Tail(task[c].todo)) = "get"
         /\ task[c].op = "update" /\ Step(c) = "get" => Head(Tail(task[c].todo)) = "reread"
         /\ task[c].op = "update" /\ Step(c) = "reread" => Head(Tail(task[c].todo)) = "cache"
         /\ service = "glue" /\ task[c].op = "create" /\ Step(c) \in {"put", "put_storage"} =>
              Head(Tail(task[c].todo)) \in {"put_storage", "create"}
         /\ service = "glue" /\ task[c].op = "register" /\ Step(c) = "read_registered" =>
              Head(Tail(task[c].todo)) = "create_bare"
  <1>1. CASE task[c].op = "load" /\ LoadOK(c)
    BY <1>1, LoadNext DEF LoadOK, Step
  <1>2. CASE task[c].op = "update" /\ UpdateOK(c) /\ service = "glue"
    <2>1. task[c].todo \in GlueUpdatePoints
      BY <1>2 DEF UpdateOK
    <2>2. Step(c) # "cache" => Tail(task[c].todo) \in GlueUpdatePoints
      BY <2>1, GlueUpdateNext DEF Step
    <2> QED
      BY <1>2, <2>1, <2>2, GlueUpdateNext DEF Step
  <1>3. CASE task[c].op = "update" /\ UpdateOK(c) /\ service = "s3tables"
    <2>1. task[c].todo \in S3UpdatePoints
      BY <1>3 DEF UpdateOK
    <2>2. Step(c) # "cache" => Tail(task[c].todo) \in S3UpdatePoints
      BY <2>1, S3UpdateNext DEF Step
    <2> QED
      BY <1>3, <2>1, <2>2, S3UpdateNext DEF Step
  <1>4. CASE service = "glue" /\ task[c].op = "create" /\ GlueCreateOK(c)
    BY <1>4, GlueCreateNext DEF GlueCreateOK, Step
  <1>5. CASE service = "glue" /\ task[c].op = "register" /\ GlueRegisterOK(c)
    BY <1>5, GlueRegisterNext DEF GlueRegisterOK, Step
  <1>6. CASE service = "s3tables" /\ task[c].op \in {"create", "register"}
    BY <1>6
  <1> QED
    BY <1>1, <1>2, <1>3, <1>4, <1>5, <1>6, IdleTyped DEF TaskOK, TypeOK

\* put_metadata.
LEMMA PutReports ==
  ASSUME IInv, RInv, NEW c \in Clients, Put(c)
  PROVE  RInv'
  <1> DEFINE t == task[c]
             n == Len(files) + 1
  <1>0. /\ TypeOK /\ TaskOK(c) /\ t \in Calls /\ t.todo # <<>> /\ Step(c) \in {"put", "put_storage"}
        /\ UNCHANGED <<service, pointer, versions, applied, origin, acked, cache, handle, faults>>
    BY DEF IInv, Put, At, TypeOK
  <1>1. /\ service # "rest" /\ t.op \in {"update", "create"} /\ (t.op = "update" => Step(c) = "put")
        /\ n \in Nat
    BY <1>0, Requests, StateFields
  <1>2. t.metadata.kind \in Kinds /\ t.metadata \in Metadata
    <2>1. t.todo \notin S3AfterPoints
      BY <1>0, S3AfterNext DEF Step
    <2> QED
      BY <1>0, <2>1, Requests, TaskFields DEF UpdateOK, At, Proper, GlueCreateOK, S3CreateOK
  <1>3. FilesStay
    <2>1. files' = Append(files, Built(t)) \/ files' = Append(files, NewMetadata("table", n))
      BY <1>0 DEF Put, put_metadata
    <2> QED
      BY <1>0, <2>1 DEF FilesStay, TypeOK
  <1>4. MainStays /\ KindKept
    <2>1. pointer["main"].loc = 0 \/ pointer["main"].loc \in 1..Len(files)
      BY <1>0, StateFields DEF IInv, PointerOK
    <2> QED
      BY <1>0, <1>3, <2>1 DEF MainStays, KindKept, Current, FilesStay
  <1>5. /\ OthersStay(c) /\ task'[c].op = t.op /\ task'[c].todo = Tail(t.todo)
        /\ task'[c].metadata.kind = t.metadata.kind
    <2>1. CASE Step(c) = "put"
      <3> DEFINE r == [t EXCEPT !.id = n, !.loc = n, !.metadata = Built(t)]
      <3>1. Then(c, r)
        BY <2>1 DEF Put
      <3>2. Built(t) \in Metadata /\ Built(t).kind = t.metadata.kind
        <4>1. t.op = "update" => Proper(t.metadata)
          BY <1>0, <2>1, Requests DEF UpdateOK, At
        <4> QED
          BY <1>0, <1>1, <1>2, <4>1, BuiltProper
      <3>3. r \in Calls /\ r.op = t.op /\ r.todo = t.todo /\ r.metadata = Built(t)
        BY <1>0, <1>1, <3>2 DEF Calls
      <3> QED
        BY ZenonT(60), <1>0, <3>1, <3>2, <3>3, ThenIs
    <2>2. CASE Step(c) = "put_storage"
      <3> DEFINE r == [t EXCEPT !.storage.loc = n]
      <3>1. Then(c, r)
        BY <2>2 DEF Put
      <3>2. r \in Calls /\ r.op = t.op /\ r.todo = t.todo /\ r.metadata = t.metadata
        BY <1>0, <1>1 DEF Calls
      <3> QED
        BY <1>0, <3>1, <3>2, ThenIs
    <2> QED
      BY <1>0, <2>1, <2>2
  <1>6. ~Registering(c)' /\ ~PastSwap(c)
    BY <1>0, <1>1, <1>5 DEF Registering, PastSwap, AtOneOf
  <1>7. KindsKnown /\ service # "s3tables" => CallKnown(c)'
    <2> SUFFICES ASSUME KindsKnown, service = "glue" PROVE GlueKnown(c)'
      BY <1>0, <1>1 DEF CallKnown, TypeOK
    <2>1. GlueKnown(c) /\ KindKept
      BY <1>4 DEF KindsKnown, CallKnown
    <2>2. t.op = "update" => Head(Tail(t.todo)) = "swap"
      BY <1>0, <1>1, NextRequest
    <2>3. t.op = "create" => Head(Tail(t.todo)) \in {"put_storage", "create"}
      BY <1>0, <1>1, NextRequest
    <2> QED
      BY <1>1, <1>5, <2>1, <2>2, <2>3 DEF GlueKnown, KnownKind, KindKept, At, AtOneOf, Step
  <1>8. KindsKnown => (pointer'["main"] # NoTabular => pointer'["main"].loc >= 1)
    BY <1>0 DEF KindsKnown
  <1> QED
    BY <1>0, <1>3, <1>4, <1>5, <1>6, <1>7, <1>8, StepReports

\* The services' create_table.  While nothing fails nobody knows anything of
\* a "main" that was not there.
LEMMA ServiceCreateReports ==
  ASSUME IInv, RInv, NEW c \in Clients, ServiceCreate(c)
  PROVE  RInv'
  <1> DEFINE t == task[c]
             id == IF Step(c) \in {"create", "create_bare"} THEN "main" ELSE "storage"
             loc == CASE Step(c) = "create" -> t.loc
                      [] Step(c) = "create_storage" -> t.storage.loc
                      [] OTHER -> 0
             r == IF id = "main" THEN [t EXCEPT !.version = NextVersion]
                  ELSE [t EXCEPT !.storage.version = NextVersion]
  <1>0. /\ TypeOK /\ TaskOK(c) /\ t \in Calls /\ t.todo # <<>>
        /\ Step(c) \in {"create", "create_bare", "create_storage", "create_bare_storage"}
        /\ UNCHANGED <<service, files, applied, acked, cache, handle, faults>>
    BY DEF IInv, ServiceCreate, TypeOK
  <1>1. /\ service # "rest" /\ t.op \in {"create", "register"}
        /\ service = "glue" => /\ Step(c) # "create_bare_storage"
                               /\ Step(c) = "create_bare" <=> t.op = "register"
                               /\ t.op = "create" => GlueCreateOK(c)
    BY <1>0, Requests
  <1>2. ~PastSwap(c)
    BY <1>1 DEF PastSwap
  <1>3. CASE pointer[id] # NoTabular
    <2>1. Err(c) /\ UNCHANGED <<pointer, versions, origin>>
      BY <1>3 DEF ServiceCreate
    <2> QED
      BY <1>0, <1>2, <2>1, ErrReports DEF Shared
  <1>4. CASE pointer[id] = NoTabular
    <2>1. /\ pointer' = [pointer EXCEPT ![id] = [version |-> NextVersion, loc |-> loc]]
          /\ origin' = IF id = "main" THEN t.op ELSE origin
          /\ Then(c, r)
      BY <1>4 DEF ServiceCreate
    <2>2. /\ OthersStay(c) /\ task'[c].op = t.op /\ task'[c].todo = Tail(t.todo)
          /\ task'[c].id = t.id /\ task'[c].metadata = t.metadata
      <3>1. NextVersion \in Nat
        BY <1>0 DEF NextVersion, TypeOK
      <3>2. /\ r \in Calls /\ r.op = t.op /\ r.todo = t.todo /\ r.id = t.id
            /\ r.metadata = t.metadata
        BY <1>0, <3>1 DEF Calls
      <3> HIDE DEF r
      <3> QED
        BY <1>0, <2>1, <3>2, ThenIs
    <2>3. FilesStay
      BY <1>0, StateFields DEF FilesStay
    <2>4. /\ id = "main" => pointer["main"] = NoTabular /\ pointer'["main"].loc = loc
                            /\ pointer'["main"] # NoTabular
          /\ id = "storage" => pointer'["main"] = pointer["main"]
      <3>1. "main" \in Ids /\ NextVersion # 0
        BY <1>0 DEF Ids, NextVersion, TypeOK
      <3> HIDE DEF loc
      <3> QED
        BY <1>0, <1>4, <2>1, <3>1 DEF TypeOK, NoTabular
    <2>5. MainStays
      BY <2>1, <2>4 DEF MainStays
    <2>6. KindKept
      BY <1>0, <2>4 DEF KindKept, Current
    <2>7. faults = 0 /\ service # "s3tables" /\ Registering(c)' => origin' = "register"
      <3> SUFFICES ASSUME faults = 0, service # "s3tables", Registering(c)' PROVE origin' = "register"
        OBVIOUS
      <3>1. t.op = "register" /\ service = "glue"
        BY <1>0, <1>1, <2>2 DEF Registering, TypeOK
      <3> QED
        BY <1>1, <2>1, <3>1
    <2>8. ASSUME KindsKnown, service # "s3tables", origin' # "register"
          PROVE  /\ CallKnown(c)'
                 /\ pointer'["main"] # NoTabular => pointer'["main"].loc >= 1
      <3>0. service = "glue"
        BY <1>0, <1>1, <2>8 DEF TypeOK
      <3>1. CASE id = "main"
        <4>1. t.op = "create" /\ Step(c) = "create" /\ GlueCreateOK(c)
          BY <1>0, <1>1, <2>1, <2>8, <3>0, <3>1
        <4>2. HasFile(c) /\ loc = t.loc
          BY <1>0, <4>1 DEF GlueCreateOK, AtOneOf
        <4>3. pointer'["main"].loc >= 1 /\ Current' = t.metadata
          BY <1>0, <2>4, <3>1, <4>2, StateFields DEF HasFile, Current
        <4>4. GlueKnown(c)'
          BY <2>2, <2>4, <3>1, <4>1, <4>3 DEF GlueKnown, KnownKind
        <4> QED
          BY <1>0, <3>0, <4>3, <4>4 DEF CallKnown
      <3>2. CASE id = "storage"
        <4>1. t.op = "create" /\ Step(c) = "create_storage"
          BY <1>0, <1>1, <3>0, <3>2
        <4>2. KnownKind(t.metadata)
          BY <1>0, <2>8, <3>0, <4>1 DEF KindsKnown, CallKnown, GlueKnown, AtOneOf
        <4>3. GlueKnown(c)'
          BY <1>0, <2>2, <2>4, <2>6, <3>2, <4>1, <4>2 DEF GlueKnown, KnownKind, KindKept
        <4> QED
          BY <1>0, <2>4, <2>8, <3>0, <3>2, <4>3 DEF CallKnown, KindsKnown
      <3> QED
        BY <3>1, <3>2
    <2> QED
      BY <1>0, <1>2, <2>2, <2>3, <2>5, <2>6, <2>7, <2>8, StepReports
  <1> QED
    BY <1>3, <1>4

\* get_table: an update that reads the pointer again finds one.
LEMMA GetReports ==
  ASSUME IInv, RInv, NEW c \in Clients, ServiceGet(c)
  PROVE  RInv'
  <1> DEFINE t == task[c]
             p == pointer["main"]
  <1>0. /\ TypeOK /\ TaskOK(c) /\ t \in Calls /\ t.todo # <<>> /\ Step(c) \in {"get", "get_storage"}
        /\ UNCHANGED <<Shared, faults, cache, handle, acked>>
        /\ service' = service /\ pointer' = pointer /\ files' = files /\ origin' = origin
    BY DEF IInv, ServiceGet, At, TypeOK, Shared
  <1>1. /\ service # "rest"
        /\ t.op = "update" => service = "glue" /\ Step(c) = "get"
        /\ t.op = "load" => Step(c) = "get"
        /\ Step(c) = "get_storage" => service = "s3tables"
    BY <1>0, Requests
  <1>2. CASE Err(c)
    <2>1. Quiet /\ PastSwap(c) => p # NoTabular
      <3> SUFFICES ASSUME Quiet, PastSwap(c) PROVE p # NoTabular
        OBVIOUS
      <3>1. t.op = "update" /\ service = "glue"
        BY <1>1 DEF PastSwap
      <3>2. GlueKnown(c)
        BY <3>1 DEF RInv, KindsKnown, CallKnown
      <3> QED
        BY <3>1, <3>2 DEF GlueKnown, KnownKind
    <2>2. CASE Quiet /\ PastSwap(c)
      <3>1. t.op = "update" /\ Step(c) = "get"
        BY <1>1, <2>2 DEF PastSwap
      <3>2. Then(c, [t EXCEPT !.version = p.version, !.loc = p.loc])
        BY <2>1, <2>2, <3>1 DEF ServiceGet
      <3> DEFINE r == [t EXCEPT !.version = p.version, !.loc = p.loc]
      <3>3. r \in Calls /\ r.op = "update"
        BY <1>0, <3>1, StateFields DEF Calls
      <3>4. task'[c].op = "update"
        BY <1>0, <3>2, <3>3, ThenIs
      <3>5. task'[c].op = "none"
        BY <1>0, <1>2, EndTyped DEF Err, IdleTask
      <3> QED
        BY <3>4, <3>5
    <2>3. CASE ~(Quiet /\ PastSwap(c))
      BY <1>0, <1>2, <2>3, ErrReports
    <2> QED
      BY <2>2, <2>3
  <1>3. CASE ~Err(c) /\ Step(c) = "get"
    <2>1. /\ p # NoTabular /\ (t.op = "load" => p.loc # 0)
          /\ Then(c, IF t.op = "create" THEN [t EXCEPT !.version = p.version]
                     ELSE [t EXCEPT !.version = p.version, !.loc = p.loc])
      BY <1>3 DEF ServiceGet
    <2>2. /\ OthersStay(c) /\ task'[c].op = t.op /\ task'[c].todo = Tail(t.todo)
          /\ task'[c].id = t.id /\ task'[c].metadata = t.metadata
          /\ t.op # "create" => task'[c].loc = p.loc
      <3> DEFINE r == IF t.op = "create" THEN [t EXCEPT !.version = p.version]
                      ELSE [t EXCEPT !.version = p.version, !.loc = p.loc]
      <3>1. /\ r \in Calls /\ r.op = t.op /\ r.todo = t.todo /\ r.id = t.id
            /\ r.metadata = t.metadata
            /\ t.op # "create" => r.loc = p.loc
        BY <1>0, StateFields DEF Calls
      <3>2. Then(c, r)
        BY <2>1
      <3> HIDE DEF r
      <3> QED
        BY <1>0, <3>1, <3>2, ThenIs
    <2>3. faults = 0 /\ service # "s3tables" /\ Registering(c)' => origin = "register"
      <3> SUFFICES ASSUME faults = 0, service # "s3tables", Registering(c)' PROVE Registering(c)
        BY DEF RInv
      <3> QED
        BY <1>0, <1>3, <2>2 DEF Registering, AtOneOf
    <2>4. PastSwap(c) => PastSwap(c)' /\ task'[c].id = t.id
      <3> SUFFICES ASSUME PastSwap(c) PROVE PastSwap(c)'
        BY <2>2
      <3>1. Tail(t.todo) # <<>> /\ Head(Tail(t.todo)) = "reread"
        BY <1>0, <1>1, <1>3, NextRequest DEF PastSwap
      <3> QED
        BY <2>2, <3>1 DEF PastSwap, AtOneOf, Step
    <2>5. ASSUME KindsKnown, service # "s3tables"
          PROVE  CallKnown(c)'
      <3>0. service = "glue" /\ GlueKnown(c)
        BY <1>0, <1>1, <2>5 DEF TypeOK, KindsKnown, CallKnown
      <3>1. p.loc >= 1 /\ KnownKind(files[p.loc])
        BY <2>1, <2>5, StateFields DEF KindsKnown, KnownKind, Current
      <3>2. t.op = "create" => KnownKind(t.metadata)
        BY <1>0, <1>3, <3>0 DEF GlueKnown, AtOneOf
      <3>3. GlueKnown(c)'
        BY <1>0, <2>2, <3>0, <3>1, <3>2 DEF GlueKnown, KnownKind, Current
      <3> QED
        BY <1>0, <3>0, <3>3 DEF CallKnown
    <2> QED
      BY <1>0, <2>2, <2>3, <2>4, <2>5, LocalReports
  <1>4. CASE ~Err(c) /\ Step(c) = "get_storage"
    <2>1. Then(c, [t EXCEPT !.storage.version = pointer["storage"].version])
      BY <1>4 DEF ServiceGet
    <2>2. OthersStay(c)
      <3> DEFINE r == [t EXCEPT !.storage.version = pointer["storage"].version]
      <3>1. r \in Calls
        BY <1>0, StateFields DEF Calls
      <3> QED
        BY <1>0, <2>1, <3>1, ThenIs
    <2>3. service = "s3tables" /\ ~PastSwap(c)
      BY <1>1, <1>4 DEF PastSwap
    <2> QED
      BY <1>0, <2>2, <2>3, LocalReports
  <1> QED
    BY <1>0, <1>2, <1>3, <1>4

\* The update under a version id: the new metadata is of the same kind, and
\* the call that made a commit has yet to report it.
LEMMA SwapReports ==
  ASSUME IInv, RInv, NEW c \in Clients, ServiceSwap(c)
  PROVE  RInv'
  <1> DEFINE t == task[c]
             id == IF Step(c) = "swap" THEN "main" ELSE "storage"
             loc == IF id = "main" THEN t.loc ELSE t.storage.loc
             version == IF id = "main" THEN t.version ELSE t.storage.version
             k == [id |-> t.id, uuid |-> t.metadata.uuid]
  <1>0. /\ TypeOK /\ TaskOK(c) /\ t \in Calls /\ t.todo # <<>> /\ Step(c) \in {"swap", "swap_storage"}
        /\ UNCHANGED <<service, files, cache, handle, faults, acked, origin>>
    BY DEF IInv, ServiceSwap, At, TypeOK
  <1>1. /\ service # "rest" /\ t.op \in {"create", "update", "register"}
        /\ service = "glue" => t.op = "update"
        /\ t.op = "update" => Step(c) = "swap" /\ UpdateOK(c)
    BY <1>0, Requests
  <1>2. ~PastSwap(c)
    BY <1>0 DEF PastSwap, AtOneOf
  <1>3. CASE ~swaps(pointer[id], version)
    <2>1. Err(c) /\ UNCHANGED <<pointer, versions, applied>>
      BY <1>3 DEF ServiceSwap
    <2> QED
      BY <1>0, <1>2, <2>1, ErrReports DEF Shared
  <1>4. CASE swaps(pointer[id], version)
    <2> DEFINE r == IF id = "main" THEN [t EXCEPT !.version = NextVersion] ELSE t
    <2>1. /\ pointer' = [pointer EXCEPT ![id] = [version |-> NextVersion, loc |-> loc]]
          /\ applied' = IF t.op = "update" THEN applied \cup {k} ELSE applied
          /\ Then(c, r)
      BY <1>4 DEF ServiceSwap
    <2>2. /\ OthersStay(c) /\ task'[c].op = t.op /\ task'[c].todo = Tail(t.todo)
          /\ task'[c].id = t.id /\ task'[c].metadata = t.metadata
      <3>1. NextVersion \in Nat
        BY <1>0 DEF NextVersion, TypeOK
      <3>2. /\ r \in Calls /\ r.op = t.op /\ r.todo = t.todo /\ r.id = t.id
            /\ r.metadata = t.metadata
        BY <1>0, <3>1 DEF Calls
      <3> HIDE DEF r
      <3> QED
        BY <1>0, <2>1, <3>2, ThenIs
    <2>3. FilesStay
      BY <1>0, StateFields DEF FilesStay
    <2>4. /\ id = "main" => pointer'["main"].loc = loc /\ pointer'["main"] # NoTabular
          /\ id = "storage" => pointer'["main"] = pointer["main"]
      <3>1. "main" \in Ids /\ NextVersion # 0
        BY <1>0 DEF Ids, NextVersion, TypeOK
      <3> HIDE DEF loc
      <3> QED
        BY <1>0, <2>1, <3>1 DEF TypeOK, NoTabular
    <2>5. MainStays
      BY <1>0, <2>4 DEF MainStays
    <2>6. \A j \in applied' : j \in applied \/ (PastSwap(c)' /\ task'[c].id = j.id)
      <3> SUFFICES ASSUME t.op = "update" PROVE PastSwap(c)' /\ task'[c].id = k.id
        BY <2>1
      <3>1. Tail(t.todo) # <<>> /\ Head(Tail(t.todo)) \in {"get", "reread"}
        BY <1>0, <1>1, NextRequest
      <3> QED
        BY <2>2, <3>1 DEF PastSwap, AtOneOf, Step
    <2>7. ASSUME KindsKnown, service # "s3tables"
          PROVE  /\ KindKept /\ CallKnown(c)'
                 /\ pointer'["main"] # NoTabular => pointer'["main"].loc >= 1
      <3>1. service = "glue" /\ t.op = "update" /\ Step(c) = "swap"
        BY <1>0, <1>1, <2>7 DEF TypeOK
      <3>2. HasFile(c) /\ KnownKind(t.metadata)
        BY <1>0, <1>1, <2>7, <3>1 DEF UpdateOK, At, KindsKnown, CallKnown, GlueKnown
      <3>3. pointer'["main"].loc >= 1 /\ Current' = t.metadata
        BY <1>0, <2>4, <3>1, <3>2, StateFields DEF HasFile, Current
      <3>4. KindKept /\ pointer'["main"] # NoTabular
        BY <2>4, <3>1, <3>2, <3>3 DEF KindKept, KnownKind
      <3>5. Head(Tail(t.todo)) = "get"
        BY <1>0, <1>1, <3>1, NextRequest
      <3>6. GlueKnown(c)'
        BY <2>2, <3>1, <3>3, <3>4, <3>5 DEF GlueKnown, KnownKind, At, Step
      <3> QED
        BY <1>0, <3>1, <3>3, <3>4, <3>6 DEF CallKnown
    <2>8. service # "s3tables" => ~Registering(c)'
      BY <1>0, <1>1, <2>2 DEF Registering, TypeOK
    <2> QED
      BY <1>0, <1>2, <2>2, <2>3, <2>5, <2>6, <2>7, <2>8, StepReports
  <1> QED
    BY <1>3, <1>4

\* The metadata file an update reads again is there, and of its kind.
LEMMA ReadReports ==
  ASSUME IInv, RInv, NEW c \in Clients, Read(c)
  PROVE  RInv'
  <1> DEFINE t == task[c]
             refused == t.loc = 0 \/ (Step(c) = "reread" /\ files[t.loc].kind # t.metadata.kind)
  <1>0. /\ TypeOK /\ TaskOK(c) /\ t \in Calls /\ t.todo # <<>>
        /\ Step(c) \in {"read", "reread", "read_registered"}
        /\ UNCHANGED <<Shared, faults, cache, handle, acked>>
        /\ service' = service /\ pointer' = pointer /\ files' = files /\ origin' = origin
    BY DEF IInv, Read, At, TypeOK, Shared
  <1>1. /\ service # "rest"
        /\ Step(c) = "read" <=> t.op = "load"
        /\ Step(c) = "reread" <=> t.op = "update"
        /\ Step(c) = "read_registered" <=> t.op = "register"
        /\ t.op = "update" => UpdateOK(c)
    BY <1>0, Requests
  <1>2. t.loc \in Nat /\ t.loc <= Len(files) /\ Len(files) \in Nat
    BY <1>0, TaskFields, StateFields DEF TaskOK
  <1>3. CASE refused
    <2>1. Err(c)
      BY <1>3 DEF Read
    <2>2. ASSUME Quiet, PastSwap(c) PROVE FALSE
      <3>1. t.op = "update" /\ Step(c) = "reread" /\ UpdateOK(c)
        BY <1>1, <2>2 DEF PastSwap
      <3>2. CASE service = "s3tables"
        BY <1>0, <1>3, <3>1, <3>2 DEF UpdateOK, At, HasFile
      <3>3. CASE service = "glue"
        <4>1. GlueKnown(c)
          BY <2>2, <3>3 DEF RInv, KindsKnown, CallKnown
        <4> QED
          BY <1>0, <1>3, <3>1, <4>1 DEF GlueKnown, KnownKind, At
      <3> QED
        BY <1>0, <1>1, <3>2, <3>3 DEF TypeOK
    <2> QED
      BY <1>0, <2>1, <2>2, ErrReports
  <1>4. CASE ~refused
    <2>1. Then(c, [t EXCEPT !.metadata = files[t.loc]]) /\ t.loc \in 1..Len(files)
      BY <1>2, <1>4 DEF Read
    <2>2. /\ OthersStay(c) /\ task'[c].op = t.op /\ task'[c].todo = Tail(t.todo)
          /\ task'[c].id = t.id /\ task'[c].loc = t.loc /\ task'[c].metadata = files[t.loc]
      <3> DEFINE r == [t EXCEPT !.metadata = files[t.loc]]
      <3>1. files[t.loc] \in Metadata
        BY <1>0, <2>1, StateFields
      <3>2. /\ r \in Calls /\ r.op = t.op /\ r.todo = t.todo /\ r.id = t.id
            /\ r.loc = t.loc /\ r.metadata = files[t.loc]
        BY <1>0, <3>1 DEF Calls
      <3> QED
        BY ZenonT(60), <1>0, <2>1, <3>2, ThenIs
    <2>3. service # "s3tables" => ~Registering(c)'
      <3> SUFFICES ASSUME service = "glue", t.op = "register" PROVE ~AtOneOf(c, {"get", "cache", "done"})'
        BY <1>0, <1>1, <2>2 DEF Registering, TypeOK
      <3>1. Head(Tail(t.todo)) = "create_bare"
        BY <1>0, <1>1, NextRequest
      <3> QED
        BY <2>2, <3>1 DEF AtOneOf, Step
    <2>4. PastSwap(c) => PastSwap(c)' /\ task'[c].id = t.id
      <3> SUFFICES ASSUME PastSwap(c) PROVE PastSwap(c)'
        BY <2>2
      <3>1. Tail(t.todo) # <<>> /\ Head(Tail(t.todo)) = "cache"
        BY <1>0, <1>1, NextRequest DEF PastSwap
      <3> QED
        BY <2>2, <3>1 DEF PastSwap, AtOneOf, Step
    <2>5. ASSUME KindsKnown, service # "s3tables"
          PROVE  CallKnown(c)'
      <3>0. service = "glue" /\ GlueKnown(c)
        BY <1>0, <1>1, <2>5 DEF TypeOK, KindsKnown, CallKnown
      <3>1. t.op \in {"load", "update"} => t.loc >= 1 /\ KnownKind(files[t.loc])
        BY <1>0, <1>1, <3>0 DEF GlueKnown, AtOneOf, At
      <3>2. t.op # "create"
        BY <1>0, <1>1
      <3>3. GlueKnown(c)'
        BY <1>0, <2>2, <3>1, <3>2 DEF GlueKnown, KnownKind, Current
      <3> QED
        BY <1>0, <3>0, <3>3 DEF CallKnown
    <2> QED
      BY <1>0, <2>2, <2>3, <2>4, <2>5, LocalReports
  <1> QED
    BY <1>3, <1>4

-----------------------------------------------------------------------------
(* Returns *)

\* A return with Ok: the caller knows the kind, and the commit is reported.
LEMMA ReturnReports ==
  ASSUME Deployment, IInv, RInv, NEW c \in Clients, At(c, "cache") \/ At(c, "done"),
         UNCHANGED <<Shared, faults>>,
         Ok(c, task[c].metadata),
         Quiet /\ service # "s3tables" /\ KindsKnown =>
           /\ \A i \in Instances : CacheKnown(i)'
           /\ \A i \in Instances : cache[i] # NoEntry => cache'[i] # NoEntry
           /\ HandleKnown(c)'
  PROVE  RInv'
  <1> DEFINE t == task[c]
             k == [id |-> t.id, uuid |-> files[t.id].uuid]
  <1>0. /\ TypeOK /\ AppliedOK /\ (\A d \in Clients : TaskOK(d)) /\ t.todo # <<>>
        /\ faults' = faults /\ service' = service /\ pointer' = pointer /\ files' = files
        /\ applied' = applied /\ origin' = origin
    BY DEF IInv, Shared, At
  <1>1. OthersStay(c) /\ task'[c] = IdleTask
    BY <1>0, EndTyped DEF Ok
  <1>2. FilesStay /\ KindKept
    BY <1>0, StateFields DEF FilesStay, KindKept, Current
  <1>3. \A d \in Clients : d # c => handle'[d] = handle[d]
    BY <1>0 DEF Ok, TypeOK
  <1>4. OriginOK'
    BY <1>0 DEF RInv, OriginOK
  <1>5. ASSUME NEW d \in Clients, Registering(d)'
        PROVE  Registering(d)
    BY <1>1, <1>5 DEF OthersStay, Registering, AtOneOf, Step, IdleTask
  <1>6. ASSUME Quiet, service # "s3tables"
        PROVE  KindsKnown'
    <2>1. KindsKnown /\ HandleKnown(c)' /\ \A i \in Instances : CacheKnown(i)'
      BY <1>6 DEF RInv
    <2>2. ASSUME NEW d \in Clients PROVE HandleKnown(d)' /\ CallKnown(d)'
      <3>1. CASE d = c
        <4>1. CallKnown(c)'
          BY <1>1 DEF CallKnown, GlueKnown, RestKnown, At, AtOneOf, IdleTask
        <4> QED
          BY <2>1, <3>1, <4>1
      <3>2. CASE d # c
        <4>1. CallKnown(d)'
          BY <1>0, <1>1, <1>2, <1>3, <1>6, <2>1, <3>2, KnownStays DEF KindsKnown, OthersStay
        <4>2. handle[d] # NoMetadata /\ service = "rest" /\ handle[d].kind = "table" =>
                cache'[InstanceOf[d]] # NoEntry
          <5>1. InstanceOf[d] \in Instances
            BY DEF Deployment, Instances, Range
          <5> QED
            BY <1>6, <2>1, <3>2, <5>1 DEF KindsKnown, HandleKnown
        <4>3. HandleKnown(d)'
          BY <1>0, <1>2, <1>3, <2>1, <3>2, <4>2 DEF KindsKnown, HandleKnown, KnownKind, KindKept
        <4> QED
          BY <4>1, <4>3
      <3> QED
        BY <3>1, <3>2
    <2>3. pointer["main"] # NoTabular => pointer["main"].loc >= 1
      BY <2>1 DEF KindsKnown
    <2> QED
      BY <1>0, <2>1, <2>2, <2>3 DEF KindsKnown, Instances
  <1>7. ASSUME Quiet, NEW j \in applied
        PROVE  j \in acked' \/ Reporting(j)'
    <2>1. j \in acked \/ Reporting(j)
      BY <1>7 DEF RInv
    <2>2. acked' = IF t.op = "update" THEN acked \cup {k} ELSE acked
      BY DEF Ok
    <2>3. ASSUME NEW d \in Clients, PastSwap(d), task[d].id = j.id
          PROVE  j \in acked' \/ Reporting(j)'
      <3>1. CASE d = c
        <4>1. t.op = "update" /\ t.id = j.id
          BY <2>3, <3>1 DEF PastSwap
        <4>2. j \in [id : Nat, uuid : Nat] /\ j.uuid = files[j.id].uuid
          BY <1>0 DEF TypeOK, AppliedOK
        <4>3. j = k
          BY <4>1, <4>2
        <4> QED
          BY <2>2, <4>1, <4>3
      <3>2. CASE d # c
        BY <1>1, <2>3, <3>2 DEF Reporting, OthersStay, PastSwap, AtOneOf, Step
      <3> QED
        BY <3>1, <3>2
    <2> QED
      BY <2>1, <2>2, <2>3 DEF Reporting
  <1>8. UNCHANGED Quiet
    BY <1>0 DEF Quiet
  <1> QED
    BY <1>0, <1>4, <1>5, <1>6, <1>7, <1>8 DEF RInv

\* The cache entry.
LEMMA CacheEntryReports ==
  ASSUME Deployment, IInv, RInv, NEW c \in Clients, CacheEntry(c)
  PROVE  RInv'
  <1> DEFINE t == task[c]
             i == InstanceOf[c]
             e == [version |-> IF service = "rest" THEN 1 ELSE t.version,
                   loc |-> IF service = "rest" THEN 0 ELSE t.loc,
                   metadata |-> IF service = "rest" THEN NoMetadata ELSE t.metadata]
  <1>0. /\ Base /\ TypeOK /\ TaskOK(c) /\ At(c, "cache") /\ t.todo # <<>> /\ Step(c) = "cache"
        /\ UNCHANGED <<Shared, faults>> /\ Ok(c, t.metadata)
        /\ cache' = [cache EXCEPT ![i] = e]
        /\ service' = service /\ pointer' = pointer /\ files' = files
    BY DEF IInv, Base, CacheEntry, Shared, At
  <1>1. i \in Instances
    BY DEF Deployment, Instances, Range
  <1>2. e # NoEntry
    <2>1. service # "rest" => t.version \in 1..versions
      BY <1>0, AtTheEnd
    <2> QED
      BY <2>1 DEF NoEntry
  <1>3. service # "rest" => e.metadata = t.metadata
    OBVIOUS
  <1> HIDE DEF e
  <1>4. cache'[i] = e /\ \A j \in Instances : j # i => cache'[j] = cache[j]
    BY <1>0, <1>1 DEF TypeOK
  <1>5. ASSUME Quiet, service # "s3tables", KindsKnown
        PROVE  KnownKind(t.metadata)
    <2>1. CallKnown(c) /\ t.op \in {"load", "create", "update", "register"}
      BY <1>0, <1>5, Requests, TaskFields DEF KindsKnown
    <2>2. CASE service = "glue"
      <3>1. t.op # "register"
        BY <1>0, <1>5, <2>2 DEF RInv, Registering, AtOneOf, Quiet
      <3>2. t.op = "load" => t.metadata = files[t.loc]
        BY <1>0, <2>2, Requests DEF LoadOK, HasFile, At
      <3> QED
        BY <1>0, <2>1, <2>2, <3>1, <3>2 DEF CallKnown, GlueKnown, AtOneOf
    <2>3. CASE service = "rest"
      <3>1. t.op # "register"
        BY <1>0, <1>5, <2>3 DEF RInv, Registering, AtOneOf, Quiet
      <3> QED
        BY <1>0, <2>1, <2>3, <3>1 DEF CallKnown, RestKnown, AtOneOf
    <2> QED
      BY <1>0, <1>5, <2>2, <2>3 DEF TypeOK
  <1>6. ASSUME Quiet, service # "s3tables", KindsKnown
        PROVE  /\ \A j \in Instances : CacheKnown(j)'
               /\ \A j \in Instances : cache[j] # NoEntry => cache'[j] # NoEntry
               /\ HandleKnown(c)'
    <2>1. KnownKind(t.metadata) /\ Current' = Current
      BY <1>0, <1>5, <1>6 DEF Current
    <2>2. ASSUME NEW j \in Instances PROVE CacheKnown(j)'
      <3>1. CASE j = i
        BY <1>0, <1>3, <1>4, <2>1, <3>1 DEF CacheKnown, KnownKind
      <3>2. CASE j # i
        BY <1>0, <1>4, <1>6, <2>1, <3>2 DEF KindsKnown, CacheKnown, KnownKind
      <3> QED
        BY <3>1, <3>2
    <2>3. handle'[c] = t.metadata
      BY <1>0 DEF Ok, TypeOK
    <2>4. HandleKnown(c)'
      BY <1>0, <1>2, <1>4, <2>1, <2>3 DEF HandleKnown, KnownKind
    <2> QED
      BY <1>2, <1>4, <2>2, <2>4
  <1> QED
    BY <1>0, <1>6, ReturnReports

\* REST's methods that leave the caches alone: whoever updates a table has its
\* object store.
LEMMA DoneReports ==
  ASSUME Deployment, IInv, RInv, NEW c \in Clients, Done(c)
  PROVE  RInv'
  <1> DEFINE t == task[c]
             unknown == t.op = "update" /\ t.metadata.kind = "table" /\ cache[InstanceOf[c]] = NoEntry
  <1>0. /\ TypeOK /\ TaskOK(c) /\ At(c, "done") /\ t.todo # <<>> /\ Step(c) = "done"
        /\ UNCHANGED <<Shared, faults>> /\ cache' = cache
        /\ service' = service /\ pointer' = pointer /\ files' = files
    BY DEF IInv, Done, Shared, At
  <1>1. service = "rest" /\ t.op \in {"load", "create", "update", "register"}
    BY <1>0, Requests, TaskFields
  <1>2. ASSUME Quiet
        PROVE  /\ KindsKnown /\ KnownKind(t.metadata) /\ t.op # "register"
               /\ t.metadata.kind = "table" => t.op = "update" /\ cache[InstanceOf[c]] # NoEntry
    <2>1. KindsKnown /\ RestKnown(c) /\ HandleKnown(c)
      BY <1>1, <1>2 DEF RInv, KindsKnown, CallKnown
    <2>2. t.op # "register"
      BY <1>0, <1>1, <1>2 DEF RInv, Registering, AtOneOf, Quiet
    <2>3. KnownKind(t.metadata)
      BY <1>0, <1>1, <2>1, <2>2 DEF RestKnown, AtOneOf
    <2>4. t.metadata.kind = "table" => t.op = "update"
      <3>1. t.op = "load" => t.metadata.kind # "table"
        BY <1>0, <2>1 DEF RestKnown
      <3>2. t.op = "create" => t.metadata.kind # "table"
        BY <1>0, <2>1 DEF RestKnown, Step
      <3> QED
        BY <1>1, <2>2, <3>1, <3>2
    <2>5. t.op = "update" /\ t.metadata.kind = "table" => cache[InstanceOf[c]] # NoEntry
      BY <1>1, <2>1, <2>3 DEF RestKnown, HandleKnown, KnownKind
    <2> QED
      BY <2>1, <2>2, <2>3, <2>4, <2>5
  <1>3. CASE unknown
    <2>1. Err(c) /\ UNCHANGED <<handle, acked>> /\ ~Quiet
      BY <1>2, <1>3 DEF Done
    <2> QED
      BY <1>0, <2>1, ErrReports
  <1>4. CASE ~unknown
    <2>1. Ok(c, t.metadata)
      BY <1>4 DEF Done
    <2>2. ASSUME Quiet
          PROVE  /\ \A j \in Instances : CacheKnown(j)'
                 /\ \A j \in Instances : cache[j] # NoEntry => cache'[j] # NoEntry
                 /\ HandleKnown(c)'
      <3>1. \A j \in Instances : CacheKnown(j)'
        BY <1>0, <1>1 DEF CacheKnown
      <3>2. handle'[c] = t.metadata
        BY <1>0, <2>1 DEF Ok, TypeOK
      <3>3. KnownKind(t.metadata) /\ Current' = Current
        BY <1>0, <1>2, <2>2 DEF Current
      <3>4. t.metadata.kind = "table" => cache[InstanceOf[c]] # NoEntry
        BY <1>2, <2>2
      <3>5. HandleKnown(c)'
        BY <1>0, <3>2, <3>3, <3>4 DEF HandleKnown, KnownKind
      <3> QED
        BY <1>0, <3>1, <3>5
    <2> QED
      BY <1>0, <2>1, <2>2, ReturnReports
  <1> QED
    BY <1>3, <1>4

-----------------------------------------------------------------------------
(* The REST server *)

\* loadTable and loadView: whoever ends a load without an object store has a
\* view.
LEMMA ServerLoadReports ==
  ASSUME IInv, RInv, NEW c \in Clients, ServerLoad(c)
  PROVE  RInv'
  <1> DEFINE t == task[c]
             isTable == pointer["main"] # NoTabular /\ Served.kind = "table"
             found == [t EXCEPT !.metadata = Served]
  <1>0. /\ TypeOK /\ PointerOK /\ TaskOK(c) /\ t \in Calls /\ t.todo # <<>>
        /\ Step(c) \in {"load_table", "load_view"}
        /\ UNCHANGED <<Shared, faults, cache, handle, acked>>
        /\ service' = service /\ pointer' = pointer /\ files' = files
    BY DEF IInv, ServerLoad, At, TypeOK, Shared
  <1>1. service = "rest" /\ t.op = "load" /\ t.todo \in RestLoadPoints
    BY <1>0, Requests, RestCreateNext, RestUpdateNext, RestRegisterNext, TaskFields DEF RestOK, Step
  <1>2. ~PastSwap(c)
    BY <1>1 DEF PastSwap
  <1>3. pointer["main"] # NoTabular => Served \in Metadata /\ Served = Current
    BY <1>0, <1>1, StateFields DEF PointerOK, Served, Current
  <1>4. CASE Step(c) = "load_table" /\ isTable
    <2> DEFINE r == [found EXCEPT !.todo = <<"cache">>]
    <2>1. task' = [task EXCEPT ![c] = r]
      BY <1>4 DEF ServerLoad
    <2>2. r.op = "load" /\ r.todo = <<"cache">> /\ r.metadata = Served
      BY <1>0, <1>1 DEF Calls
    <2> HIDE DEF r
    <2>3. OthersStay(c) /\ task'[c] = r
      BY <1>0, <2>1 DEF TypeOK, OthersStay
    <2>4. RestKnown(c)'
      BY <1>0, <1>3, <1>4, <2>2, <2>3 DEF RestKnown, KnownKind, At, AtOneOf, Step, Current
    <2> QED
      BY <1>0, <1>1, <1>2, <2>2, <2>3, <2>4, LocalReports DEF Registering, CallKnown
  <1>5. CASE Step(c) = "load_table" /\ ~isTable
    <2>1. Then(c, t)
      BY <1>5 DEF ServerLoad
    <2>2. OthersStay(c) /\ task'[c].op = "load" /\ task'[c].todo = Tail(t.todo)
      BY <1>0, <1>1, <2>1, ThenIs
    <2>3. Head(Tail(t.todo)) = "load_view"
      BY <1>1, <1>5, RestLoadNext DEF Step
    <2>4. RestKnown(c)'
      BY <2>2, <2>3 DEF RestKnown, At, AtOneOf, Step
    <2> QED
      BY <1>0, <1>1, <1>2, <2>2, <2>4, LocalReports DEF Registering, CallKnown
  <1>6. CASE Step(c) = "load_view" /\ (pointer["main"] = NoTabular \/ isTable)
    <2>1. Err(c)
      BY <1>6 DEF ServerLoad
    <2> QED
      BY <1>0, <1>2, <2>1, ErrReports
  <1>7. CASE Step(c) = "load_view" /\ ~(pointer["main"] = NoTabular \/ isTable)
    <2>1. Then(c, found)
      BY <1>7 DEF ServerLoad
    <2>2. found \in Calls /\ found.op = "load" /\ found.todo = t.todo /\ found.metadata = Served
      BY <1>0, <1>1, <1>3, <1>7 DEF Calls
    <2>3. OthersStay(c) /\ task'[c].op = "load" /\ task'[c].metadata = Served
      BY <1>0, <2>1, <2>2, ThenIs
    <2>4. RestKnown(c)'
      BY <1>0, <1>3, <1>7, <2>3 DEF RestKnown, KnownKind, Current
    <2> QED
      BY <1>0, <1>1, <1>2, <2>3, <2>4, LocalReports DEF Registering, CallKnown
  <1> QED
    BY <1>0, <1>4, <1>5, <1>6, <1>7

\* createTable and createView.
LEMMA ServerCreateReports ==
  ASSUME IInv, RInv, NEW c \in Clients, ServerCreate(c)
  PROVE  RInv'
  <1> DEFINE t == task[c]
             n == Len(files) + 1
             m == IF Step(c) = "server_create" THEN Built(t) ELSE NewMetadata("table", n)
             a == IF Step(c) = "server_create" THEN m ELSE t.metadata
             r == [t EXCEPT !.metadata = a]
  <1>0. /\ Base /\ TypeOK /\ TaskOK(c) /\ t \in Calls /\ t.todo # <<>>
        /\ Step(c) \in {"server_create", "server_create_table"}
        /\ UNCHANGED <<service, cache, handle, faults, acked, applied>>
    BY DEF IInv, Base, ServerCreate, At, TypeOK
  <1>1. /\ service = "rest" /\ t.op = "create"
        /\ Step(c) = "server_create_table" => Head(Tail(t.todo)) = "server_create"
    BY <1>0, RestRequests
  <1>2. ~PastSwap(c)
    BY <1>1 DEF PastSwap
  <1>3. CASE pointer["main"] # NoTabular
    <2>1. Err(c) /\ UNCHANGED <<files, pointer, versions, origin>>
      BY <1>3 DEF ServerCreate
    <2> QED
      BY <1>0, <1>2, <2>1, ErrReports DEF Shared
  <1>4. CASE pointer["main"] = NoTabular
    <2>1. /\ ServerWrites(m) /\ Then(c, r) /\ origin' = "create"
          /\ m \in Metadata /\ m.kind \in Kinds /\ m.uuid \in 1..n
          /\ a \in Metadata /\ a.kind = t.metadata.kind
      BY <1>0, <1>4, ServerCreates
    <2>2. Step(c) = "server_create" => a = m
      OBVIOUS
    <2> HIDE DEF m, a
    <2>3. /\ OthersStay(c) /\ task'[c].op = "create" /\ task'[c].todo = Tail(t.todo)
          /\ task'[c].metadata = a
      <3>1. r \in Calls /\ r.op = "create" /\ r.todo = t.todo /\ r.metadata = a
        BY <1>0, <1>1, <2>1 DEF Calls
      <3> HIDE DEF r
      <3> QED
        BY <1>0, <2>1, <3>1, ThenIs
    <2>4. Current' = m /\ pointer'["main"] # NoTabular /\ PointerOK' /\ FilesStay
      BY <1>0, <2>1, WriteDoes DEF FilesStay
    <2>5. KindKept
      BY <1>4 DEF KindKept
    <2>6. MainStays
      BY <1>4, <2>1, <2>4 DEF MainStays
    <2>7. ~Registering(c)'
      BY <2>3 DEF Registering
    <2>8. pointer'["main"] # NoTabular => pointer'["main"].loc >= 1
      BY <1>0, <1>1, <2>4 DEF PointerOK
    <2>9. KindsKnown => CallKnown(c)'
      <3> SUFFICES ASSUME KindsKnown PROVE RestKnown(c)'
        BY <1>0, <1>1 DEF CallKnown
      <3>1. t.metadata.kind = "table" => t.todo \in {<<"server_create", "cache">>, <<"cache">>}
        BY <1>1 DEF KindsKnown, CallKnown, RestKnown
      <3>2. CASE Step(c) = "server_create"
        <4>1. t.metadata.kind = "table" => t.todo = <<"server_create", "cache">>
          BY <3>1, <3>2 DEF Step
        <4>2. t.todo = <<"server_create", "cache">> => Tail(t.todo) = <<"cache">>
          OBVIOUS
        <4>3. a.kind = "table" => task'[c].todo = <<"cache">>
          BY <2>1, <2>3, <4>1, <4>2
        <4> QED
          BY <2>2, <2>3, <2>4, <3>2, <4>3 DEF RestKnown, KnownKind
      <3>3. CASE Step(c) = "server_create_table"
        <4>1. t.metadata.kind # "table"
          BY <3>1, <3>3 DEF Step
        <4> QED
          BY <1>1, <2>1, <2>3, <3>3, <4>1 DEF RestKnown, At, AtOneOf, Step
      <3> QED
        BY <1>0, <3>2, <3>3
    <2> QED
      BY <1>0, <1>2, <2>3, <2>4, <2>5, <2>6, <2>7, <2>8, <2>9, StepReports
  <1> QED
    BY <1>3, <1>4

\* updateTable and replaceView.
LEMMA ServerUpdateReports ==
  ASSUME IInv, RInv, NEW c \in Clients, ServerUpdate(c)
  PROVE  RInv'
  <1> DEFINE t == task[c]
             n == Len(files) + 1
             m == apply_updates(Served, n)
             k == [id |-> n, uuid |-> m.uuid]
             r == [t EXCEPT !.metadata = m, !.id = n]
  <1>0. /\ Base /\ TypeOK /\ PointerOK /\ FilesOK /\ TaskOK(c) /\ t \in Calls
        /\ t.todo # <<>> /\ Step(c) = "server_update"
        /\ UNCHANGED <<service, cache, handle, faults, acked, origin>>
    BY DEF IInv, Base, ServerUpdate, At, TypeOK
  <1>1. /\ service = "rest" /\ t.op = "update" /\ Tail(t.todo) # <<>>
        /\ Head(Tail(t.todo)) = "done"
    BY <1>0, RestRequests
  <1>2. ~PastSwap(c)
    BY <1>0 DEF PastSwap, AtOneOf
  <1>3. CASE Err(c) /\ UNCHANGED <<files, pointer, versions, applied>>
    BY <1>0, <1>2, <1>3, ErrReports DEF Shared
  <1>4. CASE ~(Err(c) /\ UNCHANGED <<files, pointer, versions, applied>>)
    <2>1. /\ pointer["main"] # NoTabular
          /\ ServerWrites(m) /\ applied' = applied \cup {k} /\ Then(c, r)
      BY <1>4 DEF ServerUpdate
    <2>2. pointer["main"].loc \in 1..Len(files) /\ Served = Current /\ Proper(Served) /\ n \in Nat
      <3>1. pointer["main"].loc \in 1..Len(files) /\ n \in Nat
        BY <1>0, <1>1, <2>1, StateFields DEF PointerOK
      <3> QED
        BY <1>0, <3>1 DEF FilesOK, Served, Current
    <2>3. m \in Metadata /\ m.kind = Current.kind /\ m.kind \in Kinds /\ m.uuid \in 1..n
      <3>1. Served \in Metadata /\ Served.kind \in Kinds /\ Served.uuid \in 1..Len(files)
        BY <2>2, StateFields, <1>0 DEF Proper, Held, Metadata
      <3>2. m \in Metadata /\ m.kind = Served.kind /\ m.uuid = Served.uuid
        BY <2>2, <3>1, UpdatesApplied
      <3> QED
        BY <1>0, <2>2, <3>1, <3>2, StateFields
    <2> HIDE DEF m
    <2>4. /\ OthersStay(c) /\ task'[c].op = "update" /\ task'[c].todo = Tail(t.todo)
          /\ task'[c].id = n /\ task'[c].metadata = m
      <3>1. /\ r \in Calls /\ r.op = "update" /\ r.todo = t.todo /\ r.id = n /\ r.metadata = m
        BY <1>0, <1>1, <2>2, <2>3 DEF Calls
      <3> HIDE DEF r
      <3> QED
        BY <1>0, <2>1, <3>1, ThenIs
    <2>5. Current' = m /\ pointer'["main"] # NoTabular /\ PointerOK' /\ FilesStay
      <3>1. "main" \in Ids /\ service' = service
        BY <1>0 DEF Ids
      <3> QED
        BY <1>0, <2>1, <2>3, <3>1, WriteDoes DEF FilesStay
    <2>6. KindKept /\ MainStays /\ ~Registering(c)'
      BY <1>0, <2>3, <2>4, <2>5 DEF KindKept, MainStays, Registering
    <2>7. pointer'["main"] # NoTabular => pointer'["main"].loc >= 1
      BY <1>0, <1>1, <2>5 DEF PointerOK
    <2>8. KindsKnown => CallKnown(c)'
      BY <1>0, <1>1, <2>4, <2>5 DEF KindsKnown, CallKnown, RestKnown, KnownKind
    <2>9. \A j \in applied' : j \in applied \/ (PastSwap(c)' /\ task'[c].id = j.id)
      BY <1>1, <2>1, <2>4 DEF PastSwap, AtOneOf, Step
    <2> QED
      BY <1>0, <1>2, <2>4, <2>5, <2>6, <2>7, <2>8, <2>9, StepReports
  <1> QED
    BY <1>3, <1>4

\* registerTable.
LEMMA ServerRegisterReports ==
  ASSUME IInv, RInv, NEW c \in Clients, ServerRegister(c)
  PROVE  RInv'
  <1> DEFINE t == task[c]
             r == [t EXCEPT !.metadata = files[t.loc]]
  <1>0. /\ TypeOK /\ TaskOK(c) /\ t \in Calls /\ t.todo # <<>> /\ Step(c) = "server_register"
        /\ UNCHANGED <<service, files, cache, handle, faults, acked, applied>>
    BY DEF IInv, ServerRegister, At, TypeOK
  <1>1. t.op = "register" /\ t.loc \in 1..Len(files)
    BY <1>0, RestRequests DEF RestOK, At
  <1>2. ~PastSwap(c)
    BY <1>1 DEF PastSwap
  <1>3. CASE pointer["main"] # NoTabular
    <2>1. Err(c) /\ UNCHANGED <<pointer, versions, origin>>
      BY <1>3 DEF ServerRegister
    <2> QED
      BY <1>0, <1>2, <2>1, ErrReports DEF Shared
  <1>4. CASE pointer["main"] = NoTabular
    <2>1. /\ pointer' = [pointer EXCEPT !["main"] = [version |-> NextVersion, loc |-> t.loc]]
          /\ origin' = "register" /\ Then(c, r)
      BY <1>4 DEF ServerRegister
    <2>2. OthersStay(c)
      <3>1. r \in Calls
        BY <1>0, <1>1, StateFields DEF Calls
      <3> QED
        BY <1>0, <2>1, <3>1, ThenIs
    <2>3. pointer'["main"] # NoTabular
      <3>1. "main" \in Ids /\ t.loc # 0
        BY <1>1 DEF Ids
      <3> QED
        BY <1>0, <2>1, <3>1 DEF TypeOK, NoTabular
    <2>4. FilesStay /\ MainStays
      BY <1>0, <1>4, <2>3, StateFields DEF FilesStay, MainStays
    <2> QED
      BY <1>0, <1>2, <2>1, <2>2, <2>4, StepReports
  <1> QED
    BY <1>3, <1>4

-----------------------------------------------------------------------------
(* The invariant *)

\* Nobody holds anything yet.
LEMMA InitReports ==
  ASSUME Init
  PROVE  RInv
  <1>1. /\ applied = {} /\ origin = "existing" /\ faults = 0 /\ cache = [i \in Instances |-> NoEntry]
        /\ handle = [d \in Clients |-> NoMetadata] /\ task = [d \in Clients |-> IdleTask]
    BY DEF Init
  <1>2. pointer["main"] # NoTabular => pointer["main"].loc >= 1
    <2>1. "main" \in Ids
      BY DEF Ids
    <2> QED
      BY <2>1 DEF Init
  <1>3. ASSUME NEW d \in Clients
        PROVE  HandleKnown(d) /\ CallKnown(d) /\ ~Registering(d)
    BY <1>1 DEF HandleKnown, CallKnown, GlueKnown, RestKnown, Registering, At, AtOneOf, IdleTask
  <1>4. ASSUME NEW i \in Instances
        PROVE  CacheKnown(i)
    BY <1>1 DEF CacheKnown
  <1> QED
    BY <1>1, <1>2, <1>3, <1>4 DEF RInv, OriginOK, KindsKnown

\* Drops and failures are counted.
LEMMA FaultsCounted ==
  ASSUME faults \in Nat, [Next]_vars
  PROVE  faults' \in Nat
  <1>1. CASE UNCHANGED vars
    BY <1>1 DEF vars
  <1>2. ASSUME NEW c \in Clients, Call(c)
        PROVE  faults' \in Nat
    <2>1. \A r : Begin(c, r) => faults' = faults
      BY DEF Begin
    <2>2. \A s : Drop(c, s) => faults' = faults + 1
      BY DEF Drop
    <2>3. create(c) => faults' = faults
      <3> SUFFICES ASSUME create(c) PROVE faults' = faults
        OBVIOUS
      <3>1. PICK k \in Kinds :
              Begin(c, [IdleTask EXCEPT !.op = "create", !.todo = Program("create", k),
                                        !.metadata = NewMetadata(k, 0)])
        BY DEF create
      <3> QED
        BY <2>1, <3>1
    <2>4. load_tabular(c) \/ register_table(c) \/ update(c) => faults' = faults
      BY <2>1 DEF load_tabular, register_table, update
    <2>5. glue_drop(c) \/ s3_drop(c) \/ rest_drop(c) => faults' = faults + 1
      BY <2>2 DEF glue_drop, s3_drop, rest_drop
    <2> QED
      BY <1>2, <2>3, <2>4, <2>5 DEF Call
  <1>3. ASSUME NEW c \in Clients, Proceed(c)
        PROVE  faults' = faults
    BY <1>3 DEF Proceed, Put, ServiceCreate, ServiceGet, ServiceSwap, Read, ServerLoad, ServerCreate,
                ServerUpdate, ServerRegister, CacheEntry, Done
  <1>4. ASSUME NEW c \in Clients, Fail(c)
        PROVE  faults' \in Nat
    BY <1>4 DEF Fail
  <1> QED
    BY <1>1, <1>2, <1>3, <1>4 DEF Next

\* Every step: once there was a fault the invariant asks for nothing.
LEMMA StepReported ==
  ASSUME Deployment, IInv, RInv, [Next]_vars
  PROVE  RInv'
  <1>0. faults \in Nat /\ faults' \in Nat
    BY FaultsCounted DEF RInv
  <1>1. CASE UNCHANGED vars
    <2>1. /\ UNCHANGED <<service, pointer, files, cache, handle, task, faults, acked, applied, origin>>
      BY <1>1 DEF vars
    <2>2. UNCHANGED <<OriginOK, Quiet, KindsKnown>>
      BY <2>1 DEF OriginOK, Quiet, KindsKnown, CacheKnown, HandleKnown, CallKnown, GlueKnown, RestKnown,
                  KnownKind, Current, At, AtOneOf, Step, Instances
    <2>3. \A d \in Clients : UNCHANGED <<Registering(d), PastSwap(d)>>
      BY <2>1 DEF Registering, PastSwap, AtOneOf, Step
    <2> QED
      BY <1>0, <2>1, <2>2, <2>3 DEF RInv, Reporting
  <1>2. CASE faults' # 0
    BY <1>0, <1>2 DEF RInv, OriginOK, Quiet
  <1>3. ASSUME NEW c \in Clients, Call(c), faults' = 0
        PROVE  RInv'
    <2>1. ~glue_drop(c) /\ ~s3_drop(c) /\ ~rest_drop(c)
      BY <1>0, <1>3 DEF glue_drop, s3_drop, rest_drop, Drop
    <2> QED
      BY <1>3, <2>1, LoadReports, CreateReports, RegisterReports, UpdateReports DEF Call
  <1>4. ASSUME NEW c \in Clients, Proceed(c)
        PROVE  RInv'
    BY <1>4, PutReports, ServiceCreateReports, GetReports, SwapReports, ReadReports, ServerLoadReports,
       ServerCreateReports, ServerUpdateReports, ServerRegisterReports, CacheEntryReports, DoneReports
       DEF Proceed
  <1>5. ASSUME NEW c \in Clients, Fail(c)
        PROVE  faults' # 0
    BY <1>0, <1>5 DEF Fail
  <1> QED
    BY <1>1, <1>2, <1>3, <1>4, <1>5 DEF Next

\* While nothing fails and nothing is dropped, a commit that a service applied
\* is reported Ok to its caller, or its call is still on the way there: no
\* update is refused after its swap.
THEOREM AppliedIsReportedAlways == Deployment => (Spec => []AppliedIsReported)
  <1> SUFFICES ASSUME Deployment PROVE Spec => []AppliedIsReported
    OBVIOUS
  <1>1. Init => RInv
    BY InitReports
  <1>2. IInv /\ RInv /\ [Next]_vars => RInv'
    BY StepReported
  <1>3. RInv => AppliedIsReported
    BY DEF RInv, Quiet, Reporting, PastSwap, AppliedIsReported, InFlight
  <1> QED
    BY <1>1, <1>2, <1>3, InvariantHolds, PTL DEF Spec

=============================================================================
