-------------------------- MODULE RemoteCatalogInv --------------------------
(***************************************************************************)
(* The inductive invariant of RemoteCatalog.                               *)
(*                                                                         *)
(* CommitsKept and CacheMatchesVersion speak of states between calls; what *)
(* makes them true is what a call holds while it runs.  A call that holds  *)
(* a version id of "main" knows something about the pointer for as long as *)
(* that id is the current one, and nothing any more once it is not: every  *)
(* change takes a new id, so such knowledge is never wrong, only void.     *)
(* One definition per method below says what a call knows before each of   *)
(* its requests.                                                           *)
(***************************************************************************)
EXTENDS RemoteCatalog

\* What the theorems assume of the parameters: each client has a catalog
\* instance, and the service is one of the three.
Deployment ==
  /\ Clients \subseteq DOMAIN InstanceOf
  /\ Services \subseteq {"glue", "s3tables", "rest"}

-----------------------------------------------------------------------------
(* The requests a call has left *)

LoadPoints == {<<"get", "read", "cache">>, <<"read", "cache">>, <<"cache">>}

GlueCreatePoints ==
  {<<"put", "create", "get", "cache">>, <<"create", "get", "cache">>, <<"get", "cache">>, <<"cache">>,
   <<"put", "put_storage", "create", "create_storage", "get", "cache">>,
   <<"put_storage", "create", "create_storage", "get", "cache">>,
   <<"create", "create_storage", "get", "cache">>, <<"create_storage", "get", "cache">>}

GlueUpdatePoints ==
  {<<"put", "swap", "get", "reread", "cache">>, <<"swap", "get", "reread", "cache">>,
   <<"get", "reread", "cache">>, <<"reread", "cache">>, <<"cache">>}

GlueRegisterPoints ==
  {<<"read_registered", "create_bare", "get", "cache">>, <<"create_bare", "get", "cache">>,
   <<"get", "cache">>, <<"cache">>}

\* S3 Tables' creation up to the swap that makes the new metadata current ...
S3BeforePoints ==
  {<<"create_bare", "get", "put", "swap", "cache">>, <<"get", "put", "swap", "cache">>,
   <<"put", "swap", "cache">>, <<"swap", "cache">>,
   <<"create_bare", "get", "create_bare_storage", "get_storage", "put", "put_storage",
     "swap", "create_bare_storage", "swap_storage", "cache">>,
   <<"get", "create_bare_storage", "get_storage", "put", "put_storage",
     "swap", "create_bare_storage", "swap_storage", "cache">>,
   <<"create_bare_storage", "get_storage", "put", "put_storage",
     "swap", "create_bare_storage", "swap_storage", "cache">>,
   <<"get_storage", "put", "put_storage", "swap", "create_bare_storage", "swap_storage", "cache">>,
   <<"put", "put_storage", "swap", "create_bare_storage", "swap_storage", "cache">>,
   <<"put_storage", "swap", "create_bare_storage", "swap_storage", "cache">>,
   <<"swap", "create_bare_storage", "swap_storage", "cache">>}

\* ... and after it.
S3AfterPoints ==
  {<<"create_bare_storage", "swap_storage", "cache">>, <<"swap_storage", "cache">>, <<"cache">>}

S3UpdatePoints ==
  {<<"put", "swap", "reread", "cache">>, <<"swap", "reread", "cache">>, <<"reread", "cache">>,
   <<"cache">>}

S3RegisterPoints ==
  {<<"read_registered", "create_bare", "swap", "cache">>, <<"create_bare", "swap", "cache">>,
   <<"swap", "cache">>, <<"cache">>}

RestLoadPoints ==
  {<<"load_table", "load_view", "done">>, <<"load_view", "done">>, <<"done">>, <<"cache">>}

RestCreatePoints ==
  {<<"server_create_table", "server_create", "done">>, <<"server_create", "done">>,
   <<"server_create", "cache">>, <<"done">>, <<"cache">>}

RestUpdatePoints == {<<"server_update", "done">>, <<"done">>}

RestRegisterPoints == {<<"server_register", "done">>, <<"done">>}

Todos ==
  {<<>>} \cup LoadPoints \cup GlueCreatePoints \cup GlueUpdatePoints \cup GlueRegisterPoints
  \cup S3BeforePoints \cup S3AfterPoints \cup S3UpdatePoints \cup S3RegisterPoints
  \cup RestLoadPoints \cup RestCreatePoints \cup RestUpdatePoints \cup RestRegisterPoints

-----------------------------------------------------------------------------
(* Types and bounds *)

Metadata == [kind : Kinds \cup {"none"}, uuid : Nat, commits : Seq(Nat), head : Nat]

Held(m) == m \in Metadata /\ m.uuid <= Len(files)
Proper(m) == Held(m) /\ m.kind \in Kinds /\ m.uuid >= 1

Calls ==
  [op : {"none", "load", "create", "update", "register"}, todo : Todos, id : Nat, loc : Nat,
   version : Nat, metadata : Metadata, storage : [loc : Nat, version : Nat]]

TypeOK ==
  /\ service \in {"glue", "s3tables", "rest"}
  /\ pointer \in [Ids -> [version : Nat, loc : Nat]]
  /\ files \in Seq(Metadata)
  /\ cache \in [Instances -> [version : Nat, loc : Nat, metadata : Metadata]]
  /\ handle \in [Clients -> Metadata]
  /\ task \in [Clients -> Calls]
  /\ versions \in Nat \ {0}
  /\ applied \subseteq [id : Nat, uuid : Nat]
  /\ origin \in {"existing", "create", "register"}

\* An identifier the service knows has a version id handed out before; a REST
\* server knows no table without metadata.
PointerOK ==
  /\ \A i \in Ids : pointer[i] # NoTabular => pointer[i].version \in 1..versions
  /\ pointer["main"].loc <= Len(files)
  /\ service = "rest" /\ pointer["main"] # NoTabular => pointer["main"].loc >= 1

FilesOK == \A l \in 1..Len(files) : Proper(files[l])

AppliedOK ==
  /\ acked \subseteq applied
  /\ \A k \in applied : k.id \in 1..Len(files) /\ k.uuid = files[k.id].uuid

HandlesOK == \A c \in Clients : handle[c] = NoMetadata \/ Proper(handle[c])

-----------------------------------------------------------------------------
(* What a call knows *)

AtOneOf(c, steps) == task[c].todo # <<>> /\ Step(c) \in steps

\* The version id the call holds is the one of the service.
IsCurrent(c) == task[c].version >= 1 /\ task[c].version = pointer["main"].version

\* The location goes with the version id.
Got(c) == task[c].version >= 1 /\ (IsCurrent(c) => task[c].loc = pointer["main"].loc)

\* The call has the metadata of its location.
HasFile(c) == task[c].loc \in 1..Len(files) /\ task[c].metadata = files[task[c].loc]

Applied(c) ==
  /\ task[c].id \in 1..Len(files)
  /\ [id |-> task[c].id, uuid |-> files[task[c].id].uuid] \in applied

LoadOK(c) ==
  /\ task[c].todo \in LoadPoints
  /\ AtOneOf(c, {"read", "cache"}) => Got(c) /\ task[c].loc \in 1..Len(files)
  /\ At(c, "cache") => HasFile(c)

UpdateOK(c) ==
  /\ task[c].todo \in IF service = "glue" THEN GlueUpdatePoints ELSE S3UpdatePoints
  /\ task[c].version >= 1
  /\ At(c, "put") => /\ Proper(task[c].metadata)
                     /\ Fenced /\ IsCurrent(c) => task[c].metadata = Current
  /\ At(c, "swap") => /\ HasFile(c)
                      /\ task[c].id = task[c].loc
                      /\ Fenced /\ IsCurrent(c) => task[c].metadata = apply_updates(Current, task[c].id)
  /\ AtOneOf(c, {"get", "reread", "cache"}) => Applied(c)
  /\ AtOneOf(c, {"reread", "cache"}) => Got(c)
  /\ At(c, "cache") \/ (At(c, "reread") /\ service = "s3tables") => HasFile(c)

\* Glue's creations and its register_table end what Fenced asks for.
GlueCreateOK(c) ==
  /\ task[c].todo \in GlueCreatePoints
  /\ task[c].metadata.kind \in Kinds
  /\ ~At(c, "put") => Proper(task[c].metadata)
  /\ AtOneOf(c, {"put_storage", "create"}) => HasFile(c)
  /\ At(c, "cache") => task[c].version >= 1
  /\ AtOneOf(c, {"create_storage", "get", "cache"}) => origin # "existing"

GlueRegisterOK(c) ==
  /\ task[c].todo \in GlueRegisterPoints
  /\ ~At(c, "read_registered") => Proper(task[c].metadata)
  /\ At(c, "cache") => task[c].version >= 1
  /\ AtOneOf(c, {"get", "cache"}) => origin # "existing"

\* Up to the swap nobody has committed to the new metadata.
S3CreateOK(c) ==
  \/ /\ task[c].todo \in S3BeforePoints
     /\ task[c].metadata.kind \in Kinds
     /\ ~At(c, "create_bare") => task[c].version >= 1
     /\ AtOneOf(c, {"put_storage", "swap"}) =>
          /\ HasFile(c)
          /\ IsCurrent(c) => \A k \in applied : k.uuid # task[c].metadata.uuid
  \/ /\ task[c].todo \in S3AfterPoints
     /\ Got(c)
     /\ HasFile(c)

S3RegisterOK(c) ==
  /\ task[c].todo \in S3RegisterPoints
  /\ task[c].loc \in 1..Len(files)
  /\ ~At(c, "read_registered") => HasFile(c)
  /\ At(c, "swap") => task[c].version >= 1 /\ (IsCurrent(c) => origin = "register")
  /\ At(c, "cache") => Got(c)

RestOK(c) ==
  /\ CASE task[c].op = "load" -> task[c].todo \in RestLoadPoints
       [] task[c].op = "create" -> task[c].todo \in RestCreatePoints
       [] task[c].op = "update" -> task[c].todo \in RestUpdatePoints
       [] task[c].op = "register" -> task[c].todo \in RestRegisterPoints
  /\ task[c].op = "create" => task[c].metadata.kind \in Kinds
  /\ At(c, "server_register") => task[c].loc \in 1..Len(files) /\ files[task[c].loc].kind = "table"
  /\ AtOneOf(c, {"cache", "done"}) =>
       Proper(task[c].metadata) /\ (task[c].op = "update" => Applied(c))

TaskOK(c) ==
  /\ Held(task[c].metadata)
  /\ task[c].loc <= Len(files)
  /\ task[c].version <= versions
  /\ \/ task[c] = IdleTask
     \/ service = "rest" /\ task[c].op # "none" /\ RestOK(c)
     \/ service # "rest" /\ task[c].op = "load" /\ LoadOK(c)
     \/ service # "rest" /\ task[c].op = "update" /\ UpdateOK(c)
     \/ service = "glue" /\ task[c].op = "create" /\ GlueCreateOK(c)
     \/ service = "glue" /\ task[c].op = "register" /\ GlueRegisterOK(c)
     \/ service = "s3tables" /\ task[c].op = "create" /\ S3CreateOK(c)
     \/ service = "s3tables" /\ task[c].op = "register" /\ S3RegisterOK(c)

-----------------------------------------------------------------------------
(* The invariant *)

\* An entry of a cache: with the version id that is current comes the
\* current metadata.
EntryOK(i) ==
  cache[i] # NoEntry =>
    /\ service # "rest" => cache[i].version \in 1..versions /\ Proper(cache[i].metadata)
    /\ Fenced /\ cache[i].version = pointer["main"].version => cache[i].metadata = Current

CachesOK == \A i \in Instances : EntryOK(i)

\* The service's metadata has every commit it applied: CommitsKept with
\* applied in place of acked.
AppliedKept ==
  origin # "register" /\ (service = "rest" \/ Fenced) =>
    \A k \in applied : Current.uuid = k.uuid => k.id \in Range(Current.commits)

IInv ==
  /\ TypeOK
  /\ PointerOK
  /\ FilesOK
  /\ AppliedOK
  /\ HandlesOK
  /\ \A c \in Clients : TaskOK(c)
  /\ CachesOK
  /\ AppliedKept

-----------------------------------------------------------------------------
(* Without faults *)

\* AppliedIsReported needs that no update is refused after its swap.  Glue
\* reads the table again then and refuses it when there is none or one of
\* another kind; the REST catalog refuses it when it knows no object store.
\* While nothing fails and nothing is dropped, neither happens: "main" stays
\* and keeps its kind, whoever knows of it knows its kind, and whoever holds
\* a table has the object store.
Quiet == faults = 0 /\ origin # "register"

\* Once it is there, "main" stays.
OriginOK == faults = 0 /\ origin # "existing" => pointer["main"] # NoTabular

\* A registration that made "main".
Registering(c) == task[c].op = "register" /\ AtOneOf(c, {"get", "cache", "done"})

KnownKind(m) == pointer["main"] # NoTabular /\ m.kind = Current.kind

\* The file a load, or an update that reads the table again, is to read.
GlueKnown(c) ==
  /\ (task[c].op = "load" /\ AtOneOf(c, {"read", "cache"})) \/ (task[c].op = "update" /\ At(c, "reread")) =>
       task[c].loc >= 1 /\ KnownKind(files[task[c].loc])
  /\ task[c].op = "update" => KnownKind(task[c].metadata)
  /\ task[c].op = "create" /\ AtOneOf(c, {"create_storage", "get", "cache"}) =>
       KnownKind(task[c].metadata)

RestKnown(c) ==
  /\ task[c].op \in {"load", "create", "update"} /\ AtOneOf(c, {"cache", "done"}) =>
       KnownKind(task[c].metadata)
  /\ task[c].op = "load" /\ At(c, "done") => task[c].metadata.kind # "table"
  /\ task[c].op = "create" /\ task[c].metadata.kind = "table" =>
       task[c].todo \in {<<"server_create", "cache">>, <<"cache">>}
  /\ task[c].op = "update" => handle[c] # NoMetadata

CallKnown(c) == IF service = "glue" THEN GlueKnown(c) ELSE RestKnown(c)

CacheKnown(i) == service = "glue" /\ cache[i] # NoEntry => KnownKind(cache[i].metadata)

HandleKnown(c) ==
  handle[c] # NoMetadata =>
    /\ KnownKind(handle[c])
    /\ service = "rest" /\ handle[c].kind = "table" => cache[InstanceOf[c]] # NoEntry

KindsKnown ==
  /\ pointer["main"] # NoTabular => pointer["main"].loc >= 1
  /\ \A i \in Instances : CacheKnown(i)
  /\ \A c \in Clients : HandleKnown(c)
  /\ \A c \in Clients : CallKnown(c)

\* An update past its swap, and the commit it made.
PastSwap(c) == task[c].op = "update" /\ AtOneOf(c, {"get", "reread", "cache", "done"})

Reporting(k) == \E c \in Clients : PastSwap(c) /\ task[c].id = k.id

RInv ==
  /\ faults \in Nat
  /\ OriginOK
  /\ faults = 0 /\ service # "s3tables" => \A c \in Clients : Registering(c) => origin = "register"
  /\ Quiet /\ service # "s3tables" => KindsKnown
  /\ Quiet => \A k \in applied : k \in acked \/ Reporting(k)

=============================================================================
