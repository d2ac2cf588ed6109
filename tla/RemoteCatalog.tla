---------------------------- MODULE RemoteCatalog ----------------------------
(***************************************************************************)
(* The catalogs that keep the pointer to a tabular's metadata in a remote  *)
(* service: Glue, S3 Tables and REST                                       *)
(* (src/catalogs/iceberg-glue-catalog/src/lib.rs,                          *)
(*  src/catalogs/iceberg-s3tables-catalog/src/lib.rs,                      *)
(*  src/catalogs/iceberg-rest-catalog/src/catalog.rs).                     *)
(*                                                                         *)
(* A call is a sequence of requests, one await each, written as the        *)
(* program of that catalog's method; the steps of clients interleave, and  *)
(* between any two of them the call may end with an error: the request     *)
(* failed, its reply was lost or the process stopped.  The services are    *)
(* external: Glue and S3 Tables swap a location when the version id they   *)
(* are given is current, a REST server checks the requirements itself.     *)
(* A version id is never used twice.                                       *)
(*                                                                         *)
(* There are two identifiers: "main", a table, a view or a materialized    *)
(* view, and "storage", the storage table the latter names.  Metadata is the*)
(* kind, the uuid, the commits that built it and the last of them that a   *)
(* table commit requires not to have changed (its snapshot).               *)
(***************************************************************************)
EXTENDS Naturals, Sequences, FiniteSets, SequencesExt

CONSTANTS
  Clients,     \* tasks calling a catalog
  InstanceOf,  \* the catalog instance of each client
  Services,    \* "glue", "s3tables", "rest"
  MaxFiles,    \* bound: metadata files in a behaviour
  MaxFaults    \* bound: drops, failed requests, lost replies and stopped calls

Instances == Range(InstanceOf)
Ids == {"main", "storage"}
Kinds == {"table", "view", "materialized_view"}

NoMetadata == [kind |-> "none", uuid |-> 0, commits |-> <<>>, head |-> 0]
NoEntry == [version |-> 0, loc |-> 0, metadata |-> NoMetadata]

\* What the service holds for an identifier it does not know.
NoTabular == [version |-> 0, loc |-> 0]

VARIABLES
  service,   \* which of the catalogs this is
  pointer,   \* the service: per identifier the current version id and metadata location
  files,     \* the object store: a sequence, a location is its index
  cache,     \* per instance: the entry of "main"; for REST version 1 stands for its object store
  handle,    \* per client: the metadata of the tabular it holds
  task,      \* per client: the call in progress
  versions,  \* version ids handed out so far
  faults,    \* drops and calls ended by an error of the network so far
  acked,     \* history: the commits reported Ok
  applied,   \* history: the commits the service applied
  origin     \* history: "existing", or how "main" came to be in this behaviour

vars == <<service, pointer, files, cache, handle, task, versions, faults, acked, applied, origin>>

IdleTask == [op |-> "none", todo |-> <<>>, id |-> 0, loc |-> 0, version |-> 0, metadata |-> NoMetadata,
             storage |-> [loc |-> 0, version |-> 0]]

-----------------------------------------------------------------------------
(* The methods: the requests each makes, in order *)

\* Glue.  The entry is created with its location; the version id is read
\* afterwards.  (glue_keeps_own: the slip of caching the metadata just written
\* under the version id read afterwards.)
glue_load_tabular == <<"get", "read", "cache">>
glue_create_table == <<"put", "create", "get", "cache">>
glue_create_view == <<"put", "create", "get", "cache">>
glue_create_materialized_view ==
  <<"put", "put_storage", "create", "create_storage", "get", "cache">>
glue_keeps_own == <<"put", "swap", "get", "cache">>
glue_update_table == <<"put", "swap", "get", "reread", "cache">>
glue_update_view == <<"put", "swap", "get", "reread", "cache">>
glue_update_materialized_view == <<"put", "swap", "get", "reread", "cache">>
glue_register_table == <<"read_registered", "create_bare", "get", "cache">>

\* S3 Tables.  The entry is created without a location, which is set afterwards.
s3_load_tabular == <<"get", "read", "cache">>
s3_create_table == <<"create_bare", "get", "put", "swap", "cache">>
s3_create_view == <<"create_bare", "get", "put", "swap", "cache">>
s3_create_materialized_view ==
  <<"create_bare", "get", "create_bare_storage", "get_storage", "put", "put_storage",
    "swap", "create_bare_storage", "swap_storage", "cache">>
s3_update_table == <<"put", "swap", "reread", "cache">>
s3_update_view == <<"put", "swap", "reread", "cache">>
s3_update_materialized_view == <<"put", "swap", "reread", "cache">>
s3_register_table == <<"read_registered", "create_bare", "swap", "cache">>

\* REST.  Only the object stores of tables are kept.  A materialized view's
\* storage table is asked for under the view's own name, not the one that the
\* view's version names.  (rest_uncached: the slip of not keeping the object
\* store of a new table.)
rest_load_tabular == <<"load_table", "load_view", "done">>
rest_uncached == <<"server_create", "done">>
rest_create_table == <<"server_create", "cache">>
rest_create_view == <<"server_create", "done">>
rest_create_materialized_view == <<"server_create_table", "server_create", "done">>
rest_update_table == <<"server_update", "done">>
rest_update_view == <<"server_update", "done">>
rest_update_materialized_view == <<"server_update", "done">>
rest_register_table == <<"server_register", "done">>

\* The requests of a method, by the kind of tabular it is for.
Of(table, view, materialized_view) ==
  [k \in Kinds |-> CASE k = "table" -> table [] k = "view" -> view [] OTHER -> materialized_view]

Methods ==
  [glue |->
     [load |-> Of(glue_load_tabular, glue_load_tabular, glue_load_tabular),
      create |-> Of(glue_create_table, glue_create_view, glue_create_materialized_view),
      update |-> Of(glue_update_table, glue_update_view, glue_update_materialized_view),
      register |-> Of(glue_register_table, <<>>, <<>>)],
   s3tables |->
     [load |-> Of(s3_load_tabular, s3_load_tabular, s3_load_tabular),
      create |-> Of(s3_create_table, s3_create_view, s3_create_materialized_view),
      update |-> Of(s3_update_table, s3_update_view, s3_update_materialized_view),
      register |-> Of(s3_register_table, <<>>, <<>>)],
   rest |->
     [load |-> Of(rest_load_tabular, rest_load_tabular, rest_load_tabular),
      create |-> Of(rest_create_table, rest_create_view, rest_create_materialized_view),
      update |-> Of(rest_update_table, rest_update_view, rest_update_materialized_view),
      register |-> Of(rest_register_table, <<>>, <<>>)]]

Program(op, kind) == Methods[service][op][kind]

-----------------------------------------------------------------------------
(* Requirements and updates *)

\* check_table_requirements of a commit built on base: the uuid, and the
\* snapshot; check_view_requirements: the uuid.
check_requirements(base, m) ==
  /\ m.uuid = base.uuid
  /\ m.kind = "table" => m.head = base.head

apply_updates(m, id) == [m EXCEPT !.commits = Append(@, id), !.head = id]

NewMetadata(kind, uuid) == [NoMetadata EXCEPT !.kind = kind, !.uuid = uuid]

\* put_metadata: a location no file has had.
put_metadata(m) ==
  /\ Len(files) < MaxFiles
  /\ files' = Append(files, m)

\* The file a call writes is built when it is written: a creation gives a
\* uuid, an update is a commit known by its location.
Built(t) ==
  CASE t.op = "update" -> apply_updates(t.metadata, Len(files) + 1)
    [] OTHER -> [t.metadata EXCEPT !.uuid = Len(files) + 1]

\* A table that the behaviour starts with, or none.
Init ==
  /\ service \in Services
  /\ files \in {<<>>} \cup {<<NewMetadata(k, 1)>> : k \in Kinds}
  /\ pointer = [i \in Ids |-> IF files # <<>> /\ (i = "main" \/ files[1].kind = "materialized_view")
                              THEN [version |-> 1, loc |-> 1]
                              ELSE NoTabular]
  /\ cache = [i \in Instances |-> NoEntry]
  /\ handle = [c \in Clients |-> NoMetadata]
  /\ task = [c \in Clients |-> IdleTask]
  /\ versions = 1
  /\ faults = 0
  /\ acked = {}
  /\ applied = {}
  /\ origin = "existing"

Begin(c, t) ==
  /\ task[c] = IdleTask
  /\ task' = [task EXCEPT ![c] = t]
  /\ UNCHANGED <<service, pointer, files, cache, handle, versions, faults, acked, applied, origin>>

load_tabular(c) == Begin(c, [IdleTask EXCEPT !.op = "load", !.todo = Program("load", "table")])

create(c) ==
  /\ Len(files) < MaxFiles
  /\ \E k \in Kinds :
       Begin(c, [IdleTask EXCEPT !.op = "create", !.todo = Program("create", k),
                                 !.metadata = NewMetadata(k, 0)])

\* register_table of a metadata file that is in the store.
register_table(c) ==
  /\ files # <<>>
  /\ files[1].kind = "table"
  /\ Begin(c, [IdleTask EXCEPT !.op = "register", !.todo = Program("register", "table"), !.loc = 1])

\* update_table, update_view, update_materialized_view: Glue and S3 Tables
\* check the requirements on the cached entry and build on it, REST sends
\* them.
update(c) ==
  LET e == cache[InstanceOf[c]] IN
  /\ handle[c] # NoMetadata
  /\ Len(files) < MaxFiles
  /\ IF service = "rest"
     THEN Begin(c, [IdleTask EXCEPT !.op = "update", !.todo = Program("update", handle[c].kind)])
     ELSE /\ e # NoEntry
          /\ e.metadata.kind = handle[c].kind
          /\ check_requirements(handle[c], e.metadata)
          /\ Begin(c, [IdleTask EXCEPT !.op = "update", !.todo = Program("update", handle[c].kind),
                                    !.version = e.version, !.metadata = e.metadata])

-----------------------------------------------------------------------------
(* Steps *)

Step(c) == Head(task[c].todo)

\* The reply arrived: the next request.
Then(c, t) == task' = [task EXCEPT ![c] = [t EXCEPT !.todo = Tail(@)]]

\* The method returns an error.
Err(c) == task' = [task EXCEPT ![c] = IdleTask]

At(c, step) == task[c].todo # <<>> /\ Step(c) = step

Put(c) ==
  /\ At(c, "put") \/ At(c, "put_storage")
  /\ IF Step(c) = "put"
     THEN /\ put_metadata(Built(task[c]))
          /\ Then(c, [task[c] EXCEPT !.id = Len(files) + 1, !.loc = Len(files) + 1, !.metadata = Built(task[c])])
     ELSE /\ put_metadata(NewMetadata("table", Len(files) + 1))
          /\ Then(c, [task[c] EXCEPT !.storage.loc = Len(files) + 1])
  /\ UNCHANGED <<service, pointer, cache, handle, versions, faults, acked, applied, origin>>

NextVersion == versions + 1

\* The services' create_table: an entry with a location (Glue) or without
\* (S3 Tables, and Glue's register_table); an error when there is one already.
ServiceCreate(c) ==
  /\ task[c].todo # <<>>
  /\ Step(c) \in {"create", "create_bare", "create_storage", "create_bare_storage"}
  /\ LET id == IF Step(c) \in {"create", "create_bare"} THEN "main" ELSE "storage"
         loc == CASE Step(c) = "create" -> task[c].loc
                  [] Step(c) = "create_storage" -> task[c].storage.loc
                  [] OTHER -> 0
         t == IF id = "main" THEN [task[c] EXCEPT !.version = NextVersion]
              ELSE [task[c] EXCEPT !.storage.version = NextVersion] IN
     IF pointer[id] # NoTabular
     THEN Err(c) /\ UNCHANGED <<pointer, versions, origin>>
     ELSE /\ pointer' = [pointer EXCEPT ![id] = [version |-> NextVersion, loc |-> loc]]
          /\ versions' = NextVersion
          /\ origin' = IF id = "main" THEN task[c].op ELSE origin
          /\ Then(c, t)
  /\ UNCHANGED <<service, files, cache, handle, faults, acked, applied>>

\* get_table: the version id, and for a load the location.
ServiceGet(c) ==
  /\ At(c, "get") \/ At(c, "get_storage")
  /\ LET id == IF Step(c) = "get" THEN "main" ELSE "storage"
         p == pointer[id] IN
     IF p = NoTabular \/ (task[c].op = "load" /\ p.loc = 0) THEN Err(c)
     ELSE Then(c, CASE id = "storage" -> [task[c] EXCEPT !.storage.version = p.version]
                    [] id = "main" /\ task[c].op = "create" -> [task[c] EXCEPT !.version = p.version]
                    [] OTHER -> [task[c] EXCEPT !.version = p.version, !.loc = p.loc])
  /\ UNCHANGED <<service, pointer, files, cache, handle, versions, faults, acked, applied, origin>>

\* The update under a version id: refused when it is not the current one.
\* (swaps_unfenced: the slip of leaving the version id out.)
swaps_unfenced(p, version) == p # NoTabular
swaps(p, version) == p.version = version

ServiceSwap(c) ==
  /\ At(c, "swap") \/ At(c, "swap_storage")
  /\ LET id == IF Step(c) = "swap" THEN "main" ELSE "storage"
         t == task[c]
         loc == IF id = "main" THEN t.loc ELSE t.storage.loc
         version == IF id = "main" THEN t.version ELSE t.storage.version IN
     IF ~swaps(pointer[id], version)
     THEN Err(c) /\ UNCHANGED <<pointer, versions, applied>>
     ELSE /\ pointer' = [pointer EXCEPT ![id] = [version |-> NextVersion, loc |-> loc]]
          /\ versions' = NextVersion
          /\ applied' = IF t.op = "update" THEN applied \cup {[id |-> t.id, uuid |-> t.metadata.uuid]} ELSE applied
          /\ Then(c, IF id = "main" THEN [t EXCEPT !.version = NextVersion] ELSE t)
  /\ UNCHANGED <<service, files, cache, handle, faults, acked, origin>>

\* The metadata file a load names; after an update only when the location is
\* not the one just written, and of the same kind; a registered file.
Read(c) ==
  /\ At(c, "read") \/ At(c, "reread") \/ At(c, "read_registered")
  /\ IF \/ task[c].loc = 0
        \/ Step(c) = "reread" /\ files[task[c].loc].kind # task[c].metadata.kind
     THEN Err(c)
     ELSE Then(c, [task[c] EXCEPT !.metadata = files[task[c].loc]])
  /\ UNCHANGED <<service, pointer, files, cache, handle, versions, faults, acked, applied, origin>>

\* Return with Ok: the cache entry, the caller's tabular.
Ok(c, m) ==
  /\ task' = [task EXCEPT ![c] = IdleTask]
  /\ handle' = [handle EXCEPT ![c] = m]
  /\ acked' = IF task[c].op = "update" THEN acked \cup {[id |-> task[c].id, uuid |-> files[task[c].id].uuid]} ELSE acked

CacheEntry(c) ==
  /\ At(c, "cache")
  /\ cache' = [cache EXCEPT ![InstanceOf[c]] =
                 [version |-> IF service = "rest" THEN 1 ELSE task[c].version,
                  loc |-> IF service = "rest" THEN 0 ELSE task[c].loc,
                  metadata |-> IF service = "rest" THEN NoMetadata ELSE task[c].metadata]]
  /\ Ok(c, task[c].metadata)
  /\ UNCHANGED <<service, pointer, files, versions, faults, applied, origin>>

\* REST methods that leave the cache of object stores alone; update_table
\* needs the store there, views do without.
Done(c) ==
  /\ At(c, "done")
  /\ IF task[c].op = "update" /\ task[c].metadata.kind = "table" /\ cache[InstanceOf[c]] = NoEntry
     THEN Err(c) /\ UNCHANGED <<handle, acked>>
     ELSE Ok(c, task[c].metadata)
  /\ UNCHANGED <<service, pointer, files, cache, versions, faults, applied, origin>>

-----------------------------------------------------------------------------
(* The REST server *)

Served == files[pointer["main"].loc]

\* The server writes a metadata file and points the identifier at it.
ServerWrites(m) ==
  /\ put_metadata(m)
  /\ pointer' = [pointer EXCEPT !["main"] = [version |-> NextVersion, loc |-> Len(files) + 1]]
  /\ versions' = NextVersion

\* loadTable, whose object store is kept, and when there is no such table loadView.
ServerLoad(c) ==
  /\ At(c, "load_table") \/ At(c, "load_view")
  /\ LET isTable == pointer["main"] # NoTabular /\ Served.kind = "table"
         found == [task[c] EXCEPT !.metadata = Served] IN
     CASE Step(c) = "load_table" /\ isTable -> task' = [task EXCEPT ![c] = [found EXCEPT !.todo = <<"cache">>]]
       [] Step(c) = "load_table" /\ ~isTable -> Then(c, task[c])
       [] Step(c) = "load_view" /\ (pointer["main"] = NoTabular \/ isTable) -> Err(c)
       [] OTHER -> Then(c, found)
  /\ UNCHANGED <<service, pointer, files, cache, handle, versions, faults, acked, applied, origin>>

\* createTable and createView.  Tables and views share their names: a server
\* refuses to create one where there is the other.  A materialized view is
\* therefore refused once its storage table has its name, unless that was
\* dropped in between.
ServerCreate(c) ==
  /\ At(c, "server_create") \/ At(c, "server_create_table")
  /\ IF pointer["main"] # NoTabular THEN Err(c) /\ UNCHANGED <<files, pointer, versions, origin>>
     ELSE /\ origin' = "create"
          /\ IF Step(c) = "server_create"
             THEN /\ ServerWrites(Built(task[c]))
                  /\ Then(c, [task[c] EXCEPT !.metadata = Built(task[c])])
             ELSE /\ ServerWrites(NewMetadata("table", Len(files) + 1))
                  /\ Then(c, task[c])
  /\ UNCHANGED <<service, cache, handle, faults, acked, applied>>

ServerUpdate(c) ==
  /\ At(c, "server_update")
  /\ IF pointer["main"] = NoTabular \/ ~check_requirements(handle[c], Served)
     THEN Err(c) /\ UNCHANGED <<files, pointer, versions, applied>>
     ELSE LET m == apply_updates(Served, Len(files) + 1) IN
          /\ ServerWrites(m)
          /\ applied' = applied \cup {[id |-> Len(files) + 1, uuid |-> m.uuid]}
          /\ Then(c, [task[c] EXCEPT !.metadata = m, !.id = Len(files) + 1])
  /\ UNCHANGED <<service, cache, handle, faults, acked, origin>>

ServerRegister(c) ==
  /\ At(c, "server_register")
  /\ IF pointer["main"] # NoTabular THEN Err(c) /\ UNCHANGED <<pointer, versions, origin>>
     ELSE /\ pointer' = [pointer EXCEPT !["main"] = [version |-> NextVersion, loc |-> task[c].loc]]
          /\ versions' = NextVersion
          /\ origin' = "register"
          /\ Then(c, [task[c] EXCEPT !.metadata = files[task[c].loc]])
  /\ UNCHANGED <<service, files, cache, handle, faults, acked, applied>>

-----------------------------------------------------------------------------

\* drop_table, drop_view and drop_materialized_view: one request for the
\* identifier; the storage table and the caches stay.
Drop(c, of) ==
  /\ service = of
  /\ task[c] = IdleTask
  /\ faults < MaxFaults
  /\ faults' = faults + 1
  /\ pointer["main"] # NoTabular
  /\ pointer' = [pointer EXCEPT !["main"] = NoTabular]
  /\ UNCHANGED <<service, files, cache, handle, task, versions, acked, applied, origin>>

glue_drop(c) == Drop(c, "glue")
s3_drop(c) == Drop(c, "s3tables")
rest_drop(c) == Drop(c, "rest")

\* A request fails, a reply is lost, or the process stops.
Fail(c) ==
  /\ task[c] # IdleTask
  /\ faults < MaxFaults
  /\ faults' = faults + 1
  /\ Err(c)
  /\ UNCHANGED <<service, pointer, files, cache, handle, versions, acked, applied, origin>>

Call(c) == load_tabular(c) \/ create(c) \/ register_table(c) \/ update(c)
           \/ glue_drop(c) \/ s3_drop(c) \/ rest_drop(c)

Proceed(c) ==
  \/ Put(c) \/ ServiceCreate(c) \/ ServiceGet(c) \/ ServiceSwap(c) \/ Read(c)
  \/ ServerLoad(c) \/ ServerCreate(c) \/ ServerUpdate(c) \/ ServerRegister(c)
  \/ CacheEntry(c) \/ Done(c)

Next == \E c \in Clients : Call(c) \/ Proceed(c) \/ Fail(c)

Spec == Init /\ [][Next]_vars

-----------------------------------------------------------------------------
(* Properties *)

\* What the service's pointer names.
Current == IF pointer["main"].loc = 0 THEN NoMetadata ELSE files[pointer["main"].loc]

\* The call in progress that a commit belongs to.
InFlight(k) == \E c \in Clients : task[c].op = "update" /\ task[c].id = k.id

\* Glue's create_table and register_table read the version id after the
\* entry is there and keep it with the metadata they made.
Fenced == service \in {"glue", "s3tables"} /\ (service = "glue" => origin = "existing")

\* A commit reported Ok stays in the history of its table, view or
\* materialized view, whoever else commits on the same or another instance;
\* only registering an older metadata file takes it back.
CommitsKept ==
  origin # "register" /\ (service = "rest" \/ Fenced) =>
    \A k \in acked : Current.uuid = k.uuid => k.id \in Range(Current.commits)

\* A cached version id that is current comes with the current metadata, so
\* that requirements checked on the cache and the swap fence the same state.
CacheMatchesVersion ==
  Fenced =>
    \A i \in Instances :
      cache[i].version = pointer["main"].version /\ cache[i] # NoEntry => cache[i].metadata = Current

\* Without drops and failures of the network, an update that the service
\* applied is reported Ok; a REST table that was registered, and not
\* loaded since, has no object store in the cache and is left out.
AppliedIsReported ==
  faults = 0 /\ origin # "register" => \A k \in applied : k \in acked \/ InFlight(k)

\* What the documentation of CreateMaterializedViewBuilder::build says: when
\* the REST catalog comes to create the view, having asked for the storage
\* table, the storage table that the view's version names is registered.
StorageTableCreated ==
  \A c \in Clients :
    task[c].op = "create" /\ task[c].metadata.kind = "materialized_view" /\ At(c, "server_create") =>
      pointer["storage"] # NoTabular

=============================================================================
