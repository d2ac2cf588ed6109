------------------------------- MODULE Views -------------------------------
(***************************************************************************)
(* Views and materialized views: their creation and the transactions that  *)
(* replace a representation or set properties                              *)
(* (src/iceberg-rust/src/view/transaction, the view half of                *)
(* src/iceberg-rust/src/catalog/commit.rs, and the view methods of the SQL *)
(* and the file catalog).                                                  *)
(*                                                                         *)
(* A transaction is executed against the View value its client holds and   *)
(* committed against the entry its catalog instance has cached; the last   *)
(* step is atomic, the compare-and-set of the row's location for SQL, the  *)
(* copy_if_not_exists to the next version name for files.                  *)
(*                                                                         *)
(* Metadata keeps the ids and what they resolve to: a version has a schema *)
(* id and a representation per dialect, a representation is the number of  *)
(* the transaction that wrote it.                                          *)
(***************************************************************************)
EXTENDS Naturals, Sequences, FiniteSetsExt, Functions

CONSTANTS
  Clients,       \* tasks
  InstanceOf,    \* the catalog instance of each client
  Backends,      \* subset of {"sql", "file"}
  Kinds,         \* subset of {"view", "materialized_view"}
  Transactions,  \* the sequences of operations clients commit
  MaxTxns,       \* bound: views created and transactions attempted
  MaxFaults      \* bound: calls cut short by an error or a crash, and drops

Instances == Range(InstanceOf)

NoMetadata == [uuid |-> 0, current |-> 0, versions |-> <<>>, schemas |-> <<>>, refs |-> <<>>]
NoEntry == [loc |-> 0, metadata |-> NoMetadata]

VARIABLES
  backend, kind,  \* which catalog, and what is created
  stored,         \* the entry the catalog resolves the identifier to
  storage,        \* the storage table of a materialized view exists
  cache,          \* per instance: its entry
  handle,         \* per client: the metadata of the view it holds
  task,           \* per client: the call in progress
  txns,           \* transactions and creations so far
  faults,         \* failed calls and drops so far
  nextLoc         \* next unused location of the SQL catalog

vars == <<backend, kind, stored, storage, cache, handle, task, txns, faults, nextLoc>>

IdleTask == [pc |-> "idle", prev |-> 0, entry |-> NoEntry, base |-> NoMetadata]

-----------------------------------------------------------------------------
(* View metadata *)

Insert(f, k, v) == [x \in DOMAIN f \cup {k} |-> IF x = k THEN v ELSE f[x]]
MaxKey(f) == Max(DOMAIN f \cup {0})

\* GeneralViewMetadata::current_version: of a ref the version its property
\* names, else the current version.  "" is no branch.
current_version_id(m, branch) ==
  IF branch \in DOMAIN m.refs THEN m.refs[branch] ELSE m.current

current_version(m, branch) == m.versions[current_version_id(m, branch)]

current_schema(m, branch) == m.schemas[current_version(m, branch).schema]

\* upsert_representation(s): the representation of a dialect is replaced where
\* it stands, a new dialect comes last.
upsert_representation(reps, new) ==
  IF \E i \in DOMAIN reps : reps[i].dialect = new.dialect
  THEN [i \in DOMAIN reps |-> IF reps[i].dialect = new.dialect THEN new ELSE reps[i]]
  ELSE Append(reps, new)

\* Operation::execute.  The new version id and schema id are one past the
\* largest the transaction's own view knows; an unchanged schema keeps its id.
\* (next_on_branch: the slip of counting from the branch's version.)
next_on_branch(m, branch) == current_version_id(m, branch) + 1
new_version_id(m, branch) == MaxKey(m.versions) + 1

schema_changed(m, o) == current_schema(m, o.branch) # o.schema

\* (forgets_schema: the slip of not adding the schema the version names.)
forgets_schema(m, o, id) == <<>>

AddSchema(m, o, id) ==
  IF schema_changed(m, o) THEN <<[update |-> "AddSchema", id |-> id, value |-> o.schema]>> ELSE <<>>

UpdateRepresentations(m, o, txn) ==
  LET id == new_version_id(m, o.branch)
      schema == IF schema_changed(m, o) THEN MaxKey(m.schemas) + 1
                ELSE current_version(m, o.branch).schema
      version == [schema |-> schema,
                  reps |-> upsert_representation(current_version(m, o.branch).reps,
                                                 [dialect |-> o.dialect, sql |-> txn])]
  IN  AddSchema(m, o, schema)
      \o <<[update |-> "AddViewVersion", id |-> id, value |-> version],
           [update |-> "SetCurrentViewVersion", id |-> id],
           [update |-> "SetRef", branch |-> IF o.branch = "" THEN "main" ELSE o.branch, id |-> id]>>

\* Every operation is executed against the same metadata.
execute(m, ops, txn) ==
  LET updates[n \in 0 .. Len(ops)] ==
        IF n = 0 THEN <<>>
        ELSE updates[n - 1] \o IF ops[n].op = "representations"
                               THEN UpdateRepresentations(m, ops[n], txn)
                               ELSE <<[update |-> "SetProperties"]>>
  IN  updates[Len(ops)]

\* The requirements of a transaction: the uuid, when a representation changes.
check_view_requirements(ops, base, m) ==
  (\E i \in DOMAIN ops : ops[i].op = "representations") => m.uuid = base.uuid

apply_view_update(u, m) ==
  CASE u.update = "AddSchema" -> [m EXCEPT !.schemas = Insert(@, u.id, u.value)]
    [] u.update = "AddViewVersion" -> [m EXCEPT !.versions = Insert(@, u.id, u.value)]
    [] u.update = "SetCurrentViewVersion" -> [m EXCEPT !.current = u.id]
    [] u.update = "SetRef" -> [m EXCEPT !.refs = Insert(@, u.branch, u.id)]
    [] OTHER -> m

apply_view_updates(m, updates) ==
  LET after[n \in 0 .. Len(updates)] ==
        IF n = 0 THEN m ELSE apply_view_update(updates[n], after[n - 1])
  IN  after[Len(updates)]

\* CreateView::try_into: the default version with the default schema, both 0.
NewView(txn) ==
  [uuid |-> txn, current |-> 0,
   versions |-> [v \in {0} |-> [schema |-> 0, reps |-> <<[dialect |-> "d1", sql |-> txn]>>]],
   schemas |-> [s \in {0} |-> "s0"], refs |-> <<>>]

\* The metadata file: versions and schemas are lists of values that carry
\* their own id, in the order of a hash map's values; the properties, the refs
\* among them, are left out when there are none.
ViewMetadataV1(m) ==
  [m EXCEPT !.versions = {[version_id |-> v, version |-> m.versions[v]] : v \in DOMAIN m.versions},
            !.schemas = {[schema_id |-> s, schema |-> m.schemas[s]] : s \in DOMAIN m.schemas},
            !.refs = IF m.refs = <<>> THEN {} ELSE {m.refs}]

\* GeneralViewMetadata::try_from: the maps are keyed by these ids again.
view_metadata_try_from(f) ==
  [f EXCEPT !.versions = [v \in {x.version_id : x \in @} |->
                            (CHOOSE x \in f.versions : x.version_id = v).version],
            !.schemas = [s \in {x.schema_id : x \in @} |->
                           (CHOOSE x \in f.schemas : x.schema_id = s).schema],
            !.refs = IF @ = {} THEN <<>> ELSE CHOOSE r \in @ : TRUE]

\* What a load makes of an entry: its file is written and parsed.
Parsed(e) == [e EXCEPT !.metadata = view_metadata_try_from(ViewMetadataV1(@))]

-----------------------------------------------------------------------------
(* The catalogs *)

Init ==
  /\ backend \in Backends
  /\ kind \in Kinds
  /\ stored = NoEntry
  /\ storage = FALSE
  /\ cache = [i \in Instances |-> NoEntry]
  /\ handle = [c \in Clients |-> NoMetadata]
  /\ task = [c \in Clients |-> IdleTask]
  /\ txns = 0
  /\ faults = 0
  /\ nextLoc = 1

NewTxn == txns < MaxTxns /\ txns' = txns + 1

Goto(c, t) == task' = [task EXCEPT ![c] = t]

\* A call ends with an error, or its process stops: the cache and the handle
\* keep what they had.
Fail(c) ==
  /\ task[c].pc # "idle"
  /\ faults < MaxFaults
  /\ faults' = faults + 1
  /\ Goto(c, IdleTask)
  /\ UNCHANGED <<backend, kind, stored, storage, cache, handle, txns, nextLoc>>

\* The file catalog's list of the directory; one that fails finds nothing.
tabular_exists(failed) == ~failed /\ stored # NoEntry

\* create_view, create_materialized_view: the metadata is built; the file
\* catalog first checks that the identifier is free, as far as it can list it.
StartCreate(c) ==
  /\ task[c].pc = "idle"
  /\ NewTxn
  /\ backend = "file" => \E failed \in BOOLEAN : ~tabular_exists(failed)
  /\ Goto(c, [IdleTask EXCEPT !.pc = "create",
                              !.entry = [loc |-> nextLoc, metadata |-> NewView(txns')]])
  /\ nextLoc' = IF backend = "sql" THEN nextLoc + 1 ELSE nextLoc
  /\ UNCHANGED <<backend, kind, stored, storage, cache, handle, faults>>

\* SQL: the files are written under fresh names, then the rows of the view
\* and of its storage table are inserted in one transaction; the primary key
\* refuses a second row.
sql_create(c) ==
  /\ backend = "sql"
  /\ task[c].pc = "create"
  /\ IF stored = NoEntry /\ (kind = "materialized_view" => ~storage)
     THEN /\ stored' = task[c].entry
          /\ storage' = (storage \/ kind = "materialized_view")
          /\ Goto(c, [task[c] EXCEPT !.pc = "cache"])
     ELSE /\ Goto(c, IdleTask)
          /\ UNCHANGED <<stored, storage>>
  /\ UNCHANGED <<backend, kind, cache, handle, txns, faults, nextLoc>>

\* Files: the view's v0 is put, over one another client has just put, then
\* the storage table's; a newer version stays the one a load finds.
file_create_view(c) ==
  /\ backend = "file"
  /\ task[c].pc = "create"
  /\ stored' = IF stored.loc > task[c].entry.loc THEN stored ELSE task[c].entry
  /\ Goto(c, [task[c] EXCEPT !.pc = IF kind = "view" THEN "cache" ELSE "create_storage"])
  /\ UNCHANGED <<backend, kind, storage, cache, handle, txns, faults, nextLoc>>

file_create_storage(c) ==
  /\ task[c].pc = "create_storage"
  /\ storage' = TRUE
  /\ Goto(c, [task[c] EXCEPT !.pc = "cache"])
  /\ UNCHANGED <<backend, kind, stored, cache, handle, txns, faults, nextLoc>>

\* drop_view, drop_materialized_view of the SQL catalog: the view's row and
\* the instance's cached entry; the storage table's row stays.
sql_drop(c) ==
  /\ backend = "sql"
  /\ task[c].pc = "idle"
  /\ stored # NoEntry
  /\ faults < MaxFaults
  /\ faults' = faults + 1
  /\ stored' = NoEntry
  /\ cache' = [cache EXCEPT ![InstanceOf[c]] = NoEntry]
  /\ UNCHANGED <<backend, kind, storage, handle, task, txns, nextLoc>>

\* load_tabular: the location and the file are read, and cached later.
load_tabular(c) ==
  /\ task[c].pc = "idle"
  /\ stored # NoEntry
  /\ Goto(c, [IdleTask EXCEPT !.pc = "cache", !.entry = Parsed(stored)])
  /\ UNCHANGED <<backend, kind, stored, storage, cache, handle, txns, faults, nextLoc>>

\* update_view, update_materialized_view: the operations run on the client's
\* view; the requirements and the updates on the cached entry; the file is put.
StartUpdate(c, ops) ==
  LET e == cache[InstanceOf[c]] IN
  /\ task[c].pc = "idle"
  /\ handle[c] # NoMetadata
  /\ e # NoEntry
  /\ check_view_requirements(ops, handle[c], e.metadata)
  /\ NewTxn
  /\ Goto(c, [pc |-> "swap", prev |-> e.loc, base |-> handle[c],
              entry |-> [loc |-> IF backend = "sql" THEN nextLoc ELSE e.loc + 1,
                         metadata |-> apply_view_updates(e.metadata, execute(handle[c], ops, txns'))]])
  /\ nextLoc' = IF backend = "sql" THEN nextLoc + 1 ELSE nextLoc
  /\ UNCHANGED <<backend, kind, stored, storage, cache, handle, faults>>

\* swap_metadata_location: the row still has the location the entry came from.
\* copy_if_not_exists: no newer version of the directory exists.
row_matches(c) == stored # NoEntry /\ stored.loc = task[c].prev

Swap(c) ==
  /\ task[c].pc = "swap"
  /\ IF row_matches(c)
     THEN stored' = task[c].entry /\ Goto(c, [task[c] EXCEPT !.pc = "cache"])
     ELSE UNCHANGED stored /\ Goto(c, IdleTask)
  /\ UNCHANGED <<backend, kind, storage, cache, handle, txns, faults, nextLoc>>

\* The cache insert that ends every call that succeeds.
Finish(c) ==
  /\ task[c].pc = "cache"
  /\ cache' = [cache EXCEPT ![InstanceOf[c]] = task[c].entry]
  /\ handle' = [handle EXCEPT ![c] = task[c].entry.metadata]
  /\ Goto(c, IdleTask)
  /\ UNCHANGED <<backend, kind, stored, storage, txns, faults, nextLoc>>

Next ==
  \E c \in Clients :
    \/ StartCreate(c) \/ sql_create(c) \/ file_create_view(c) \/ file_create_storage(c)
    \/ sql_drop(c) \/ load_tabular(c)
    \/ \E ops \in Transactions : StartUpdate(c, ops)
    \/ Swap(c) \/ Finish(c) \/ Fail(c)

Spec == Init /\ [][Next]_vars

-----------------------------------------------------------------------------
(* Properties *)

\* Whatever transactions run and however stale they are, the current version
\* and every branch of the stored view name a version that exists, and every
\* version a schema that exists (apply_view_updates adds what it points at).
ViewResolves ==
  LET m == stored.metadata IN
  stored # NoEntry =>
    /\ m.current \in DOMAIN m.versions
    /\ \A b \in DOMAIN m.refs : m.refs[b] \in DOMAIN m.versions
    /\ \A v \in DOMAIN m.versions : m.versions[v].schema \in DOMAIN m.schemas

KeepsBut(old, new, id) == \A k \in DOMAIN old \ {id} : k \in DOMAIN new /\ new[k] = old[k]

Commits(c) == task[c].pc = "swap" /\ task'[c].pc = "cache"

\* What a transaction, executed on the metadata its client held, may change of
\* the versions and the schemas of the view it is stored over: the one with the
\* id next to those its client knew, whichever branch it works on.  So a
\* transaction of a client that knew them all changes none.  One of a client
\* that did not replaces the version another client's transaction had added
\* under that id, for nothing but the uuid is required not to have changed.
KeepsHistoryStep ==
  \A c \in Clients :
    Commits(c) /\ stored'.metadata.uuid = stored.metadata.uuid =>
      LET base == task[c].base IN
      /\ KeepsBut(stored.metadata.versions, stored'.metadata.versions, MaxKey(base.versions) + 1)
      /\ KeepsBut(stored.metadata.schemas, stored'.metadata.schemas, MaxKey(base.schemas) + 1)

\* A representation committed through the SQL catalog lands on the view it
\* was written for, also when the view was dropped and created again in
\* between: that is what AssertViewUuid is for.
SameViewStep ==
  \A c \in Clients :
    Commits(c) /\ backend = "sql"
      => \/ stored'.metadata.uuid = task[c].base.uuid
         \/ stored'.metadata.versions = stored.metadata.versions

\* What a committed transaction may never do to a view: change a version or a
\* schema that its client knew, or more than one of the others, or land on
\* another view.
ViewHistory == [][KeepsHistoryStep /\ SameViewStep]_vars

=============================================================================
