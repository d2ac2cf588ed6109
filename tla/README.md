# A TLA+ verification of iceberg-rust

iceberg-rust is a client library for Apache Iceberg tables: a table is a chain
of immutable metadata files, and a *catalog* says which of them is current.
There is no server of its own. Every writer computes a new metadata file on its
own copy of the table and asks the catalog to swap it in; what keeps concurrent
writers from corrupting a table is a compare-and-swap at the catalog and a list
of requirements each commit carries. Below the metadata lie manifest lists,
manifests and data files; above it a DataFusion integration that scans, writes,
prunes, caches and refreshes materialized views.

This project models those layers, checks them with TLC on small instances, and
proves with TLAPS, for instances of any size, the central safety results of the
SQL catalog and its namespaces, the file catalog, the remote catalogs, table
transactions, views, the refresh of materialized views, the catalog mirror and the
caches of a scan.

## 1. Inventory

| Part (source under `src/`) | State it keeps | Operations | What is hard | What makes it correct |
|---|---|---|---|---|
| SQL catalog (`catalogs/iceberg-sql-catalog`) | rows of tables and namespaces; a cache per process | load, create, update, drop; namespaces | several processes, caches written late, swap replies lost, files deleted after commit; row locks | atomic tables, no lost commit, no dangling row; calls serialise and return |
| File catalog (`catalogs/iceberg-file-catalog`) | files `v<n>[.gz].metadata.json`; cache | the same, without a database | only `copy_if_not_exists` is atomic, and creation does not use it | each version continues the one before it; no lost commit |
| Glue, S3 Tables, REST catalogs | a remote pointer with a version; caches | the same | lost replies, update followed by a second read, multi-step creation | a reported result is what happened |
| Requirements and updates (`iceberg-rust/src/catalog/commit.rs`) | none: functions on metadata | check, apply | an error halfway; stale sequence numbers and row ids | metadata stays consistent |
| Table transactions (`iceberg-rust/src/table/transaction`) | one slot per kind of operation | builder methods, `commit`, 11 operations | stale base; staged operations; requirements not sent | a commit does what it would do on fresh metadata |
| Manifest lists and manifests (`iceberg-rust/src/table/manifest*.rs`) | files | append, overwrite, row-id assignment, splitting | inheritance of sequence numbers and row ids, promoted types, format upgrades | each row id once, no file lost |
| Scans (`iceberg-rust/src/table/mod.rs`, `datafusion_iceberg/src/table`) | none | which files are read, with which deletes | delete files by sequence number and partition | exactly the live rows |
| Metrics and pruning (`file_format/parquet.rs`, `pruning_statistics.rs`) | none | bounds, projection of filters | bounds that are too tight; ids of earlier writers; wrap-around | no matching file dropped |
| Writers (`iceberg-rust/src/arrow`) | channels, open files | partition, roll over, close | back-pressure, eviction, errors | every row written once, the call returns |
| Views, materialized views, refresh | versions, refresh state | create, update, refresh | sources move while a refresh runs; files deleted after it | fresh means exact |
| Forked plans, caches, mirror (`datafusion_iceberg`) | channels, LRU lists, a concurrent map | poll, look up, register | waiting for one another; eviction; two-step updates | everything ends, nothing stale or mixed up |
| Spec types, encodings | none | conversions | what a format version drops | values survive what they must |

The full list is `components` in `PROJECT.json`; the hazards, each at its line,
are `hazards` there.

## 2. Modules

Definitions keep the source's names. A definition whose comment calls it a slip
is a plausible mistake in the definition that follows; no specification uses it,
it serves to see a property fail.

**Catalogs.** `AtomicTable` is the promise: an identifier names no table, or a
table with a uuid, a history of commits and a head snapshot; create, commit and
drop are atomic; a data commit lands only on the head it was built on.

`SqlCatalog` is `update_table` and its neighbours, one action per await: `row` is
the identifier's row, `files` the metadata files, `cache` one map per process,
`task` the calls in progress with their locals; `published` and `acked` are
history variables. `CreateError` and `SwapError` let the database fail before or
after it applied a statement, `Crash(i)` restarts a process. A metadata file is
written in the step that reads the cache, because its name is fresh. `SqlRetry`
drives it with writers that reload and commit until they are accepted.
`SqlCatalogInv` and `SqlCatalogProofs` hold the invariant and the proofs.

`SqlNamespaces` runs `create_namespace`, `drop_namespace` and `update_namespace`
statement by statement over the identity row and the property rows; the database
is external: PostgreSQL's READ COMMITTED row locks or SQLite's single writer,
deadlocks it breaks, retries the catalog makes. `serial` is what the committed
calls would have made of the namespace one by one. `SqlNamespacesInv` and
`SqlNamespacesProofs` hold its invariants and its proofs.

`FileCatalog` has such clients (`FileCatalogClients`) over a directory: `store` maps
names to metadata; `metadata_location` is a *set*, because two names with one number
come in listing order. A commit may change the codec, and with it the name of the next
version. `create_table` asks `tabular_exists`, for which a list that fails is one that
found nothing, and puts version 0 whatever is there. `AtomicTable` has for that the
specification `UncheckedSpec`, in which a creation may replace a table that has no
commits yet. `FileCatalogInv` and `FileCatalogProofs` hold its invariant and its
proofs.

`RemoteCatalog` has the Glue, S3 Tables and REST clients: each method is the
sequence of its requests, and between any two the call may end. The services are
external: a swap under a current version id, or a server that checks the
requirements itself. Its invariant is in `RemoteCatalogInv`, its proofs in
`RemoteCatalogProofs`.

`Views` has views and materialized views on the SQL and the file catalog: creation,
transactions computed on the client's copy and applied to the cached entry, drop,
and the metadata file as stored and parsed. `ViewsInv` and `ViewsProofs` hold its
invariant and its proofs.

**A table.** `TableMetadata` has the requirements, the loop that applies the updates,
and the lookups; `TableFormat` what format versions 1 to 3 keep of metadata and
snapshots; `TransactionBuilder` what repeated builder calls leave in the slots;
`TableTransaction` the eleven operations and `commit()`: slot order, staging, which
requirements are sent. Executing a transaction reads only the writer's metadata and
immutable files, so it is one step with the catalog's acceptance; how that is made
atomic is what the catalog modules are about. The loops of the code are recursive
functions on `0 .. n` here, so that they can be reasoned about; the proofs are in
`TableTransactionProofs`.

`ManifestFormat` says what the formats store of manifest entries and list entries;
`ManifestFiles` how manifests and lists are written, rewritten, split, summarised
and read; `Manifests` runs the file operations of transactions over them along one
branch and reads back what scans, incremental scans and change scans return.

**DataFusion.** `ParquetMetrics` collects a file's column bounds, `Pruning` extends it
with partition transforms and the pruning stages, with integer widths scaled down so
that wrap-around happens. `TableScan` has the files, groups and joins of a scan, on
top of `ScanColumns`: the constant and positional columns a scan adds, the names it
makes unique and the indices it finds them by. `SortOrders` says when a file attests a
sort order and what a scan claims of it. `Refresh` has the refresh of a materialized
view and the delta rewrite of its query on bags of rows. `Mirror` has the concurrent
map behind the catalog provider, one action per call of the map. `ParquetWriter`,
`DemuxSink`, `ForkNode` and `ReadCaches` have the tasks that wait for one another: the
writer's router and its partition tasks, the demuxer of an INSERT and the sink's file
tasks, the two streams of a forked plan, the three caches of a scan.

**Instances.** `MCTableTransaction` and `MCManifests` instantiate one module each.
`MCCatalogs` has the SQL catalog beside two instances of the file catalog, one whose
table is created and committed to and one that is also dropped and recoded.
`MCServices` and `MCRuntime` instantiate several components. The three have a variable
`part` that picks the component of a behaviour; the others do not move. The components
do not interact there: one configuration checks them side by side. `ServicesProofs`
carries the theorems about `RemoteCatalog` and `Views` over to the properties of
`MCServices` and proves those of `Mirror` and `Refresh` there; `RuntimeProofs` does
the same for `SqlNamespaces` and `ReadCaches` in `MCRuntime`.

## 3. Runs

| Run | Instance | Shows |
|---|---|---|
| `catalogs` | SQL: 3 tasks, 2 processes, 3 metadata files, 1 fault. File: 3 tasks, 2 processes, 3 creations and commits; 2 tasks with drops, recreations and codec changes | the eight properties of `MCCatalogs` |
| `table_writes` | v2, 2 writers, 2 branches, 4 snapshots, a recreated table | `SequenceNumbersOrdered`, `CommitsAsIfFresh` |
| `table_rows` | v1 and v3, row ids up to 3, expiry | `RowIdsDisjoint`, `RefsResolve` |
| `manifests` | 3 snapshots, partitioned or not, v2 and v3, also upgraded from v1, one promotion | the seven properties of `Manifests` |
| `services` | per component, see below | ten properties of `MCServices` |
| `runtime` | per component, see below | the ten properties of `MCRuntime` |
| `table_rollback`, `file_gzip_conflict`, `refresh_branch`, `text_bounds`, `mixed_batches`, `storage_table` | section 4 | a violation each |

What the properties say:

* *Catalogs.* `NoDirtyRead`: nobody holds metadata the row never pointed at.
  `CurrentFilesExist`: the row's file and its log exist, whatever delete-after-commit
  removes. `NoLostCommit`: an acknowledged commit stays in the table's history.
  `RefinesAtomicTable`: the catalog implements `AtomicTable`. Of the file catalog,
  `FileNoLostCommit`; `FileAtomicFromFirstCommit`: it implements `AtomicTable` with
  unchecked creation; `FileLineage`: with drops and codec changes too, each version
  file is one commit more than one stored under the number before it. `CommitsKept`,
  `CacheMatchesVersion`, `AppliedIsReported`: the same for the remote catalogs, their
  version caches and their error mapping. `SqliteSerial`, `NamespaceSurvives`,
  `CallsReturn`: namespaces are what the calls make them one by one (SQLite), only
  disappear by a drop, and no call hangs. `ViewResolves`, `ViewHistory`: ids of a view
  resolve, and no transaction changes a version or schema its client knew of or lands
  on another view. One its client did *not* know of it may replace: both took the next
  id (Observations).
* *Tables.* `SequenceNumbersOrdered`, `RowIdsDisjoint`, `RefsResolve`, and
  `CommitsAsIfFresh`: an accepted transaction does what it would have done on the
  current metadata, except where that would have been refused for a reason no
  requirement covers (`RefusedUnsent`, Observations).
* *Manifests.* `FilesExact`: the manifests of a snapshot list exactly the files the
  operations left, with their sequence numbers. `RowLineage`: row ids are assigned
  once and kept through rewrites and upgrades. `SummariesCover`, `TypesUniform`:
  partition summaries cover the entries, in one type. `TotalsExact`: summary totals.
  `IncrementalComplete`, `ChangesExact`: scans between snapshots miss nothing, and
  change scans report exactly what was added and removed by a snapshot whose manifest
  list is not empty and which took one sequence number; of the others they report
  nothing (Observations).
* *Reading and writing.* `PruningSound`; `ScanExact`, but for the scans of
  `mixed_batches`; `FreshIsExact`: a storage table that counts as fresh holds the rows
  of the query and those that redefinitions of the view left there (`leftover`), a
  null group in pieces (Observations); `BranchFilesKept`, `NamesHaveNodes`;
  `RowsWrittenOnce`, which also says when a file without rows is written;
  `BranchesSeeEverything`, `ReadsExact`; and
  that things end: `WriteReturns`, `StreamsEnd`, `ReadersFinish`,
  `EveryWriterCommits`.

### Bounds

Two processes are needed for a stale cache, two tasks in one process for a cache
overwritten late: `catalogs` has both. A metadata file is a create or a commit
attempt, so 3 files give a create and two racing commits, or two racing creates and a
commit; with previous-versions-max 1 the second commit's log overflows. Longer
histories are covered by the proofs. In the file catalog's directories three numbers
give a creation over a table and a commit, two creations or three commits. One fault
is enough to lose a reply or a process between any two awaits. `table_writes` uses
snapshot ids up to 4 so that two writers on two branches each commit on a base two
commits old. That is enough for three of the four reasons of `RefusedUnsent`; a ref
whose snapshot was expired needs five ids, with which `RollbackTransactions` reaches
it. `table_rows` sets the largest row id to 3, so that the check against overflow is
reached. Three snapshots of `manifests` write a manifest, rewrite it, and rewrite or
drop it again.

In `services` two clients (interchangeable, so a symmetry) make up to 3 commits
against a remote service, or 4 view creations and transactions; two refreshes run at a
time, three in all, over sources of two snapshots, with null keys, and two definitions
of a filter, of a sort or of an aggregate over a union and a join; files have one or
two row groups of one or two rows with values around zero, the limits and the wrap of
hour ids; a table has 4 commits of data, delete, overwrite or a new spec before v3 and
3 on v3 (a file, a deletion vector and a copy on write), filters on the partition
column ask for one of the two partitions, and the columns a scan adds are enumerated
up to the third. In `runtime` the writer has a parallelism of 1, so that a second
partition evicts the first, and files of 2 rows; the sink has 2 files open at a time
and moves on to a new one after 3 rows; the streams have partitions that are evicted
and come back, null ones among them, empty batches before, between and after full
files, and one that fails; forks have fewer, as many and more partitions than their
input; the caches hold fewer entries than the readers ask for; two calls on a
namespace overlap (more are covered by the proofs). Twelve locations let every
retrying writer finish, otherwise it would be stuck and the property violated.

Some instances leave out a case a violation run or an observation is about, so that
what holds besides can be checked: `FileNoLostCommit` has no drops and no codec change,
`table_rows` no rollback, `services` refreshes main only and gives a text column one
row group.

Deadlock checking is off throughout: the bounds end every behaviour, and a system
whose clients make no call is at rest. Waiting for ever is what the liveness
properties exclude.

### Fairness

Only `MCRuntime` assumes any: `WF_vars(Progress)`, where `Progress` is a step that
is not a fault, a new call or a dropped stream. While some task can go on, one does:
the runtime polls woken tasks, and databases and stores answer. It is a single
condition for all tasks of the component, so it does not even say that each of them
is polled; the properties hold because every step there makes progress. `SqlRetry`
runs without faults.

## 4. Findings

The violation runs are disagreements between the code and its own text; `findings`
in `PROJECT.json` quotes each.

* `file_gzip_conflict`: a commit that changes the codec and one that does not both
  take version *n+1*, under two names, and both are reported `Ok`.
* `table_rollback`: `ExpireSnapshots` sends no requirement; beside a rollback it
  removes the snapshot `main` points at.
* `refresh_branch`: a full refresh of a branch deletes the data files of `main`.
* `text_bounds`: bounds of text, decimal and binary columns are those of the first
  row group, and pruning by them drops files with matching rows.
* `mixed_batches`: the deletion vector of a batch is looked up by its first row, above
  the anti join of equality deletes, whose batches may have rows of several files. In
  the model a join puts the rows it keeps into batches in any way.
* `storage_table`: the REST catalog asks for a materialized view's storage table under
  the view's own name. The table `<name>__storage` that the view's version names is
  never created. A server that keeps one set of names for tables and views, as the one
  in the model, then refuses the view and leaves the table.

### Observations

Met while modelling, without a run of their own:

* *SQL.* The hint is written before the swap. A namespace that is dropped while it is
  updated on PostgreSQL can reappear, which the test
  `concurrent_update_and_drop_do_not_restore_namespace` rules out for SQLite. With
  four calls overlapping there, rows that reappear after a drop beside updates can be
  removed by an update, and the namespace is gone without a drop; `NamespaceSurvives`
  is therefore about a namespace that the committed calls have left in being.
  `drop_materialized_view` leaves the storage table's row.
* *File catalog.* Metadata written with gzip is parsed without decompression. Two
  concurrent creations both succeed. A creation whose list failed succeeds over a live
  table: it replaces version 0, which goes unnoticed once there is a version 1, and
  until then makes another table of it; the trait promises an error if "the table
  already exists" (`iceberg-rust/src/catalog/mod.rs:270`). A commit from a cache that
  predates a drop and a recreation brings the old table back. A materialized view is
  written before its storage table.
* *Remote catalogs.* Glue's create followed by an update may overwrite a commit made
  in between, and its `register_table` stores no metadata location. S3 Tables
  creates a storage table twice, and reads a table's version id with a `get` after its
  bare creation: after a drop and another client's creation in between, its first
  swap replaces that client's metadata. REST's
  `register_table` fills no cache.
* *Tables.* Adding a schema without the newest column lowers `last-column-id`.
  Reusing a sort order id redefines it for the files that attest it. Saving v1
  metadata drops all refs but main and the last sequence number. Of two builder
  calls the second may drop what the first gave: `replace` after
  `replace_with_lineage`, a second `overwrite` of one manifest, the summary of a
  second `append_data`. `AppendSequenceGroups` compares only its last number. What an
  operation refuses on the writer's metadata is in four cases no requirement, so a
  stale transaction commits what a fresh one would not: files beside a change of the
  default spec (`SetDefaultSpec` sends no `AssertDefaultSpecId` for itself), a sort
  order on fields that a schema replaced under its id no longer has, a first snapshot
  of main on a table with other snapshots, and a snapshot on a ref whose snapshot was
  expired.
* *Manifests.* An overwrite on v2 may merge data files into a delete manifest.
  Manifests of a v1 list without counts are dropped when they are selected. `Replace`
  with no files on a partitioned table writes a manifest without summaries, and later
  appends fail. `change_manifests` promises the changes of every snapshot in a range
  (`iceberg-rust/src/table/mod.rs:241-247`) and looks for manifests whose sequence
  number is the snapshot's: a snapshot of several sequence groups takes the last of
  their numbers and leaves its manifests the next one after its parent's, so none of
  its files are found; nor are those of a snapshot whose manifest list is empty, as
  after a truncation. `snapshot_column_bounds` indexes an empty vector. A manifest of
  removed files only is pruned from a filtered change scan.
* *Views and refresh.* Concurrent transactions silently replace each other's version,
  having taken one id (`operation.rs:109`, and `commit.rs:621` inserts whatever is
  there); two representations in one transaction take one id; the current version
  moves also for a branch. Refreshes of one view are not serialised. The first refresh
  of a new definition is incremental where its query is: the rows are appended to
  those of the old definition, which stay until an overwrite and count as fresh. A
  group with a null key is never found by the merge of an incremental refresh, whose
  joins match no nulls (`transform.rs:148`, `188`), and gets another row each time.
  Neither is the "physical copy of query results" of `materialized_view/mod.rs:4-5`.
* *DataFusion.* A writer task that failed makes the router panic rather than return
  the error. The mirror does not list tables created elsewhere. A limit is pushed
  below the anti-join with deletes. Equality deletes of NULL never match. For a data
  file that an equality delete is joined with, `__manifest_file_path` is the path of
  the delete manifest. After its commit the sink writes its
  own clone of the table back into the provider, so of two concurrent inserts the
  older table may stay there. An unpartitioned write of an
  empty batch leaves a file without rows, alone or after a file that is full, although
  "no empty file is ever emitted" (`arrow/write.rs:497-500`).

## 5. Proofs

**SQL catalog.** `SqlCatalogProofs!TypeCorrect`: `Spec => []TypeOK`, one lemma per
group of actions. `TypeOK` also says that every location in use is below `nextLoc`,
the fact that makes the next location fresh.

`SqlCatalogProofs!InvHolds`: `Spec => []Inv`. None of the safety properties is
inductive. `CurrentFilesExist` needs to know that the files a winner is
about to delete are not in the current log, which needs to know how the winner's
log and its deletions split its predecessor's log (`LogSplit`: the log is
strictly increasing, so what leaves it cannot still be in it), which must be
remembered from the moment the file was written until the swap (`BuiltOn`). The
invariant is the conjunction of

* `StoreInv`: published entries refer to published locations only, a location has
  one content, the row's file and its log exist, and the current file has every
  commit any published file of its table has (`History`);
* `TaskInv`: a file waiting for its swap or insert is unpublished and belongs to
  one call; it is built on a published entry; what a call returns is published;
  what it deletes is neither the row nor in the row's log;
* `AckedOK` and `NoDirtyRead`.

The swap is the heart: it succeeds only if the row still has the location the
commit was built on, locations are never reused, so the entry it was built on is
the current one, and the new history extends the current one. From `Inv` follow
`CurrentFilesAlwaysExist`, `NeverDirtyRead`, `NeverLosesCommit`, and `Refinement`:
the row's file as the abstract table, each step an abstract step or a stutter.

**Mirror.** `ServicesProofs!NamesHaveNodesHolds`: `Spec => []NamesHaveNodes`. The
property is silent about a name some call works on; the invariant (`Accounted`)
says which calls those are: a name without its relation node belongs to a
`register_table` or a `deregister_table` between its two calls of the map. The
order of those two calls is what keeps it: the name enters before the node is
made and leaves after the node is gone. Nothing is assumed of the constants.

**File catalog.** `FileCatalogProofs!TypeCorrect` and `LineageHolds`
(`Spec => []Lineage`) hold for every instance, with drops, recreations and codec
changes. What carries `Lineage` is that a cache, a listing or a commit under way has
the name and the metadata of one published entry, together, however stale it is
(`VersionsInv`); the number a commit takes is then one more than the number of exactly
the metadata it extends. The rest holds under `NeverDropped`: nobody drops the table
and no commit changes the codec. Creations are not restricted: any number of them find
nothing and put version 0. `InvHolds`: from version 1 on the version files are a chain
of one table without gaps, each has every commit of the ones before it, what was
published under a number is still there, and a copy that is waiting for
`copy_if_not_exists` is built on a published version and named by the next number. So
a copy that succeeds extends the newest version: had another commit been published
meanwhile, the name would exist. `NeverLosesCommit` and `Refinement`
(`Spec => AtomicFromFirstCommit`, the newest version as the abstract table) follow.
The hypothesis is not for convenience: a drop and a recreation restart the numbers
under a stale cache (Observations), and a codec change gives one number two names
(`file_gzip_conflict`).

**Table transactions.** `TableTransactionProofs!HistoryStaysOrdered`
(`Spec => []SequenceNumbersOrdered`) and `TableTransactionProofs!RowRangesStayDisjoint`
(`Spec => []RowIdsDisjoint`) are unconditional. Writers take sequence numbers and row
ids from metadata however stale, so the argument cannot be about what they ask for:
all that is known of a list of updates is that its snapshot ids are new (`Fresh`).
The order is kept where updates are applied, by the two checks of `AddSnapshot`, and
`Good` states it of any metadata, with what makes it inductive: ids are positive and
larger than their parents', the log names existing snapshots, v3 snapshots have row
ids. `Good` is carried through every update, through the loops of
`apply_table_updates`, `snapshots.retain`, the builder and `commit()`, and through
the metadata file, which drops sequence numbers on v1 and row ids before v3. `IInv`
says it of the table and of every writer's copy, with ids below the next one. Each
loop needs two facts: that the recursive function exists, and that a turn preserves
what holds before it; both are shown by a minimal counterexample in a set of numbers
(`Induction`, `UpdateLoop`, `TypedLoop`).

`TableTransactionProofs!RefsStayResolved`: under `ForwardOnly` (no transaction sets a
ref to an existing snapshot, and expiry has `retain_refs`), `Spec => []RefsResolve`.
`ExpireSnapshots` sends no requirement, so nothing at the catalog stops a removal
computed on old refs. The invariant (`RInv`) relates the table to every stale copy
(`Follows`): a ref of the table either names a snapshot that the copy does not have,
which the copy's owner cannot remove, or is the same ref in the copy, where it is
retained. Inside `commit()` the staged metadata and the table take the same updates,
and the relation is carried along the slots. `table_rollback` shows what happens
without the hypothesis.

**Remote catalogs.** `RemoteCatalogProofs` proves `CommitsKeptAlways`,
`CacheMatchesVersionAlways` and `AppliedIsReportedAlways`,
each `Deployment => (Spec => []P)`. A call is a list of requests, and between two of
them others run, so the invariant says for each point of each method what the call
knows there (`LoadOK`, `UpdateOK`, `GlueCreateOK`, ...). All of it is keyed on a
version id: what a call or a cache holds together with an id is true as long as
that id is the current one (`Got`, `EntryOK`), and every change takes a new id, so
such knowledge is never wrong, only void. Then a swap that succeeds was computed
on the current metadata, and its history extends the current one.

`AppliedIsReported` needs a second invariant (`RInv`), about behaviours without
faults: an update past its swap is not refused any more. Glue refuses it when the
table is gone or of another kind, REST when it knows no object store. So `RInv` says
that "main" stays once it is there and keeps its kind, that whoever knows of it knows
that kind, and that whoever holds a REST table has an object store in the cache.

**Views.** `ViewsProofs!ViewResolvesAlways` (`Deployment => (Spec => []ViewResolves)`)
and `ViewHistoryAlways` (`Deployment => (Spec => ViewHistory)`) are for arbitrary
sequences of the two operations. A transaction is computed on the client's copy and
applied to the cached one, and neither need be the stored one; the invariant says
nothing of a transaction that would be refused. One that would be accepted
(`SwapKnows`) was applied to the stored view or, in a directory, to another creation
of its first version. The updates of a transaction are `Backed`: each points at a
schema or version the metadata has or an earlier update adds. The loops of `execute`
and of `apply_view_updates` carry that through; ids stay sets of numbers with a
largest, so the next one is new to the client, and no other id is touched
(`KeepsBut`). In SQL `OwnLocation` and `OwnUuid` say that a location or uuid taken for
a file not stored yet is nobody else's; in a directory a location is one more than
what it was computed on.

**SQL namespaces.** `SqlNamespacesProofs!SqliteSerialAlways` and
`NamespaceSurvivesAlways`: `Deployment => (Init /\ [][Next]_vars => ...)`, for any
clients, keys, updates and bounds, without fairness. Three facts make the invariants
(`SqlNamespacesInv`). No call but a drop takes the identity row away, and while the
namespace is there without one, every update in progress is about to insert it
(`IInv`); so a promoter that removes the last property leaves the identity row. On
SQLite at most one call has written, the holder of the writer lock, and `SInv`
relates its three parts: the rows it found, the rows it has written, and the
statements it has left. Together they amount to the call run alone (`Dropping`,
`Creating`, `Updating`). A call that does not hold the lock has written nothing and
relies on nothing it read, except a creation that is about to insert an identity row
and fails if there is one. `SInv` is proved statement by statement; the scripts are
concatenations, so the proofs first say what is in a concatenation, and that each
deleted key that is set is inserted after it.

**Refresh.** `ServicesProofs!BranchFilesKeptHolds`: `Spec => []BranchFilesKept` while main
is the only branch that is refreshed, for any number of concurrent refreshes and any
sources. Ids of snapshots are used once, so a base with the id of the current snapshot
*is* the current snapshot; a full refresh whose swap succeeds deletes files that its
commit has just taken out, and no later snapshot has them again (`RefreshInv`). With
another branch the statement is false: `refresh_branch`.

**Scan caches.** `RuntimeProofs!ReadsExactHolds`: `Spec => []ReadsExact`, for any
readers, programs, waits and caps. What makes a hit exact is that an entry's value is
a function of its key (`Entries`), whichever reader put it there, and that a key
names store, path and part; `CachesInv` says so of every entry of the three lists,
through lookups that reorder them, replacements and evictions, and of what a reader
holds between its lookup and its answer.

**Compositions.** `ServicesProofs` proves seven properties of `MCServices` and
`RuntimeProofs` three of `MCRuntime` as the runs state them. For a component with a
proof module of its own they instantiate that module with the constants of the
composition, show that the instances are those that are composed (their definitions are
the same once expanded), that `Deployment` holds of them, and that a behaviour that
chose a component stays with it. The number of clients and the bounds the compositions
leave open are arbitrary there; the general theorems hold for every value.

**Assumptions.** Of the SQL and the file catalog `ClientsAssumption`,
`ConstantsAssumption` and `FileConstantsAssumption` only (each client calls one
instance; the bounds are numbers; flags and commit kinds are what they are in the
code); of table transactions `RowIdAssumption`, `TransactionAssumption` and
`CallAssumption` (format versions are 1 to 3, a transaction is a sequence of calls
of the builder's methods, counts of files are natural numbers). Of remote catalogs,
views and namespaces `Deployment`, a hypothesis of each theorem because the modules
are only instantiated: each client has an instance, the services or backends are
those of the code, a view transaction is a sequence of operations, "exists" is a key
and the identity row is none. `MCRuntime` has `NamesAssumption`, which is that
`Deployment`, and `CachesAssumption`: readers make lists of requests, and a footer is
one part. Nothing is assumed of the number of clients, writers, instances, readers,
files, snapshots or faults, nor of the caps of caches.

**Only model-checked.** Liveness is out of the prover's reach.
`CommitsAsIfFresh` compares two executions of a whole transaction, on stale and on
current metadata; the proof would need an invariant relating the two operation by
operation, and is not attempted. The properties of `Manifests`, `FreshIsExact` and
`RowsWrittenOnce` are about sums and bags that folds compute: what a fold yields for
every input is an induction over data, with an operator as its parameter, which the
provers cannot instantiate. `PruningSound` and `ScanExact` compare pure functions with a
reference over bounded inputs. `BranchesSeeEverything` is not attempted yet.

### Plan

Proofs worth adding, in this order: `BranchesSeeEverything` of `ForkNode`, from an
invariant per partition (what was yielded, waits in the channel and is left of the input
make up the stream); `RowsWrittenOnce` with the rows as a set of identities; `FilesExact`
with manifests as sets of entries. Models: `register_table` of the SQL catalog with two
identifiers, sources that lose rows in `Refresh`, column bounds in `ManifestFiles`.

## 6. Not modelled

* The planner, the SQL front end and the statistics for the optimizer: rewrites of
  third-party plan trees and estimates, without state.
* Encodings (JSON, Avro, Parquet, Puffin, roaring bitmaps), the type conversions
  between Arrow and Iceberg, construction of object stores, and the generated REST
  API code: third-party formats or no control of their own.
* `register_table` of the SQL catalog and `rename_table` of the file catalog.
* Namespaces of the remote catalogs: each is one request passed on.
* `last-updated-ms`, file sizes, statistics files and metrics of manifest entries.
* Outer joins, windows and sources that lose rows in the delta rewrite.
