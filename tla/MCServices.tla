---------------------------- MODULE MCServices ----------------------------
(***************************************************************************)
(* Small instances of the components around one table's commits: catalogs  *)
(* behind a service, views, the refresh of materialized views, the catalog *)
(* mirror, pruning and scans.  A behaviour is one of one component, chosen *)
(* by "part"; the variables of the others keep the value Unused.           *)
(***************************************************************************)
EXTENDS Integers, Sequences, TLC

CONSTANTS Parts,                    \* the components of a run
          TextRowGroups,            \* of a file with a text column, of module Pruning
          Branches, MaxSnapshots, MaxVersions,   \* of module Refresh
          MaxFaults,
          Peers                     \* the clients, or the refreshes

VARIABLES part,
  task, faults, files, cache, handle, storage,   \* of several components
  service, pointer, versions, acked, applied, origin,
  backend, kind, stored, txns, nextLoc,
  source, view, snapshots, deleted, refreshes, overlapped, leftover,
  catalog, namespaces, relations, pc, calls,
  table,
  manifests, default_spec, sequence, vectors

Unused == "unused"

-----------------------------------------------------------------------------
\* No component tells its clients apart.
Symmetry == Permutations(Peers)

\* A catalog instance for each client.
Remote == INSTANCE RemoteCatalog
  WITH Clients <- Peers, InstanceOf <- [c \in Peers |-> c],
       Services <- {"glue", "s3tables", "rest"}, MaxFiles <- 3

Representation(d, s, b) ==
  [op |-> "representations", dialect |-> d, schema |-> s, branch |-> b]

\* The clients share one instance; one transaction has two operations.
View == INSTANCE Views
  WITH Clients <- Peers, InstanceOf <- [c \in Peers |-> "a"],
       Backends <- {"sql", "file"}, Kinds <- {"view", "materialized_view"}, MaxTxns <- 4,
       Transactions <- {<<Representation("d1", "s0", "main")>>,
                        <<Representation("d2", "s1", "dev")>>,
                        <<[op |-> "properties"]>>,
                        <<Representation("d1", "s1", ""), Representation("d2", "s2", "dev")>>}

Scan(t) == [op |-> "scan", table |-> t]
Over(op, inputs) == [op |-> op, inputs |-> inputs]

\* A filter, an aggregate and a sort, over two source tables; the aggregate counts
\* the rows of one beside those of its join with the other.
Fresh == INSTANCE Refresh
  WITH Refreshers <- Peers, Sources <- {"a", "b"}, Keys <- {"k1", "null"},
       MaxRefreshes <- 3, PlanDepth <- 3,
       Plans <- {[op |-> "filter", inputs |-> <<Scan("a")>>, keys |-> {"k1"}],
                 Over("aggregate", <<Over("union", <<Scan("a"), Over("join", <<Scan("a"), Scan("b")>>)>>)>>),
                 Over("sort", <<Scan("a")>>)}

Mirrored == INSTANCE Mirror
  WITH Clients <- Peers, Schemas <- {"s1", "s2"}, MaxCalls <- 4,
       Tables <- [t \in {"t1", "t2"} |-> IF t = "t1" THEN "s1" ELSE "s2"]

\* 76 timestamps, 38 hours and 32 hour ids, with values around the epoch, the
\* limits and the point where hour ids wrap.
Properties(default, columns, disabled) ==
  [default |-> default, columns |-> columns, stats_disabled |-> disabled]
NoColumns == [c \in {} |-> ""]
Plain == Properties("unset", NoColumns, {})

Prune == INSTANCE Pruning
  WITH TimestampBound <- 38, IdBound <- 16, UnitsPerHour <- 2, HoursPerDay <- 3,
       DaysPerMonth <- 2, MonthsPerYear <- 2, Width <- 4, Buckets <- 3, MaxRows <- 2,
       Timestamps <- [x \in {"int", "string"} |->
                        IF x = "int" THEN {-38, -33, -1, 3, 32, 37} ELSE {-13}],
       Literals <- {-37, -32, -1, 0, 31},
       Units <- 2, MaxInferredColumnDefaults <- 2,
       Texts <- [x \in {"int", "string"} |-> IF x = "int" THEN {0, 1} ELSE 0..3],
       MaxRowGroups <- [x \in {"int", "string"} |-> IF x = "int" THEN 2 ELSE TextRowGroups],
       Tables <- {[transform |-> t, x |-> "int", properties |-> Plain] :
                    t \in {"identity", "year", "month", "day", "hour", "bucket", "truncate", "void"}}
                 \cup {[transform |-> "void", x |-> "string", properties |-> p] :
                         p \in {Plain, Properties("counts", [x |-> "truncate"], {}),
                                Properties("none", [x |-> "full"], {"ts"})}}

Row(a, b) == [p |-> a, k |-> b]

\* A scan with columns added, of a table whose own columns may have their names.
Asked(enabled, user, excluded, columns) ==
  [c |-> [enabled |-> enabled, user |-> [i \in DOMAIN user |-> <<user[i], 0>>],
          excluded |-> excluded], columns |-> columns]

Scans == INSTANCE TableScan
  WITH Partitions <- {1, 2}, AskedPartitions <- {1}, Keys <- {1, 2},
       MaxScanGroups <- 2, MaxApplications <- 2,
       MaxFiles <- [v3 \in BOOLEAN |-> IF v3 THEN 3 ELSE 4], MaxColumnFiles <- 3,
       Requests <- {Asked({}, <<"p", "k", "path", "position", "seq">>, {}, <<2, 1>>),
                    Asked({"path", "position"}, <<"p", "k", "seq">>, {1}, <<5, 2, 4>>),
                    Asked({"row_id", "updated"}, <<"p", "k", "position", "seq">>, {}, <<6, 5, 1>>),
                    Asked({"path", "manifest", "position", "row_id", "updated"}, <<"p", "k">>,
                          {}, <<1, 2, 3, 4, 5, 6, 7>>),
                    Asked({"manifest"}, <<"k", "p", "path">>, {}, <<4, 2>>),
                    Asked({"changes", "path", "row_id"}, <<"p", "k">>, {}, <<5, 6, 4, 3>>)},
       RowGroups <- {<<Row(1, 1), Row(1, 2)>>, <<Row(2, 1), Row(2, 0)>>}

-----------------------------------------------------------------------------
remoteVars == <<service, pointer, versions, acked, applied, origin>>
viewVars == <<backend, kind, stored, txns, nextLoc>>
refreshVars == <<source, view, snapshots, deleted, refreshes, overlapped, leftover>>
mirrorVars == <<catalog, namespaces, relations, pc, calls>>
scanVars == <<manifests, default_spec, sequence, vectors>>

vars == <<part, task, faults, files, cache, handle, storage, table,
          remoteVars, viewVars, refreshVars, mirrorVars, scanVars>>

NoRemote == /\ service = Unused /\ pointer = Unused /\ versions = Unused
            /\ acked = Unused /\ applied = Unused /\ origin = Unused
NoView == /\ backend = Unused /\ kind = Unused /\ stored = Unused
          /\ txns = Unused /\ nextLoc = Unused
NoRefresh == /\ source = Unused /\ view = Unused /\ snapshots = Unused /\ deleted = Unused
             /\ refreshes = Unused /\ overlapped = Unused /\ leftover = Unused
NoMirror == /\ catalog = Unused /\ namespaces = Unused /\ relations = Unused
            /\ pc = Unused /\ calls = Unused
NoScan == /\ manifests = Unused /\ default_spec = Unused /\ sequence = Unused
          /\ vectors = Unused
NoCall == task = Unused /\ faults = Unused /\ cache = Unused /\ handle = Unused /\ storage = Unused

Init ==
  /\ part \in Parts
  /\ CASE part = "remote" ->
            /\ Remote!Init /\ storage = Unused /\ table = Unused
            /\ NoView /\ NoRefresh /\ NoMirror /\ NoScan
       [] part = "views" ->
            /\ View!Init /\ files = Unused /\ table = Unused
            /\ NoRemote /\ NoRefresh /\ NoMirror /\ NoScan
       [] part = "refresh" ->
            /\ Fresh!Init /\ files = Unused /\ cache = Unused /\ handle = Unused
            /\ table = Unused /\ NoRemote /\ NoView /\ NoMirror /\ NoScan
       [] part = "mirror" ->
            /\ Mirrored!Init /\ files = Unused /\ table = Unused
            /\ NoCall /\ NoRemote /\ NoView /\ NoRefresh /\ NoScan
       [] part = "pruning" ->
            /\ Prune!Init /\ NoCall /\ NoRemote /\ NoView /\ NoRefresh /\ NoMirror /\ NoScan
       [] part = "scan" ->
            /\ Scans!Init /\ files = Unused /\ table = Unused
            /\ NoCall /\ NoRemote /\ NoView /\ NoRefresh /\ NoMirror

Next ==
  /\ UNCHANGED part
  /\ \/ /\ part = "remote" /\ Remote!Next
        /\ UNCHANGED <<storage, table, viewVars, refreshVars, mirrorVars, scanVars>>
     \/ /\ part = "views" /\ View!Next
        /\ UNCHANGED <<files, table, remoteVars, refreshVars, mirrorVars, scanVars>>
     \/ /\ part = "refresh" /\ Fresh!Next
        /\ UNCHANGED <<files, cache, handle, table, remoteVars, viewVars, mirrorVars, scanVars>>
     \/ /\ part = "mirror" /\ Mirrored!Next
        /\ UNCHANGED <<task, faults, files, cache, handle, storage, table,
                       remoteVars, viewVars, refreshVars, scanVars>>
     \/ /\ part = "pruning" /\ Prune!Next
        /\ UNCHANGED <<task, faults, cache, handle, storage,
                       remoteVars, viewVars, refreshVars, mirrorVars, scanVars>>
     \/ /\ part = "scan" /\ Scans!Next
        /\ UNCHANGED <<task, faults, files, cache, handle, storage, table,
                       remoteVars, viewVars, refreshVars, mirrorVars>>

Spec == Init /\ [][Next]_vars

-----------------------------------------------------------------------------
(* The properties of the components, each stated in its module. *)

\* No commit a Glue, S3 Tables or REST catalog reported is lost to another
\* client's update_table.
CommitsKept == part = "remote" => Remote!CommitsKept

\* A version id in the Glue or S3 Tables cache belongs to the metadata cached
\* with it, whatever update_table read back.
CacheMatchesVersion == part = "remote" => Remote!CacheMatchesVersion

\* A commit the service applied is not reported as an error unless a request
\* failed.
AppliedIsReported == part = "remote" => Remote!AppliedIsReported

\* build of a materialized view has its storage table registered before it.
StorageTableCreated == part = "remote" => Remote!StorageTableCreated

\* A stored view's current version, its schema and its branches resolve.
ViewResolves == part = "views" => View!ViewResolves

\* A view transaction changes no version its client knew of and lands on no other
\* view.
ViewHistory == [][part = "views" => View!KeepsHistoryStep /\ View!SameViewStep]_vars

\* A storage table that counts as fresh holds the rows of the query, beside what
\* another definition left.
FreshIsExact == part = "refresh" => Fresh!FreshIsExact

\* No refresh deletes data files a branch of the storage table still has.
BranchFilesKept == part = "refresh" => Fresh!BranchFilesKept

\* A name in a mirrored namespace has its relation node, once calls are over.
NamesHaveNodes == part = "mirror" => Mirrored!NamesHaveNodes

\* No pruning stage drops a file with a row the filter keeps.
PruningSound == part = "pruning" => Prune!PruningSound

\* A scan returns exactly the live rows its filter keeps, unless deletion vectors
\* decide on batches of several files.
ScanExact == part = "scan" => Scans!ScanExact

\* Deletion vectors delete what they say, after equality deletes too.
VectorsApplied == part = "scan" => Scans!VectorsApplied

=============================================================================
