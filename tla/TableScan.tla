----------------------------- MODULE TableScan ------------------------------
(***************************************************************************)
(* What a scan of a table reads (datafusion_iceberg/src/table/mod.rs,      *)
(* table_scan): the manifests and files a filter leaves, grouped by        *)
(* partition with the delete files that apply to them, and the joins that  *)
(* take the deleted rows away.                                             *)
(*                                                                         *)
(* Rows have a column p, by which the table may be partitioned (spec 1) or *)
(* not (spec 0), and a column k, the key of equality deletes; values are   *)
(* numbers, k = 0 is NULL.  The table is built file by file: writers of    *)
(* this library and of others append data files and delete files,          *)
(* overwrite and change the spec.  How a filter prunes by transformed      *)
(* values is the subject of module Pruning; here p is its own partition    *)
(* value.  Equality deletes of NULL are left out (the joins never match    *)
(* NULL), and so is a LIMIT.  A row also has the row id and the sequence   *)
(* number that its file stores, or NULL, and what they ought to be: where  *)
(* the row was born and since when it has its values.                      *)
(***************************************************************************)
EXTENDS ScanColumns, FiniteSets, FiniteSetsExt

CONSTANTS Partitions, Keys,                 \* the values of p and of k
          AskedPartitions,                  \* the values of p a filter asks for
          RowGroups,                        \* the contents of data files: sequences of rows
          Requests,                         \* configurations of scans and the columns asked for
          MaxScanGroups, MaxApplications,   \* MAX_GLOBAL_DELETE_SCAN_GROUPS, ..._APPLICATIONS
          MaxFiles,                         \* bound on the commits, by vectors
          MaxColumnFiles                    \* bound on those before a scan with Requests

VARIABLES manifests,      \* the current snapshot's manifests: a set
          default_spec,   \* the table's partition spec: 1 is by p, 0 is none
          sequence,       \* the last sequence number; files are named by it
          vectors         \* format v3: positions are deleted by deletion vectors

vars == <<manifests, default_spec, sequence, vectors>>

Null == 0

PartitionOf(spec, p) == IF spec = 0 THEN Null ELSE p

File == [path |-> 0, status |-> "Added", content |-> "data", seq |-> 0, partition |-> 0,
         rows |-> <<>>, first_row_id |-> Null, keys |-> {}, target |-> 0, positions |-> {}]

Live(f) == f.status # "Deleted"

Entries == UNION {{[m |-> m, f |-> f] : f \in m.entries} : m \in manifests}

-----------------------------------------------------------------------------
(* Pruning.  A filter asks that a column has a value. *)

NoFilter == [col |-> "none", value |-> Null]

Filters == [col : {"p"}, value : AskedPartitions] \cup [col : {"k"}, value : Keys]
             \cup {NoFilter}

Satisfies(row, e) == e.col = "none" \/ row[e.col] = e.value

\* The bounds of the values, NULL aside, allow v.
Within(S, v) == LET known == S \ {Null}
                IN  known # {} /\ Min(known) <= v /\ v <= Max(known)

\* PruneManifests: the filter is on the partition column and the manifest of
\* the current spec.  DataFusion drops a container whose null count (zero
\* here, for data manifests) equals its row count, the rows added and
\* existing.
compatible(e, m) == e.col = "p" /\ default_spec = 1 /\ m.spec = default_spec

keeps_manifest(e, m) ==
  compatible(e, m) => /\ Within({f.partition : f \in m.entries}, e.value)
                      /\ m.content = "data" => \E f \in m.entries : Live(f)

\* PrunePartitionedDataFiles: the partition value of data files.
keeps_partition(e, m, f) ==
  compatible(e, m) /\ f.content = "data" => f.partition = e.value

Column(f, col) == {f.rows[i][col] : i \in DOMAIN f.rows}

\* A slip: an equality delete is pruned by a column it does not name.
any_column(f, col) == f.content # "position"

\* PruneDataFiles::can_prune_column.
can_prune_column(f, col) ==
  f.content = "data" \/ (f.content = "equality" /\ col = "k")

\* PruneDataFiles: the column bounds of data files, of an equality delete the
\* bounds of its keys.  (A delete file has no values of p.)
keeps_file(e, f) ==
  e.col # "none" /\ can_prune_column(f, e.col) =>
    Within(IF f.content = "data" THEN Column(f, e.col)
           ELSE IF e.col = "k" THEN f.keys ELSE {}, e.value)

\* The manifests a scan reads: with scan_changed_data_files those of the last
\* commit (change_manifests).
Scanned(c) == {m \in manifests : Enabled(c, "changes") => m.seq = sequence}

\* scan_manifest_status, and prepare_changed_data_files for changed files.
scan_manifest_status(c, f) ==
  IF Enabled(c, "changes") THEN f.content = "data" /\ f.status \in {"Added", "Deleted"}
  ELSE Live(f)

\* The manifest entries a scan goes on with.
ContentFiles(e, c) ==
  LET kept == {m \in Scanned(c) : keeps_manifest(e, m)}
  IN  {x \in Entries : /\ x.m \in kept
                        /\ ~(x.f.content = "data" /\ x.f.path \in c.excluded)
                        /\ keeps_partition(e, x.m, x.f) /\ keeps_file(e, x.f)}

\* Tuples of an older spec are not values of the current spec's columns.
has_historical_data_manifests(c) ==
  \E m \in Scanned(c) : /\ m.content = "data" /\ m.spec # default_spec
                         /\ \E f \in m.entries : Live(f) \/ Enabled(c, "changes")

-----------------------------------------------------------------------------
(* group_content_files: data files and deletes by spec and partition. *)

Group(x) == [spec |-> x.m.spec, partition |-> x.f.partition]

GlobalDeletes(content) == {x \in content : x.f.content = "equality" /\ x.m.spec = 0}

\* Without local deletes the groups are coalesced into few, so that the global
\* ones are not read once per partition.
coalesced(groups, locals, globals) ==
  LET n == Min({Len(groups), MaxScanGroups,
                Max({MaxApplications \div Cardinality(globals), 1})})
  IN  IF globals = {} \/ locals # {} \/ Len(groups) <= 1 THEN groups
      ELSE [i \in 1..n |->
              [key |-> groups[i].key,
               data |-> UNION {groups[j].data : j \in {j \in DOMAIN groups : j % n = i % n}}]]

LocalDeletes(content) ==
  {x \in content : x.f.content = "position" \/ (x.f.content = "equality" /\ x.m.spec # 0)}

\* Sequence of [key, data], with the deletes of each.
group_content_files(c, content) ==
  LET live == {x \in content : scan_manifest_status(c, x.f)}
      data == {x \in live : x.f.content = "data"}
      keys == SetToSeq({Group(x) : x \in data})
      globals == GlobalDeletes(live)
      locals == {x \in LocalDeletes(live) : Group(x) \in Range(keys)}
      groups == coalesced([i \in DOMAIN keys |->
                             [key |-> keys[i], data |-> {x \in data : Group(x) = keys[i]}]],
                          locals, globals)
  IN  [ok |-> Len(groups) <= 1 \/ Cardinality(globals) * Len(groups) <= MaxApplications,
       groups |-> [i \in DOMAIN groups |->
                     [data |-> groups[i].data,
                      equality |-> globals \cup {x \in locals :
                                     x.f.content = "equality" /\ Group(x) = groups[i].key},
                      position |-> {x \in locals :
                                      x.f.content = "position" /\ Group(x) = groups[i].key}]]]

-----------------------------------------------------------------------------
(* The plan of one group.  A row of a plan has the cells of the plan's     *)
(* columns; at tells which row of which file it is.  s is the scan: its    *)
(* configuration, layout, projection and output.                           *)

\* The rows of a file as a plan reads them with a projection.
ScanFile(s, projection, x, manifest_path) ==
  LET tuple == IF s.by_partition THEN <<x.f.partition>> ELSE <<>>
      values == generate_partitioned_file(s.c, s.deletes, tuple, x.f, manifest_path, x.m.seq)
      cells(i) == [j \in DOMAIN projection |->
                     ReadCell(s.layout, projection[j], values, x.f.rows[i], i - 1)]
  IN  {[at |-> <<x.f.path, i>>, cells |-> cells(i)] : i \in DOMAIN x.f.rows}

\* The columns of a group with deletes: those of the scan, the keys of its
\* equality deletes and, if it has position deletes, the three that these need.
equality_projection(s, g) ==
  LET keyed == IF g.equality = {} THEN s.projection
               ELSE Include(s.projection, IndexOf(s.layout.file, Name("k")))
  IN  IF g.position = {} THEN keyed
      ELSE Include(Include(Include(keyed, s.layout.path_index), s.layout.position_index),
                   s.layout.seq_index)

\* The data files an equality delete is the first to be joined with.
joined(f, d) == f.seq < d.seq

\* The keys the scan of the delete file returns: the filter is pushed into it
\* where it only names columns of the delete file.
DeletedKeys(e, d) == {k \in d.keys : e.col = "k" => k = e.value}

\* The equality deletes of a group, oldest first.
sorted_deletes(g) == SetToSortSeq(g.equality, LAMBDA a, b : a.f.seq < b.f.seq)

\* The plan below the deletes of positions yields batches of rows.  A scan
\* fills each batch from one file, and so the files that no equality delete is
\* younger than are read beside the joins, with the path of their own manifest.
additional_data_files(s, projection, unread) ==
  {ScanFile(s, projection, x, x.m.path) : x \in unread}

\* The equality deletes in the order of their sequence numbers: each one is
\* anti-joined, on the column of its name, with what is left of the files read
\* so far and the older files not yet read, which are given the path of the
\* delete's manifest.  A hash join fills its batches from what is left of
\* several batches of one partition: the files first read for one delete.
apply_equality_deletes(e, s, projection, g) ==
  LET names == [j \in DOMAIN projection |-> s.layout.schema[projection[j]]]
      step(acc, d) ==
        LET taken == {x \in acc.unread : joined(x.f, d.f)}
            read == UNION {ScanFile(s, projection, x, d.m.path) : x \in taken}
            key == IndexOf(names, Name("k"))
        IN  [unread |-> acc.unread \ taken,
             batches |-> {{r \in batch : r.cells[key] \notin DeletedKeys(e, d.f)} :
                          batch \in acc.batches \cup {read}}]
      last == FoldLeft(step, [unread |-> g.data, batches |-> {}], sorted_deletes(g))
  IN  last.batches \cup additional_data_files(s, projection, last.unread)

\* position_delete_sequence_filter.
applies(seq, d) == d.seq >= seq

\* The vectors of the files in the group, merged by the file they refer to.
load_deletion_vectors(deletes, active) ==
  [path \in active \cap {d.f.target : d \in deletes} |->
     UNION {d.f.positions : d \in {y \in deletes : y.f.target = path}}]

\* DeletionVectorPredicate::evaluate: the vector of the file of the batch's
\* first row (they are in the order of the files) decides on all its rows.
DeletionVectorPredicate_evaluate(loaded, at, batch) ==
  LET first == CHOOSE r \in batch : \A q \in batch : r.at[1] <= q.at[1]
      path == first.cells[at.path]
  IN  {r \in batch : path \in DOMAIN loaded => r.cells[at.position] \notin loaded[path]}

\* Position delete files are anti-joined by path and position, where their
\* sequence number applies.
apply_position_deletes(s, projection, batches, g) ==
  LET at == project(s.layout, projection)
      loaded == load_deletion_vectors(g.position, {x.f.path : x \in g.data})
  IN  IF vectors
      THEN UNION {DeletionVectorPredicate_evaluate(loaded, at, batch) : batch \in batches}
      ELSE {r \in UNION batches :
              ~\E d \in g.position : /\ d.f.target = r.cells[at.path]
                                     /\ r.cells[at.position] \in d.f.positions
                                     /\ applies(r.cells[at.seq], d.f)}

\* A batch with rows of several files, of which one has a vector.
mixes_files(g, batches) ==
  LET targets == {d.f.target : d \in g.position}
  IN  vectors /\ \E batch \in batches : \E r, q \in batch :
                    r.at[1] # q.at[1] /\ r.at[1] \in targets

\* A group without deletes is read as it is, and projected only where row
\* lineage is computed; its columns are those of the scan.
plan(e, s, g) ==
  IF g.equality = {} /\ g.position = {}
  THEN LET rows == UNION {ScanFile(s, s.projection, x, x.m.path) : x \in g.data}
       IN  [mixed |-> FALSE,
            rows |-> IF Lineage(s.c) THEN {[r EXCEPT !.cells = Project(s.output, @, Null)] : r \in rows}
                     ELSE rows]
  ELSE LET projection == equality_projection(s, g)
           batches == apply_equality_deletes(e, s, projection, g)
           rows == IF g.position = {} THEN UNION batches
                   ELSE apply_position_deletes(s, projection, batches, g)
       IN  [mixed |-> mixes_files(g, batches),
            rows |-> {[r EXCEPT !.cells = Project(s.output, @, Null)] : r \in rows}]

\* ok is FALSE where the plan is refused, exact where it is not and where no
\* vector decides on the rows of another file.
table_scan(e, c, requested) ==
  LET grouped == group_content_files(c, ContentFiles(e, c))
      deletes == \E i \in DOMAIN grouped.groups : grouped.groups[i].position # {}
      by_partition == default_spec = 1 /\ ~has_historical_data_manifests(c)
      layout == scan_layout(c, by_partition, deletes)
      lineage == row_lineage_projection(c, layout, requested)
      s == [c |-> c, deletes |-> deletes, by_partition |-> by_partition, layout |-> layout,
            projection |-> lineage.scan, output |-> lineage.output]
      plans == {plan(e, s, grouped.groups[i]) : i \in DOMAIN grouped.groups}
  IN  [ok |-> grouped.ok, exact |-> grouped.ok /\ \A p \in plans : ~p.mixed,
       rows |-> UNION {p.rows : p \in plans}]

-----------------------------------------------------------------------------
(* What the table holds, from the meaning of delete files alone. *)

LiveRows ==
  LET live == {x \in Entries : Live(x.f)}
      deleted(x, i) == \E d \in live :
        \/ /\ d.f.content = "equality" /\ d.f.seq > x.f.seq
           /\ x.f.rows[i].k \in d.f.keys
           /\ d.m.spec = 0 \/ (d.m.spec = x.m.spec /\ d.f.partition = x.f.partition)
        \/ /\ d.f.content = "position" /\ d.f.seq >= x.f.seq
           /\ d.f.target = x.f.path /\ i - 1 \in d.f.positions
  IN  UNION {{<<x.f.path, i>> : i \in {j \in DOMAIN x.f.rows : ~deleted(x, j)}} :
             x \in {y \in live : y.f.content = "data"}}

-----------------------------------------------------------------------------
(* The table. *)

Init ==
  /\ manifests = {} /\ sequence = 0
  /\ default_spec \in {0, 1} /\ vectors \in BOOLEAN

\* The entries of a manifest that is rewritten.
Existing(entries) == {[f EXCEPT !.status = "Existing"] : f \in {g \in entries : Live(g)}}

\* Manifests are named by the commit and what they are for.
Manifest(content, spec, entries, n) ==
  [content |-> content, spec |-> spec, seq |-> sequence + 1, entries |-> entries,
   path |-> 10 * (sequence + 1) + n]

\* In format v3 a file has as many row ids as it has rows, from its first.
FirstRowId == IF vectors THEN 10 * (sequence + 1) ELSE Null

DataFile(rows) ==
  [File EXCEPT !.path = sequence + 1, !.seq = sequence + 1, !.rows = rows,
               !.first_row_id = FirstRowId, !.partition = PartitionOf(default_spec, rows[1].p)]

\* Rows that are written for the first time have no lineage of their own.
NewRows(rows) ==
  [i \in DOMAIN rows |->
     [p |-> rows[i].p, k |-> rows[i].k, id |-> Null, updated |-> Null,
      born |-> FirstRowId + i - 1, since |-> sequence + 1]]

OnePartition(rows) == default_spec = 0 \/ \A i \in DOMAIN rows : rows[i].p = rows[1].p

Commit == sequence < MaxFiles[vectors] /\ sequence' = sequence + 1 /\ UNCHANGED vectors

\* A data file in a manifest of its own, or in the one selected for it.
AppendFile(rows, merge) ==
  /\ Commit /\ OnePartition(rows)
  /\ LET old == IF merge THEN {m \in manifests : m.content = "data" /\ m.spec = default_spec} ELSE {}
         kept == UNION {Existing(m.entries) : m \in old}
     IN  manifests' = (manifests \ old)
                        \cup {Manifest("data", default_spec, kept \cup {DataFile(NewRows(rows))}, 1)}
  /\ UNCHANGED default_spec

\* An overwrite replaces a file: its manifest keeps the other files, the new
\* file and the removed one get manifests of their own.
Replace(x, rows) ==
  /\ Commit /\ x.f.content = "data" /\ Live(x.f) /\ x.m.spec = default_spec
  /\ manifests' =
       (manifests \ {x.m})
         \cup {Manifest("data", x.m.spec, Existing(x.m.entries \ {x.f}) \cup {DataFile(rows)}, 1),
               Manifest("data", x.m.spec, {[x.f EXCEPT !.status = "Deleted"]}, 2)}
  /\ UNCHANGED default_spec

\* Formats before v3 (where the rows that replace others keep their lineage).
OverwriteFile(x, rows) == ~vectors /\ OnePartition(rows) /\ Replace(x, NewRows(rows))

\* The row as it is written again: its id stays, and it is as old as it was
\* unless it is changed.
rewritten(x, i, changed) ==
  LET row == x.f.rows[i]
      lineage(kind, physical, fallback) ==
        RowLineageExpr_evaluate(kind, physical, x.f.first_row_id, fallback, Null)
  IN  [row EXCEPT !.id = lineage("row_id", @, i - 1),
                  !.updated = IF i = changed THEN Null ELSE lineage("updated", @, x.f.seq),
                  !.since = IF i = changed THEN sequence + 1 ELSE @]

\* Copy on write (format v3): the live rows of a file are written again with
\* their lineage, one of them with another key.
CopyOnWrite(x, changed, k) ==
  LET all == LiveRows
      live == SetToSortSeq({i \in DOMAIN x.f.rows : <<x.f.path, i>> \in all}, <)
      rows == [j \in DOMAIN live |-> rewritten(x, live[j], changed)]
  IN  /\ sequence < MaxFiles[vectors]
      /\ vectors /\ x.f.content = "data" /\ Live(x.f) /\ x.m.spec = default_spec
      /\ k # x.f.rows[changed].k /\ changed \in Range(live)
      /\ Replace(x, [rows EXCEPT ![IndexOf(live, changed)].k = k])

\* Keys are deleted, in one partition or everywhere; positions of a data file
\* are deleted in the partition of the file.
DeleteKeys(keys, p) ==
  /\ Commit
  /\ manifests' = manifests \cup
       {Manifest("deletes", default_spec,
                 {[File EXCEPT !.path = sequence + 1, !.seq = sequence + 1, !.content = "equality",
                               !.keys = keys, !.partition = PartitionOf(default_spec, p)]}, 3)}
  /\ UNCHANGED default_spec

DeletePositions(x, positions) ==
  /\ Commit /\ x.f.content = "data" /\ Live(x.f)
  /\ manifests' = manifests \cup
       {Manifest("deletes", x.m.spec,
                 {[File EXCEPT !.path = sequence + 1, !.seq = sequence + 1, !.content = "position",
                               !.target = x.f.path, !.positions = positions,
                               !.partition = x.f.partition]}, 3)}
  /\ UNCHANGED default_spec

\* Rows and deletes of one commit have one sequence number: an upsert deletes
\* the older rows of its keys, a writer may delete positions it has just written.
AppendAndDelete(rows, d) ==
  /\ Commit /\ OnePartition(rows)
  /\ manifests' = manifests \cup
       {Manifest("data", default_spec, {DataFile(NewRows(rows))}, 1),
        Manifest("deletes", default_spec,
                 {[d EXCEPT !.path = sequence + 1, !.seq = sequence + 1, !.target = sequence + 1,
                            !.partition = PartitionOf(default_spec, rows[1].p)]}, 3)}
  /\ UNCHANGED default_spec

EvolveSpec ==
  /\ Commit /\ default_spec' = 1 - default_spec /\ UNCHANGED manifests

Next ==
  \/ \E rows \in RowGroups, merge \in BOOLEAN : AppendFile(rows, merge)
  \/ \E x \in Entries, rows \in RowGroups : OverwriteFile(x, rows)
  \/ \E k \in Keys, p \in Partitions : DeleteKeys({k}, p)
  \/ \E x \in Entries : \E i \in DOMAIN x.f.rows : DeletePositions(x, {i - 1})
  \/ \E x \in Entries, k \in Keys : \E i \in DOMAIN x.f.rows : CopyOnWrite(x, i, k)
  \/ \E rows \in RowGroups :
       \/ AppendAndDelete(rows, [File EXCEPT !.content = "position", !.positions = {0}])
       \/ AppendAndDelete(rows, [File EXCEPT !.content = "equality", !.keys = {rows[1].k}])
  \/ EvolveSpec

Spec == Init /\ [][Next]_vars

-----------------------------------------------------------------------------
(* What a scan promises. *)

\* The values a column may have in a row of the file x.  Where equality deletes
\* are joined with a file, the manifest it is given is the delete's.
Promised(x, i, name) ==
  LET row == x.f.rows[i]
      later == {y \in Entries : y.f.content = "equality" /\ y.f.seq > x.f.seq}
  IN  CASE name \in {Name("p"), Name("k")} -> {row[name[1]]}
        [] name = Name("path") -> {x.f.path}
        [] name = Name("manifest") -> {x.m.path} \cup {y.m.path : y \in later}
        [] name = Name("position") -> {i - 1}
        [] name = Name("row_id") -> {IF vectors THEN row.born ELSE Null}
        [] name = Name("updated") -> {IF vectors THEN row.since ELSE Null}
        [] name = Name("status") -> {x.f.status}
        [] name = Name("change_seq") -> {sequence}

\* The data files that the last commit added or removed.
Changed(statuses) ==
  {x \in Entries : x.m.seq = sequence /\ x.f.content = "data" /\ x.f.status \in statuses}

RowsAt(xs) == UNION {{<<x.f.path, i>> : i \in DOMAIN x.f.rows} : x \in xs}

\* The columns of the table, no others.
Plain == [enabled |-> {}, user |-> <<Name("p"), Name("k")>>, excluded |-> {}]

\* A scan that is planned returns exactly the live rows that satisfy its filter
\* once DataFusion has applied it again, whatever was pruned, pushed down,
\* grouped or coalesced, and across a change of the partition spec, unless a
\* hash join has put rows of several files into a batch on which a deletion
\* vector decides (VectorsApplied is about these); a scan of
\* the changed files returns the rows of the files that the last commit added or
\* removed (with a filter, at least those of the files added: a manifest without
\* live files is pruned).  Whatever columns are asked for, in whatever order, and
\* whatever the columns of the table are called, each has the value it promises:
\* a row keeps its row id while it is copied from file to file, and its sequence
\* number until it changes.
ScanExact ==
  LET live == LiveRows
      data == {x \in Entries : x.f.content = "data"}
      entry(path) == CHOOSE x \in data : x.f.path = path
      matching(ats, e) == {at \in ats : Satisfies(entry(at[1]).f.rows[at[2]], e)}
      at(rows) == {r.at : r \in rows}
      added == RowsAt(Changed({"Added"}))
      changes == [Plain EXCEPT !.enabled = {"changes"}]
      read(e) == {x \in ContentFiles(e, changes) : scan_manifest_status(changes, x.f)}
  IN  /\ \A e \in Filters : \A s \in {table_scan(e, Plain, <<1, 2>>)} :
           s.exact => matching(at(s.rows), e) = matching(live, e)
      /\ sequence <= MaxColumnFiles =>
           /\ \A e \in Filters : matching(added, e) \subseteq RowsAt(read(e))
           /\ \A q \in Requests : \A s \in {table_scan(NoFilter, q.c, q.columns)} :
                LET wanted == IF Enabled(q.c, "changes") THEN RowsAt(Changed({"Added", "Deleted"}))
                              ELSE live
                    names == new_with_config(q.c)
                IN  /\ s.exact => at(s.rows) = {a \in wanted : a[1] \notin q.c.excluded}
                    /\ s.ok => \A r \in s.rows : \A i \in DOMAIN q.columns :
                         r.cells[i] \in Promised(entry(r.at[1]), r.at[2], names[q.columns[i]])

\* A scan without a filter returns the live rows exactly, whatever batches its
\* joins make: the comment on DeletionVectorPredicate says that "the Iceberg path
\* partition column is constant within a batch".
VectorsApplied ==
  \A s \in {table_scan(NoFilter, Plain, <<1, 2>>)} : s.ok => {r.at : r \in s.rows} = LiveRows

=============================================================================
