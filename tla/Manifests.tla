----------------------------- MODULE Manifests -----------------------------
(***************************************************************************)
(* The files of a table through a history of commits: what the operations  *)
(* of src/iceberg-rust/src/table/transaction/operation.rs write into       *)
(* manifests and manifest lists, and what the scans of                     *)
(* src/iceberg-rust/src/table/mod.rs read back from them.                  *)
(*                                                                         *)
(* The history is one branch: TableTransaction shows that every commit     *)
(* starts from the snapshot the branch is at.  A table starts empty, or    *)
(* upgraded from a v1 table whose manifest list has no counts.             *)
(***************************************************************************)
EXTENDS ManifestFiles

CONSTANTS
  FormatVersions,   \* the format versions of the tables
  DataSets,         \* the sequences of new data files one operation adds
  DeleteSets,       \* the sequences of new delete files one operation adds
  GroupSets,        \* the sequences of groups one operation adds
  MaxSnapshots,     \* bound: snapshots committed in a behaviour
  MaxSchema         \* bound: type promotions of the partition column

VARIABLES
  table,       \* the table metadata
  manifests,   \* the manifest files, by path
  requested    \* history: what each commit was asked to add and to remove

vars == <<table, manifests, requested>>

-----------------------------------------------------------------------------
(* Scans *)

\* read_snapshot: the manifest list of a snapshot, read under its schema.
read_snapshot(s) == ManifestListReader(s.list, table, s.schema)

\* datafiles: the entries of the manifests with what they inherit.
Scan(list) ==
  FlattenSeq([i \in DOMAIN list |-> ReadManifest(list[i], manifests[list[i].path])])

LiveEntries(list) == SelectSeq(Scan(list), Live)
LiveData(list) ==
  {e.file.path : e \in {x \in ToSet(LiveEntries(list)) : x.file.content = "Data"}}

\* Table::manifests with a start snapshot: the manifests written after it,
\* of whose entries the caller keeps those with a later sequence number.
\* (ByMinimum: the slip of looking at min_sequence_number.)
ByMinimum(s, start) ==
  SelectSeq(read_snapshot(s), LAMBDA m : start.sequence_number = 0
                                         \/ m.min_sequence_number > start.sequence_number)

ManifestsSince(s, start) ==
  SelectSeq(read_snapshot(s), LAMBDA m : start.sequence_number = 0
                                         \/ m.sequence_number > start.sequence_number)

\* change_manifests at one snapshot of the walk, and the events a changelog
\* reads from them: the Added and Deleted entries of data files.
\* (WithoutDeletes: the slip of keeping only manifests that add files.)
WithoutDeletes(s) ==
  SelectSeq(read_snapshot(s),
            LAMBDA m : m.sequence_number = s.sequence_number /\ m.added_files # 0)

ChangeManifests(s) ==
  SelectSeq(read_snapshot(s), LAMBDA m : /\ m.sequence_number = s.sequence_number
                                         /\ m.added_files # 0 \/ m.deleted_files # 0)

Events(s, status) ==
  SelectSeq(Scan(ChangeManifests(s)),
            LAMBDA e : e.file.content = "Data" /\ e.status = status)

\* snapshot_partition_bounds: None when no manifest has a summary.
snapshot_partition_bounds(s) ==
  FoldLeft(LAMBDA acc, m : IF m.partitions = None THEN acc
                           ELSE IF acc = None THEN summary_to_rectangle(m.partitions)
                           ELSE expand(acc, summary_to_rectangle(m.partitions)),
           None, read_snapshot(s))

\* snapshot_partition_bounds_with_nulls: None also when a manifest has no
\* summary or is of another spec.
snapshot_partition_bounds_with_nulls(s) ==
  LET list == read_snapshot(s)
  IN  IF list = <<>> \/ \E m \in ToSet(list) : m.spec # table.default_spec \/ m.partitions = None
      THEN None
      ELSE [bounds |-> snapshot_partition_bounds(s),
            contains_null |-> \E m \in ToSet(list) : m.partitions.contains_null]

-----------------------------------------------------------------------------
(* Snapshot summaries *)

DataFiles(files) == SelectSeq(files, LAMBDA f : f.content = "Data")
Rows(files) == FoldLeft(LAMBDA n, f : n + f.rows, 0, files)

NoTotals == [records |-> 0, data_files |-> 0, delete_files |-> 0]

update_snapshot_summary(old, data, deletes) ==
  [records |-> old.records + Rows(DataFiles(data)),
   data_files |-> old.data_files + Len(data),
   delete_files |-> old.delete_files + Len(deletes)]

\* (KeepsRemoved: the slip of leaving the totals as they are.)
KeepsRemoved(totals, removed) == totals

update_snapshot_summary_by_filtered_stats(totals, removed) ==
  LET files == [i \in DOMAIN removed |-> removed[i].file]
  IN  [totals EXCEPT !.records = Greatest(@ - Rows(DataFiles(files)), 0),
                     !.data_files = Greatest(@ - Len(files), 0)]

-----------------------------------------------------------------------------
(* Commits *)

Current == table.snapshots[table.current]
HasCurrent == table.current # None
CurrentTotals == IF HasCurrent THEN Current.totals ELSE NoTotals
CurrentList ==
  IF ~HasCurrent THEN <<>>
  ELSE ManifestListReader(hydrate(table, manifests, Current.list), table, None)

\* The new files of an operation, by the number of the commit.
Files(templates, offset) ==
  [i \in DOMAIN templates |->
     [path |-> <<table.next_id, offset + i>>, content |-> templates[i].content,
      rows |-> templates[i].rows, part |-> templates[i].part]]

AddedEntry(file, seq) ==
  [status |-> "Added", snapshot_id |-> None, sequence_number |-> seq, first_row_id |-> None,
   type |-> Types(table.default_spec, table.schema), file |-> file]
AddedEntries(files, seq) == [i \in DOMAIN files |-> AddedEntry(files[i], seq)]

CanCommit == table.next_id <= MaxSnapshots

\* The commit of a snapshot with what list writer l wrote: the manifests are
\* stored, the snapshot is added with its row lineage and becomes current.
Commit(l, parent, seq, totals, added, removed) ==
  LET id == table.next_id
      written == [p \in {l.new[i].path : i \in DOMAIN l.new} |->
                    (CHOOSE i \in DOMAIN l.new : l.new[i].path = p)]
  IN  /\ CanCommit
      /\ l.ok
      /\ manifests' = [p \in DOMAIN manifests \cup DOMAIN written |->
                         IF p \in DOMAIN written THEN l.new[written[p]].file ELSE manifests[p]]
      /\ table' = [table EXCEPT
           !.next_id = id + 1, !.current = id, !.last_sequence_number = seq,
           !.next_row_id = IF table.format_version = 3 THEN l.next_row_id ELSE @,
           !.snapshots = [i \in DOMAIN @ \cup {id} |-> IF i # id THEN @[i] ELSE
             [sequence_number |-> seq, parent |-> parent, schema |-> table.schema,
              list |-> l.list, totals |-> totals]]]
      /\ requested' = [i \in DOMAIN requested \cup {id} |-> IF i # id THEN requested[i] ELSE
                         [added |-> added, removed |-> removed, from |-> table.current]]

Sequenced(files, seq) == {[file |-> files[i], sequence_number |-> seq] : i \in DOMAIN files}

\* Operation::Append: data files first, then delete files, each split when
\* their manifest would grow beyond the limit.
Append_(data, deletes) ==
  LET d == Files(data, 0)
      x == Files(deletes, Len(data))
      start == IF HasCurrent
               THEN from_existing(table, table.next_id, CurrentList, x \o d)
               ELSE NewListWriter(table, table.next_id, x \o d)
      put(l, files, content) ==
        IF files = <<>> THEN l
        ELSE Appended(table, manifests, l, AddedEntries(files, None), content)
      seq == table.last_sequence_number + 1
  IN  /\ Len(d) + Len(x) > 0
      /\ Commit(finish(put(put(start, d, "Data"), x, "Deletes")), table.current, seq,
                update_snapshot_summary(CurrentTotals, d, x), Sequenced(d \o x, seq), {})

\* Operation::AppendSequenceGroups: every group has a sequence number of its
\* own and manifests of its own, the snapshot that of the last group.
AppendSequenceGroups(groups) ==
  LET offset(g) == Len(FlattenSeq(SubSeq(groups, 1, g - 1)))
      files == [g \in DOMAIN groups |-> Files(groups[g], offset(g))]
      all == FlattenSeq(files)
      data(g) == DataFiles(files[g])
      deletes(g) == SelectSeq(files[g], LAMBDA f : f.content # "Data")
      seq(g) == table.last_sequence_number + g
      start == IF HasCurrent
               THEN from_existing(table, table.next_id, CurrentList, all)
               ELSE NewListWriter(table, table.next_id, all)
      put(l, fs, g, content) ==
        IF fs = <<>> THEN l
        ELSE append(table, manifests, l, AddedEntries(fs, seq(g)), content)
      written == FoldLeft(LAMBDA l, g : put(put(l, data(g), g, "Data"), deletes(g), g, "Deletes"),
                          start, [g \in DOMAIN groups |-> g])
  IN  /\ all # <<>>
      /\ Commit(finish(written), table.current, seq(Len(groups)),
                update_snapshot_summary(CurrentTotals, DataFiles(all),
                                        SelectSeq(all, LAMBDA f : f.content # "Data")),
                UNION {Sequenced(files[g], seq(g)) : g \in DOMAIN groups}, {})

\* Operation::Overwrite: the manifests that hold the files to remove are
\* rewritten, and the removed entries are listed as deleted.
ManifestsOf(paths) ==
  {m.path : m \in {x \in ToSet(CurrentList) :
     \E e \in ToSet(ManifestReader(manifests[x.path])) : Live(e) /\ e.file.path \in paths}}

\* The tombstones of the removed files, in the current types.
MarkRemoved(l, removed) ==
  IF removed = <<>> THEN l ELSE Appended(table, manifests, l, removed, "Data")

\* The new files: the manifest they are appended to may itself be filtered.
AppendAfterRewrite(l, d, over, remove) ==
  IF d = <<>> THEN l
  ELSE AppendedFiltered(table, manifests, l, AddedEntries(d, None),
                        IF l.data # None /\ l.data.path \in over THEN remove ELSE None, "Data")

CommitOverwrite(l, d, remove) ==
  LET seq == table.last_sequence_number + 1
  IN  Commit(finish(MarkRemoved(l, PromotedTo(l.filtered, Types(table.default_spec, table.schema)))),
             table.current, seq,
             update_snapshot_summary_by_filtered_stats(
               update_snapshot_summary(CurrentTotals, d, <<>>), l.removed),
             Sequenced(d, seq), remove)

OverwriteManifests(d, over, remove) ==
  LET start == IF d = <<>> THEN from_existing_for_deletion(table, table.next_id, CurrentList, over)
               ELSE from_existing_without_overwrites(table, table.next_id, CurrentList, d, over)
  IN  CommitOverwrite(AppendAfterRewrite(append_and_filter(table, manifests, start, remove),
                                         d, over, remove),
                      d, remove)

Overwrite(data, remove) ==
  /\ HasCurrent
  /\ data # <<>> \/ remove # {}
  /\ OverwriteManifests(Files(data, 0), ManifestsOf(remove), remove)

\* Operation::Replace: nothing of the old snapshot, and no parent.
Replace(data) ==
  LET d == Files(data, 0)
      l == NewListWriter(table, table.next_id, d)
      seq == table.last_sequence_number + 1
      n == compute_n_splits(0, Len(d), 0)
      entries == AddedEntries(d, seq)
      manifest(acc, g) == Write(acc, AppendEntries(
                            NewManifest(table, NextPath(acc), table.next_id, "Data"), g))
      groups == IF n = 0 THEN <<entries>>
                ELSE split_datafiles(table.default_spec, entries, l.bounds, n)
  IN  /\ table.format_version # 3
      /\ Commit(FoldLeft(manifest, l, groups), None, seq,
                update_snapshot_summary(NoTotals, DataFiles(d), <<>>), Sequenced(d, seq),
                IF HasCurrent THEN {e.file.path : e \in ToSet(LiveEntries(read_snapshot(Current)))} ELSE {})

\* Operation::Truncate: an empty manifest list.
Truncate ==
  Commit(NewListWriter(table, table.next_id, <<>>), table.current,
         table.last_sequence_number + 1, NoTotals, {},
         IF HasCurrent THEN {e.file.path : e \in ToSet(LiveEntries(read_snapshot(Current)))} ELSE {})

\* Changes of the metadata alone, while another commit can follow them:
\* SetDefaultSpec, a schema that promotes the partition column (on an empty
\* table both are as good as another start), and ExpireSnapshots with
\* retain_last 1.
SetDefaultSpec ==
  /\ table.default_spec = 0 /\ HasCurrent /\ CanCommit
  /\ table' = [table EXCEPT !.default_spec = 1]
  /\ UNCHANGED <<manifests, requested>>

PromoteColumn ==
  /\ table.schema < MaxSchema /\ HasCurrent /\ CanCommit
  /\ table' = [table EXCEPT !.schema = @ + 1]
  /\ UNCHANGED <<manifests, requested>>

\* Another engine upgrades the table (this code's own UpgradeFormatVersion is
\* unimplemented): manifests and lists stay as they are.
UpgradeFormatVersion ==
  /\ table.format_version = 2 /\ 3 \in FormatVersions /\ HasCurrent /\ CanCommit
  /\ table' = [table EXCEPT !.format_version = 3]
  /\ UNCHANGED <<manifests, requested>>

ExpireSnapshots ==
  /\ HasCurrent /\ DOMAIN table.snapshots # {table.current} /\ CanCommit
  /\ table' = [table EXCEPT !.snapshots = [i \in {table.current} |-> @[i]]]
  /\ UNCHANGED <<manifests, requested>>

-----------------------------------------------------------------------------
(* The table at the start *)

EmptyTable(v, spec) ==
  [format_version |-> v, default_spec |-> spec, schema |-> 0, next_id |-> 1, current |-> None,
   last_sequence_number |-> 0, next_row_id |-> 0, snapshots |-> [i \in {} |-> None]]

\* Snapshot 1 of a v1 table: manifests of one and of two files, listed without
\* counts and read as content Data with sequence number 0 (try_from_v1).
LegacyFile(i) == [path |-> <<1, i>>, content |-> "Data", rows |-> 1, part |-> i]
LegacyFiles(i) == IF i = 1 THEN <<LegacyFile(1)>> ELSE <<LegacyFile(2), LegacyFile(3)>>
LegacyManifest(i) ==
  [path |-> <<1, i>>, spec |-> 0, added_snapshot_id |-> 1,
   added_files |-> None, existing_files |-> None, deleted_files |-> None,
   added_rows |-> None, existing_rows |-> None, deleted_rows |-> None, partitions |-> None]

Upgraded(v) ==
  [EmptyTable(v, 0) EXCEPT !.next_id = 2, !.current = 1,
     !.snapshots = [i \in {1} |-> [sequence_number |-> 0, parent |-> None, schema |-> 0,
                                   list |-> [version |-> 1, entries |->
                                               <<LegacyManifest(1), LegacyManifest(2)>>],
                                   totals |-> [NoTotals EXCEPT !.records = 3, !.data_files = 3]]]]

Init ==
  \/ /\ table \in {EmptyTable(v, 1) : v \in FormatVersions} \cup {EmptyTable(2, 0)}
     /\ manifests = [p \in {} |-> None]
     /\ requested = [i \in {} |-> None]
  \/ /\ table = Upgraded(2)
     /\ manifests = [p \in {<<1, 1>>, <<1, 2>>} |->
          [version |-> 1, spec |-> 0, schema |-> 0,
           entries |-> [k \in DOMAIN LegacyFiles(p[2]) |->
             EncodeEntry(1, [AddedEntry(LegacyFiles(p[2])[k], None) EXCEPT !.snapshot_id = 1])]]]
     /\ requested = [i \in {1} |-> [added |-> Sequenced([k \in 1 .. 3 |-> LegacyFile(k)], 0),
                                    removed |-> {}, from |-> None]]

\* The data files an overwrite removes: none, the first of a commit, or all.
Removable ==
  LET live == IF HasCurrent THEN LiveData(read_snapshot(Current)) ELSE {}
  IN  {{}, live} \cup {{p} : p \in {x \in live : x[2] = 1}}

Next ==
  \/ \E data \in DataSets, deletes \in DeleteSets : Append_(data, deletes)
  \/ \E groups \in GroupSets : AppendSequenceGroups(groups)
  \/ \E data \in DataSets, remove \in Removable : Overwrite(data, remove)
  \/ \E data \in DataSets : Replace(data)
  \/ Truncate
  \/ SetDefaultSpec
  \/ PromoteColumn
  \/ UpgradeFormatVersion
  \/ ExpireSnapshots

Spec == Init /\ [][Next]_vars
-----------------------------------------------------------------------------
(* Properties *)

\* Older snapshots were current when they were checked; FilesExact looks at
\* them again, to see that no later commit wrote over their files.
Snapshots == DOMAIN table.snapshots
Newest == Snapshots \cap {table.current}
Entries(id) == LiveEntries(read_snapshot(table.snapshots[id]))
PathsOf(es) == {e.file.path : e \in es}

\* Every snapshot reads exactly the files it should: those of the snapshot it
\* was made from, less what it was asked to remove, and what it added; each
\* once, and each with the sequence number it was added with however often
\* its manifest was merged, split or filtered since.
FilesExact ==
  \A id \in Snapshots :
    LET all == Entries(id)
        es == ToSet(all)
        old == IF requested[id].from \in Snapshots
               THEN {[file |-> e.file, sequence_number |-> e.sequence_number] :
                       e \in ToSet(Entries(requested[id].from))}
               ELSE {}
        now == {[file |-> e.file, sequence_number |-> e.sequence_number] : e \in es}
        kept == {o \in old : o.file.path \notin requested[id].removed}
    IN  /\ Len(all) = Cardinality(PathsOf(es))
        /\ requested[id].from = None \/ requested[id].from \in Snapshots
             => now = kept \cup requested[id].added

\* Row lineage on v3, also after an upgrade: every live data file that a
\* snapshot committed since lists in a data manifest has row ids, no two
\* files share one, all are below next-row-id, and a file keeps the ids it
\* once had through every rewrite.
Ranges(id) ==
  LET data == SelectSeq(read_snapshot(table.snapshots[id]), LAMBDA m : m.content = "Data")
  IN  {[path |-> e.file.path, first |-> e.first_row_id, rows |-> e.file.rows] :
         e \in {x \in ToSet(LiveEntries(data)) : x.file.content = "Data"}}

RowLineage ==
  table.format_version = 3 =>
    \A id \in Newest :
      LET ranges == Ranges(id)
      IN  /\ table.snapshots[id].list.version = 3 =>
               /\ \A r \in ranges : r.first # None
               /\ \A r \in ranges : r.first + r.rows <= table.next_row_id
               /\ \A r, s \in ranges : r # s => \/ r.first + r.rows <= s.first
                                               \/ s.first + s.rows <= r.first
          /\ requested[id].from \in Snapshots =>
               \A r \in Ranges(requested[id].from), s \in ranges :
                 r.path = s.path /\ r.first # None => r.first = s.first

\* The partition summary of a manifest covers every live file in it, so that
\* a scan may skip the manifest by its summary, and the bounds of a snapshot
\* cover every live file in its manifests.
Within(file, bounds) ==
  bounds # Unbounded /\ file.part # None => file.part \in bounds[1] .. bounds[2]

BoundsCover(s) ==
  LET files == {e.file : e \in UNION {ToSet(SelectSeq(ManifestReader(manifests[m.path]), Live)) :
                                        m \in {x \in ToSet(read_snapshot(s)) : x.spec = 1}}}
      bounds == snapshot_partition_bounds(s)
      nulls == snapshot_partition_bounds_with_nulls(s)
  IN  \A f \in files :
        /\ bounds # None => Within(f, bounds)
        /\ nulls # None => Within(f, nulls.bounds) /\ (f.part = None => nulls.contains_null)

SummariesCover ==
  /\ \A id \in Newest : BoundsCover(table.snapshots[id])
  /\ \A id \in Newest : \A m \in ToSet(read_snapshot(table.snapshots[id])) :
       m.spec = 1 =>
         \A e \in ToSet(ManifestReader(manifests[m.path])) :
           Live(e) => IF e.file.part = None THEN m.partitions.contains_null
                      ELSE /\ m.partitions.lower # None
                           /\ e.file.part \in m.partitions.lower[2] .. m.partitions.upper[2]

\* The partition values in a manifest are of the spec and of the type that
\* the manifest's own header says, also after the column was promoted and the
\* snapshots that knew the older type are gone.
TypesUniform ==
  \A p \in DOMAIN manifests :
    \A e \in ToSet(manifests[p].entries) : e.type = Types(manifests[p].spec, manifests[p].schema)

\* The totals in the summary are those of the files.
TotalsExact ==
  \A id \in Newest :
    LET data == SelectSeq(Entries(id), LAMBDA e : e.file.content = "Data")
    IN  /\ table.snapshots[id].totals.records = RowsOf(data)
        /\ table.snapshots[id].totals.data_files = Len(data)

\* An incremental scan misses no live file that was added after the start.
IncrementalComplete ==
  \A id \in Newest :
    LET all == ToSet(Entries(id))
    IN  \A from \in {i \in Snapshots : i < id} :
          LET start == table.snapshots[from]
              late(e) == e.sequence_number > start.sequence_number
          IN  {e \in all : late(e)}
                = {e \in ToSet(LiveEntries(ManifestsSince(table.snapshots[id], start))) : late(e)}

\* The events change_manifests gives for a snapshot are its changes to the
\* data files, with two exceptions where it gives none: the snapshot of several
\* sequence groups, whose manifests all have the first group's sequence number
\* and the snapshot the last one's, and one that drops the whole list.  The
\* comment on change_manifests (iceberg-rust/src/table/mod.rs:241-247) promises
\* the changes of every snapshot in the range.
ChangesOf(id) ==
  LET before == LiveData(read_snapshot(table.snapshots[requested[id].from]))
      after == LiveData(read_snapshot(table.snapshots[id]))
  IN  [added |-> after \ before, removed |-> before \ after]

EventsOf(id) ==
  [added |-> PathsOf(ToSet(Events(table.snapshots[id], "Added"))),
   removed |-> PathsOf(ToSet(Events(table.snapshots[id], "Deleted")))]

\* One sequence number further than the snapshot it was made from, and a list
\* that is not empty.
Listed(id) ==
  /\ table.snapshots[id].sequence_number
       = table.snapshots[requested[id].from].sequence_number + 1
  /\ table.snapshots[id].list.entries # <<>>

ChangesExact ==
  \A id \in Newest :
    table.snapshots[id].parent \in Snapshots =>
      EventsOf(id) = IF Listed(id) THEN ChangesOf(id) ELSE [added |-> {}, removed |-> {}]

=============================================================================
