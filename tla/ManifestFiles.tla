--------------------------- MODULE ManifestFiles ---------------------------
(***************************************************************************)
(* Manifests and manifest lists: how they are written, rewritten, split    *)
(* and read (src/iceberg-rust/src/table/manifest.rs, manifest_list.rs,     *)
(* transaction/append.rs, transaction/overwrite.rs).                       *)
(*                                                                         *)
(* A data file is [path, content, rows, part]: part is its value in the    *)
(* partition column (None is null).  Partition spec 0 has no column, spec  *)
(* 1 has one; the column's type is the schema id, which grows when it is   *)
(* promoted.  Bounds, metrics and file sizes are left out, NaN too.        *)
(*                                                                         *)
(* ManifestFormat says what is stored of an entry and read back.  A        *)
(* manifest file is [version, spec, schema, entries], and t is the table   *)
(* metadata.                                                               *)
(***************************************************************************)
EXTENDS ManifestFormat, SequencesExt, FiniteSets, FiniteSetsExt

CONSTANT MinDatafilesPerManifest   \* MIN_DATAFILES_PER_MANIFEST

ASSUME ManifestAssumption == MinDatafilesPerManifest \in Nat \ {0} /\ None \notin Int

Least(x, y) == IF x < y THEN x ELSE y
Greatest(x, y) == IF x > y THEN x ELSE y

-----------------------------------------------------------------------------
(* Rectangles of partition values (util/mod.rs): <<lo, hi>>, or <<>> when  *)
(* unbounded (a null, no value, or no partition column).                   *)

Unbounded == <<>>
expand(r, s) ==
  IF r = Unbounded \/ s = Unbounded THEN Unbounded
  ELSE <<Least(r[1], s[1]), Greatest(r[2], s[2])>>

\* Rectangle::cmp_with_priority = Greater.
Larger(r, s) ==
  IF r = Unbounded \/ s = Unbounded THEN r = Unbounded /\ s # Unbounded
  ELSE r[2] - r[1] > s[2] - s[1]

Position(spec, file) ==
  IF spec = 0 \/ file.part = None THEN Unbounded ELSE <<file.part, file.part>>

bounding_partition_values(spec, files) ==
  FoldLeft(LAMBDA r, f : expand(r, Position(spec, f)), Position(spec, files[1]), files)

NoValues == [contains_null |-> FALSE, lower |-> None, upper |-> None]
summary_to_rectangle(s) ==
  IF s.lower = None THEN Unbounded ELSE <<s.lower[2], s.upper[2]>>

\* A bound after one more value: values of two types are not compared.
Bounding(bound, e, Bound(_, _)) ==
  IF bound = None THEN <<e.type, e.file.part>>
  ELSE IF bound[1] # e.type THEN bound
  ELSE <<e.type, Bound(bound[2], e.file.part)>>

\* update_partitions: the summary with the value of one more entry.
\* (ForgetsNull: the slip of treating null as no value.)
ForgetsNull(spec, s, e) ==
  IF spec = 0 \/ e.file.part = None THEN s
  ELSE [s EXCEPT !.lower = Bounding(@, e, Least), !.upper = Bounding(@, e, Greatest)]

update_partitions(spec, s, e) ==
  IF spec = 0 THEN s
  ELSE IF e.file.part = None THEN [s EXCEPT !.contains_null = TRUE]
  ELSE [s EXCEPT !.lower = Bounding(@, e, Least), !.upper = Bounding(@, e, Greatest)]

-----------------------------------------------------------------------------
(* Splitting *)

isqrt(n) == CHOOSE k \in 0 .. n : k * k <= n /\ (k + 1) * (k + 1) > n
ilog2(n) == CHOOSE k \in 0 .. n : 2 ^ k <= n /\ 2 ^ (k + 1) > n

compute_n_splits(existing, new, selected) ==
  LET x == (selected + new) \div (MinDatafilesPerManifest + isqrt(existing + new))
  IN  IF x = 0 THEN 0 ELSE ilog2(x) + 1

\* split_datafiles_once of [entries, rect]: in halves when all values are
\* equal, else by the nearer bound.  (DropsNulls: the slip of skipping the
\* entries that have no position.)
Halve(entries) ==
  LET n == Len(entries) \div 2
  IN  <<[entries |-> SubSeq(entries, 1, n), rect |-> Unbounded],
        [entries |-> SubSeq(entries, n + 1, Len(entries)), rect |-> Unbounded]>>

NearUpper(rect, e) == e.file.part # None /\ e.file.part - rect[1] > rect[2] - e.file.part

Side(spec, entries) ==
  [entries |-> entries,
   rect |-> IF entries = <<>> THEN Unbounded
            ELSE bounding_partition_values(spec, [i \in DOMAIN entries |-> entries[i].file])]

DropsNulls(spec, g) ==
  IF g.rect = Unbounded \/ g.rect[1] = g.rect[2] THEN Halve(g.entries)
  ELSE <<Side(spec, SelectSeq(g.entries, LAMBDA e : e.file.part # None /\ ~NearUpper(g.rect, e))),
         Side(spec, SelectSeq(g.entries, LAMBDA e : NearUpper(g.rect, e)))>>

split_datafiles_once(spec, g) ==
  IF g.rect = Unbounded \/ g.rect[1] = g.rect[2] THEN Halve(g.entries)
  ELSE <<Side(spec, SelectSeq(g.entries, LAMBDA e : ~NearUpper(g.rect, e))),
         Side(spec, SelectSeq(g.entries, LAMBDA e : NearUpper(g.rect, e)))>>

\* n rounds of splitting every group in two; empty groups are dropped.
split_datafiles(spec, entries, rect, n) ==
  LET round(groups, i) == FlattenSeq([k \in DOMAIN groups |-> split_datafiles_once(spec, groups[k])])
      groups == FoldLeft(round, <<[entries |-> entries, rect |-> rect]>>, [i \in 1 .. n |-> i])
  IN  SelectSeq([k \in DOMAIN groups |-> groups[k].entries], LAMBDA s : s # <<>>)

-----------------------------------------------------------------------------
(* Reading a manifest *)

Live(e) == e.status # "Deleted"

\* The entries of a manifest with what they inherit from its entry m in the
\* list; FirstRowIdInheritance numbers the live data files that have no id.
InheritedRowId(next, e) ==
  IF next = None THEN None
  ELSE IF ~Live(e) \/ e.file.content # "Data" \/ e.first_row_id # None
       THEN e.first_row_id ELSE next

AfterRows(next, e) ==
  IF next # None /\ Live(e) /\ e.file.content = "Data" /\ e.first_row_id = None
  THEN next + e.file.rows ELSE next

Inherit(m, e, next) ==
  [e EXCEPT !.snapshot_id = Default(@, m.added_snapshot_id),
            !.sequence_number = Default(@, m.sequence_number),
            !.first_row_id = InheritedRowId(next, e)]

ReadManifest(m, file) ==
  FoldLeft(LAMBDA acc, e : [next |-> AfterRows(acc.next, e),
                            entries |-> Append(acc.entries, Inherit(m, e, acc.next))],
           [next |-> m.first_row_id, entries |-> <<>>], ManifestReader(file)).entries

-----------------------------------------------------------------------------
(* ManifestWriter: [m, file], the list entry and the manifest file so far  *)

NewManifest(t, path, snapshot, content) ==
  [m |-> [path |-> path, content |-> content, spec |-> t.default_spec,
          sequence_number |-> t.last_sequence_number + 1,
          min_sequence_number |-> t.last_sequence_number + 1,
          added_snapshot_id |-> snapshot,
          added_files |-> 0, existing_files |-> 0, deleted_files |-> 0,
          added_rows |-> 0, existing_rows |-> 0, deleted_rows |-> 0,
          partitions |-> None, first_row_id |-> None],
   file |-> [version |-> t.format_version, spec |-> t.default_spec, schema |-> t.schema,
             entries |-> <<>>]]

\* ManifestWriter::append.
AppendEntry(w, e) ==
  LET rows == IF e.file.content = "Data" THEN e.file.rows ELSE 0
      deletes == IF e.file.content = "EqualityDeletes" THEN e.file.rows ELSE 0
      add(n, status, by) == IF e.status = status THEN Default(n, 0) + by ELSE Default(n, 0)
  IN  [m |-> [w.m EXCEPT
                !.partitions = update_partitions(w.file.spec, Default(@, NoValues), e),
                !.min_sequence_number = Least(@, Default(e.sequence_number, @)),
                !.added_files = add(@, "Added", 1),
                !.existing_files = add(@, "Existing", 1),
                !.deleted_files = add(@, "Deleted", 1),
                !.added_rows = add(@, "Added", rows),
                !.existing_rows = add(@, "Existing", rows),
                !.deleted_rows = add(@, "Deleted", rows) + deletes],
       file |-> [w.file EXCEPT !.entries = Append(@, EncodeEntry(w.file.version, e))]]

AppendEntries(w, entries) == FoldLeft(AppendEntry, w, entries)

\* What from_existing and from_existing_with_filter keep of an entry: its
\* sequence number and snapshot, materialised, and its row id where the
\* filtering rewrite inherits it.  (TakesMinimum: the slip of inheriting the
\* least sequence number in the manifest.)
TakesMinimum(m, e, next) ==
  [e EXCEPT !.snapshot_id = Default(@, m.added_snapshot_id),
            !.sequence_number = Default(@, m.min_sequence_number),
            !.first_row_id = IF next = None THEN @ ELSE InheritedRowId(next, e),
            !.status = "Existing"]

Materialize(m, e, next) ==
  [e EXCEPT !.snapshot_id = Default(@, m.added_snapshot_id),
            !.sequence_number = Default(@, m.sequence_number),
            !.first_row_id = IF next = None THEN @ ELSE InheritedRowId(next, e),
            !.status = "Existing"]

RowsOf(entries) == FoldLeft(LAMBDA n, e : n + e.file.rows, 0, entries)
MinSequence(entries, none) ==
  IF entries = <<>> THEN none ELSE Min({entries[i].sequence_number : i \in DOMAIN entries})

\* The list entry of a rewritten manifest.
Rewritten(t, m, path, snapshot, live, partitions) ==
  [m EXCEPT !.path = path,
            !.sequence_number = t.last_sequence_number + 1,
            !.min_sequence_number = MinSequence(live, t.last_sequence_number + 1),
            !.added_snapshot_id = snapshot,
            !.existing_files = Len(live), !.existing_rows = RowsOf(live),
            !.added_files = 0, !.added_rows = 0, !.deleted_files = 0, !.deleted_rows = 0,
            !.partitions = partitions]

RewrittenFile(t, spec, schema, entries) ==
  [version |-> t.format_version, spec |-> spec, schema |-> schema,
   entries |-> [i \in DOMAIN entries |-> EncodeEntry(t.format_version, entries[i])]]

\* ManifestWriter::from_existing: the live entries of the manifest.
FromExisting(t, m, path, snapshot, entries) ==
  LET kept == SelectSeq(entries, Live)
      live == [i \in DOMAIN kept |-> Materialize(m, kept[i], None)]
  IN  [m |-> Rewritten(t, m, path, snapshot, live, m.partitions),
       file |-> RewrittenFile(t, t.default_spec, t.schema, live)]

\* ManifestWriter::from_existing_with_filter: the live entries but the
\* filtered ones, with the row ids they inherited; under an older spec the
\* filtered ones stay, as tombstones, else they are returned.  Partition
\* values are promoted to the types of the manifest being written.
FilteredEntries(m, entries) ==
  FoldLeft(LAMBDA acc, e : [next |-> AfterRows(acc.next, e),
                            entries |-> Append(acc.entries, Materialize(m, e, acc.next))],
           [next |-> m.first_row_id, entries |-> <<>>], SelectSeq(entries, Live)).entries

\* all are the entries as they were, promoted as they are written.
WithoutFiltered(t, m, path, snapshot, schema, all, promoted, filter) ==
  LET old == m.spec # t.default_spec
      kept(e) == e.file.path \notin filter
      gone(e) == [e EXCEPT !.status = "Deleted", !.snapshot_id = snapshot]
      live == SelectSeq(promoted, kept)
      written == IF old THEN [i \in DOMAIN promoted |->
                                IF kept(promoted[i]) THEN promoted[i] ELSE gone(promoted[i])]
                 ELSE live
      summary == FoldLeft(LAMBDA s, e : update_partitions(m.spec, s, e), NoValues, written)
      removed == SelectSeq(all, LAMBDA e : ~kept(e))
  IN  [w |-> [m |-> [Rewritten(t, m, path, snapshot, live, summary)
                     EXCEPT !.deleted_files = Len(written) - Len(live),
                            !.deleted_rows = RowsOf(written) - RowsOf(live)],
              file |-> RewrittenFile(t, m.spec, schema, written)],
       removed |-> removed,
       filtered |-> IF old THEN <<>> ELSE [i \in DOMAIN removed |-> gone(removed[i])]]

PromotedTo(entries, types) ==
  [i \in DOMAIN entries |-> promote_partition_to_types(entries[i], types)]

FilteredManifest(t, m, path, snapshot, schema, all, filter) ==
  WithoutFiltered(t, m, path, snapshot, schema, all, PromotedTo(all, Types(m.spec, schema)), filter)

FromExistingWithFilter(t, m, path, snapshot, source, filter) ==
  FilteredManifest(t, m, path, snapshot,
                   IF m.spec # t.default_spec THEN source.schema ELSE t.schema,
                   FilteredEntries(m, ManifestReader(source)), filter)

-----------------------------------------------------------------------------
(* ManifestListWriter *)

\* RowIdAssigner::assign: a data manifest without row ids takes as many as it
\* has rows.  (RowsOfAdded: the slip of counting added rows only.)
RowsOfAdded(m) == m.added_rows
AssignedRows(m) == m.added_rows + m.existing_rows

assign(l, m) ==
  IF m.content = "Deletes" THEN [first |-> None, next |-> l.next_row_id, ok |-> TRUE]
  ELSE IF m.first_row_id # None
  THEN [first |-> m.first_row_id, next |-> l.next_row_id, ok |-> TRUE]
  ELSE IF None \in {m.added_rows, m.existing_rows}
  THEN [first |-> None, next |-> l.next_row_id, ok |-> FALSE]
  ELSE [first |-> l.next_row_id, next |-> l.next_row_id + AssignedRows(m), ok |-> TRUE]

\* append_manifest: the row ids belong to version 3, and the counts that a
\* list of version 2 or 3 requires must be there.  l.ok turns false where the
\* code returns an error (or, on version 3, unwraps a missing count).
append_manifest(l, m) ==
  LET v == l.format_version
      a == IF v = 3 THEN assign(l, m) ELSE [first |-> None, next |-> l.next_row_id, ok |-> TRUE]
      out == [m EXCEPT !.first_row_id = a.first]
  IN  [l EXCEPT !.list.entries = Append(@, EncodeListEntry(v, out)),
                !.next_row_id = a.next,
                !.ok = @ /\ a.ok /\ ListEntryWritable(v, out)]

\* ManifestListWriter::new.
NewListWriter(t, snapshot, files) ==
  [format_version |-> t.format_version, snapshot |-> snapshot,
   list |-> [version |-> t.format_version, entries |-> <<>>],
   next_row_id |-> t.next_row_id, data |-> None, deletes |-> None, overwrite |-> <<>>,
   bounds |-> IF files = <<>> THEN Unbounded ELSE bounding_partition_values(t.default_spec, files),
   n_existing |-> 0, n_manifests |-> 0, new |-> <<>>, removed |-> <<>>, filtered |-> <<>>,
   ok |-> TRUE]

\* ManifestRewriteCompatibility::allows: the manifest is of the default spec
\* and its snapshot, still known, had a schema that gives the same partition
\* types.  (AllowsUnknown: the slip of trusting a manifest whose snapshot has
\* expired.)
AllowsUnknown(t, m) ==
  /\ m.spec = t.default_spec
  /\ m.added_snapshot_id \in DOMAIN t.snapshots
       => Types(m.spec, t.snapshots[m.added_snapshot_id].schema) = Types(m.spec, t.schema)

allows(t, m) ==
  /\ m.spec = t.default_spec
  /\ m.added_snapshot_id \in DOMAIN t.snapshots
  /\ Types(m.spec, t.snapshots[m.added_snapshot_id].schema) = Types(m.spec, t.schema)

\* A manifest that is not selected: to be overwritten, or kept as it is.
Pass(l, m, overwrites) ==
  IF m.path \in overwrites THEN [l EXCEPT !.overwrite = Append(@, m)] ELSE append_manifest(l, m)

\* m replaces the manifest kept aside if that one is worse, else it is passed.
KeepAside(l, m, aside, Worse(_), overwrites) ==
  IF l[aside] = None THEN [l EXCEPT ![aside] = m]
  ELSE IF Worse(l[aside]) THEN Pass([l EXCEPT ![aside] = m], l[aside], overwrites)
  ELSE Pass(l, m, overwrites)

\* With partitions, the manifest to extend is the one with the least bounds
\* after the new values; one without summaries, which a manifest without
\* entries is, is an error.
KeepByBounds(t, l, m, aside, overwrites) ==
  LET after(x) == expand(summary_to_rectangle(x.partitions), l.bounds)
  IN  IF ~allows(t, m) THEN Pass(l, m, overwrites)
      ELSE IF m.partitions = None THEN [l EXCEPT !.ok = FALSE]
      ELSE KeepAside(l, m, aside, LAMBDA x : Larger(after(x), after(m)), overwrites)

\* Without, it is the one with the fewest added rows; one without the count
\* is taken, and what was aside is forgotten.
KeepByRows(t, l, m, aside, overwrites) ==
  IF ~allows(t, m) THEN Pass(l, m, overwrites)
  ELSE IF m.added_rows = None THEN [l EXCEPT ![aside] = m]
  ELSE KeepAside(l, m, aside,
                 LAMBDA x : x.added_rows # None /\ x.added_rows > m.added_rows, overwrites)

CountAdded(l, m) == [l EXCEPT !.n_existing = @ + Default(m.added_files, 0)]
AsideOf(m) == IF m.content = "Deletes" THEN "deletes" ELSE "data"

\* An append keeps one manifest of data and one of deletes aside.
select_manifest_partitioned(t, l, m) == KeepByBounds(t, CountAdded(l, m), m, AsideOf(m), {})
select_manifest_unpartitioned(t, l, m) == KeepByRows(t, CountAdded(l, m), m, AsideOf(m), {})

\* An overwrite keeps one aside and looks at no manifest's content.
select_manifest_without_overwrites_partitioned(t, overwrites, l, m) ==
  KeepByBounds(t, CountAdded(l, m), m, "data", overwrites)
select_manifest_without_overwrites_unpartitioned(t, overwrites, l, m) ==
  KeepByRows(t, CountAdded(l, m), m, "data", overwrites)

\* On v3, and to delete only, every manifest is kept by path or overwritten.
Carry(overwrites, l, m) ==
  Pass([l EXCEPT !.n_existing = @ + Default(m.added_files, 0) + Default(m.existing_files, 0)],
       m, overwrites)

from_existing(t, snapshot, list, files) ==
  FoldLeft(LAMBDA l, m : IF t.format_version = 3 THEN Carry({}, l, m)
                         ELSE IF t.default_spec = 0 THEN select_manifest_unpartitioned(t, l, m)
                         ELSE select_manifest_partitioned(t, l, m),
           NewListWriter(t, snapshot, files), list)

from_existing_without_overwrites(t, snapshot, list, files, overwrites) ==
  FoldLeft(LAMBDA l, m : IF t.format_version = 3 THEN Carry(overwrites, l, m)
                         ELSE IF t.default_spec = 0
                         THEN select_manifest_without_overwrites_unpartitioned(t, overwrites, l, m)
                         ELSE select_manifest_without_overwrites_partitioned(t, overwrites, l, m),
           NewListWriter(t, snapshot, files), list)

from_existing_for_deletion(t, snapshot, list, overwrites) ==
  FoldLeft(LAMBDA l, m : Carry(overwrites, l, m), NewListWriter(t, snapshot, <<>>), list)

Selected(l, content) == IF content = "Data" THEN l.data ELSE l.deletes
Take(l, content) ==
  IF content = "Data" THEN [l EXCEPT !.data = None] ELSE [l EXCEPT !.deletes = None]

n_splits(l, n, content) ==
  LET m == Selected(l, content)
  IN  compute_n_splits(l.n_existing, n,
        IF m = None THEN 0 ELSE Default(m.added_files, 0) + Default(m.existing_files, 0))

\* next_manifest_location, and the manifest written there and listed.
NextPath(l) == <<l.snapshot, l.n_manifests>>
Write(l, w) ==
  append_manifest([l EXCEPT !.n_manifests = @ + 1,
                            !.new = Append(@, [path |-> w.m.path, file |-> w.file]),
                            !.ok = @ /\ \A e \in ToSet(w.file.entries) :
                                          EntryWritable(w.file.version, e)], w.m)

\* What a filter took out of a manifest is remembered beside the list.
Noted(l, r) == [l EXCEPT !.removed = @ \o r.removed, !.filtered = @ \o r.filtered]

WriteNoted(l, r, entries) == Write(Noted(l, r), AppendEntries(r.w, entries))

\* append_filtered: into the manifest kept aside, rewritten, or a new one.
append_filtered(t, manifests, l, entries, filter, content) ==
  LET m == Selected(l, content)
      taken == Take(l, content)
  IN  IF m = None
      THEN Write(l, AppendEntries(NewManifest(t, NextPath(l), l.snapshot, content), entries))
      ELSE IF filter = None
      THEN Write(taken, AppendEntries(
             FromExisting(t, m, NextPath(l), l.snapshot, ManifestReader(manifests[m.path])),
             entries))
      ELSE WriteNoted(taken, FromExistingWithFilter(t, m, NextPath(l), l.snapshot,
                                                    manifests[m.path], filter), entries)

\* append_multiple_filtered: the new entries and the live ones of the manifest
\* kept aside, spread over new manifests.
append_multiple_filtered(t, manifests, l, entries, n, filter, content) ==
  LET m == Selected(l, content)
      old == IF m = None THEN <<>> ELSE SelectSeq(ManifestReader(manifests[m.path]), Live)
      all == [i \in DOMAIN old |-> Materialize(m, old[i], None)]
      gone(e) == filter # None /\ e.file.path \in filter
      removed == SelectSeq(all, gone)
      bounds == IF m = None THEN l.bounds
                ELSE IF m.partitions = None THEN l.bounds
                ELSE expand(summary_to_rectangle(m.partitions), l.bounds)
      groups == split_datafiles(t.default_spec, entries \o SelectSeq(all, LAMBDA e : ~gone(e)),
                                bounds, n)
      start == [Take(l, content) EXCEPT
                  !.removed = @ \o removed,
                  !.filtered = @ \o [i \in DOMAIN removed |->
                                       [removed[i] EXCEPT !.status = "Deleted"]]]
  IN  FoldLeft(LAMBDA acc, g :
                 Write(acc, AppendEntries(NewManifest(t, NextPath(acc), l.snapshot, content), g)),
               start, groups)

\* append and append_multiple_concurrently: without a filter.
append(t, manifests, l, entries, content) ==
  append_filtered(t, manifests, l, entries, None, content)

append_multiple(t, manifests, l, entries, n, content) ==
  append_multiple_filtered(t, manifests, l, entries, n, None, content)

\* As one manifest or several, by n_splits.
Appended(t, manifests, l, entries, content) ==
  LET n == n_splits(l, Len(entries), content)
  IN  IF n = 0 THEN append(t, manifests, l, entries, content)
      ELSE append_multiple(t, manifests, l, entries, n, content)

AppendedFiltered(t, manifests, l, entries, filter, content) ==
  LET n == n_splits(l, Len(entries), content)
  IN  IF n = 0 THEN append_filtered(t, manifests, l, entries, filter, content)
      ELSE append_multiple_filtered(t, manifests, l, entries, n, filter, content)

\* A manifest without entries is not written, its number is used.
WriteRewritten(l, r) ==
  IF r.w.file.entries = <<>> THEN [Noted(l, r) EXCEPT !.n_manifests = @ + 1]
  ELSE Write(Noted(l, r), r.w)

\* append_and_filter: every manifest to overwrite, rewritten without the files
\* of the filter; one that would have no entry is dropped.
append_and_filter(t, manifests, l, filter) ==
  FoldLeft(LAMBDA acc, m :
    WriteRewritten(acc, FromExistingWithFilter(t, m, NextPath(acc), l.snapshot, manifests[m.path],
                                               filter)),
    [l EXCEPT !.overwrite = <<>>], l.overwrite)

\* finish: what is still aside is listed as it is.
finish(l) ==
  LET data == IF l.data = None THEN l ELSE append_manifest([l EXCEPT !.data = None], l.data)
  IN  IF data.deletes = None THEN data
      ELSE append_manifest([data EXCEPT !.deletes = None], data.deletes)

\* hydrate_v1_manifest_list_row_counts: the counts that a list of version 1
\* lacks, from its manifests; written back in version 1.
HasCounts(m) == None \notin {m.added_files, m.existing_files, m.deleted_files,
                             m.added_rows, m.existing_rows, m.deleted_rows}

Counted(file, m) ==
  LET with(status) == SelectSeq(ManifestReader(file), LAMBDA e : e.status = status)
  IN  IF HasCounts(m) THEN m
      ELSE [m EXCEPT !.added_files = Len(with("Added")), !.added_rows = RowsOf(with("Added")),
                     !.existing_files = Len(with("Existing")),
                     !.existing_rows = RowsOf(with("Existing")),
                     !.deleted_files = Len(with("Deleted")),
                     !.deleted_rows = RowsOf(with("Deleted"))]

hydrate(t, manifests, list) ==
  LET entries == ManifestListReader(list, t, None)
  IN  IF manifest_list_format_version(list, t) # 1 THEN list
      ELSE [list EXCEPT !.entries = [i \in DOMAIN entries |->
              EncodeListEntry(1, Counted(manifests[entries[i].path], entries[i]))]]
=============================================================================
