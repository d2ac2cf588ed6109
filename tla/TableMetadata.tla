--------------------------- MODULE TableMetadata ---------------------------
(***************************************************************************)
(* Table metadata and what a commit does to it: the requirements and the   *)
(* updates of src/iceberg-rust/src/catalog/commit.rs, and the lookups of   *)
(* src/iceberg-rust-spec/src/spec/table_metadata.rs.                       *)
(*                                                                         *)
(* Metadata keeps every field a requirement reads or an update writes,     *)
(* last-updated-ms excepted.  A schema is the set of its field ids, a      *)
(* partition spec or sort order its id, a snapshot the fields the commit   *)
(* path uses plus the data files a reader of its manifest list finds.      *)
(***************************************************************************)
EXTENDS Integers, Sequences, SequencesExt

CONSTANTS
  None,       \* Option::None
  MaxRowId    \* the largest i64

ASSUME RowIdAssumption == MaxRowId \in Nat /\ None \notin Int

-----------------------------------------------------------------------------
(* Maps: HashMap as a function on its keys *)

Extend(f, g) ==
  [x \in DOMAIN f \cup DOMAIN g |-> IF x \in DOMAIN g THEN g[x] ELSE f[x]]
Insert(f, k, v) == Extend(f, [x \in {k} |-> v])
Get(f, k) == IF k \in DOMAIN f THEN f[k] ELSE None

-----------------------------------------------------------------------------
(* Requirements *)

\* check_table_requirements, of one requirement.
Holds(r, m) ==
  CASE r.type = "AssertCreate" -> TRUE
    [] r.type = "AssertTableUuid" -> m.table_uuid = r.uuid
    [] r.type = "AssertRefSnapshotId" -> Get(m.refs, r.ref) = r.snapshot_id
    [] r.type = "AssertLastAssignedFieldId" -> m.last_column_id = r.last_assigned_field_id
    [] r.type = "AssertCurrentSchemaId" -> m.current_schema_id = r.current_schema_id
    [] r.type = "AssertLastAssignedPartitionId" ->
         m.last_partition_id = r.last_assigned_partition_id
    [] r.type = "AssertDefaultSpecId" -> m.default_spec_id = r.default_spec_id
    [] r.type = "AssertDefaultSortOrderId" ->
         m.default_sort_order_id = r.default_sort_order_id

check_table_requirements(requirements, m) == \A r \in requirements : Holds(r, m)

-----------------------------------------------------------------------------
(* Updates *)

\* The variants of TableUpdate and their fields.
TableUpdate_fields ==
  [AssignUuid |-> {"uuid"}, UpgradeFormatVersion |-> {"format_version"},
   AddSchema |-> {"schema_id", "fields", "last_column_id"}, SetCurrentSchema |-> {"schema_id"},
   AddSpec |-> {"spec_id"}, SetDefaultSpec |-> {"spec_id"},
   AddSortOrder |-> {"order_id"}, SetDefaultSortOrder |-> {"order_id"},
   AddSnapshot |-> {"snapshot_id", "snapshot"}, SetSnapshotRef |-> {"ref", "snapshot_id"},
   RemoveSnapshots |-> {"snapshot_ids"}, RemoveSnapshotRef |-> {"ref"},
   SetLocation |-> {"location"}, SetProperties |-> {"updates"}, RemoveProperties |-> {"removals"}]

(* The loop of apply_table_updates carries the metadata, the ids added so  *)
(* far (what -1 stands for) and whether an update has failed.              *)

LoopStart(m) ==
  [metadata |-> m, schema |-> None, spec |-> None, order |-> None, ok |-> TRUE]

Fail(l) == [l EXCEPT !.ok = FALSE]
With(l, m) == [l EXCEPT !.metadata = m]

\* The id an update names: -1 is the one this commit added, an error if none.
Resolve(id, added) == IF id = -1 THEN added ELSE id

add_schema(l, u) ==
  [l EXCEPT !.schema = u.schema_id,
            !.metadata.schemas = Insert(@, u.schema_id, u.fields),
            !.metadata.last_column_id = IF u.last_column_id = None THEN @ ELSE u.last_column_id]

set_current_schema(l, u) ==
  LET id == Resolve(u.schema_id, l.schema)
  IN  IF id = None THEN Fail(l) ELSE [l EXCEPT !.metadata.current_schema_id = id]

add_spec(l, u) ==
  [l EXCEPT !.spec = u.spec_id, !.metadata.partition_specs = @ \cup {u.spec_id}]

set_default_spec(l, u) ==
  LET id == Resolve(u.spec_id, l.spec)
  IN  IF id = None THEN Fail(l) ELSE [l EXCEPT !.metadata.default_spec_id = id]

add_sort_order(l, u) ==
  [l EXCEPT !.order = u.order_id, !.metadata.sort_orders = @ \cup {u.order_id}]

set_default_sort_order(l, u) ==
  LET id == Resolve(u.order_id, l.order)
  IN  IF id = None THEN Fail(l) ELSE [l EXCEPT !.metadata.default_sort_order_id = id]

\* Sequence numbers are table-global: a snapshot built on an older
\* last-sequence-number is a conflict (v1 tables have none).  (lets_equal:
\* the slip of < for <=.)
lets_equal(m, s) ==
  m.format_version # 1 /\ s.sequence_number < m.last_sequence_number

SequenceStale(m, s) ==
  m.format_version # 1 /\ s.sequence_number <= m.last_sequence_number

\* The row lineage a v3 snapshot must carry: both values, not negative, not
\* below next-row-id, no overflow.  (rows_unfenced: the slip of not comparing
\* with next-row-id.)
rows_unfenced(m, s) ==
  /\ s.first_row_id # None /\ s.added_rows # None
  /\ s.first_row_id >= 0 /\ s.added_rows >= 0
  /\ s.first_row_id + s.added_rows <= MaxRowId

LineageValid(m, s) ==
  /\ s.first_row_id # None /\ s.added_rows # None
  /\ s.first_row_id >= 0 /\ s.added_rows >= 0
  /\ s.first_row_id >= m.next_row_id
  /\ s.first_row_id + s.added_rows <= MaxRowId

add_snapshot(l, u) ==
  LET m == l.metadata
      s == u.snapshot
  IN  IF \/ SequenceStale(m, s)
         \/ m.format_version = 3 /\ ~LineageValid(m, s)
      THEN Fail(l)
      ELSE With(l, [m EXCEPT
             !.next_row_id = IF m.format_version = 3
                             THEN s.first_row_id + s.added_rows ELSE @,
             !.snapshot_log = Append(@, u.snapshot_id),
             !.last_sequence_number = s.sequence_number,
             !.snapshots = Insert(@, u.snapshot_id, s)])

set_snapshot_ref(l, u) ==
  [l EXCEPT !.metadata.current_snapshot_id = IF u.ref = "main" THEN u.snapshot_id ELSE @,
            !.metadata.refs = Insert(@, u.ref, u.snapshot_id)]

\* The entries of a log whose snapshots are kept, in their order.
retain(log, kept) ==
  LET entries[i \in 0 .. Len(log)] ==
        IF i = 0 THEN <<>>
        ELSE IF log[i] \in kept THEN Append(entries[i - 1], log[i]) ELSE entries[i - 1]
  IN  entries[Len(log)]

\* The snapshots go, with their log entries; no ref is looked at.
remove_snapshots(l, u) ==
  LET kept == Restrict(l.metadata.snapshots, DOMAIN l.metadata.snapshots \ u.snapshot_ids)
  IN  [l EXCEPT !.metadata.snapshots = kept,
                !.metadata.snapshot_log = retain(@, DOMAIN kept)]

remove_snapshot_ref(l, u) == [l EXCEPT !.metadata.refs = Restrict(@, DOMAIN @ \ {u.ref})]

\* One turn of the loop; a format upgrade is unimplemented!() and the other
\* failures return the error.
apply_update(l, u) ==
  IF ~l.ok THEN l ELSE
  CASE u.type = "UpgradeFormatVersion" ->
         IF l.metadata.format_version = u.format_version THEN l ELSE Fail(l)
    [] u.type = "AssignUuid" -> [l EXCEPT !.metadata.table_uuid = u.uuid]
    [] u.type = "AddSchema" -> add_schema(l, u)
    [] u.type = "SetCurrentSchema" -> set_current_schema(l, u)
    [] u.type = "AddSpec" -> add_spec(l, u)
    [] u.type = "SetDefaultSpec" -> set_default_spec(l, u)
    [] u.type = "AddSortOrder" -> add_sort_order(l, u)
    [] u.type = "SetDefaultSortOrder" -> set_default_sort_order(l, u)
    [] u.type = "AddSnapshot" -> add_snapshot(l, u)
    [] u.type = "SetSnapshotRef" -> set_snapshot_ref(l, u)
    [] u.type = "RemoveSnapshots" -> remove_snapshots(l, u)
    [] u.type = "RemoveSnapshotRef" -> remove_snapshot_ref(l, u)
    [] u.type = "SetLocation" -> [l EXCEPT !.metadata.location = u.location]
    [] u.type = "SetProperties" -> [l EXCEPT !.metadata.properties = Extend(@, u.updates)]
    [] u.type = "RemoveProperties" ->
         [l EXCEPT !.metadata.properties = Restrict(@, DOMAIN @ \ u.removals)]

\* The whole loop: [metadata, ok].  On an error the caller keeps its original.
apply_table_updates(m, updates) ==
  LET loop[i \in 0 .. Len(updates)] ==
        IF i = 0 THEN LoopStart(m) ELSE apply_update(loop[i - 1], updates[i])
  IN  loop[Len(updates)]

-----------------------------------------------------------------------------
(* Lookups *)

\* current_snapshot of a branch (None: the main ref, or else the current
\* snapshot id): the id of an existing snapshot, None, or an error when a
\* table with snapshots has no current one.
SnapshotIdOf(m, branch) ==
  IF branch = None /\ "main" \notin DOMAIN m.refs THEN m.current_snapshot_id
  ELSE Get(m.refs, IF branch = None THEN "main" ELSE branch)

current_snapshot(m, branch) ==
  LET id == SnapshotIdOf(m, branch)
  IN  [id |-> IF id \in DOMAIN m.snapshots THEN id ELSE None,
       ok |-> id = None => (DOMAIN m.snapshots = {} \/ branch \notin {None, "main"})]

\* The metadata of a new table (CreateTable::try_into).
NewTable(uuid, format_version) ==
  [format_version |-> format_version, table_uuid |-> uuid, location |-> "base",
   last_sequence_number |-> 0, last_column_id |-> 2,
   schemas |-> [id \in {0} |-> {1, 2}], current_schema_id |-> 0,
   partition_specs |-> {0}, default_spec_id |-> 0, last_partition_id |-> 0,
   sort_orders |-> {0}, default_sort_order_id |-> 0,
   properties |-> [k \in {} |-> ""],
   current_snapshot_id |-> None, snapshots |-> [id \in {} |-> None],
   snapshot_log |-> <<>>, refs |-> [r \in {} |-> None], next_row_id |-> 0]
=============================================================================
