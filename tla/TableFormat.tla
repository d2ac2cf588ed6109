---------------------------- MODULE TableFormat ----------------------------
(***************************************************************************)
(* What format versions 1, 2 and 3 of the metadata file keep of table      *)
(* metadata and of a snapshot, and what is read back                       *)
(* (src/iceberg-rust-spec/src/spec/table_metadata.rs and snapshot.rs).     *)
(***************************************************************************)
EXTENDS TableMetadata

-----------------------------------------------------------------------------
(* Snapshots *)

\* The fields of the structs: version 1 has no sequence number, and only
\* version 3 has row lineage.
SnapshotV1_fields == {"parent", "schema_id", "files"}
SnapshotV2_fields == SnapshotV1_fields \cup {"sequence_number"}
SnapshotV3_fields == SnapshotV2_fields \cup {"first_row_id", "added_rows"}

SnapshotV1(s) == Restrict(s, SnapshotV1_fields)
SnapshotV2(s) == Restrict(s, SnapshotV2_fields)
SnapshotV3(s) == Restrict(s, SnapshotV3_fields)

FromSnapshotV1(r) ==
  Extend(r, [sequence_number |-> 0, first_row_id |-> None, added_rows |-> None])
FromSnapshotV2(r) == Extend(r, [first_row_id |-> None, added_rows |-> None])
FromSnapshotV3(r) == r

-----------------------------------------------------------------------------
(* Table metadata *)

\* The fields of the structs: version 1 has neither refs nor a last sequence
\* number.
TableMetadataV1_fields ==
  {"format_version", "table_uuid", "location", "last_column_id", "schemas", "current_schema_id",
   "partition_specs", "default_spec_id", "last_partition_id", "properties",
   "current_snapshot_id", "snapshots", "snapshot_log", "sort_orders", "default_sort_order_id"}
TableMetadataV2_fields == TableMetadataV1_fields \cup {"last_sequence_number", "refs"}
TableMetadataV3_fields == TableMetadataV2_fields \cup {"next_row_id"}

\* No current snapshot is written as -1.
Written(m, Snapshot(_)) ==
  [m EXCEPT !.current_snapshot_id = IF @ = None THEN -1 ELSE @,
            !.snapshots = [id \in DOMAIN @ |-> Snapshot(@[id])]]

TableMetadataV1(m) == Restrict(Written(m, SnapshotV1), TableMetadataV1_fields)
TableMetadataV2(m) == Restrict(Written(m, SnapshotV2), TableMetadataV2_fields)
TableMetadataV3(m) == Restrict(Written(m, SnapshotV3), TableMetadataV3_fields)

TableMetadataEnum(m) ==
  CASE m.format_version = 1 -> TableMetadataV1(m)
    [] m.format_version = 2 -> TableMetadataV2(m)
    [] m.format_version = 3 -> TableMetadataV3(m)

Current(r) == IF r.current_snapshot_id = -1 THEN None ELSE r.current_snapshot_id
MainOf(current) == [x \in IF current = None THEN {} ELSE {"main"} |-> current]

\* A current snapshot that no ref names gets main.
ReadRefs(r) == Extend(MainOf(Current(r)), r.refs)

ReadWith(r, Snapshot(_)) ==
  [r EXCEPT !.current_snapshot_id = Current(r),
            !.snapshots = [id \in DOMAIN @ |-> Snapshot(@[id])]]

\* Version 1 knows no ref but main, and no last sequence number.
try_from_v1(r) ==
  Extend(ReadWith(r, FromSnapshotV1),
         [last_sequence_number |-> 0, refs |-> MainOf(Current(r)), next_row_id |-> 0])
try_from_v2(r) ==
  Extend(ReadWith(r, FromSnapshotV2), [refs |-> ReadRefs(r), next_row_id |-> 0])
try_from_v3(r) ==
  Extend(ReadWith(r, FromSnapshotV3), [refs |-> ReadRefs(r)])

\* The untagged enum takes the version the file has.
try_from(r) ==
  CASE r.format_version = 1 -> try_from_v1(r)
    [] r.format_version = 2 -> try_from_v2(r)
    [] r.format_version = 3 -> try_from_v3(r)

\* An error of versions 2 and 3.
Readable(r) == r.format_version = 1 \/ r.current_schema_id \in DOMAIN r.schemas

\* Metadata after it was written to its file and read again.
Reread(m) == try_from(TableMetadataEnum(m))
=============================================================================
