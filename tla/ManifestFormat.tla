--------------------------- MODULE ManifestFormat ---------------------------
(***************************************************************************)
(* What format versions 1, 2 and 3 keep of a manifest entry and of an      *)
(* entry of a manifest list, and what is read back                         *)
(* (src/iceberg-rust-spec/src/spec/manifest.rs and manifest_list.rs, the   *)
(* readers of src/iceberg-rust/src/table/manifest.rs and manifest_list.rs).*)
(*                                                                         *)
(* In memory an entry is [status, snapshot_id, sequence_number,            *)
(* first_row_id, type, file], file being [path, content, rows, part]; type *)
(* is the type of its partition value.  The partition column is an int     *)
(* under schema 0 and a long under schema 1.  A bound in memory is         *)
(* <<type, value>>, in a file the bytes <<width, value>>.                  *)
(***************************************************************************)
EXTENDS Integers, Sequences, Functions

CONSTANT None   \* Option::None

Default(x, d) == IF x = None THEN d ELSE x

\* partition_field_types: the type of the partition column of a spec; spec 0
\* has no column.
Types(spec, schema) == IF spec = 0 THEN 0 ELSE schema

-----------------------------------------------------------------------------
(* Avro *)

\* Writing a record under an Avro schema: a field that is not nullable needs
\* a value, and a field the schema does not name is not written.
Fields(schema) == schema.required \cup schema.nullable
Writable(schema, record) == \A f \in schema.required : record[f] # None

-----------------------------------------------------------------------------
(* Values.  What is an error in the code has no case. *)

Widths == <<4, 8>>
IntoBytes(bound) == IF bound = None THEN None ELSE <<Widths[bound[1] + 1], bound[2]>>

\* Value::try_from_bytes: a number has the width of its type.
try_from_bytes(bytes, type) ==
  CASE bytes[1] = Widths[type + 1] -> <<type, bytes[2]>>

\* Value::cast and Value::promote_iceberg: an int becomes a long.
cast(value, type) ==
  CASE value[1] = type -> value
    [] value[1] = 0 /\ type = 1 -> <<1, value[2]>>
promote_iceberg(value, source, target) ==
  CASE source = target -> value
    [] source = 0 /\ target = 1 -> <<1, value[2]>>

\* Struct::cast: the values of a partition follow the schema's promotions.
Struct_cast(value, type) ==
  IF value[1] = 0 /\ type = 1 THEN promote_iceberg(value, 0, 1) ELSE cast(value, type)

\* decode_bound: a bound that was written in a narrower type is promoted.
Narrow(bytes, type) == bytes[1] = 4 /\ type = 1
decode_bound(bytes, type) ==
  IF bytes = None THEN None
  ELSE IF Narrow(bytes, type) THEN <<1, bytes[2]>> ELSE try_from_bytes(bytes, type)

\* decode_bound_for_copy: at the width it was written in.
decode_bound_for_copy(bytes, type) ==
  IF bytes = None THEN None
  ELSE try_from_bytes(bytes, IF Narrow(bytes, type) THEN 0 ELSE type)

-----------------------------------------------------------------------------
(* Entries of a manifest *)

\* DataFileV1, V2 and V3: version 1 has no content, and only version 3 has a
\* row id.
DataFileV1_schema == [required |-> {"path", "rows"}, nullable |-> {"part"}]
DataFileV2_schema == [DataFileV1_schema EXCEPT !.required = @ \cup {"content"}]
DataFileV3_schema == [DataFileV2_schema EXCEPT !.nullable = @ \cup {"first_row_id"}]

EntryV1_schema == [required |-> {"status", "snapshot_id"}, nullable |-> {}]
EntryV2_schema == [required |-> {"status"}, nullable |-> {"snapshot_id", "sequence_number"}]
EntryV3_schema == EntryV2_schema

DataFileSchemas == <<DataFileV1_schema, DataFileV2_schema, DataFileV3_schema>>
EntrySchemas == <<EntryV1_schema, EntryV2_schema, EntryV3_schema>>

\* The fields of the structs, and the conversions into them.
DataFileV1_fields == {"path", "rows", "part"}
DataFileV2_fields == DataFileV1_fields \cup {"content"}
DataFileV3_fields == DataFileV2_fields \cup {"first_row_id"}

DataFileV1(file) == Restrict(file, DataFileV1_fields)
DataFileV2(file) == Restrict(file, DataFileV2_fields)
DataFileV3(file) == Restrict(file, DataFileV3_fields)

\* The row id is a field of the data file.
FileOf(e) ==
  [path |-> e.file.path, content |-> e.file.content, rows |-> e.file.rows,
   part |-> e.file.part, first_row_id |-> e.first_row_id]

ManifestEntryV1(e) ==
  [status |-> e.status, snapshot_id |-> Default(e.snapshot_id, 0), type |-> e.type,
   data_file |-> DataFileV1(FileOf(e))]
ManifestEntryV2(e) ==
  [status |-> e.status, snapshot_id |-> e.snapshot_id, sequence_number |-> e.sequence_number,
   type |-> e.type, data_file |-> DataFileV2(FileOf(e))]
ManifestEntryV3(e) ==
  [status |-> e.status, snapshot_id |-> e.snapshot_id, sequence_number |-> e.sequence_number,
   type |-> e.type, data_file |-> DataFileV3(FileOf(e))]

EncodeEntry(v, e) ==
  CASE v = 1 -> ManifestEntryV1(e)
    [] v = 2 -> ManifestEntryV2(e)
    [] v = 3 -> ManifestEntryV3(e)

EntryWritable(v, r) ==
  /\ Writable(EntrySchemas[v], r)
  /\ Writable(DataFileSchemas[v], r.data_file)

\* promote_partition_to_types: the partition value as one of a wider type; a
\* NULL has any type.
promote_partition_to_types(e, type) ==
  LET value == <<e.type, e.file.part>>
  IN  IF e.file.part = None THEN [e EXCEPT !.type = type]
      ELSE [e EXCEPT !.type = promote_iceberg(value, e.type, type)[1]]

\* DataFile::try_from_v1, _v2 and _v3.
DataFile_try_from_v1(d) ==
  [path |-> d.path, content |-> "Data", rows |-> d.rows, part |-> d.part, first_row_id |-> None]
DataFile_try_from_v2(d) ==
  [path |-> d.path, content |-> d.content, rows |-> d.rows, part |-> d.part,
   first_row_id |-> None]
DataFile_try_from_v3(d) == d

\* ManifestEntry::try_from_v1, _v2 and _v3.  The partition value is cast to
\* the type that the header of the manifest gives it.
EntryOf(r, seq, file, type) ==
  [status |-> r.status, snapshot_id |-> r.snapshot_id, sequence_number |-> seq,
   first_row_id |-> file.first_row_id,
   type |-> IF file.part = None THEN type ELSE Struct_cast(<<r.type, file.part>>, type)[1],
   file |-> [path |-> file.path, content |-> file.content, rows |-> file.rows,
             part |-> file.part]]

try_from_v1(r, type) == EntryOf(r, None, DataFile_try_from_v1(r.data_file), type)
try_from_v2(r, type) == EntryOf(r, r.sequence_number, DataFile_try_from_v2(r.data_file), type)
try_from_v3(r, type) == EntryOf(r, r.sequence_number, DataFile_try_from_v3(r.data_file), type)

DecodeEntry(v, r, type) ==
  CASE v = 1 -> try_from_v1(r, type)
    [] v = 2 -> try_from_v2(r, type)
    [] v = 3 -> try_from_v3(r, type)

\* ManifestReader: the entries of a manifest file [version, spec, schema,
\* entries], by what its header says.
ManifestReader(file) ==
  [i \in DOMAIN file.entries |->
     DecodeEntry(file.version, file.entries[i], Types(file.spec, file.schema))]

-----------------------------------------------------------------------------
(* Entries of a manifest list *)

manifest_list_schema_v1 ==
  [required |-> {"path", "spec", "added_snapshot_id"},
   nullable |-> {"added_files", "existing_files", "deleted_files", "added_rows",
                 "existing_rows", "deleted_rows", "partitions"}]
manifest_list_schema_v2 ==
  [required |-> {"path", "spec", "content", "sequence_number", "min_sequence_number",
                 "added_snapshot_id", "added_files", "existing_files", "deleted_files",
                 "added_rows", "existing_rows", "deleted_rows"},
   nullable |-> {"partitions"}]
manifest_list_schema_v3 ==
  [manifest_list_schema_v2 EXCEPT !.nullable = @ \cup {"first_row_id"}]

ListSchemas == <<manifest_list_schema_v1, manifest_list_schema_v2, manifest_list_schema_v3>>

FieldSummarySerde(s) ==
  IF s = None THEN None
  ELSE [s EXCEPT !.lower = IntoBytes(@), !.upper = IntoBytes(@)]

\* The fields of the structs, and the conversions into them.
ManifestListEntryV1_fields ==
  {"path", "spec", "added_snapshot_id", "added_files", "existing_files", "deleted_files",
   "added_rows", "existing_rows", "deleted_rows", "partitions"}
ManifestListEntryV2_fields ==
  ManifestListEntryV1_fields \cup {"content", "sequence_number", "min_sequence_number"}
ManifestListEntryV3_fields == ManifestListEntryV2_fields \cup {"first_row_id"}

Summarized(m) == [m EXCEPT !.partitions = FieldSummarySerde(@)]
ManifestListEntryV1(m) == Restrict(Summarized(m), ManifestListEntryV1_fields)
ManifestListEntryV2(m) == Restrict(Summarized(m), ManifestListEntryV2_fields)
ManifestListEntryV3(m) == Restrict(Summarized(m), ManifestListEntryV3_fields)

EncodeListEntry(v, m) ==
  CASE v = 1 -> ManifestListEntryV1(m)
    [] v = 2 -> ManifestListEntryV2(m)
    [] v = 3 -> ManifestListEntryV3(m)

ListEntryWritable(v, m) == Writable(ListSchemas[v], m)

\* FieldSummary::from_serde_with_mode: promoted for a scan, copied at their
\* width for a commit.
DecodeSummary(s, type, promote) ==
  IF s = None THEN None
  ELSE IF promote THEN [s EXCEPT !.lower = decode_bound(@, type), !.upper = decode_bound(@, type)]
  ELSE [s EXCEPT !.lower = decode_bound_for_copy(@, type),
                 !.upper = decode_bound_for_copy(@, type)]

try_from_v1_with_types(r, type, promote) ==
  [path |-> r.path, content |-> "Data", spec |-> r.spec, sequence_number |-> 0,
   min_sequence_number |-> 0, added_snapshot_id |-> r.added_snapshot_id,
   added_files |-> r.added_files, existing_files |-> r.existing_files,
   deleted_files |-> r.deleted_files, added_rows |-> r.added_rows,
   existing_rows |-> r.existing_rows, deleted_rows |-> r.deleted_rows,
   partitions |-> DecodeSummary(r.partitions, type, promote), first_row_id |-> None]
try_from_v2_with_types(r, type, promote) ==
  [path |-> r.path, content |-> r.content, spec |-> r.spec,
   sequence_number |-> r.sequence_number, min_sequence_number |-> r.min_sequence_number,
   added_snapshot_id |-> r.added_snapshot_id,
   added_files |-> r.added_files, existing_files |-> r.existing_files,
   deleted_files |-> r.deleted_files, added_rows |-> r.added_rows,
   existing_rows |-> r.existing_rows, deleted_rows |-> r.deleted_rows,
   partitions |-> DecodeSummary(r.partitions, type, promote), first_row_id |-> None]
try_from_v3_with_types(r, type, promote) ==
  [r EXCEPT !.partitions = DecodeSummary(@, type, promote)]

\* historical_entry_schema: the schema of the snapshot that added the
\* manifest, or the current one when that snapshot has expired.
historical_entry_schema(t, snapshot) ==
  IF snapshot \in DOMAIN t.snapshots THEN t.snapshots[snapshot].schema ELSE t.schema

\* manifest_list_format_version: by the fields of the list's writer schema.
manifest_list_format_version(list, t) ==
  LET fields == Fields(ListSchemas[list.version])
      detected == IF "first_row_id" \in fields THEN 3 ELSE IF "content" \in fields THEN 2 ELSE 1
  IN  IF t.format_version = 2 /\ detected = 3 THEN 2 ELSE detected

\* ManifestListEntryDecoder::decode; schema is None where the entries are to
\* be copied.
decode(v, r, t, schema) ==
  LET promote == schema # None
      type == Types(r.spec, IF promote THEN schema
                            ELSE historical_entry_schema(t, r.added_snapshot_id))
  IN  CASE v = 1 -> try_from_v1_with_types(r, type, promote)
        [] v = 2 -> try_from_v2_with_types(r, type, promote)
        [] v = 3 -> try_from_v3_with_types(r, type, promote)

\* ManifestListReader over a list [version, entries].
ManifestListReader(list, t, schema) ==
  LET v == manifest_list_format_version(list, t)
  IN  [i \in DOMAIN list.entries |-> decode(v, list.entries[i], t, schema)]
=============================================================================
