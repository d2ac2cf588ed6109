---------------------------- MODULE ScanColumns -----------------------------
(***************************************************************************)
(* The columns of a scan (datafusion_iceberg/src/table/mod.rs, table_scan, *)
(* and row_lineage.rs).  Besides the columns stored in a file a scan reads *)
(* columns that are constant in a file (its partition values, path,        *)
(* manifest, first row id, sequence number, change status) and the         *)
(* position of a row.  Some are asked for, some only serve the joins with  *)
(* deletes, and all of them are found by index or by name.                 *)
(*                                                                         *)
(* A name is a pair: the name proper and the suffix that made it unique,   *)
(* 0 for none.  A configuration c of a scan has the columns it asks for    *)
(* (c.enabled), the table's own columns (c.user), which may have the name  *)
(* of an internal column, and the files left out (c.excluded).             *)
(***************************************************************************)
EXTENDS Integers, Sequences, SequencesExt

Name(base) == <<base, 0>>

When(b, s) == IF b THEN s ELSE <<>>

\* DataFusionTableConfig.
Enabled(c, name) == name \in c.enabled
Lineage(c) == Enabled(c, "row_id") \/ Enabled(c, "updated")

\* The columns of the provider: those of the table, then the ones asked for.
new_with_config(c) ==
  c.user \o When(Enabled(c, "path"), <<Name("path")>>)
         \o When(Enabled(c, "manifest"), <<Name("manifest")>>)
         \o When(Enabled(c, "position"), <<Name("position")>>)
         \o When(Enabled(c, "row_id"), <<Name("row_id")>>)
         \o When(Enabled(c, "updated"), <<Name("updated")>>)
         \o When(Enabled(c, "changes"), <<Name("status"), Name("change_seq")>>)

\* The columns read from the Parquet files; the row lineage a file stores has
\* the field ids of the columns asked for and names of its own.
file_schema(c) ==
  c.user \o When(Enabled(c, "row_id"), <<Name("physical_row_id")>>)
         \o When(Enabled(c, "updated"), <<Name("physical_updated")>>)

unique_internal_column_name(file, columns, base) ==
  LET available(n) == <<base, n>> \notin Range(file) \cup Range(columns)
  IN  <<base, CHOOSE n \in 0 .. Len(file) + Len(columns) :
                available(n) /\ \A m \in 0 .. n - 1 : ~available(m)>>

-----------------------------------------------------------------------------
(* The schema of a scan: the file's columns, those that are constant in a  *)
(* file, and the row position.  by_partition says that partition values    *)
(* are among them, deletes that some group has position deletes.           *)

\* A slip: the path that deletes need comes after the manifest's.
append_path(columns, manifest_index, name) == Append(columns, name)

\* The path needed by deletes alone stands where generate_partitioned_file puts
\* the path: before the manifest's.
insert_path(columns, manifest_index, name) == InsertAt(columns, manifest_index, name)

\* table_partition_cols: the partition's values, then the path of the file.
partition_columns(c, by_partition) ==
  When(by_partition, <<Name("p")>>) \o When(Enabled(c, "path"), <<Name("path")>>)

scan_layout(c, by_partition, deletes) ==
  LET file == file_schema(c)
      with_path == partition_columns(c, by_partition)
      asked == with_path \o When(Enabled(c, "manifest"), <<Name("manifest")>>)
      internal == deletes /\ ~Enabled(c, "path")
      path == IF internal THEN unique_internal_column_name(file, asked, "path") ELSE Name("path")
      paths == IF internal THEN insert_path(asked, Len(with_path) + 1, path) ELSE asked
      lineage == paths \o When(Lineage(c), <<Name("first_row_id")>>)
      numbered == deletes \/ Enabled(c, "updated")
      seq == unique_internal_column_name(file, lineage, "seq")
      sequenced == lineage \o When(numbered, <<seq>>)
      columns == sequenced \o When(Enabled(c, "changes"), <<Name("status"), Name("change_seq")>>)
      position == unique_internal_column_name(file, columns, "position")
      placed == deletes \/ Enabled(c, "position") \/ Enabled(c, "row_id")
  IN  [file |-> file, columns |-> columns,
       schema |-> file \o columns \o When(placed, <<position>>),
       position |-> position, seq |-> seq,
       \* PositionDeleteDataColumns: found by index, not by name.
       path_index |-> Len(file) + Len(with_path) + (IF internal THEN 1 ELSE 0),
       position_index |-> Len(file) + Len(columns) + 1,
       seq_index |-> Len(file) + Len(sequenced)]

\* The first column of a name (index_of).
IndexOf(schema, name) ==
  CHOOSE i \in DOMAIN schema : schema[i] = name /\ \A j \in 1 .. i - 1 : schema[j] # name

\* PositionDeleteDataColumns::project: where a projection has the columns that
\* position deletes need.
project(layout, projection) ==
  [path |-> IndexOf(projection, layout.path_index),
   position |-> IndexOf(projection, layout.position_index),
   seq |-> IndexOf(projection, layout.seq_index)]

\* The constant values of a file, in the order of the columns: its partition
\* tuple (empty where partition values are not among the columns), its entry f,
\* the path of a manifest and the sequence number of the manifest f is in.
generate_partitioned_file(c, deletes, tuple, f, manifest_path, change_seq) ==
  tuple \o When(Enabled(c, "path") \/ deletes, <<f.path>>)
        \o When(Enabled(c, "manifest"), <<manifest_path>>)
        \o When(Lineage(c), <<f.first_row_id>>)
        \o When(deletes \/ Enabled(c, "updated"), <<f.seq>>)
        \o When(Enabled(c, "changes"), <<f.status, change_seq>>)

\* What the file's column of a name holds in a row.
Stored(row, name) ==
  CASE name = Name("physical_row_id") -> row.id
    [] name = Name("physical_updated") -> row.updated
    [] name \in {Name("p"), Name("k")} -> row[name[1]]
    [] OTHER -> "user"

\* The i-th column of a row as the file source reads it.  A column that is
\* constant in the file takes the place of the file's column of its name.
ReadCell(layout, i, values, row, position) ==
  LET constant == {j \in DOMAIN layout.columns : layout.columns[j] = layout.schema[i]}
  IN  IF constant # {} /\ i <= Len(layout.file) + Len(layout.columns)
      THEN values[CHOOSE j \in constant : TRUE]
      ELSE IF i <= Len(layout.file) THEN Stored(row, layout.schema[i])
      ELSE position

-----------------------------------------------------------------------------
(* Projections: sequences of indices of the scan's schema. *)

\* An index is looked up in the projection, or added to it.
Include(projection, i) == IF i \in Range(projection) THEN projection ELSE Append(projection, i)

\* The columns an output column is computed from.
Sources(layout, name) ==
  CASE name = Name("row_id") ->
         <<Name("physical_row_id"), Name("first_row_id"), layout.position>>
    [] name = Name("updated") ->
         <<Name("physical_updated"), Name("first_row_id"), layout.seq>>
    [] OTHER -> <<name>>

\* The scan's projection and, for each output column, the places of its sources
\* in it.
row_lineage_projection(c, layout, requested) ==
  LET schema == new_with_config(c)
      names == [i \in DOMAIN requested |-> schema[requested[i]]]
      sources == FlattenSeq([i \in DOMAIN names |-> Sources(layout, names[i])])
      scan == FoldLeft(LAMBDA acc, name : Include(acc, IndexOf(layout.schema, name)), <<>>, sources)
      place(name) == IndexOf(scan, IndexOf(layout.schema, name))
  IN  [scan |-> scan,
       output |-> [i \in DOMAIN names |->
                     [name |-> names[i],
                      args |-> LET s == Sources(layout, names[i])
                               IN  [j \in DOMAIN s |-> place(s[j])]]]]

\* RowLineageExpr::evaluate: a file without row ids has no lineage; a stored
\* value stands; otherwise a row's id is its place and it is as old as its file.
RowLineageExpr_evaluate(kind, physical, first_row_id, fallback, null) ==
  IF first_row_id = null THEN null
  ELSE IF physical # null THEN physical
  ELSE IF kind = "row_id" THEN first_row_id + fallback ELSE fallback

\* The output row of the projection on top of a plan.
Project(output, cells, null) ==
  [i \in DOMAIN output |->
     LET args == output[i].args
     IN  IF output[i].name \in {Name("row_id"), Name("updated")}
         THEN RowLineageExpr_evaluate(output[i].name[1], cells[args[1]], cells[args[2]],
                                      cells[args[3]], null)
         ELSE cells[args[1]]]

=============================================================================
