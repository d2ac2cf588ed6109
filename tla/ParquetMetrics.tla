-------------------------- MODULE ParquetMetrics ---------------------------
(***************************************************************************)
(* The column metrics of a data file: which a table collects               *)
(* (iceberg-rust/src/file_format/metrics.rs) and how they are read from    *)
(* the footer of a Parquet file (iceberg-rust/src/file_format/parquet.rs). *)
(*                                                                         *)
(* A column's type tells the values the code compares from those it does   *)
(* not: "int" stands for the numbers, dates and timestamps, "string" for   *)
(* text and binary, "decimal" for the types that are neither compared nor  *)
(* truncated, "list" for the containers.  A text has two units: the number *)
(* v stands for the units v \div Units and v % Units, in the order of the  *)
(* texts.  A property's value is written as what it says: "truncate" is    *)
(* truncate(1).                                                            *)
(***************************************************************************)
EXTENDS Integers, Sequences, SequencesExt, FiniteSets

CONSTANTS Units,                        \* the number of units a text is made of
          MaxInferredColumnDefaults     \* write.metadata.metrics.max-inferred-column-defaults

Null == <<>>            \* a nullable value is <<>> or <<v>>
Some(v) == <<v>>

Smallest(S) == IF S = {} THEN Null ELSE Some(CHOOSE v \in S : \A w \in S : v <= w)
Largest(S) == IF S = {} THEN Null ELSE Some(CHOOSE v \in S : \A w \in S : v >= w)
Values(S) == {v[1] : v \in S \ {Null}}

-----------------------------------------------------------------------------
(* MetricsMode and MetricsConfig. *)

\* A mode that does not parse is none at all; truncate(0) does not.
parse(value) ==
  IF value \in {"none", "counts", "full", "truncate"} THEN Some(value) ELSE Null

records_counts(mode) == mode # "none"
records_bounds(mode) == mode \in {"truncate", "full"}

\* The configuration of a table's properties: the default mode and those of
\* the columns that are named.
from_table_properties(properties) ==
  LET given == parse(properties.default)
  IN  [default_mode |-> IF given = Null THEN "truncate" ELSE given[1],
       column_modes |-> [c \in {c \in DOMAIN properties.columns :
                                  parse(properties.columns[c]) # Null} |->
                           parse(properties.columns[c])[1]]]

\* A column past the limit has metrics only if it is named.
mode_for(config, column, index) ==
  IF column \in DOMAIN config.column_modes THEN config.column_modes[column]
  ELSE IF index >= MaxInferredColumnDefaults THEN "none" ELSE config.default_mode

\* The first unit alone; shorter is smaller.
truncate_lower_bound(type, v) == IF type = "string" THEN v - (v % Units) ELSE v

\* The first unit raised, nothing where it is the last one.
truncate_upper_bound(type, v) ==
  IF type # "string" THEN Some(v)
  ELSE IF v \div Units = Units - 1 THEN Null ELSE Some((v \div Units + 1) * Units)

-----------------------------------------------------------------------------
(* parquet_to_datafile. *)

\* The statistics Parquet keeps of one column in one row group, or none where
\* write.parquet.stats-enabled.column turns them off.
ColumnStatistics(values, enabled) ==
  IF ~enabled THEN Null
  ELSE Some([min |-> Smallest(Values(ToSet(values))), max |-> Largest(Values(ToSet(values))),
             nulls |-> Len(SelectSeq(values, LAMBDA v : v = Null))])

\* The bound of the row groups so far and the next one's.  Texts and decimals
\* are not compared: the bound of the first row group stays.
merge_lower(type, current, new) ==
  IF current = Null THEN new
  ELSE IF type = "int" /\ new # Null /\ current[1] > new[1] THEN new ELSE current

merge_upper(type, current, new) ==
  IF current = Null THEN new
  ELSE IF type = "int" /\ new # Null /\ current[1] < new[1] THEN new ELSE current

NoMetrics == [value_count |-> Null, nulls |-> Null, min |-> Null, max |-> Null]

Plus(count, n) == IF count = Null THEN Some(n) ELSE Some(count[1] + n)

\* One column chunk: counts are added and bounds merged, as far as the
\* column's mode records them.
CollectChunk(type, mode, metrics, values, enabled) ==
  LET statistics == ColumnStatistics(values, enabled)
      counted == [metrics EXCEPT !.value_count = IF records_counts(mode) THEN Plus(@, Len(values))
                                                 ELSE @]
  IN  IF statistics = Null \/ type = "list" THEN counted
      ELSE [counted EXCEPT
              !.nulls = IF records_counts(mode) THEN Plus(@, statistics[1].nulls) ELSE @,
              !.min = IF records_bounds(mode) THEN merge_lower(type, @, statistics[1].min) ELSE @,
              !.max = IF records_bounds(mode) THEN merge_upper(type, @, statistics[1].max) ELSE @]

\* Bounds are truncated once, after they were merged; an upper bound that
\* cannot be raised is dropped.
TruncateBounds(type, mode, metrics) ==
  IF mode # "truncate" THEN metrics
  ELSE [metrics EXCEPT
          !.min = IF @ = Null THEN @ ELSE Some(truncate_lower_bound(type, @[1])),
          !.max = IF @ = Null THEN @ ELSE truncate_upper_bound(type, @[1])]

\* The metrics of every column of a file with the given row groups; types
\* gives the columns' types, indices their positions in the schema.
parquet_to_datafile(groups, types, indices, properties) ==
  LET config == from_table_properties(properties)
  IN  [c \in DOMAIN types |->
         LET mode == mode_for(config, c, indices[c])
             Chunk(metrics, rows) ==
               CollectChunk(types[c], mode, metrics, [i \in DOMAIN rows |-> rows[i][c]],
                            c \notin properties.stats_disabled)
         IN  TruncateBounds(types[c], mode, FoldLeft(Chunk, NoMetrics, groups))]
=============================================================================
