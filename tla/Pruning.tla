------------------------------ MODULE Pruning -------------------------------
(***************************************************************************)
(* Pruning of manifests and files by a query's filter                      *)
(* (datafusion_iceberg/src/pruning_statistics.rs), against the partition   *)
(* values writers store (iceberg-rust/src/arrow/transform.rs, and what     *)
(* earlier writers stored) and the column metrics of their files.          *)
(*                                                                         *)
(* A table has a source column ts, partitioned by one transform, and a     *)
(* column x that is not partitioned; its properties say which metrics are  *)
(* collected.  The integer widths are scaled down:                         *)
(* timestamps are the i64 values from -TimestampBound to TimestampBound-1  *)
(* and partition ids the i32 values from -IdBound to IdBound-1; an hour id *)
(* wraps, as in the code, because there are more hours than ids.  Calendar *)
(* months and years are made of equal days.                                *)
(***************************************************************************)
EXTENDS ParquetMetrics

CONSTANTS TimestampBound, IdBound,                \* the bounds of the scaled integers
          UnitsPerHour, HoursPerDay, DaysPerMonth, MonthsPerYear, Width, Buckets,
          Timestamps, Literals,                   \* values of ts, by the type of x, and of filters
          Texts,                                  \* the values of x and of filters on it, by its type
          Tables,                                 \* the tables: [transform, x, properties], x a type
          MaxRowGroups,                           \* of a file, by the type of x
          MaxRows                                 \* bound on the rows written

VARIABLES table,        \* one of Tables
          files         \* the data files of one manifest: sequence of [rows, value, metrics]

vars == <<table, files>>

None == [kind |-> "none"]

Transforms == {"identity", "year", "month", "day", "hour", "bucket", "truncate", "void"}
Operators == {"=", "!=", "<", "<=", ">", ">="}

-----------------------------------------------------------------------------
(* The partition value of a row. *)

TimestampMin == -TimestampBound
TimestampMax == TimestampBound - 1
IdMin == -IdBound

UnitsPerDay == UnitsPerHour * HoursPerDay
UnitsPerMonth == UnitsPerDay * DaysPerMonth
UnitsPerYear == UnitsPerMonth * MonthsPerYear

Modulus == -2 * IdMin
wrapped_id(h) == ((h - IdMin) % Modulus) + IdMin

toward_zero(a, b) == IF a >= 0 THEN a \div b ELSE -((-a) \div b)

\* transform_arrow and Value::transform: what is written today.
transform_arrow(t, v) ==
  CASE t = "identity" -> v
    [] t = "year"     -> v \div UnitsPerYear
    [] t = "month"    -> v \div UnitsPerMonth
    [] t = "day"      -> v \div UnitsPerDay
    [] t = "hour"     -> wrapped_id(v \div UnitsPerHour)
    [] t = "bucket"   -> v % Buckets
    [] t = "truncate" -> v - (v % Width)

\* What earlier writers stored: days and hours truncated toward zero, months
\* counted from one.
legacy_transform(t, v) ==
  CASE t = "day"   -> toward_zero(v, UnitsPerDay)
    [] t = "hour"  -> wrapped_id(toward_zero(v, UnitsPerHour))
    [] t = "month" -> v \div UnitsPerMonth + 1
    [] OTHER       -> transform_arrow(t, v)

PartitionValue(t, legacy, ts) ==
  IF ts = Null \/ t = "void" THEN Null
  ELSE Some(IF legacy THEN legacy_transform(t, ts[1]) ELSE transform_arrow(t, ts[1]))

-----------------------------------------------------------------------------
(* Filters: comparisons of a column and a literal, null checks, AND and OR. *)

Cmp(col, op, lit) == [kind |-> "cmp", col |-> col, op |-> op, lit |-> lit,
                      left |-> TRUE, typed |-> TRUE]
IsNull(col) == [kind |-> "null", col |-> col, is |-> TRUE]
And(l, r) == [kind |-> "and", l |-> l, r |-> r]
Or(l, r) == [kind |-> "or", l |-> l, r |-> r]

compare(a, op, b) ==
  CASE op = "="  -> a = b [] op = "!=" -> a # b
    [] op = "<"  -> a < b [] op = "<=" -> a <= b
    [] op = ">"  -> a > b [] op = ">=" -> a >= b

flip(op) == CASE op = "<" -> ">" [] op = "<=" -> ">=" [] op = ">" -> "<"
              [] op = ">=" -> "<=" [] OTHER -> op

\* A filter's own parts, and all of its subfilters: And and Or nest at most two
\* deep, in a filter of the model and in its projection.
Operands(e) == IF e.kind \in {"and", "or"} THEN {e.l, e.r} ELSE {}
Subfilters(e) == {e} \cup Operands(e) \cup UNION {Operands(p) : p \in Operands(e)}

\* A row satisfies the filter; a comparison with NULL is not true.
satisfies_leaf(row, e) ==
  CASE e.kind = "null" -> (row[e.col] = Null) = e.is
    [] e.kind = "cmp"  -> /\ row[e.col] # Null
                          /\ compare(row[e.col][1], IF e.left THEN e.op ELSE flip(e.op), e.lit)

Satisfies(row, filter) ==
  LET holds[e \in Subfilters(filter)] ==
        CASE e.kind = "and" -> holds[e.l] /\ holds[e.r]
          [] e.kind = "or"  -> holds[e.l] \/ holds[e.r]
          [] OTHER          -> satisfies_leaf(row, e)
  IN  holds[filter]

\* DataFusion's PruningPredicate over a container's statistics: min, max and
\* nulls are <<>> where unknown.  It keeps what it cannot rule out.
keeps_leaf(stats, e) ==
  LET s == stats[e.col]
      op == IF e.left THEN e.op ELSE flip(e.op)
      low(o)  == s.min = Null \/ compare(s.min[1], o, e.lit)
      high(o) == s.max = Null \/ compare(s.max[1], o, e.lit)
  IN  CASE e.kind = "null" -> s.nulls = Null \/ (IF e.is THEN s.nulls[1] > 0
                                                 ELSE s.rows = Null \/ s.nulls # s.rows)
        [] e.kind = "cmp"  ->
             /\ s.nulls = Null \/ s.rows = Null \/ s.nulls # s.rows
             /\ CASE op = "="  -> low("<=") /\ high(">=")
                  [] op = "!=" -> low("!=") \/ high("!=")
                  [] op \in {"<", "<="} -> low(op)
                  [] op \in {">", ">="} -> high(op)

Keeps(stats, filter) ==
  LET keeps[e \in Subfilters(filter)] ==
        CASE e.kind = "and" -> keeps[e.l] /\ keeps[e.r]
          [] e.kind = "or"  -> keeps[e.l] \/ keeps[e.r]
          [] OTHER          -> keeps_leaf(stats, e)
  IN  keeps[filter]

-----------------------------------------------------------------------------
(* transform_predicate: a filter on ts as a filter on the partition value,  *)
(* or None where nothing can be said of it.                                 *)

Part(op, id) == Cmp("part", op, id)

\* A slip: the ids of earlier writers are forgotten.
without_legacy(op, ts) ==
  LET hour == ts \div UnitsPerHour
      lower == IF op \in {"<", "<="} THEN TimestampMin \div UnitsPerHour ELSE hour
      upper == IF op \in {">", ">="} THEN TimestampMax \div UnitsPerHour ELSE hour
  IN  IF wrapped_id(lower) <= wrapped_id(upper)
      THEN And(Part(">=", wrapped_id(lower)), Part("<=", wrapped_id(upper)))
      ELSE Or(Part(">=", wrapped_id(lower)), Part("<=", wrapped_id(upper)))

\* The hours the filter allows, one more below the epoch for the truncated
\* ids, as a range of ids that may wrap.
project_hour_predicate(op, ts) ==
  LET hour == ts \div UnitsPerHour
      legacy == IF ts < 0 THEN 1 ELSE 0
      lower == IF op \in {"<", "<="} THEN TimestampMin \div UnitsPerHour ELSE hour
      upper == IF op \in {">", ">="} THEN TimestampMax \div UnitsPerHour ELSE hour + legacy
      low == wrapped_id(lower)
      high == wrapped_id(upper)
  IN  IF op = "!=" \/ upper - lower >= Modulus - 1 THEN None
      ELSE IF low = high THEN Part("=", low)
      ELSE IF low < high THEN And(Part(">=", low), Part("<=", high))
      ELSE Or(Part(">=", low), Part("<=", high))

\* The comparison of transformed values that a comparison of values implies.
weakened(op) == CASE op = "<" -> "<=" [] op = ">" -> ">=" [] OTHER -> op

transform_literal(t, lit) ==
  IF t = "truncate" /\ lit - (lit % Width) < TimestampMin THEN Null
  ELSE Some(transform_arrow(t, lit))

\* A comparison under a transform that keeps the order.
Ordered(t, op, lit) ==
  LET id == transform_literal(t, lit)
      older == t = "month" \/ (t = "day" /\ lit < 0)
  IN  IF op = "!=" \/ id = Null THEN None
      ELSE IF ~older THEN Part(op, id[1])
      ELSE CASE op = "="  -> And(Part(">=", id[1]), Part("<=", id[1] + 1))
             [] op = "<=" -> Part("<=", id[1] + 1)
             [] op = ">=" -> Part(">=", id[1])

transform_leaf(t, e) ==
  LET op == IF e.left THEN e.op ELSE flip(e.op)
  IN  IF t = "identity" \/ (e.kind = "null" /\ t # "void") THEN [e EXCEPT !.col = "part"]
      ELSE IF e.kind = "null" \/ ~e.typed \/ t \in {"bucket", "void"} THEN None
      ELSE IF t = "hour" THEN project_hour_predicate(op, e.lit)
      ELSE Ordered(t, weakened(op), e.lit)

transform_predicate(t, filter) ==
  LET projected[e \in Subfilters(filter)] ==
        IF e.kind \notin {"and", "or"}
        THEN IF e.col # "ts" THEN None ELSE transform_leaf(t, e)
        ELSE LET l == projected[e.l]
                 r == projected[e.r]
             IN  IF l # None /\ r # None THEN [e EXCEPT !.l = l, !.r = r]
                 ELSE IF e.kind = "or" THEN None
                 ELSE IF l # None THEN l ELSE r
  IN  projected[filter]

-----------------------------------------------------------------------------
(* The statistics of the three stages. *)

FileSet == {files[i] : i \in DOMAIN files}

\* added_rows_count plus existing_rows_count.
Written == FoldLeft(LAMBDA n, f : n + Len(f.rows), 0, files)

\* PruneManifests: the field summary of the manifest; the null count is zero
\* or unknown.
PruneManifests ==
  LET vals == {f.value : f \in FileSet}
  IN  [part |-> [min |-> Smallest(Values(vals)), max |-> Largest(Values(vals)),
                 nulls |-> IF Null \in vals THEN Null ELSE Some(0),
                 rows |-> Some(Written)]]

\* PrunePartitionedDataFiles: the file's one partition value.
PrunePartitionedDataFiles(f) ==
  [part |-> [min |-> f.value, max |-> f.value, rows |-> Some(Len(f.rows)),
             nulls |-> Some(IF f.value = Null THEN Len(f.rows) ELSE 0)]]

ColumnTypes == [ts |-> "int", x |-> table.x]

\* The bounds of a column whose type has no array of values are unknown.
any_iter_to_array(bound, type) == IF type = "list" THEN Null ELSE bound

\* PruneDataFiles: the bounds and null counts of the file's columns.
PruneDataFiles(f) ==
  [c \in {"ts", "x"} |->
     [min |-> any_iter_to_array(f.metrics[c].min, ColumnTypes[c]),
      max |-> any_iter_to_array(f.metrics[c].max, ColumnTypes[c]),
      rows |-> Some(Len(f.rows)), nulls |-> f.metrics[c].nulls]]

-----------------------------------------------------------------------------
Rows == [ts : {Some(v) : v \in Timestamps[table.x]} \cup {Null}, x : {Some(v) : v \in Texts[table.x]}]

Init == table \in Tables /\ files = <<>>

\* A writer of today or an earlier one adds a data file with rows of one
\* partition; the row groups are what its size limits make of them.
Write(groups, legacy) ==
  LET rows == FlattenSeq(groups)
      vals == {PartitionValue(table.transform, legacy, rows[i].ts) : i \in DOMAIN rows}
  IN  /\ Written + Len(rows) <= MaxRows
      /\ Len(groups) <= MaxRowGroups[table.x]
      /\ Cardinality(vals) = 1
      /\ \A v \in vals : v # Null /\ table.transform = "truncate" => v[1] >= TimestampMin
      /\ files' = Append(files, [rows |-> rows, value |-> CHOOSE v \in vals : TRUE,
                                 metrics |-> parquet_to_datafile(
                                   groups, ColumnTypes, [ts |-> 0, x |-> 1],
                                   table.properties)])
      /\ UNCHANGED table

Next == \E r, s \in Rows, legacy \in BOOLEAN :
          \/ Write(<<<<r>>>>, legacy)
          \/ r # s /\ Write(<<<<r, s>>>>, legacy)
          \/ r # s /\ Write(<<<<r>>, <<s>>>>, legacy)

Spec == Init /\ [][Next]_vars

-----------------------------------------------------------------------------
Comparisons == {Cmp("ts", op, lit) : op \in Operators, lit \in Literals}

Leaves == Comparisons \cup {[c EXCEPT !.left = FALSE] : c \in Comparisons}
            \cup {[c EXCEPT !.typed = FALSE] : c \in Comparisons}
            \cup {IsNull("ts"), [IsNull("ts") EXCEPT !.is = FALSE]}

OfText == {Cmp("x", op, lit) : op \in Operators, lit \in Texts[table.x]}

Filters == Leaves \cup OfText \cup {And(c, Cmp("x", "=", 0)) : c \in Comparisons}
                  \cup {Or(Cmp("x", "<", 1), c) : c \in Comparisons}
                  \cup {Or(IsNull("ts"), c) : c \in Comparisons}

\* No stage of pruning drops a file with a row the filter keeps: not the
\* manifest by its partition summary, not the file by its partition value, not
\* the file by its column bounds, whichever writer stored the partition value
\* and whatever metrics the table collects.
PruningSound ==
  \A e \in Filters :
    LET matching == {f \in FileSet : \E i \in DOMAIN f.rows : Satisfies(f.rows[i], e)}
        p == transform_predicate(table.transform, e)
    IN  matching # {} =>
          /\ p # None => /\ Keeps(PruneManifests, p)
                         /\ \A f \in matching : Keeps(PrunePartitionedDataFiles(f), p)
          /\ \A f \in matching : Keeps(PruneDataFiles(f), e)
=============================================================================
