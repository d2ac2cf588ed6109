---------------------------- MODULE SortOrders -----------------------------
(***************************************************************************)
(* Sort orders that files attest (iceberg-rust/src/arrow/write.rs,         *)
(* file_format/parquet.rs) and scans claim                                 *)
(* (datafusion_iceberg/src/table/mod.rs).  A writer that is promised a     *)
(* sorted stream records the order in every file; a scan tells DataFusion  *)
(* that the file is sorted, and a sort that is left out on a false claim   *)
(* gives wrong results.                                                    *)
(*                                                                         *)
(* An order has an id and fields; a field has a column, a transform and a  *)
(* direction.  An optional value is a set of at most one.                  *)
(***************************************************************************)
EXTENDS Integers, Sequences, SequencesExt

\* What a field compares: identity is the value, any other transform maps
\* several values to one.
Transformed(field, v) == IF field.transform = "identity" THEN v ELSE v % 2

Before(field, v, w) ==
  LET a == Transformed(field, v)
      b == Transformed(field, w)
  IN  IF field.descending THEN a > b ELSE a < b

\* No row comes before the one it follows; values has the columns of each row.
SortedBy(rows, values, fields) ==
  \A i \in DOMAIN rows, j \in DOMAIN rows :
    i < j => ~\E n \in DOMAIN fields :
                LET column == fields[n].column
                IN  /\ Before(fields[n], values[rows[j]][column], values[rows[i]][column])
                    /\ \A m \in 1 .. n - 1 :
                         LET c == fields[m].column
                         IN  Transformed(fields[m], values[rows[i]][c])
                               = Transformed(fields[m], values[rows[j]][c])

-----------------------------------------------------------------------------
(* Writing.  call is "sorted" (write_sorted_parquet_partitioned),          *)
(* "unspecified" (write_parquet_partitioned) or "equality"                 *)
(* (write_equality_deletes_parquet_partitioned).                           *)

InputOrdering(call) == IF call = "sorted" THEN "SortedByDefaultOrder" ELSE "Unspecified"

\* store_parquet_partitioned: only data files attest an order, and only one
\* with fields.
attested_order(call, order) ==
  {o \in {order} : /\ InputOrdering(call) = "SortedByDefaultOrder"
                   /\ call # "equality" /\ o.fields # <<>>}

\* The order in Parquet's terms: all its fields or none.  A column that the
\* table does not have is an error, unless a transform comes before it.
sorting_columns_for(order, columns) ==
  LET stops == {i \in DOMAIN order.fields : \/ order.fields[i].transform # "identity"
                                            \/ order.fields[i].column \notin columns}
      first == CHOOSE i \in stops : \A j \in stops : i <= j
  IN  IF stops = {} THEN [ok |-> TRUE, columns |-> {order.fields}]
      ELSE [ok |-> order.fields[first].transform # "identity", columns |-> {}]

\* create_arrow_writer: what the footer of a file records, the same for every
\* file of a call.
create_arrow_writer(order, columns) ==
  [order_id |-> order.id, sorting_columns |-> sorting_columns_for(order, columns).columns]

Footer(call, order, columns) ==
  {create_arrow_writer(o, columns) : o \in attested_order(call, order)}

\* The call does not fail for its order.
Writes(call, order, columns) ==
  \A o \in attested_order(call, order) : sorting_columns_for(o, columns).ok

\* The sort order id of the manifest entry comes from the footer.
attested_sort_order_id(footer) == {f.order_id : f \in footer}

-----------------------------------------------------------------------------
(* Scanning. *)

\* A slip: the fields behind a transformed one are claimed as well.
identity_fields(order, columns) ==
  SelectSeq(order.fields, LAMBDA f : f.transform = "identity" /\ f.column \in columns)

\* The leading identity fields, as far as the table has their columns.
declared_output_ordering(order, columns) ==
  LET fields == order.fields
      usable(i) == fields[i].transform = "identity" /\ fields[i].column \in columns
  IN  SubSeq(fields, 1, CHOOSE n \in 0 .. Len(fields) :
                          /\ \A i \in 1 .. n : usable(i)
                          /\ n < Len(fields) => ~usable(n + 1))

\* A file's rows are claimed to be in the table's order only if its manifest
\* entry attests that very order.
claimed_ordering(sort_order_id, order, columns) ==
  IF sort_order_id = {order.id} THEN declared_output_ordering(order, columns) ELSE <<>>

\* Whatever a scan claims about a file is true of its rows.  s is a write and
\* the scan after it: the call, the table's order and columns then and now, and
\* the values of the rows of the stream.
ClaimHolds(s, stream, rows) ==
  /\ Writes(s.call, s.order, s.columns)
  /\ s.call = "sorted" => SortedBy(stream, s.values, s.order.fields)
  =>
    SortedBy(rows, s.values,
             claimed_ordering(attested_sort_order_id(Footer(s.call, s.order, s.columns)),
                              s.order_now, s.columns_now))

=============================================================================
