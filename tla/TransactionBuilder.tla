------------------------- MODULE TransactionBuilder -------------------------
(***************************************************************************)
(* The methods of TableTransaction (src/iceberg-rust/src/table/transaction *)
(* /mod.rs) that put operations into a transaction.  There is one slot for *)
(* each kind of operation: a second call of the same method adds to the    *)
(* operation in the slot or takes its place.                               *)
(*                                                                         *)
(* A transaction is [branch, calls].  Files are counted, but for those to  *)
(* overwrite, which are given by the manifest that lists them.             *)
(***************************************************************************)
EXTENDS Naturals, Sequences

CONSTANT None   \* Option::None

Join(f, g) == [x \in DOMAIN f \cup DOMAIN g |-> IF x \in DOMAIN g THEN g[x] ELSE f[x]]

\* The methods, and those that are given files.
CallOK(c) ==
  /\ c.call \in {"add_schema", "set_default_spec", "replace_sort_order", "append_data",
                 "append_delete", "append_sequence_group", "overwrite", "truncate", "replace",
                 "replace_with_lineage", "update_properties", "set_snapshot_ref",
                 "expire_snapshots"}
  /\ c.call \in {"append_data", "append_delete", "append_sequence_group", "overwrite", "replace",
                 "replace_with_lineage"} => c.n \in Nat

\* TableTransaction::new.
New(branch) == [branch |-> branch, slots |-> [t \in {} |-> None], panicked |-> FALSE]

Has(b, type) == type \in DOMAIN b.slots
Put(b, op) == [b EXCEPT !.slots = Join(@, [t \in {op.type} |-> op])]
Panic(b) == [b EXCEPT !.panicked = TRUE]

add_schema(b, c) == Put(b, [type |-> "AddSchema", schema_id |-> c.schema_id, fields |-> c.fields])

set_default_spec(b, c) == Put(b, [type |-> "SetDefaultSpec", spec_id |-> c.spec_id])

replace_sort_order(b, c) ==
  Put(b, [type |-> "ReplaceSortOrder", order_id |-> c.order_id, fields |-> c.fields])

\* Plain appends and sequence groups exclude one another.
append_data(b, c) ==
  IF Has(b, "AppendSequenceGroups") THEN Panic(b)
  ELSE IF Has(b, "Append") THEN [b EXCEPT !.slots["Append"].n = @ + c.n]
  ELSE Put(b, [type |-> "Append", branch |-> b.branch, n |-> c.n, deletes |-> 0])

append_delete(b, c) ==
  IF Has(b, "AppendSequenceGroups") THEN Panic(b)
  ELSE IF Has(b, "Append") THEN [b EXCEPT !.slots["Append"].deletes = @ + c.n]
  ELSE Put(b, [type |-> "Append", branch |-> b.branch, n |-> 0, deletes |-> c.n])

append_sequence_group(b, c) ==
  IF Has(b, "Append") THEN Panic(b)
  ELSE IF Has(b, "AppendSequenceGroups")
  THEN [b EXCEPT !.slots["AppendSequenceGroups"].groups = Append(@, c.n)]
  ELSE Put(b, [type |-> "AppendSequenceGroups", branch |-> b.branch, groups |-> <<c.n>>])

\* The files of one manifest in a second call take the place of the first's.
overwrite(b, c) ==
  IF Has(b, "Overwrite")
  THEN [b EXCEPT !.slots["Overwrite"].n = @ + c.n,
                 !.slots["Overwrite"].remove = Join(@, c.remove)]
  ELSE Put(b, [type |-> "Overwrite", branch |-> b.branch, n |-> c.n, remove |-> c.remove])

truncate(b, c) == Put(b, [type |-> "Truncate", branch |-> b.branch])

\* After replace_with_lineage the files of a plain replace are dropped.
replace(b, c) ==
  IF ~Has(b, "Replace")
  THEN Put(b, [type |-> "Replace", branch |-> b.branch, n |-> c.n, lineage |-> FALSE])
  ELSE IF b.slots["Replace"].lineage THEN b
  ELSE [b EXCEPT !.slots["Replace"].n = @ + c.n]

replace_with_lineage(b, c) ==
  IF Has(b, "Replace")
  THEN [b EXCEPT !.slots["Replace"].n = @ + c.n, !.slots["Replace"].lineage = TRUE]
  ELSE Put(b, [type |-> "Replace", branch |-> b.branch, n |-> c.n, lineage |-> TRUE])

update_properties(b, c) ==
  IF Has(b, "UpdateProperties")
  THEN [b EXCEPT !.slots["UpdateProperties"].entries = Join(@, c.entries)]
  ELSE Put(b, [type |-> "UpdateProperties", entries |-> c.entries])

set_snapshot_ref(b, c) ==
  Put(b, [type |-> "SetSnapshotRef", ref |-> c.ref, snapshot_id |-> c.snapshot_id])

expire_snapshots(b, c) ==
  Put(b, [type |-> "ExpireSnapshots", older_than |-> c.older_than, retain_last |-> c.retain_last,
          retain_refs |-> c.retain_refs, dry_run |-> c.dry_run])

Call(b, c) ==
  IF b.panicked THEN b ELSE
  CASE c.call = "add_schema" -> add_schema(b, c)
    [] c.call = "set_default_spec" -> set_default_spec(b, c)
    [] c.call = "replace_sort_order" -> replace_sort_order(b, c)
    [] c.call = "append_data" -> append_data(b, c)
    [] c.call = "append_delete" -> append_delete(b, c)
    [] c.call = "append_sequence_group" -> append_sequence_group(b, c)
    [] c.call = "overwrite" -> overwrite(b, c)
    [] c.call = "truncate" -> truncate(b, c)
    [] c.call = "replace" -> replace(b, c)
    [] c.call = "replace_with_lineage" -> replace_with_lineage(b, c)
    [] c.call = "update_properties" -> update_properties(b, c)
    [] c.call = "set_snapshot_ref" -> set_snapshot_ref(b, c)
    [] c.call = "expire_snapshots" -> expire_snapshots(b, c)

\* The operations of a transaction: one of each kind at most.
Built(t) ==
  LET after[i \in 0 .. Len(t.calls)] ==
        IF i = 0 THEN New(t.branch) ELSE Call(after[i - 1], t.calls[i])
  IN  after[Len(t.calls)]
Operations(b) == {b.slots[type] : type \in DOMAIN b.slots}
=============================================================================
