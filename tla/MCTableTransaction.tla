------------------------ MODULE MCTableTransaction ------------------------
(* The transactions the writers of the model choose from. *)
EXTENDS TableTransaction, TLC

CONSTANTS w1, w2

MCWriters == {w1, w2}
MCSymmetry == Permutations(MCWriters)

Data(n) == [call |-> "append_data", n |-> n]
Deletes == [call |-> "append_delete", n |-> 1]
Group(n) == [call |-> "append_sequence_group", n |-> n]
ReplaceBy(n) == [call |-> "replace", n |-> n]
Refreshed == [call |-> "replace_with_lineage", n |-> 1]
Removing(manifest, n) ==
  [call |-> "overwrite", n |-> n, remove |-> [m \in {manifest} |-> {manifest}]]
Truncate == [call |-> "truncate"]
Props(v) == [call |-> "update_properties", entries |-> [k \in {v} |-> v]]
Ref(r, id) == [call |-> "set_snapshot_ref", ref |-> r, snapshot_id |-> id]
Schema(id, fields) == [call |-> "add_schema", schema_id |-> id, fields |-> fields]
DefaultSpec(id) == [call |-> "set_default_spec", spec_id |-> id]
Order(id) == [call |-> "replace_sort_order", order_id |-> id, fields |-> {1}]
Expire(n) == [call |-> "expire_snapshots", older_than |-> None, retain_last |-> n,
              retain_refs |-> TRUE, dry_run |-> FALSE]

On(branch, calls) == [branch |-> branch, calls |-> calls]
Main(calls) == On(None, calls)

\* Single operations and staged combinations, on two branches; among them the
\* changes that no requirement of another transaction answers to: the default
\* spec, a schema replaced under its id and expiry.
WriteTransactions ==
  {Main(<<Data(1), Deletes>>), On("dev", <<Data(1)>>), Main(<<Group(0), Group(1)>>),
   Main(<<ReplaceBy(0), Refreshed>>), Main(<<Removing(1, 1), Removing(1, 0)>>), Main(<<Truncate>>),
   Main(<<Ref("main", 1)>>), Main(<<Order(1)>>),
   Main(<<Data(1), Removing(1, 1)>>), Main(<<Data(1), Ref("dev", 1)>>),
   On("dev", <<Deletes, Data(1), Ref("main", 1)>>), Main(<<Props("a"), Truncate, Props("b")>>),
   Main(<<DefaultSpec(0), Data(1)>>), Main(<<DefaultSpec(1), Data(1)>>),
   Main(<<Schema(1, {1, 2, 3}), Data(1)>>), Main(<<Order(1), Data(1)>>),
   Main(<<Group(1), Data(1)>>), Main(<<DefaultSpec(1)>>), Main(<<Schema(0, {2})>>),
   Main(<<Expire(1)>>)}

\* Row lineage and snapshot expiry: the operations of v3, with refs that are
\* only moved to new snapshots.
RowTransactions ==
  {Main(<<Data(1)>>), On("dev", <<Data(1)>>), Main(<<Group(0), Group(1)>>),
   Main(<<Removing(1, 1)>>), Main(<<Truncate>>), Main(<<ReplaceBy(1)>>),
   Main(<<Expire(1)>>), Main(<<Expire(2)>>),
   Main(<<Data(1), Removing(1, 1)>>), Main(<<Data(1), Expire(1)>>)}

\* Snapshot expiry beside a rollback of main.
RollbackTransactions == {Main(<<Data(1)>>), Main(<<Ref("main", 1)>>), Main(<<Expire(1)>>)}

=============================================================================
