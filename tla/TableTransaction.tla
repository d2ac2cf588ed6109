-------------------------- MODULE TableTransaction --------------------------
(***************************************************************************)
(* Table transactions (src/iceberg-rust/src/table/transaction/mod.rs and   *)
(* operation.rs) under optimistic concurrency: every writer holds a Table  *)
(* whose metadata may be stale, executes its operations on it, and the     *)
(* catalog applies the resulting updates to the metadata that is current,  *)
(* if the requirements hold there.  SqlCatalog and FileCatalog are about   *)
(* how that last step is made atomic; here it is one step.                 *)
(*                                                                         *)
(* Executing a transaction reads only the writer's immutable metadata and  *)
(* immutable files, so executing it in the step that commits it loses no   *)
(* interleaving.  A transaction that fails changes nothing.                *)
(*                                                                         *)
(* A snapshot's id is a fresh number, which also orders its timestamp; it  *)
(* stands for the data files the operation wrote as well.                  *)
(***************************************************************************)
EXTENDS TableFormat, FiniteSets

CONSTANTS
  Writers,        \* holders of a Table value
  FormatVersions, \* the format versions of the tables: 1, 2 or 3
  Transactions,   \* the transactions that writers build: [branch, calls]
  MaxId,          \* bound: snapshots committed in a behaviour
  MaxTables       \* bound: tables created under the identifier

ASSUME TransactionAssumption ==
  /\ FormatVersions \subseteq 1 .. 3
  /\ MaxId \in Nat /\ MaxTables \in Nat

VARIABLES
  metadata,   \* the metadata in the file that the catalog points at
  handle,     \* per writer: the metadata of its Table
  nextId      \* the next snapshot id

vars == <<metadata, handle, nextId>>

Builder == INSTANCE TransactionBuilder

\* What the Rust types give: a transaction is a sequence of calls of the methods,
\* and numbers of files are natural numbers.
ASSUME CallAssumption ==
  \A t \in Transactions :
    Len(t.calls) \in Nat /\ \A i \in 1 .. Len(t.calls) : Builder!CallOK(t.calls[i])

\* The transactions whose calls do not panic, as sets of operations.
Built == {Builder!Operations(b) :
            b \in {x \in {Builder!Built(t) : t \in Transactions} : ~x.panicked}}

-----------------------------------------------------------------------------
(* Operation::execute: the requirements (at most one) and the updates of   *)
(* one operation, or an error.                                             *)

Nothing == [ok |-> TRUE, requirements |-> {}, updates |-> <<>>]
Error == [ok |-> FALSE, requirements |-> {}, updates |-> <<>>]
Produces(requirements, updates) ==
  [ok |-> TRUE, requirements |-> requirements, updates |-> updates]

RefName(branch) == IF branch = None THEN "main" ELSE branch

AssertRef(ref, id) ==
  [type |-> "AssertRefSnapshotId", ref |-> ref, snapshot_id |-> id]

\* The end of every operation that commits a snapshot: require the branch to
\* have the snapshot the operation started from, add the snapshot, move the
\* branch to it.  (CommitUnfenced: the slip of requiring nothing.)
CommitUnfenced(branch, old, id, snapshot) ==
  Produces({}, <<[type |-> "AddSnapshot", snapshot_id |-> id, snapshot |-> snapshot],
                 [type |-> "SetSnapshotRef", ref |-> RefName(branch), snapshot_id |-> id]>>)

CommitSnapshot(branch, old, id, snapshot) ==
  Produces({AssertRef(RefName(branch), old)},
           <<[type |-> "AddSnapshot", snapshot_id |-> id, snapshot |-> snapshot],
             [type |-> "SetSnapshotRef", ref |-> RefName(branch), snapshot_id |-> id]>>)

\* A snapshot with parent old and, on v3, the rows the manifest list writer
\* assigned from the table's next-row-id (apply_v3_row_lineage).
Snapshot(m, old, seq, rows, files) ==
  [sequence_number |-> seq, parent |-> old, schema_id |-> m.current_schema_id,
   first_row_id |-> IF m.format_version = 3 THEN m.next_row_id ELSE None,
   added_rows |-> IF m.format_version = 3 THEN rows ELSE None,
   files |-> files]

FilesOf(m, id) == IF id = None THEN {} ELSE m.snapshots[id].files
New(op, id) == IF op.n = 0 THEN {} ELSE {id}

append(m, op, id) ==
  LET old == current_snapshot(m, op.branch) IN
  IF ~old.ok THEN Error
  ELSE IF op.n + op.deletes = 0 THEN Nothing
  ELSE CommitSnapshot(op.branch, old.id, id,
         Snapshot(m, old.id, m.last_sequence_number + 1, op.n,
                  FilesOf(m, old.id) \cup {id}))

Total(counts) ==
  LET sum[i \in 0 .. Len(counts)] == IF i = 0 THEN 0 ELSE sum[i - 1] + counts[i]
  IN  sum[Len(counts)]

\* One sequence number per group, the empty groups included.
append_sequence_groups(m, op, id) ==
  LET old == current_snapshot(m, op.branch)
      files == Total(op.groups)
  IN  IF ~old.ok THEN Error
      ELSE IF files = 0 THEN Nothing
      ELSE CommitSnapshot(op.branch, old.id, id,
             Snapshot(m, old.id, m.last_sequence_number + Len(op.groups), files,
                      FilesOf(m, old.id) \cup {id}))

\* A full replacement: no parent, and not supported on v3.
replace(m, op, id) ==
  LET old == current_snapshot(m, op.branch) IN
  IF m.format_version = 3 \/ ~old.ok THEN Error
  ELSE CommitSnapshot(op.branch, old.id, id,
         Snapshot(m, None, m.last_sequence_number + 1, 0, New(op, id)))

\* What is overwritten must be in the snapshot.
overwrite(m, op, id) ==
  LET old == current_snapshot(m, op.branch)
      removed == UNION {op.remove[f] : f \in DOMAIN op.remove}
  IN
  IF ~old.ok \/ old.id = None THEN Error
  ELSE IF op.n = 0 /\ DOMAIN op.remove = {} THEN Nothing
  ELSE IF ~(removed \subseteq FilesOf(m, old.id)) THEN Error
  ELSE CommitSnapshot(op.branch, old.id, id,
         Snapshot(m, old.id, m.last_sequence_number + 1, op.n,
                  (FilesOf(m, old.id) \ removed) \cup New(op, id)))

truncate(m, op, id) ==
  LET old == current_snapshot(m, op.branch) IN
  IF ~old.ok THEN Error
  ELSE CommitSnapshot(op.branch, old.id, id,
         Snapshot(m, old.id, m.last_sequence_number + 1, 0, {}))

update_properties(op) ==
  Produces({}, <<[type |-> "SetProperties", updates |-> op.entries]>>)

set_ref(m, op) ==
  Produces({AssertRef(op.ref, Get(m.refs, op.ref))},
           <<[type |-> "SetSnapshotRef", ref |-> op.ref, snapshot_id |-> op.snapshot_id]>>)

\* last_column_id is the largest field id of this schema, whatever the table had.
add_schema_op(op) ==
  Produces({}, <<[type |-> "AddSchema", schema_id |-> op.schema_id, fields |-> op.fields,
                  last_column_id |-> IF op.fields = {} THEN None
                                     ELSE CHOOSE x \in op.fields : \A y \in op.fields : y <= x]>>)

set_default_spec_op(op) ==
  Produces({}, <<[type |-> "SetDefaultSpec", spec_id |-> op.spec_id]>>)

\* Order id 0 is the unsorted order; its fields must be in the current schema.
replace_sort_order(m, op) ==
  IF \/ op.order_id = 0 /\ op.fields # {}
     \/ ~(op.fields \subseteq m.schemas[m.current_schema_id])
  THEN Error
  ELSE Produces({[type |-> "AssertDefaultSortOrderId",
                  default_sort_order_id |-> m.default_sort_order_id]},
                <<[type |-> "AddSortOrder", order_id |-> op.order_id],
                  [type |-> "SetDefaultSortOrder", order_id |-> op.order_id]>>)

\* The retention rule of ExpireSnapshots.  (RetainedCurrent: the slip of
\* looking at the current snapshot and at no other ref.)
RetainedCurrent(m, op, id) ==
  \/ id = m.current_snapshot_id
  \/ op.retain_last # None
     /\ Cardinality({o \in DOMAIN m.snapshots : o > id}) < op.retain_last
  \/ op.older_than # None /\ id >= op.older_than

Retained(m, op, id) ==
  \/ id = m.current_snapshot_id
  \/ op.retain_refs /\ \E r \in DOMAIN m.refs : m.refs[r] = id
  \/ op.retain_last # None
     /\ Cardinality({o \in DOMAIN m.snapshots : o > id}) < op.retain_last
  \/ op.older_than # None /\ id >= op.older_than

\* No requirement: nothing ties the removal to the refs it was computed from.
expire_snapshots(m, op) ==
  LET expired == {id \in DOMAIN m.snapshots : ~Retained(m, op, id)} IN
  IF op.older_than = None /\ op.retain_last = None THEN Error
  ELSE IF op.dry_run \/ expired = {} THEN Nothing
  ELSE Produces({}, <<[type |-> "RemoveSnapshots", snapshot_ids |-> expired]>>)

execute(m, op, id) ==
  CASE op.type = "AddSchema" -> add_schema_op(op)
    [] op.type = "SetDefaultSpec" -> set_default_spec_op(op)
    [] op.type = "Append" -> append(m, op, id)
    [] op.type = "AppendSequenceGroups" -> append_sequence_groups(m, op, id)
    [] op.type = "Replace" -> replace(m, op, id)
    [] op.type = "Overwrite" -> overwrite(m, op, id)
    [] op.type = "UpdateProperties" -> update_properties(op)
    [] op.type = "SetSnapshotRef" -> set_ref(m, op)
    [] op.type = "ExpireSnapshots" -> expire_snapshots(m, op)
    [] op.type = "ReplaceSortOrder" -> replace_sort_order(m, op)
    [] op.type = "Truncate" -> truncate(m, op, id)

-----------------------------------------------------------------------------
(* TableTransaction *)

\* A transaction has one slot per kind of operation, run in slot order.
Slots == <<"AddSchema", "SetDefaultSpec", "Append", "AppendSequenceGroups",
           "Replace", "Overwrite", "UpdateProperties", "SetSnapshotRef",
           "ExpireSnapshots", "ReplaceSortOrder", "Truncate">>

WritesFiles(op) ==
  CASE op.type = "Append" -> op.n + op.deletes > 0
    [] op.type = "Replace" -> op.n > 0
    [] op.type = "AppendSequenceGroups" -> \E i \in DOMAIN op.groups : op.groups[i] > 0
    [] op.type = "Overwrite" -> op.n > 0 \/ DOMAIN op.remove # {}
    [] OTHER -> FALSE

reject_spec_change_with_file_write(ops, m) ==
  /\ \E op \in ops : op.type = "SetDefaultSpec" /\ op.spec_id # m.default_spec_id
  /\ \E op \in ops : WritesFiles(op)

reject_truncate_with_write(ops) ==
  /\ \E op \in ops : op.type = "Truncate"
  /\ \E op \in ops : op.type \in {"Append", "AppendSequenceGroups", "Replace", "Overwrite"}

\* The requirements every transaction starts with: the uuid, and for TRUNCATE
\* every ref of the base.
StartRequirements(base, ops) ==
  {[type |-> "AssertTableUuid", uuid |-> base.table_uuid]} \cup
  (IF \E op \in ops : op.type = "Truncate"
   THEN {AssertRef(r, base.refs[r]) : r \in DOMAIN base.refs} ELSE {})

\* One operation of the loop of commit().  With several operations each runs
\* on the metadata staged by the ones before it; its requirement must hold
\* there, and is sent to the catalog if it also holds on the base.  An operation
\* that commits a snapshot draws an id of its own.
Step(base, staged, acc, op) ==
  LET r == execute(acc.staged, op, acc.id)
      kept == IF staged THEN {q \in r.requirements : Holds(q, base)} ELSE r.requirements
      next == IF staged THEN apply_table_updates(acc.staged, r.updates)
              ELSE LoopStart(acc.staged)
  IN  [ok |-> /\ r.ok /\ next.ok
              /\ staged => check_table_requirements(r.requirements, acc.staged),
       staged |-> next.metadata,
       requirements |-> acc.requirements \cup kept,
       updates |-> acc.updates \o r.updates,
       id |-> acc.id + 1]

\* One slot: it is empty, or the loop has returned an error, or its operation is
\* executed.
Turn(base, staged, acc, slot) ==
  IF ~acc.ok \/ slot = {} THEN acc
  ELSE Step(base, staged, acc, CHOOSE op \in slot : TRUE)

\* Metadata is staged if there is a second operation.
Several(ops) == \E a, b \in ops : a # b

\* commit() up to update_table: what is sent to the catalog.
Prepare(base, ops, id) ==
  LET start == [ok |-> /\ ~reject_spec_change_with_file_write(ops, base)
                       /\ ~reject_truncate_with_write(ops),
                staged |-> base, requirements |-> StartRequirements(base, ops),
                updates |-> <<>>, id |-> id]
      run[i \in 0 .. Len(Slots)] ==
        IF i = 0 THEN start
        ELSE Turn(base, Several(ops), run[i - 1], {op \in ops : op.type = Slots[i]})
  IN  run[Len(Slots)]

\* The catalog: requirements checked on, and updates applied to, the current
\* metadata.
update_table(m, commit) ==
  LET next == apply_table_updates(m, commit.updates)
  IN  [metadata |-> next.metadata,
       ok |-> check_table_requirements(commit.requirements, m) /\ next.ok]

Init ==
  /\ \E v \in FormatVersions : metadata = Reread(NewTable(1, v))
  /\ handle = [w \in Writers |-> metadata]
  /\ nextId = 1

\* load_table.
Load(w) ==
  /\ Readable(metadata)
  /\ handle' = [handle EXCEPT ![w] = metadata]
  /\ UNCHANGED <<metadata, nextId>>

\* A transaction that the catalog accepts; the Table gets the new metadata.
Commit(w, ops) ==
  LET commit == Prepare(handle[w], ops, nextId)
      result == update_table(metadata, commit)
  IN  /\ commit.ok
      /\ commit.updates # <<>>
      /\ result.ok
      /\ commit.id <= MaxId + 1
      /\ metadata' = Reread(result.metadata)
      /\ handle' = [handle EXCEPT ![w] = result.metadata]
      /\ nextId' = commit.id

\* drop_table and create_table under the same identifier.
Recreate ==
  /\ metadata.table_uuid < MaxTables
  /\ metadata' = Reread(NewTable(metadata.table_uuid + 1, metadata.format_version))
  /\ UNCHANGED <<handle, nextId>>

\* What callers pass: a ref is set to a snapshot the caller's Table has.
Valid(m, ops) ==
  \A op \in ops : op.type = "SetSnapshotRef" => op.snapshot_id \in DOMAIN m.snapshots

Next ==
  \/ \E w \in Writers : Load(w)
  \/ \E w \in Writers, ops \in Built : Valid(handle[w], ops) /\ Commit(w, ops)
  \/ Recreate

Spec == Init /\ [][Next]_vars
-----------------------------------------------------------------------------
(* Properties *)

\* Types of the state, and snapshot ids stay below nextId.
TypeOK ==
  /\ nextId \in Nat
  /\ \A m \in {metadata} \cup {handle[w] : w \in Writers} :
       /\ DOMAIN m.snapshots \subseteq 1 .. nextId - 1
       /\ \A id \in DOMAIN m.snapshots : m.snapshots[id].files \subseteq 1 .. id
       /\ m.table_uuid \in 1 .. metadata.table_uuid
       /\ m.last_sequence_number \in Nat /\ m.next_row_id \in 0 .. MaxRowId

\* Sequence numbers order the snapshots of all branches: no two snapshots
\* share one, a snapshot is younger than its parent, none is beyond
\* last-sequence-number, and the snapshot log lists them in that order.
HistoryOrdered(m) ==
  LET seq(id) == m.snapshots[id].sequence_number
      ids == DOMAIN m.snapshots
  IN  /\ \A i, j \in ids : i # j => seq(i) # seq(j)
      /\ \A i \in ids : /\ seq(i) <= m.last_sequence_number
                        /\ m.snapshots[i].parent \in ids => seq(m.snapshots[i].parent) < seq(i)
      /\ \A a, b \in DOMAIN m.snapshot_log :
           a < b => seq(m.snapshot_log[a]) < seq(m.snapshot_log[b])

\* The table keeps that order, although writers take "last + 1" from metadata
\* that may be stale.
SequenceNumbersOrdered == metadata.format_version # 1 => HistoryOrdered(metadata)

\* The row-id ranges of the snapshots are disjoint and below next-row-id.
RowRangesDisjoint(m) ==
  LET first(id) == m.snapshots[id].first_row_id
      next(id) == first(id) + m.snapshots[id].added_rows
      ids == DOMAIN m.snapshots
  IN  \A i \in ids : /\ next(i) <= m.next_row_id
                     /\ \A j \in ids : i # j => next(i) <= first(j) \/ next(j) <= first(i)

\* So they are on v3, although each writer assigns row ids from its own
\* next-row-id.
RowIdsDisjoint == metadata.format_version = 3 => RowRangesDisjoint(metadata)

\* What readers of the metadata m see: the files of every ref (None: its snapshot
\* is gone), the schema, the defaults and the properties.
Visible(m) ==
  [files |-> [r \in DOMAIN m.refs |->
                IF m.refs[r] \in DOMAIN m.snapshots THEN m.snapshots[m.refs[r]].files ELSE None],
   schemas |-> m.schemas, current_schema_id |-> m.current_schema_id,
   default_spec_id |-> m.default_spec_id,
   default_sort_order_id |-> m.default_sort_order_id, properties |-> m.properties]

\* What the operations are refused for on m without a word in what a stale
\* writer sends: no requirement is about the default partition spec, the fields
\* of the current schema, a main branch that is missing on a table with
\* snapshots, or a ref whose snapshot was expired.
RefusedUnsent(m, ops) ==
  \/ reject_spec_change_with_file_write(ops, m)
  \/ \E op \in ops : /\ op.type = "ReplaceSortOrder"
                     /\ ~(op.fields \subseteq m.schemas[m.current_schema_id])
  \/ "main" \notin DOMAIN m.refs /\ DOMAIN m.snapshots # {}
  \/ \E r \in DOMAIN m.refs : m.refs[r] \notin DOMAIN m.snapshots

\* Every accepted transaction shows readers what it would have shown had it
\* been executed on the metadata it was committed to: the requirements it
\* carries are enough to make a stale base harmless, also when several
\* operations are staged on one another and some requirements are not sent.
\* Only where that would have been refused, for one of the reasons above, does
\* a stale transaction do more: it writes files beside a change of the spec,
\* sorts by a field the schema no longer has, starts main after a branch, or
\* extends a snapshot that is gone.  (What a stale expiry removes is the subject
\* of RefsResolve and CurrentNeverExpired.  The first line says that w commits: a
\* commit draws ids and changes no other Table.)
CommitsAsIfFresh ==
  [][\A w \in Writers, ops \in Built :
       (/\ nextId' # nextId /\ handle' = [handle EXCEPT ![w] = handle'[w]]
        /\ \A op \in ops : op.type # "ExpireSnapshots"
        /\ Valid(handle[w], ops) /\ Commit(w, ops)) =>
         LET fresh == Prepare(metadata, ops, nextId)
             result == update_table(metadata, fresh)
         IN  IF fresh.ok /\ result.ok THEN Visible(Reread(result.metadata)) = Visible(metadata')
             ELSE RefusedUnsent(metadata, ops)]_vars

\* Every ref, and the current snapshot, is a snapshot the table has: expiry
\* computed on stale metadata is safe beside writers that move refs forward.
RefsResolve ==
  /\ \A r \in DOMAIN metadata.refs : metadata.refs[r] \in DOMAIN metadata.snapshots
  /\ metadata.current_snapshot_id # None
       => metadata.current_snapshot_id \in DOMAIN metadata.snapshots

\* Expiry never removes the snapshot the table is at ("Never expire the
\* current snapshot", ExpireSnapshots), whatever was committed since the
\* expiring writer loaded the table.
CurrentNeverExpired ==
  [][(/\ metadata'.table_uuid = metadata.table_uuid
      /\ metadata.current_snapshot_id \in DOMAIN metadata.snapshots)
       => metadata.current_snapshot_id \in DOMAIN metadata'.snapshots]_vars

=============================================================================
