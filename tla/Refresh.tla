------------------------------ MODULE Refresh ------------------------------
(***************************************************************************)
(* Materialized views: refresh_materialized_view, the incremental rewrite  *)
(* of the view's query and the transaction that commits the result         *)
(* (src/datafusion_iceberg/src/materialized_view,                          *)
(*  src/iceberg-rust/src/materialized_view).                               *)
(*                                                                         *)
(* A refresh loads the storage table, then each source table, computes the *)
(* rows to add and the keys to delete, loads the storage table again and   *)
(* commits to it, touches the view, and after a full refresh deletes the   *)
(* files it replaced.  Refreshes, appends to the sources and redefinitions *)
(* of the view interleave at those points.                                 *)
(*                                                                         *)
(* A row is <<key, n>>: joins, filters and groups look at the key, n is    *)
(* the count of an aggregate and 1 elsewhere.  A table is a bag of rows.   *)
(* A source table is the sequence of its snapshots, each the bag a scan of *)
(* it returns; a snapshot id is an index.  Sources only grow.              *)
(***************************************************************************)
EXTENDS Naturals, Sequences, FiniteSets, Bags, TLC, SequencesExt, FiniteSetsExt, Functions

CONSTANTS
  Refreshers,    \* tasks that call refresh_materialized_view
  Plans,         \* the view's possible queries
  Sources,       \* source tables
  Keys,          \* key values
  Branches,      \* branches of the storage table that are refreshed
  MaxSnapshots,  \* bound: snapshots of a source table
  MaxRefreshes,  \* bound: refreshes started
  MaxVersions,   \* bound: definitions of the view
  PlanDepth,     \* bound: how deep the nodes of a query nest
  MaxFaults      \* bound: refreshes that end with an error

NoState == [version |-> 0, sources |-> [s \in Sources |-> 0]]
NoSnapshot == [id |-> 0, rows |-> EmptyBag, files |-> {}, state |-> NoState]

VARIABLES
  source,      \* per source table: its snapshots
  view,        \* the view's current version and query
  storage,     \* per branch: the storage table's snapshot
  snapshots,   \* snapshots of the storage table so far
  deleted,     \* data files of the storage table that were deleted
  task,        \* per refresher: the refresh in progress
  refreshes, faults,
  overlapped,  \* history: an incremental refresh committed over a state it had not read
  leftover     \* history: per branch, the rows of another version its rows were added to

vars == <<source, view, storage, snapshots, deleted, task, refreshes, faults, overlapped, leftover>>

IdleTask == [pc |-> "idle", branch |-> "main", version |-> 0, plan |-> <<>>, old |-> NoState,
             seen |-> NoSnapshot, loaded |-> <<>>, pos |-> EmptyBag, neg |-> {},
             base |-> NoSnapshot, mainFiles |-> {}]

Current(s) == Len(source[s])

-----------------------------------------------------------------------------
(* Queries *)

\* A plan node: [op, table] for a scan, [op, inputs] for the others.
Inputs(p) == IF p.op = "scan" THEN {} ELSE Range(p.inputs)

\* The nodes of a plan.
Subplans(p) ==
  LET within[n \in 0 .. PlanDepth] ==
        IF n = 0 THEN {p} ELSE within[n - 1] \cup UNION {Inputs(q) : q \in within[n - 1]}
  IN  within[PlanDepth]

Nodes(p) == {q.op : q \in Subplans(p)}

Tables(p) == {q.table : q \in {x \in Subplans(p) : x.op = "scan"}}

KeysOf(b) == {r[1] : r \in DOMAIN b}
CountOf(b, k) == FoldSet(LAMBDA r, n : n + (IF r[1] = k THEN b[r] ELSE 0), 0, DOMAIN b)

FilterBag(b, keep) == [r \in {x \in DOMAIN b : x[1] \in keep} |-> b[r]]

\* An inner equi-join, projected to the key; a null equals nothing.
JoinBag(l, r) ==
  [x \in {<<k, 1>> : k \in (KeysOf(l) \cap KeysOf(r)) \ {"null"}} |-> CountOf(l, x[1]) * CountOf(r, x[1])]

\* count(*) group by key.
GroupBag(b) == SetToBag({<<k, CountOf(b, k)>> : k \in KeysOf(b)})

\* The rows of a query over the given contents of its tables.
Eval(p, tables) ==
  LET rows[q \in Subplans(p)] ==
        CASE q.op = "scan" -> tables[q.table]
          [] q.op = "filter" -> FilterBag(rows[q.inputs[1]], q.keys)
          [] q.op = "join" -> JoinBag(rows[q.inputs[1]], rows[q.inputs[2]])
          [] q.op = "union" -> rows[q.inputs[1]] (+) rows[q.inputs[2]]
          [] q.op = "aggregate" -> GroupBag(rows[q.inputs[1]])
          [] OTHER -> rows[q.inputs[1]]
  IN  rows[p]

\* determine_refresh_strategy.
requires_full_overwrite(p) ==
  ~ (Nodes(p) \subseteq {"projection", "filter", "join", "union", "aggregate", "sort", "scan", "alias"})
requires_overwrite_from_last(p) == "sort" \in Nodes(p)
IncrementalAppend(p) == ~ requires_full_overwrite(p) /\ ~ requires_overwrite_from_last(p)

-----------------------------------------------------------------------------
(* delta_transform_down: the rows a change of the sources adds, and the keys   *)
(* it replaces.  env has for each source the contents of the last refresh and  *)
(* those that are new, and the storage table's rows.                           *)

\* The joins of transform_join for one delta of the left input: both deltas,
\* the old left side with the new right, the new left with the old right.
\* (with_new_right: the slip of joining the new left with all of the right.)
with_new_right(dl, l, dr, r) == <<JoinBag(dl, dr), JoinBag(l, dr), JoinBag(dl, r (+) dr)>>

delta_joins(dl, l, dr, r) == <<JoinBag(dl, dr), JoinBag(l, dr), JoinBag(dl, r)>>

\* The storage table's rows of a group.
GroupRows(stored, k) == {y \in DOMAIN stored : y[1] = k /\ k # "null"}

\* A group of the delta joins the storage table's row of that group and the
\* counts are added (incremental_aggregate_function); a group the storage
\* table does not have comes through the anti join.
merge_group(x, stored) ==
  IF GroupRows(stored, x[1]) = {} THEN SetToBag({x})
  ELSE FoldSet(LAMBDA y, b : b (+) (<<x[1], x[2] + y[2]>> :> stored[y]), EmptyBag,
               GroupRows(stored, x[1]))

BagsUnion(bags) == FoldLeft(LAMBDA x, y : x (+) y, EmptyBag, bags)

\* The deltas of a join: a left input that is itself a join contributes each
\* of its own.
transform_join(deltas, l, dr, r) ==
  FlattenSeq([i \in DOMAIN deltas |-> delta_joins(deltas[i], l, dr, r)])

PosDelta(p, env) ==
  LET parts[q \in Subplans(p)] ==
        LET delta(i) == BagsUnion(parts[q.inputs[i]])
            old(i)   == Eval(q.inputs[i], env.old)
        IN  IF q.op = "join"
            THEN transform_join(parts[q.inputs[1]], old(1), delta(2), old(2))
            ELSE <<CASE q.op = "scan" -> env.new[q.table]
                     [] q.op = "filter" -> FilterBag(delta(1), q.keys)
                     [] q.op = "union" -> delta(1) (+) delta(2)
                     [] q.op = "aggregate" ->
                          FoldSet(LAMBDA x, b : b (+) merge_group(x, env.storage), EmptyBag,
                                  DOMAIN GroupBag(delta(1)))
                     [] OTHER -> delta(1)>>
  IN  BagsUnion(parts[p])

\* The keys of the equality deletes: the groups the delta changes.  The rows
\* of a source are never deleted.
NegDelta(p, env) ==
  LET deleted_keys[q \in Subplans(p)] ==
        CASE q.op = "scan" -> {}
          [] q.op = "filter" -> deleted_keys[q.inputs[1]] \cap q.keys
          [] q.op = "join" ->
               LET l == deleted_keys[q.inputs[1]]
                   r == deleted_keys[q.inputs[2]]
               IN  (l \cap r) \cup (l \cap KeysOf(Eval(q.inputs[2], env.old)))
                              \cup (r \cap KeysOf(Eval(q.inputs[1], env.old)))
          [] q.op = "union" -> deleted_keys[q.inputs[1]] \cup deleted_keys[q.inputs[2]]
          [] q.op = "aggregate" ->
               {k \in KeysOf(PosDelta(q.inputs[1], env)) : GroupRows(env.storage, k) # {}}
          [] OTHER -> deleted_keys[q.inputs[1]]
  IN  deleted_keys[p]

-----------------------------------------------------------------------------
(* A refresh *)

Init ==
  /\ source = [s \in Sources |-> <<SetToBag({<<k, 1>> : k \in Keys})>>]
  /\ view \in [version : {1}, plan : Plans]
  /\ storage = [b \in Branches |-> NoSnapshot]
  /\ snapshots = 0
  /\ deleted = {}
  /\ task = [r \in Refreshers |-> IdleTask]
  /\ refreshes = 0
  /\ faults = 0
  /\ overlapped = FALSE
  /\ leftover = [b \in Branches |-> EmptyBag]

Goto(r, t) == task' = [task EXCEPT ![r] = t]

\* A commit to a source table.
AppendSource(s, k) ==
  /\ Current(s) < MaxSnapshots
  /\ s \in Tables(view.plan)
  /\ source' = [source EXCEPT ![s] = Append(@, Last(@) (+) SetToBag({<<k, 1>>}))]
  /\ UNCHANGED <<view, storage, snapshots, deleted, task, refreshes, faults, overlapped, leftover>>

\* A transaction that replaces the view's query.
Redefine(p) ==
  /\ view.version < MaxVersions
  /\ p # view.plan
  /\ view' = [version |-> view.version + 1, plan |-> p]
  /\ UNCHANGED <<source, storage, snapshots, deleted, task, refreshes, faults, overlapped, leftover>>

\* StorageTable::refresh_state: the state of the last refresh, if it was one
\* of this version.
refresh_state(snapshot, version) ==
  IF snapshot.state.version = version THEN snapshot.state ELSE NoState

\* The view and its storage table are loaded.
Start(r, b) ==
  /\ task[r].pc = "idle"
  /\ refreshes < MaxRefreshes
  /\ refreshes' = refreshes + 1
  /\ Goto(r, [IdleTask EXCEPT !.pc = "sources", !.branch = b, !.version = view.version,
                              !.plan = view.plan, !.seen = storage[b],
                              !.old = refresh_state(storage[b], view.version)])
  /\ UNCHANGED <<source, view, storage, snapshots, deleted, faults, overlapped, leftover>>

\* get_source_tables loads one table after the other and keeps its snapshot.
LoadSource(r, s) ==
  /\ task[r].pc = "sources"
  /\ s \in Tables(task[r].plan) \ DOMAIN task[r].loaded
  /\ Goto(r, [task[r] EXCEPT !.loaded = (s :> Current(s)) @@ @])
  /\ UNCHANGED <<source, view, storage, snapshots, deleted, refreshes, faults, overlapped, leftover>>

Fresh(t) == \A s \in DOMAIN t.loaded : t.loaded[s] = t.old.sources[s]

\* The providers of a source: what the last refresh saw and what came since;
\* without a refresh state everything is new.
Before(t, s) == IF s \in DOMAIN t.loaded /\ t.old.sources[s] > 0 THEN source[s][t.old.sources[s]] ELSE EmptyBag
Since(t, s) == IF s \in DOMAIN t.loaded THEN source[s][t.loaded[s]] (-) Before(t, s) ELSE EmptyBag

Env(t) == [old |-> [s \in Sources |-> Before(t, s)], new |-> [s \in Sources |-> Since(t, s)],
           storage |-> t.seen.rows]

\* When nothing is outdated the refresh returns; else the rows are computed
\* and written.  An incremental plan reads the providers; an overwriting one
\* the tables the session's catalog loads now.
Execute(r) ==
  LET t == task[r] IN
  /\ t.pc = "sources"
  /\ DOMAIN t.loaded = Tables(t.plan)
  /\ Goto(r, IF Fresh(t) THEN IdleTask
             ELSE IF IncrementalAppend(t.plan)
             THEN [t EXCEPT !.pc = "commit", !.pos = PosDelta(t.plan, Env(t)), !.neg = NegDelta(t.plan, Env(t))]
             ELSE [t EXCEPT !.pc = "commit", !.pos = Eval(t.plan, [s \in Sources |-> Last(source[s])])])
  /\ UNCHANGED <<source, view, storage, snapshots, deleted, refreshes, faults, overlapped, leftover>>

\* Transaction::commit loads the storage table again.
LoadStorage(r) ==
  /\ task[r].pc = "commit"
  /\ Goto(r, [task[r] EXCEPT !.pc = "swap", !.base = storage[task[r].branch],
                               !.mainFiles = storage["main"].files])
  /\ UNCHANGED <<source, view, storage, snapshots, deleted, refreshes, faults, overlapped, leftover>>

\* The snapshot of a refresh: Append keeps the rows that no equality delete
\* matches, Replace keeps none.
NewSnapshot(t, id) ==
  [id |-> id,
   rows |-> IF IncrementalAppend(t.plan) THEN FilterBag(t.base.rows, Keys \ t.neg) (+) t.pos ELSE t.pos,
   files |-> IF IncrementalAppend(t.plan) THEN t.base.files \cup {id} ELSE {id},
   state |-> [version |-> t.version,
              sources |-> [s \in Sources |-> IF s \in DOMAIN t.loaded THEN t.loaded[s] ELSE 0]]]

\* AssertRefSnapshotId of the snapshot the storage table had when it was
\* loaded.  (any_snapshot: the slip of committing without it.)
any_snapshot(t) == TRUE
requirement_holds(t) == storage[t.branch].id = t.base.id

\* An append of no files adds no snapshot.
Changes(t) == IncrementalAppend(t.plan) => t.pos # EmptyBag \/ t.neg # {}

\* The rows of other versions that stay when a refresh commits: an overwrite
\* keeps none, an append of a first refresh of a version all that is there.
Stays(t) ==
  IF ~ IncrementalAppend(t.plan) THEN EmptyBag
  ELSE IF t.old = NoState THEN t.base.rows ELSE leftover[t.branch]

\* update_table of the storage table.
CommitStorage(r) ==
  LET t == task[r] IN
  /\ t.pc = "swap"
  /\ IF ~ Changes(t)
     THEN Goto(r, [t EXCEPT !.pc = "view"]) /\ UNCHANGED <<storage, snapshots, overlapped, leftover>>
     ELSE IF requirement_holds(t)
     THEN /\ snapshots' = snapshots + 1
          /\ storage' = [storage EXCEPT ![t.branch] = NewSnapshot(t, snapshots')]
          /\ Goto(r, [t EXCEPT !.pc = "view"])
          /\ overlapped' = (overlapped \/ (IncrementalAppend(t.plan) /\ t.base.id # t.seen.id))
          /\ leftover' = [leftover EXCEPT ![t.branch] = Stays(t)]
     ELSE Goto(r, IdleTask) /\ UNCHANGED <<storage, snapshots, overlapped, leftover>>
  /\ UNCHANGED <<source, view, deleted, refreshes, faults>>

\* update_materialized_view, with no updates.
CommitView(r) ==
  /\ task[r].pc = "view"
  /\ Goto(r, IF IncrementalAppend(task[r].plan) THEN IdleTask ELSE [task[r] EXCEPT !.pc = "delete"])
  /\ UNCHANGED <<source, view, storage, snapshots, deleted, refreshes, faults, overlapped, leftover>>

\* delete_all_table_files: the files of the main branch's snapshot in the
\* metadata the commit loaded.  Files are the numbers of the snapshots that
\* added them.
DeleteOld(r) ==
  /\ task[r].pc = "delete"
  /\ deleted' = deleted \cup task[r].mainFiles
  /\ Goto(r, IdleTask)
  /\ UNCHANGED <<source, view, storage, snapshots, refreshes, faults, overlapped, leftover>>

\* A refresh ends with an error or its process stops.
Fail(r) ==
  /\ task[r].pc # "idle"
  /\ faults < MaxFaults
  /\ faults' = faults + 1
  /\ Goto(r, IdleTask)
  /\ UNCHANGED <<source, view, storage, snapshots, deleted, refreshes, overlapped, leftover>>

Next ==
  \/ \E s \in Sources, k \in Keys : AppendSource(s, k)
  \/ \E p \in Plans : Redefine(p)
  \/ \E r \in Refreshers :
       \/ \E b \in Branches : Start(r, b)
       \/ \E s \in Sources : LoadSource(r, s)
       \/ Execute(r) \/ LoadStorage(r) \/ CommitStorage(r) \/ CommitView(r) \/ DeleteOld(r) \/ Fail(r)

Spec == Init /\ [][Next]_vars

-----------------------------------------------------------------------------
(* Properties *)

\* What a refresh of the branch would find: nothing to do.
IsFresh(b) ==
  /\ storage[b].id # 0
  /\ storage[b].state.version = view.version
  /\ \A s \in Tables(view.plan) : storage[b].state.sources[s] = Current(s)

\* Rows added to a table under an aggregate: a group the table has is counted
\* up in each of its rows.
Added(p, rows, to) ==
  IF "aggregate" \notin Nodes(p) THEN to (+) rows
  ELSE FilterBag(to, {k \in Keys : k = "null" \/ k \notin KeysOf(rows)})
       (+) FoldSet(LAMBDA x, b : b (+) merge_group(x, to), EmptyBag, DOMAIN rows)

\* Equal but for the null group, which has a row for each refresh that met it:
\* their counts add up.
NullCount(b) == FoldSet(LAMBDA r, n : n + (IF r[1] = "null" THEN b[r] * r[2] ELSE 0), 0, DOMAIN b)
SameGroups(x, y) ==
  /\ FilterBag(x, Keys \ {"null"}) = FilterBag(y, Keys \ {"null"})
  /\ NullCount(x) = NullCount(y)

\* What a materialized view that counts as fresh holds, so that refreshing it
\* does nothing: the rows of its query over the sources as they are, however
\* appends to the sources, failures, redefinitions and other refreshes fell
\* between the steps of the refreshes that built it.  That is not the copy of
\* the query's result that src/iceberg-rust/src/materialized_view/mod.rs:4-5
\* promises: the first refresh of a new definition adds its rows to those of the
\* old one, which stay until an overwrite, and a null group is never merged.
\* Two incremental refreshes at once are left out.
FreshIsExact ==
  \A b \in Branches :
    IsFresh(b) /\ ~ overlapped =>
      SameGroups(storage[b].rows,
                 Added(view.plan, Eval(view.plan, [s \in Sources |-> Last(source[s])]), leftover[b]))

\* The files a branch of the storage table consists of are never among those
\* a full refresh deletes.
BranchFilesKept == \A b \in Branches : storage[b].files \cap deleted = {}
=============================================================================
