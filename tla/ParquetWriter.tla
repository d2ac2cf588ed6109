--------------------------- MODULE ParquetWriter ---------------------------
(***************************************************************************)
(* Writing a stream of record batches as Parquet files                     *)
(* (iceberg-rust/src/arrow/write.rs and arrow/partition.rs).               *)
(*                                                                         *)
(* For a partitioned table the calling task, the router, splits every      *)
(* batch by partition and sends each part over a bounded channel to the    *)
(* writer task of that partition.  The channels are kept in a least        *)
(* recently used list; when it has grown past the machine's parallelism    *)
(* one channel is closed before the next batch, and a partition that comes *)
(* back gets a new task.  An unpartitioned table has a single writer that  *)
(* reads the stream itself.                                                *)
(*                                                                         *)
(* A row is a record of its position in the stream and the values of its   *)
(* partition columns, already transformed.  The channel is the one of the  *)
(* futures crate: one message fits besides the one the sender is flushing, *)
(* flushing onto a dropped receiver succeeds, and sending to one fails.    *)
(***************************************************************************)
EXTENDS SortOrders, FiniteSets

CONSTANTS Streams,      \* the inputs: sequences of batches, a batch a sequence of tuples of
                        \* partition values, or BadBatch for an item that is an error
          Parallelism,  \* available_parallelism()
          TargetProperty,    \* the table's write.target-file-size-bytes, in rows; 0 where it
                             \* is zero, unset or not a number
          DefaultTargetSize, \* DEFAULT_TARGET_FILE_SIZE_BYTES, in rows
          Sorts,        \* sorted and unsorted writes, each with a scan after it (ClaimHolds)
          Buffer,       \* the capacity the channels are made with
          MaxFaults     \* bound on failing object store calls

Null == "null"
BadBatch == <<<<"error">>>>

VARIABLES input,        \* [batches, partitioned]: what is written, and whether the table is partitioned
          next,         \* the position of the next batch of the stream
          groups,       \* the parts of the current batch that have not been sent
          senders,      \* the open channels, least recently used first: their tasks
          tasks,        \* the writer tasks, in the order they were spawned
          flushing,     \* the task whose channel the router is flushing, 0 for none
          files,        \* the data files of the tasks joined so far
          result,       \* how the call ended: "none", "ok", "err" or "panic"
          faults

vars == <<input, next, groups, senders, tasks, flushing, files, result, faults>>

-----------------------------------------------------------------------------
(* Partitioning one batch. *)

\* The position in the stream of the first row of batch n.
FirstRow(batches, n) ==
  FoldLeft(LAMBDA sum, b : sum + Len(b), 0, SubSeq(batches, 1, n - 1))

\* The rows of batch n, numbered through the stream.
RowsOf(batches, n) ==
  [r \in 1..Len(batches[n]) |-> [id |-> FirstRow(batches, n) + r, values |-> batches[n][r]]]

\* The item of the stream is an error.
IsError(rows) == rows # <<>> /\ rows[1].values = BadBatch[1]

\* A column's values: nulls are filtered out and a value that follows itself
\* is not inserted again.
distinct_values(rows, c) ==
  LET column == SelectSeq([r \in 1..Len(rows) |-> rows[r].values[c]], LAMBDA v : v # Null)
  IN  {column[r] : r \in {r \in 1..Len(column) : r = 1 \/ column[r] # column[r - 1]}}

\* A slip: rows whose partition value is null match no predicate.
without_null(rows, c) == distinct_values(rows, c)

\* The candidate values of a column: the distinct ones, and null when the column has one.
candidates(rows, c) ==
  distinct_values(rows, c)
    \cup IF \E r \in 1..Len(rows) : rows[r].values[c] = Null THEN {Null} ELSE {}

\* The bitmap strategy: one predicate per combination of candidates, the
\* columns combined one by one and the combinations no row matches dropped.
by_predicates(rows) ==
  LET width == Len(rows[1].values)
      Matching(key) == SelectSeq(rows, LAMBDA row : row.values = key)
      keys == {key \in [1..width -> UNION {candidates(rows, c) : c \in 1..width}] :
                 \A c \in 1..width : key[c] \in candidates(rows, c)}
  IN  {[values |-> key, rows |-> Matching(key)] : key \in {k \in keys : Matching(k) # <<>>}}

\* The indexed strategy, for many candidate groups: one pass over the rows
\* that appends each to the group of its key; the group's value is the one of
\* its first row.
partition_record_batch_indexed(rows) ==
  LET Add(gs, row) ==
        IF \E g \in gs : g.values = row.values
        THEN {IF g.values = row.values
              THEN [g EXCEPT !.rows = Append(@, row)] ELSE g : g \in gs}
        ELSE gs \cup {[values |-> row.values, rows |-> <<row>>]}
  IN  FoldLeft(Add, {}, rows)

\* Both strategies are possible: which one runs depends on sizes far above
\* the model's bounds.
partition_record_batch(rows) ==
  IF rows = <<>> THEN {{}} ELSE {by_predicates(rows), partition_record_batch_indexed(rows)}

-----------------------------------------------------------------------------
(* The router. *)

\* A task of write_parquet_files: its partition, what its channel holds and
\* whether the sender still has it open, the file it is writing and the files
\* it has closed.
NewTask(values, queue, open, state) ==
  [values |-> values, queue |-> queue, open |-> open, file |-> <<>>, closed |-> <<>>,
   rows_written |-> 0, state |-> state]

Init ==
  /\ input \in [batches : Streams, partitioned : BOOLEAN]
  /\ next = 1
  /\ groups = {}
  /\ senders = <<>>
  /\ tasks = IF input.partitioned THEN <<>>
             ELSE <<NewTask(<<>>, [n \in 1..Len(input.batches) |-> RowsOf(input.batches, n)],
                          FALSE, "running")>>
  /\ flushing = 0
  /\ files = {}
  /\ result = "none"
  /\ faults = 0

\* The call returns: the join set is dropped and aborts the tasks that still run.
Return(how) ==
  /\ result' = how
  /\ tasks' = [t \in DOMAIN tasks |-> IF tasks[t].state \in {"unspawned", "running"}
                                      THEN [tasks[t] EXCEPT !.state = "aborted"] ELSE tasks[t]]

\* The task whose channel is open for a partition, 0 for none.
SenderOf(values) ==
  LET open == {t \in Range(senders) : tasks[t].values = values}
  IN  IF open = {} THEN 0 ELSE CHOOSE t \in open : TRUE

\* What is left of the list when it is longer than the parallelism: the least
\* recently used channel is closed.
evicted(list) == IF Len(list) > Parallelism THEN {list[1]} ELSE {}

\* The next batch of the stream: first the list is shortened, then the batch
\* is split; an error of the stream ends the call.
NextBatch ==
  /\ result = "none" /\ input.partitioned /\ groups = {} /\ flushing = 0
  /\ next <= Len(input.batches)
  /\ next' = next + 1
  /\ IF input.batches[next] = BadBatch
     THEN Return("err") /\ UNCHANGED <<groups, senders>>
     ELSE /\ groups' \in partition_record_batch(RowsOf(input.batches, next))
          /\ senders' = SelectSeq(senders, LAMBDA t : t \notin evicted(senders))
          /\ tasks' = [t \in DOMAIN tasks |-> IF t \in evicted(senders)
                                              THEN [tasks[t] EXCEPT !.open = FALSE] ELSE tasks[t]]
          /\ UNCHANGED result
  /\ UNCHANGED <<input, flushing, files, faults>>

\* One part of the batch is sent.  The order of the parts is the one of a hash
\* set.  A known partition's channel becomes the most recently used and the
\* send is unwrapped: it panics when the writer task is gone.  A new
\* partition's first part is sent before its task is spawned.
SendGroup ==
  /\ result = "none" /\ flushing = 0
  /\ \E g \in groups :
       LET t == SenderOf(g.values)
       IN  /\ groups' = groups \ {g}
           /\ CASE t = 0 ->
                     /\ tasks' = Append(tasks, NewTask(g.values, <<g.rows>>, TRUE, "unspawned"))
                     /\ senders' = Append(senders, Len(tasks) + 1)
                     /\ flushing' = Len(tasks) + 1
                     /\ UNCHANGED result
                [] t # 0 /\ tasks[t].state = "running" ->
                     /\ tasks' = [tasks EXCEPT ![t].queue = Append(@, g.rows)]
                     /\ senders' = Append(SelectSeq(senders, LAMBDA s : s # t), t)
                     /\ flushing' = t
                     /\ UNCHANGED result
                [] OTHER -> Return("panic") /\ UNCHANGED <<senders, flushing>>
  /\ UNCHANGED <<input, next, files, faults>>

\* A slip: a channel without a buffer, channel(0).  The first batch of a
\* partition is sent before the task that takes it exists.
drained_only(queue) == Len(queue) > 0

\* channel(1): a message was sent into a channel that is still too full, the
\* sender is parked.
parked(queue) == Len(queue) > Buffer

\* The flush of a send ends once the channel has room or its receiver is gone;
\* only then is the task of a new partition spawned.
Flushed ==
  /\ result = "none" /\ flushing # 0
  /\ parked(tasks[flushing].queue) => tasks[flushing].state = "failed"
  /\ flushing' = 0
  /\ tasks' = IF tasks[flushing].state = "unspawned"
              THEN [tasks EXCEPT ![flushing].state = "running"] ELSE tasks
  /\ UNCHANGED <<input, next, groups, senders, files, result, faults>>

\* The stream has ended: every channel that is still open is closed.
CloseChannels ==
  /\ result = "none" /\ groups = {} /\ flushing = 0 /\ senders # <<>>
  /\ next > Len(input.batches)
  /\ senders' = <<>>
  /\ tasks' = [t \in DOMAIN tasks |-> [tasks[t] EXCEPT !.open = FALSE]]
  /\ UNCHANGED <<input, next, groups, flushing, files, result, faults>>

\* The router is past its loop: it only waits for the tasks.
Joining ==
  /\ result = "none" /\ groups = {} /\ flushing = 0 /\ senders = <<>>
  /\ input.partitioned => next > Len(input.batches)

\* The data files a task reports.
Reported(task) == {[values |-> task.values, rows |-> f] : f \in Range(task.closed)}

\* A finished task is joined, in the order the tasks finish; the first error
\* is the call's.
JoinNext ==
  /\ Joining
  /\ \E t \in DOMAIN tasks :
       /\ tasks[t].state \in {"done", "failed"}
       /\ IF tasks[t].state = "failed"
          THEN Return("err") /\ UNCHANGED files
          ELSE /\ files' = files \cup Reported(tasks[t])
               /\ tasks' = [tasks EXCEPT ![t].state = "joined"]
               /\ UNCHANGED result
  /\ UNCHANGED <<input, next, groups, senders, flushing, faults>>

\* All tasks are joined.
Finish ==
  /\ Joining
  /\ \A t \in DOMAIN tasks : tasks[t].state = "joined"
  /\ result' = "ok"
  /\ UNCHANGED <<input, next, groups, senders, tasks, flushing, files, faults>>

-----------------------------------------------------------------------------
(* write_parquet_files: one writer. *)

\* The size at which a file is full; a zero or unparsable value is not used.
target_file_size ==
  IF TargetProperty > 0 THEN TargetProperty ELSE DefaultTargetSize

\* A batch is folded into the writer's state: a file that has reached the
\* target size is closed before the batch is written, whether or not the batch
\* has rows.
write_batch(task, batch) ==
  LET full == Len(task.file) >= target_file_size
  IN  [task EXCEPT !.closed = IF full THEN Append(@, task.file) ELSE @,
                   !.file = (IF full THEN <<>> ELSE task.file) \o batch,
                   !.rows_written = @ + Len(batch)]

\* The stream of a task has ended: the last file is closed and handed on; a
\* task without a row reports no file.
finish(task) ==
  [task EXCEPT !.closed = IF task.rows_written = 0 THEN <<>> ELSE Append(@, task.file),
               !.file = <<>>, !.state = "done"]

\* A task takes the next batch of its channel; an error in it is the task's.
WriteBatch(t) ==
  /\ tasks[t].state = "running" /\ tasks[t].queue # <<>>
  /\ LET batch == Head(tasks[t].queue)
         rest  == [tasks[t] EXCEPT !.queue = Tail(@)]
     IN  tasks' = [tasks EXCEPT ![t] = IF IsError(batch) THEN [rest EXCEPT !.state = "failed"]
                                       ELSE write_batch(rest, batch)]
  /\ UNCHANGED <<input, next, groups, senders, flushing, files, result, faults>>

\* Its channel is closed and empty: the task reads the sizes of its files back
\* and returns them.
FinishTask(t) ==
  /\ tasks[t].state = "running" /\ tasks[t].queue = <<>> /\ ~tasks[t].open
  /\ tasks' = [tasks EXCEPT ![t] = finish(tasks[t])]
  /\ UNCHANGED <<input, next, groups, senders, flushing, files, result, faults>>

\* An object store call of the task fails; its receiver is dropped.
TaskFails(t) ==
  /\ tasks[t].state = "running" /\ result = "none" /\ faults < MaxFaults
  /\ faults' = faults + 1
  /\ tasks' = [tasks EXCEPT ![t].state = "failed", ![t].queue = <<>>]
  /\ UNCHANGED <<input, next, groups, senders, flushing, files, result>>

Router == NextBatch \/ SendGroup \/ Flushed \/ CloseChannels \/ JoinNext \/ Finish

Task(t) == WriteBatch(t) \/ FinishTask(t)

Next ==
  \/ Router
  \/ \E t \in DOMAIN tasks : Task(t) \/ TaskFails(t)

-----------------------------------------------------------------------------
(* Properties. *)

\* The rows of the stream, in order.
AllRows == [n \in 1..Len(input.batches) |->
              IF input.batches[n] = BadBatch THEN <<>> ELSE RowsOf(input.batches, n)]

Ids(rows) == [i \in DOMAIN rows |-> rows[i].id]

InputRows == UNION {Range(AllRows[n]) : n \in DOMAIN AllRows}

\* Every row of the stream is in exactly one file, one of the row's own
\* partition, in the order of the stream.
WrittenOnce ==
  LET stream == Ids(FlattenSeq(AllRows))
  IN  /\ \A row \in InputRows :
           \E f \in files : row \in Range(f.rows) /\ \A g \in files \ {f} : row \notin Range(g.rows)
      /\ \A f \in files :
           /\ IsInjective(f.rows) /\ Range(f.rows) \subseteq InputRows
           /\ input.partitioned => \A row \in Range(f.rows) : row.values = f.values
           /\ \A s \in Sorts : ClaimHolds(s, stream, Ids(f.rows))

\* The stream of an unpartitioned table ends with batches without a row, and the
\* rows before them have filled their file.
EmptyAfterFull ==
  /\ ~input.partitioned /\ Last(input.batches) = <<>>
  /\ \E f \in files : /\ Len(f.rows) >= target_file_size
                      /\ \A row \in InputRows : row.id <= Last(f.rows).id

\* A call that returns files has written every row of the stream into exactly
\* one of them, in a file of the row's own partition, whatever the evictions,
\* the rolls and the order in which the tasks run.  The rows of a file are in
\* the order of the stream, so that what a scan claims of a file that attests
\* the table's sort order is true.  A file without rows is among them exactly
\* when empty batches follow a full file; "no empty file is ever emitted", says
\* the comment in write_parquet_files (iceberg-rust/src/arrow/write.rs:497-500).
RowsWrittenOnce ==
  result = "ok" =>
    /\ WrittenOnce
    /\ (\E f \in files : f.rows = <<>>) <=> EmptyAfterFull

\* A call returns, with files, an error or a panic: the router never waits
\* for a channel nobody empties and no task waits for a channel nobody closes.
Returned == result \in {"ok", "err", "panic"}

WriteReturns == <>Returned

=============================================================================
