----------------------------- MODULE DemuxSink ------------------------------
(***************************************************************************)
(* INSERT through DataFusion (datafusion_iceberg/src/table/mod.rs,         *)
(* IcebergDataSink and write_parquet_files): a task, the demuxer, sends    *)
(* the batches of the input to one stream per file and hands the files'    *)
(* receivers to DataFusion's ParquetSink over an unbounded channel; the    *)
(* sink writes every file in a task of its own.  The state is that of      *)
(* ParquetWriter: tasks are files here, "unspawned" while the receiver is  *)
(* on its way to the sink.  A channel of tokio with one place: a send      *)
(* waits for the place, and fails once the receiver is dropped.            *)
(*                                                                         *)
(* result is "demuxed", "failing" or "panicking" once the demuxer has      *)
(* ended and until the sink has joined the files' tasks.                   *)
(***************************************************************************)
EXTENDS ParquetWriter

CONSTANTS MaxRowsPerFile,        \* soft_max_rows_per_output_file
          MinimumParallelFiles   \* minimum_parallel_output_files

\* start_demuxer_task.
SinkInit ==
  /\ input \in [batches : Streams, partitioned : BOOLEAN]
  /\ next = 1 /\ groups = {} /\ senders = <<>> /\ tasks = <<>> /\ flushing = 0
  /\ files = {} /\ result = "none" /\ faults = 0

\* The demuxer ends: its senders are dropped, and with them the channel of files.
DemuxEnds(how) ==
  /\ result' = how
  /\ senders' = <<>>
  /\ tasks' = [t \in DOMAIN tasks |-> [tasks[t] EXCEPT !.open = FALSE]]

\* A place in the channel, or a receiver that is gone.
Ready(t) == tasks[t].state = "failed" \/ Len(tasks[t].queue) < Buffer

\* The next batch of the input: first its error, then the shortened list, then
\* the split.
partitions_demuxer ==
  /\ result = "none" /\ input.partitioned /\ groups = {} /\ next <= Len(input.batches)
  /\ next' = next + 1
  /\ IF input.batches[next] = BadBatch
     THEN DemuxEnds("failing") /\ UNCHANGED groups
     ELSE /\ groups' \in partition_record_batch(RowsOf(input.batches, next))
          /\ senders' = SelectSeq(senders, LAMBDA t : t \notin evicted(senders))
          /\ tasks' = [t \in DOMAIN tasks |-> IF t \in evicted(senders)
                                              THEN [tasks[t] EXCEPT !.open = FALSE] ELSE tasks[t]]
          /\ UNCHANGED result
  /\ UNCHANGED <<input, flushing, files, faults>>

\* One part of the batch is sent.  A new partition's first part is in the
\* channel before its receiver is handed on; a send to a file that failed is
\* unwrapped.
SendPart ==
  /\ result = "none"
  /\ \E g \in groups :
       LET t == SenderOf(g.values)
       IN  /\ t # 0 => Ready(t)
           /\ groups' = groups \ {g}
           /\ CASE t = 0 ->
                     /\ tasks' = Append(tasks, NewTask(g.values, <<g.rows>>, TRUE, "unspawned"))
                     /\ senders' = Append(senders, Len(tasks) + 1)
                     /\ UNCHANGED result
                [] t # 0 /\ tasks[t].state # "failed" ->
                     /\ tasks' = [tasks EXCEPT ![t].queue = Append(@, g.rows)]
                     /\ senders' = Append(SelectSeq(senders, LAMBDA s : s # t), t)
                     /\ UNCHANGED result
                [] OTHER -> DemuxEnds("panicking")
  /\ UNCHANGED <<input, next, flushing, files, faults>>

\* The rows a stream has been given (row_counts).
row_count(t) == tasks[t].rows_written + FoldLeft(LAMBDA sum, b : sum + Len(b), 0, tasks[t].queue)

\* The stream that is next in turn is full.
full(turn) == row_count(senders[turn]) >= MaxRowsPerFile

\* create_new_file_stream: the receiver of a new file is handed to the sink.
create_new_file_stream(turn, batch) ==
  /\ tasks' = [t \in 1 .. Len(tasks) + 1 |->
                 IF t > Len(tasks) THEN NewTask(<<>>, <<batch>>, TRUE, "unspawned")
                 ELSE IF turn <= Len(senders) /\ t = senders[turn]
                      THEN [tasks[t] EXCEPT !.open = FALSE] ELSE tasks[t]]
  /\ senders' = IF turn <= Len(senders) THEN [senders EXCEPT ![turn] = Len(tasks) + 1]
                ELSE Append(senders, Len(tasks) + 1)
  /\ UNCHANGED result

\* An unpartitioned table: the batches go to the files in turn, and a file that
\* has its rows makes place for a new one.
row_count_demuxer ==
  /\ result = "none" /\ ~input.partitioned /\ next <= Len(input.batches)
  /\ next' = next + 1
  /\ LET turn == ((next - 1) % MinimumParallelFiles) + 1
         rows == RowsOf(input.batches, next)
     IN  IF input.batches[next] = BadBatch THEN DemuxEnds("failing")
         ELSE IF Len(senders) < MinimumParallelFiles \/ full(turn)
         THEN create_new_file_stream(turn, rows)
         ELSE /\ Ready(senders[turn])
              /\ IF tasks[senders[turn]].state = "failed" THEN DemuxEnds("failing")
                 ELSE /\ tasks' = [tasks EXCEPT ![senders[turn]].queue = Append(@, rows)]
                      /\ UNCHANGED <<senders, result>>
  /\ UNCHANGED <<input, groups, flushing, files, faults>>

\* The input has ended.
DemuxDone ==
  /\ result = "none" /\ groups = {} /\ next > Len(input.batches)
  /\ DemuxEnds("demuxed")
  /\ UNCHANGED <<input, next, groups, flushing, files, faults>>

-----------------------------------------------------------------------------
(* DataFusion's sink, spawn_writer_tasks_and_join. *)

\* The sink receives a file and spawns its task.
TakeFile(t) ==
  /\ tasks[t].state = "unspawned" /\ \A s \in 1 .. t - 1 : tasks[s].state # "unspawned"
  /\ tasks' = [tasks EXCEPT ![t].state = "running"]
  /\ UNCHANGED <<input, next, groups, senders, flushing, files, result, faults>>

\* The task writes a batch; when the stream has ended the file is complete.
WriteFile(t) ==
  /\ tasks[t].state = "running"
  /\ IF tasks[t].queue # <<>>
     THEN tasks' = [tasks EXCEPT ![t].queue = Tail(@), ![t].file = @ \o Head(tasks[t].queue),
                                 ![t].rows_written = @ + Len(Head(tasks[t].queue))]
     ELSE /\ ~tasks[t].open
          /\ tasks' = [tasks EXCEPT ![t].state = "done", ![t].closed = <<tasks[t].file>>]
  /\ UNCHANGED <<input, next, groups, senders, flushing, files, result, faults>>

\* No more files come: the tasks are joined, and then the demuxer.
SinkJoins ==
  /\ result \in {"demuxed", "failing", "panicking"}
  /\ \A t \in DOMAIN tasks : tasks[t].state # "unspawned"
  /\ \/ \E t \in DOMAIN tasks :
          \/ /\ tasks[t].state = "done"
             /\ files' = files \cup Reported(tasks[t])
             /\ tasks' = [tasks EXCEPT ![t].state = "joined"]
             /\ UNCHANGED result
          \/ /\ tasks[t].state = "failed"
             /\ Return("err") /\ UNCHANGED files
     \/ /\ \A t \in DOMAIN tasks : tasks[t].state = "joined"
        /\ result' = CASE result = "demuxed" -> "ok" [] result = "failing" -> "err"
                       [] OTHER -> "panic"
        /\ UNCHANGED <<tasks, files>>
  /\ UNCHANGED <<input, next, groups, senders, flushing, faults>>

\* A write to the object store fails.
FileFails(t) ==
  /\ tasks[t].state = "running" /\ faults < MaxFaults
  /\ result \notin {"ok", "err", "panic"}
  /\ faults' = faults + 1
  /\ tasks' = [tasks EXCEPT ![t].state = "failed", ![t].queue = <<>>]
  /\ UNCHANGED <<input, next, groups, senders, flushing, files, result>>

SinkProgress ==
  \/ partitions_demuxer \/ SendPart \/ row_count_demuxer \/ DemuxDone \/ SinkJoins
  \/ \E t \in DOMAIN tasks : TakeFile(t) \/ WriteFile(t)

SinkNext == SinkProgress \/ \E t \in DOMAIN tasks : FileFails(t)

-----------------------------------------------------------------------------
(* The insert. *)

\* insert_into: the transaction's operation; REPLACE INTO is refused.
insert_into(insert_op) ==
  CASE insert_op = "Append" -> {"append_data"} [] insert_op = "Overwrite" -> {"replace"}
    [] insert_op = "Replace" -> {}

\* IcebergDataSink::write_all: the files are committed, appended to the table's
\* or in their place, and their rows are counted.
write_all(operation, old, written) ==
  [table |-> IF operation = "append_data" THEN old \cup written ELSE written,
   rows |-> FoldLeft(LAMBDA sum, f : sum + Len(f.rows), 0, SetToSeq(written))]

\* An insert that succeeds has written every row of its input into one file of
\* its own partition, counts them all, and leaves the table with those rows,
\* besides the old ones if it appends; whatever the turns, the evictions and
\* the order in which the tasks run.
InsertExact ==
  result = "ok" =>
    /\ WrittenOnce
    /\ \A insert_op \in {"Append", "Overwrite", "Replace"} : \A operation \in insert_into(insert_op) :
         LET old == [values |-> <<>>, rows |-> <<[id |-> 0]>>]
             w == write_all(operation, {old}, files)
         IN  /\ w.rows = Cardinality(InputRows)
             /\ UNION {Range(f.rows) : f \in w.table}
                  = InputRows \cup IF insert_op = "Append" THEN {[id |-> 0]} ELSE {}

=============================================================================
