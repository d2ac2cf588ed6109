------------------------------ MODULE ForkNode ------------------------------
(***************************************************************************)
(* The fork of a physical plan                                             *)
(* (datafusion_iceberg/src/materialized_view/delta_queries/fork_node.rs).  *)
(*                                                                         *)
(* A delta query uses one subplan in two places.  fork_node puts a node in *)
(* each; for every partition the node that is executed first runs the      *)
(* input and sends a copy of each batch over a channel of capacity 0, and  *)
(* the one executed second reads that channel.  The input may have fewer   *)
(* or more partitions than the node.                                       *)
(*                                                                         *)
(* A batch is a pair of its input partition and its position; Failed marks *)
(* an error of the input.  Each stream is polled by a task of its own,     *)
(* until it ends, fails or is dropped.                                     *)
(***************************************************************************)
EXTENDS Integers, Sequences, FiniteSets, SequencesExt

CONSTANTS Inputs,       \* sequences of the input partitions' sizes
          Partitions,   \* the partitions of the node (available_parallelism)
          MaxFaults,    \* bound on input errors
          MaxDrops      \* bound on streams that are dropped before their end

Branches == {"one", "two"}

VARIABLES sizes,        \* how many batches each input partition has
          executed,     \* per partition: the branches that executed it, the first one sends
          todo,         \* per partition: the batches its input streams still have
          slot,         \* per partition: the copy that waits to be taken, <<>> for none
          open,         \* per partition: whether the channel is open
          out,          \* per branch and partition: the batches its stream has yielded
          ended,        \* per branch and partition: "no", "end", "error" or "dropped"
          faults, drops

vars == <<sizes, executed, todo, slot, open, out, ended, faults, drops>>

PartitionIds == 0..Partitions - 1

\* The copy was taken, and its sender has not been woken yet.
Taken == <<<<0, 0>>>>

\* A slip: the remainder is forgotten.
whole_rounds(inputs, p) == IF inputs \div Partitions = 0 THEN 1 ELSE inputs \div Partitions

\* How many input partitions a partition of the node runs.
input_count(inputs, p) ==
  inputs \div Partitions + IF p < inputs % Partitions THEN 1 ELSE 0

\* The input partitions a partition of the node runs, chained.
InputsOf(p) ==
  IF p >= Len(sizes) THEN <<>>
  ELSE [x \in 1..input_count(Len(sizes), p) |-> (x - 1) * Partitions + p]

\* The batches of input partition i (counted from 0).
BatchesOf(i) == [k \in 1..sizes[i + 1] |-> <<i, k>>]

StreamOf(p) == FlattenSeq([x \in DOMAIN InputsOf(p) |-> BatchesOf(InputsOf(p)[x])])

Init ==
  /\ sizes \in Inputs
  /\ executed = [p \in PartitionIds |-> <<>>]
  /\ todo = [p \in PartitionIds |-> <<>>]
  /\ slot = [p \in PartitionIds |-> <<>>]
  /\ open = [p \in PartitionIds |-> TRUE]
  /\ out = [b \in Branches |-> [p \in PartitionIds |-> <<>>]]
  /\ ended = [b \in Branches |-> [p \in PartitionIds |-> "no"]]
  /\ faults = 0
  /\ drops = 0

Sender(b, p) == executed[p] # <<>> /\ executed[p][1] = b

Receiver(b, p) == Len(executed[p]) = 2 /\ executed[p][2] = b

\* The other branch's stream for a partition.
OtherOf(b) == CHOOSE o \in Branches : o # b

\* execute: compare_exchange decides which branch sends; the sender's input
\* streams are opened and chained.
Execute(b, p) ==
  /\ ended[b][p] = "no" /\ b \notin Range(executed[p])
  /\ executed' = [executed EXCEPT ![p] = Append(@, b)]
  /\ todo' = IF executed[p] = <<>> THEN [todo EXCEPT ![p] = StreamOf(p)] ELSE todo
  /\ UNCHANGED <<sizes, slot, open, out, ended, faults, drops>>

\* The sender's stream is polled: it takes the next batch of the input and
\* sends the copy.  A receiver that was dropped makes the send fail.
SendBatch(b, p) ==
  /\ Sender(b, p) /\ ended[b][p] = "no" /\ todo[p] # <<>> /\ slot[p] = <<>>
  /\ IF ended[OtherOf(b)][p] = "dropped"
     THEN /\ ended' = [ended EXCEPT ![b][p] = "error"]
          /\ open' = [open EXCEPT ![p] = FALSE]
          /\ UNCHANGED slot
     ELSE /\ slot' = [slot EXCEPT ![p] = <<Head(todo[p])>>]
          /\ UNCHANGED <<ended, open>>
  /\ UNCHANGED <<sizes, executed, todo, out, faults, drops>>

\* The send is flushed once the copy was taken or the receiver is gone; only
\* then does the sender yield the batch itself.
YieldSent(b, p) ==
  /\ Sender(b, p) /\ ended[b][p] = "no" /\ slot[p] # <<>>
  /\ ended[OtherOf(b)][p] # "dropped" => slot[p] = Taken
  /\ out' = [out EXCEPT ![b][p] = Append(@, Head(todo[p]))]
  /\ todo' = [todo EXCEPT ![p] = Tail(@)]
  /\ slot' = [slot EXCEPT ![p] = <<>>]
  /\ UNCHANGED <<sizes, executed, open, ended, faults, drops>>

\* A slip: the end of the input does not close the channel.
ends_silently(b, p) ==
  /\ Sender(b, p) /\ ended[b][p] = "no" /\ todo[p] = <<>>
  /\ ended' = [ended EXCEPT ![b][p] = "end"]
  /\ UNCHANGED <<sizes, executed, todo, slot, open, out, faults, drops>>

\* The input is exhausted: the channel is closed and the stream ends.
EndSender(b, p) ==
  /\ Sender(b, p) /\ ended[b][p] = "no" /\ todo[p] = <<>>
  /\ open' = [open EXCEPT ![p] = FALSE]
  /\ ended' = [ended EXCEPT ![b][p] = "end"]
  /\ UNCHANGED <<sizes, executed, todo, slot, out, faults, drops>>

\* The input fails: the sender's branch sees the error and drops the stream,
\* which closes the channel; nothing is sent to the other branch.
InputFails(b, p) ==
  /\ Sender(b, p) /\ ended[b][p] = "no" /\ todo[p] # <<>> /\ slot[p] = <<>>
  /\ faults < MaxFaults
  /\ faults' = faults + 1
  /\ ended' = [ended EXCEPT ![b][p] = "error"]
  /\ open' = [open EXCEPT ![p] = FALSE]
  /\ UNCHANGED <<sizes, executed, todo, slot, out, drops>>

\* The receiver's stream is polled: it takes a waiting copy, or ends once the
\* channel is closed and empty.
Receive(b, p) ==
  /\ Receiver(b, p) /\ ended[b][p] = "no"
  /\ \/ /\ slot[p] # <<>> /\ slot[p] # Taken
        /\ out' = [out EXCEPT ![b][p] = Append(@, slot[p][1])]
        /\ slot' = [slot EXCEPT ![p] = Taken]
        /\ UNCHANGED ended
     \/ /\ slot[p] \in {<<>>, Taken} /\ ~open[p]
        /\ ended' = [ended EXCEPT ![b][p] = "end"]
        /\ UNCHANGED <<out, slot>>
  /\ UNCHANGED <<sizes, executed, todo, open, faults, drops>>

\* The plan above drops a stream it needs no more of (a limit, a join with an
\* empty side, a failed query): dropping the sender's closes the channel.
Drop(b, p) ==
  /\ b \in Range(executed[p]) /\ ended[b][p] = "no" /\ drops < MaxDrops
  /\ drops' = drops + 1
  /\ ended' = [ended EXCEPT ![b][p] = "dropped"]
  /\ open' = IF Sender(b, p) THEN [open EXCEPT ![p] = FALSE] ELSE open
  /\ UNCHANGED <<sizes, executed, todo, slot, out, faults>>

Poll(b, p) ==
  \/ Execute(b, p) \/ SendBatch(b, p) \/ YieldSent(b, p)
  \/ EndSender(b, p) \/ Receive(b, p)

Next ==
  \E b \in Branches, p \in PartitionIds : Poll(b, p) \/ InputFails(b, p) \/ Drop(b, p)

\* Each stream is polled by a task of its own.
Spec == Init /\ [][Next]_vars /\ \A b \in Branches, p \in PartitionIds : WF_vars(Poll(b, p))

-----------------------------------------------------------------------------
(* Properties. *)

Ended == \A b \in Branches, p \in PartitionIds : ended[b][p] # "no"

\* A partition that both branches read to the end gave both the same batches,
\* whatever failed or was dropped in other partitions; and when all partitions
\* were read to the end, every input partition was run by exactly one of them
\* and its batches came in order, none missing: whichever branch was executed
\* first where, and however the partition counts differ.
BranchesSeeEverything ==
  /\ \A p \in PartitionIds : (\A b \in Branches : ended[b][p] = "end") => out["one"][p] = out["two"][p]
  /\ (\A b \in Branches, p \in PartitionIds : ended[b][p] = "end") =>
       \A i \in 0..Len(sizes) - 1 : sizes[i + 1] > 0 =>
         LET with == {p \in PartitionIds : \E n \in DOMAIN out["one"][p] : out["one"][p][n][1] = i}
         IN  /\ Cardinality(with) = 1
             /\ \A p \in with :
                  SelectSeq(out["one"][p], LAMBDA batch : batch[1] = i) = BatchesOf(i)

\* Every stream comes to an end: neither branch waits for ever for the other.
StreamsEnd == <>Ended
=============================================================================
