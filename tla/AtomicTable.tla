---------------------------- MODULE AtomicTable ----------------------------
(***************************************************************************)
(* What a catalog promises about one table identifier, whatever its        *)
(* storage: the table is created, committed to and dropped in atomic       *)
(* steps; a commit appends itself to the history of the table it read; a   *)
(* commit that carries a snapshot (kind "data", asserting the snapshot its *)
(* ref had) only lands on top of the snapshot it was built from; and a     *)
(* table created after a drop is a new table.                              *)
(***************************************************************************)
EXTENDS Naturals, Sequences

CONSTANT Ids   \* names of tables and commits: positive numbers

VARIABLES
  table,   \* the table the identifier names, or NoTable
  uuids    \* the uuid of every table the identifier has ever named

NoTable == [uuid |-> 0, commits |-> <<>>, head |-> 0]

Kinds == {"data", "props"}

Commits == [id : Ids, kind : Kinds, base : Ids \cup {0}]

Init ==
  /\ table = NoTable
  /\ uuids = {}

\* A new table: fresh uuid, no commits, no snapshot.
Create(u) ==
  /\ table.uuid = 0
  /\ u \notin uuids
  /\ table' = [uuid |-> u, commits |-> <<>>, head |-> 0]
  /\ uuids' = uuids \cup {u}

\* A commit: the requirement its builder stated holds at the very moment the
\* history grows.
Commit(k) ==
  /\ table.uuid # 0
  /\ \A i \in 1 .. Len(table.commits) : table.commits[i].id # k.id
  /\ k.kind = "data" => k.base = table.head
  /\ table' = [uuid    |-> table.uuid,
               commits |-> Append(table.commits, k),
               head    |-> IF k.kind = "data" THEN k.id ELSE table.head]
  /\ UNCHANGED uuids

Drop ==
  /\ table.uuid # 0
  /\ table' = NoTable
  /\ UNCHANGED uuids

Next ==
  \/ uuids' # uuids /\ \E u \in Ids : Create(u)
  \/ table' # table /\ \E k \in Commits : Commit(k)
  \/ Drop

Spec == Init /\ [][Next]_<<table, uuids>>

-----------------------------------------------------------------------------
(* A weaker promise: creations are not refused where there is a table, and *)
(* only from its first commit on is the table atomic.  (No drops.)         *)

Empty(u) == [uuid |-> u, commits |-> <<>>, head |-> 0]

\* A creation over a table: it replaces one without commits, and is not
\* noticed once there is a commit.
CreateOver(u) ==
  /\ table.uuid # 0
  /\ u \notin uuids
  /\ table' = IF table.commits = <<>> THEN Empty(u) ELSE table
  /\ uuids' = uuids \cup {u}

\* The first commit decides which of the tables created it is: the one that its
\* writer has.
FirstCommit(k, u) ==
  /\ u \in uuids
  /\ table.commits = <<>>
  /\ k.kind = "data" => k.base = 0
  /\ table' = [uuid    |-> u,
               commits |-> <<k>>,
               head    |-> IF k.kind = "data" THEN k.id ELSE 0]
  /\ UNCHANGED uuids

UncheckedNext ==
  \/ uuids' # uuids /\ \E u \in Ids : Create(u) \/ CreateOver(u)
  \/ table' # table /\ \E k \in Commits : Commit(k) \/ \E u \in uuids : FirstCommit(k, u)

UncheckedSpec == Init /\ [][UncheckedNext]_<<table, uuids>>
=============================================================================
