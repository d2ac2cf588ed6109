----------------------------- MODULE SqlCatalog -----------------------------
(***************************************************************************)
(* The commit protocol of the SQL catalog for one table identifier         *)
(* (src/catalogs/iceberg-sql-catalog/src/lib.rs).                          *)
(*                                                                         *)
(* A row of iceberg_tables points at a metadata file in the object store.  *)
(* Several catalog instances (processes) share the database and the store; *)
(* each keeps its own cache.  Clients are tasks that call one instance:    *)
(* load_tabular, create_table, update_table and drop_table run one await   *)
(* at a time, and the steps of different clients interleave.  A call that  *)
(* returns an error without having changed anything is a stuttering step   *)
(* and has no action.                                                      *)
(*                                                                         *)
(* Metadata is abstracted to what the protocol tells apart: the table's    *)
(* uuid, the commits that built it, the snapshot of its main ref (the id   *)
(* of the last "data" commit) and the metadata log.  Every metadata file   *)
(* has a fresh uuid in its name, so a location is a number never reused.   *)
(***************************************************************************)
EXTENDS CatalogClients, Naturals, Sequences, Functions

CONSTANTS
  PreviousVersionsMax,  \* write.metadata.previous-versions-max
  DeleteAfterCommit,    \* write.metadata.delete-after-commit.enabled
  MaxLocs,              \* bound: metadata files written in a behaviour
  MaxFaults             \* bound: I/O errors and crashes in a behaviour

ASSUME ConstantsAssumption ==
  /\ PreviousVersionsMax \in Nat
  /\ DeleteAfterCommit \in BOOLEAN
  /\ MaxLocs \in Nat
  /\ MaxFaults \in Nat

VARIABLES
  row,        \* metadata_location of the identifier's row, 0 when there is none
  files,      \* the object store: location -> metadata
  hint,       \* location version-hint.text was last written for
  cache,      \* per instance: the cached entry of the identifier
  handle,     \* per client: the metadata of the Table value it holds
  task,       \* per client: the call in progress
  nextLoc,    \* the next unused location
  faults,     \* I/O errors and crashes so far
  published,  \* history: every entry the row has pointed at
  acked       \* history: the commits reported Ok to their caller

vars == <<row, files, hint, cache, handle, task, nextLoc, faults, published, acked>>

-----------------------------------------------------------------------------
(* Data *)

Locs == Nat \ {0}
Kinds == {"data", "props"}
Commits == [id : Locs, kind : Kinds, base : Nat]
Metadata == [uuid : Nat, commits : Seq(Commits), head : Nat, log : Seq(Locs)]

NoMetadata == [uuid |-> 0, commits |-> <<>>, head |-> 0, log |-> <<>>]
Entry == [loc : Nat, metadata : Metadata]
NoEntry == [loc |-> 0, metadata |-> NoMetadata]

Pcs == {"idle", "get", "load_cache", "insert", "create_cache",
        "swap", "delete", "update_cache"}

Tasks == [pc : Pcs, prev : Nat, entry : Entry, expired : Seq(Locs)]

IdleTask == [pc |-> "idle", prev |-> 0, entry |-> NoEntry, expired |-> <<>>]

\* The object store after one more file.
Put(f, l, m) == [x \in DOMAIN f \cup {l} |-> IF x = l THEN m ELSE f[x]]

\* check_table_requirements of a transaction built on base, against the
\* metadata m: always the table's uuid; for a commit that adds a snapshot
\* also that the ref still has the snapshot the transaction started from.
\* (uuid_only: the slip of leaving the snapshot requirement out.)
uuid_only(kind, base, m) == m.uuid = base.uuid

check_table_requirements(kind, base, m) ==
  /\ m.uuid = base.uuid
  /\ kind = "data" => m.head = base.head

\* apply_table_updates: the commit joins the history; a data commit becomes
\* the snapshot of the ref.
apply_table_updates(m, k) ==
  [m EXCEPT !.commits = Append(@, k),
            !.head = IF k.kind = "data" THEN k.id ELSE @]

\* The metadata log of the new file: the superseded location joins it and
\* the oldest entries beyond previous-versions-max leave it.
Excess(log) ==
  IF Len(log) > PreviousVersionsMax THEN Len(log) - PreviousVersionsMax ELSE 0

log_metadata(m, prev) ==
  LET log == Append(m.log, prev)
  IN  [m EXCEPT !.log = SubSeq(log, Excess(log) + 1, Len(log))]

\* (expires_one_more: the slip of draining one entry too many.)
expires_one_more(m, prev) ==
  LET log == Append(m.log, prev) IN SubSeq(log, 1, Excess(log) + 1)

expired_metadata_files(m, prev) ==
  LET log == Append(m.log, prev) IN SubSeq(log, 1, Excess(log))

\* new_metadata_location: a name no file has had.  (same_location: the slip
\* of a name without a fresh uuid.)
same_location == nextLoc <= MaxLocs /\ UNCHANGED nextLoc

new_metadata_location ==
  /\ nextLoc <= MaxLocs
  /\ nextLoc' = nextLoc + 1

\* The where clause of swap_metadata_location: the identifier's row still has
\* the location the commit was built on.  (any_row: the slip of matching the
\* identifier alone.)
any_row(c) == row # 0

row_matches(c) == row = task[c].prev

\* An I/O error or a crash, of which a behaviour has at most MaxFaults.
Fault ==
  /\ faults < MaxFaults
  /\ faults' = faults + 1

\* put_version_hint, whose failure the callers ignore.
put_version_hint(l) ==
  \/ hint' = l /\ UNCHANGED faults
  \/ Fault /\ UNCHANGED hint

Init ==
  /\ row = 0
  /\ files = [l \in {} |-> NoMetadata]
  /\ hint = 0
  /\ cache = [i \in Instances |-> NoEntry]
  /\ handle = [c \in Clients |-> NoMetadata]
  /\ task = [c \in Clients |-> IdleTask]
  /\ nextLoc = 1
  /\ faults = 0
  /\ published = {}
  /\ acked = {}

-----------------------------------------------------------------------------
(* load_tabular *)

\* The select on iceberg_tables; no row is CatalogNotFound.  (LoadHint: the
\* slip of following version-hint.text instead.)
LoadHint(c) ==
  /\ task[c].pc = "idle"
  /\ row # 0
  /\ task' = [task EXCEPT ![c] = [IdleTask EXCEPT !.pc = "get", !.entry.loc = hint]]
  /\ UNCHANGED <<row, files, hint, cache, handle, nextLoc, published, faults, acked>>

LoadRow(c) ==
  /\ task[c].pc = "idle"
  /\ row # 0
  /\ task' = [task EXCEPT ![c] = [IdleTask EXCEPT !.pc = "get", !.entry.loc = row]]
  /\ UNCHANGED <<row, files, hint, cache, handle, nextLoc, published, faults, acked>>

\* The get of the file the row named; it fails when the file is gone.
LoadGet(c) ==
  LET l == task[c].entry.loc IN
  /\ task[c].pc = "get"
  /\ task' = [task EXCEPT ![c] =
       IF l \in DOMAIN files
       THEN [IdleTask EXCEPT !.pc = "load_cache",
                             !.entry = [loc |-> l, metadata |-> files[l]]]
       ELSE IdleTask]
  /\ UNCHANGED <<row, files, hint, cache, handle, nextLoc, published, faults, acked>>

\* The cache insert, and the Table returned to the caller.  (LoadOrInsert:
\* the slip of keeping an entry that is already cached.)
LoadOrInsert(c) ==
  /\ task[c].pc = "load_cache"
  /\ cache' = [cache EXCEPT ![InstanceOf[c]] = IF @ = NoEntry THEN task[c].entry ELSE @]
  /\ handle' = [handle EXCEPT ![c] = task[c].entry.metadata]
  /\ task' = [task EXCEPT ![c] = IdleTask]
  /\ UNCHANGED <<row, files, hint, nextLoc, published, faults, acked>>

LoadCache(c) ==
  /\ task[c].pc = "load_cache"
  /\ cache' = [cache EXCEPT ![InstanceOf[c]] = task[c].entry]
  /\ handle' = [handle EXCEPT ![c] = task[c].entry.metadata]
  /\ task' = [task EXCEPT ![c] = IdleTask]
  /\ UNCHANGED <<row, files, hint, nextLoc, published, faults, acked>>

-----------------------------------------------------------------------------
(* create_table *)

\* put_metadata of a new table, at a fresh location, with a fresh uuid, then
\* put_version_hint, whose failure is ignored.  The file is fresh and no
\* operation reads the hint, so the two writes are one step.
CreatePut(c) ==
  LET e == [loc |-> nextLoc, metadata |-> [NoMetadata EXCEPT !.uuid = nextLoc]] IN
  /\ task[c].pc = "idle"
  /\ new_metadata_location
  /\ files' = Put(files, e.loc, e.metadata)
  /\ task' = [task EXCEPT ![c] = [IdleTask EXCEPT !.pc = "insert", !.entry = e]]
  /\ put_version_hint(e.loc)
  /\ UNCHANGED <<row, cache, handle, published, acked>>

\* The insert succeeds; the primary key admits one row per identifier.
CreateInsert(c) ==
  /\ task[c].pc = "insert"
  /\ row = 0
  /\ row' = task[c].entry.loc
  /\ published' = published \cup {task[c].entry}
  /\ task' = [task EXCEPT ![c].pc = "create_cache"]
  /\ UNCHANGED <<files, hint, cache, handle, nextLoc, faults, acked>>

\* The insert fails: the identifier has a row already.
CreateExists(c) ==
  /\ task[c].pc = "insert"
  /\ row # 0
  /\ task' = [task EXCEPT ![c] = IdleTask]
  /\ UNCHANGED <<row, files, hint, cache, handle, nextLoc, faults, published, acked>>

\* The connection fails before or after the database applied the insert.
CreateError(c) ==
  /\ task[c].pc = "insert"
  /\ Fault
  /\ \/ UNCHANGED <<row, published>>
     \/ /\ row = 0
        /\ row' = task[c].entry.loc
        /\ published' = published \cup {task[c].entry}
  /\ task' = [task EXCEPT ![c] = IdleTask]
  /\ UNCHANGED <<files, hint, cache, handle, nextLoc, acked>>

CreateCache(c) ==
  /\ task[c].pc = "create_cache"
  /\ cache' = [cache EXCEPT ![InstanceOf[c]] = task[c].entry]
  /\ handle' = [handle EXCEPT ![c] = task[c].entry.metadata]
  /\ task' = [task EXCEPT ![c] = IdleTask]
  /\ UNCHANGED <<row, files, hint, nextLoc, published, faults, acked>>

-----------------------------------------------------------------------------
(* update_table *)

\* Everything before the compare-and-swap: read the cache entry (no entry is
\* the error "Create table assertion"), check the requirements against the
\* cached metadata, apply the updates, prune the log, write the new file and
\* the version hint (a failure to write the hint is ignored).  The file is
\* fresh and nothing refers to it yet, so writing it in the step that read
\* the cache hides no interleaving.
UpdatePut(c, kind) ==
  LET old  == cache[InstanceOf[c]]
      k    == [id |-> nextLoc, kind |-> kind, base |-> handle[c].head]
      m    == apply_table_updates(old.metadata, k)
      e    == [loc |-> nextLoc, metadata |-> log_metadata(m, old.loc)]
  IN
  /\ task[c].pc = "idle"
  /\ handle[c].uuid # 0
  /\ old.loc # 0
  /\ check_table_requirements(kind, handle[c], old.metadata)
  /\ new_metadata_location
  /\ files' = Put(files, e.loc, e.metadata)
  /\ task' = [task EXCEPT ![c] = [pc |-> "swap", prev |-> old.loc, entry |-> e,
                                  expired |-> expired_metadata_files(m, old.loc)]]
  /\ put_version_hint(e.loc)
  /\ UNCHANGED <<row, cache, handle, published, acked>>

\* swap_metadata_location: the update matched the row.
SwapWon(c) ==
  /\ task[c].pc = "swap"
  /\ row_matches(c)
  /\ row' = task[c].entry.loc
  /\ published' = published \cup {task[c].entry}
  /\ task' = [task EXCEPT ![c].pc = IF DeleteAfterCommit THEN "delete" ELSE "update_cache"]
  /\ UNCHANGED <<files, hint, cache, handle, nextLoc, faults, acked>>

\* swap_metadata_location: the update matched no row.  The cache entry is
\* dropped and the caller gets CommitConflict.
SwapLost(c) ==
  /\ task[c].pc = "swap"
  /\ ~row_matches(c)
  /\ cache' = [cache EXCEPT ![InstanceOf[c]] = NoEntry]
  /\ task' = [task EXCEPT ![c] = IdleTask]
  /\ UNCHANGED <<row, files, hint, handle, nextLoc, published, faults, acked>>

\* The database call itself reports an error, before or after the statement
\* was applied; the cache entry stays.
SwapError(c) ==
  /\ task[c].pc = "swap"
  /\ Fault
  /\ \/ UNCHANGED <<row, published>>
     \/ /\ row_matches(c)
        /\ row' = task[c].entry.loc
        /\ published' = published \cup {task[c].entry}
  /\ task' = [task EXCEPT ![c] = IdleTask]
  /\ UNCHANGED <<files, hint, cache, handle, nextLoc, acked>>

\* delete-after-commit: one expired file per step; a failed delete is ignored.
UpdateDelete(c) ==
  LET x == task[c].expired IN
  /\ task[c].pc = "delete"
  /\ IF x = <<>>
     THEN /\ task' = [task EXCEPT ![c].pc = "update_cache"]
          /\ UNCHANGED <<files, faults>>
     ELSE /\ task' = [task EXCEPT ![c].expired = Tail(x)]
          /\ \/ /\ files' = Restrict(files, DOMAIN files \ {Head(x)})
                /\ UNCHANGED faults
             \/ Fault /\ UNCHANGED files
  /\ UNCHANGED <<row, hint, cache, handle, nextLoc, published, acked>>

\* The cache insert, and Ok with the new Table to the caller.
UpdateCache(c) ==
  LET e == task[c].entry IN
  /\ task[c].pc = "update_cache"
  /\ cache' = [cache EXCEPT ![InstanceOf[c]] = e]
  /\ handle' = [handle EXCEPT ![c] = e.metadata]
  /\ acked' = acked \cup {[uuid |-> e.metadata.uuid, id |-> e.loc]}
  /\ task' = [task EXCEPT ![c] = IdleTask]
  /\ UNCHANGED <<row, files, hint, nextLoc, faults, published>>

-----------------------------------------------------------------------------
(* drop_table, and the loss of a process *)

\* delete_tabular_reference: the row goes, the caches of all instances stay.
DropTable(c) ==
  /\ task[c].pc = "idle"
  /\ row # 0
  /\ row' = 0
  /\ UNCHANGED <<files, hint, cache, handle, task, nextLoc, published, faults, acked>>

\* The process of an instance stops and restarts: cache, calls in progress
\* and the tables its clients held are gone; database and store remain.
Crash(i) ==
  /\ Fault
  /\ \E c \in Clients : InstanceOf[c] = i /\ task[c].pc # "idle"
  /\ cache' = [cache EXCEPT ![i] = NoEntry]
  /\ task' = [c \in Clients |-> IF InstanceOf[c] = i THEN IdleTask ELSE task[c]]
  /\ handle' = [c \in Clients |-> IF InstanceOf[c] = i THEN NoMetadata ELSE handle[c]]
  /\ UNCHANGED <<row, files, hint, nextLoc, published, acked>>

-----------------------------------------------------------------------------

\* The steps a call in progress takes by itself.
Proceed(c) ==
  \/ LoadGet(c) \/ LoadCache(c)
  \/ CreateInsert(c) \/ CreateExists(c) \/ CreateError(c) \/ CreateCache(c)
  \/ SwapWon(c) \/ SwapLost(c) \/ SwapError(c)
  \/ UpdateDelete(c) \/ UpdateCache(c)

\* The calls a client may make.
Call(c) ==
  \/ LoadRow(c)
  \/ CreatePut(c)
  \/ \E kind \in Kinds : UpdatePut(c, kind)
  \/ DropTable(c)

Next ==
  \/ \E c \in Clients : Proceed(c) \/ Call(c)
  \/ \E i \in Instances : Crash(i)

Spec == Init /\ [][Next]_vars
-----------------------------------------------------------------------------
(* Properties *)

\* Types of all the state; the locations in use are below nextLoc, so that
\* the next one is fresh.
TypeOK ==
  /\ row \in Nat
  /\ DOMAIN files \subseteq 1 .. nextLoc - 1
  /\ \A l \in DOMAIN files : files[l] \in Metadata
  /\ hint \in Nat
  /\ cache \in [Instances -> Entry]
  /\ handle \in [Clients -> Metadata]
  /\ task \in [Clients -> Tasks]
  /\ nextLoc \in 1 .. MaxLocs + 1
  /\ faults \in 0 .. MaxFaults
  /\ published \subseteq Entry
  /\ acked \subseteq [uuid : Nat, id : Nat]

\* The row never dangles, and neither does the metadata log of the table it
\* names: whatever order commits and the deletions of delete-after-commit
\* interleave in, the current file and each file its log lists are in the
\* store ("a concurrent winner's files are never touched", update_table).
CurrentFilesExist ==
  row # 0 => /\ row \in DOMAIN files
             /\ \A n \in DOMAIN files[row].log : files[row].log[n] \in DOMAIN files

\* No uncommitted metadata is ever visible: what an instance caches under a
\* location, and what a client holds, is what the row pointed at some time,
\* although update_table writes the file before it knows whether the swap wins.
NoDirtyRead ==
  /\ \A i \in Instances : cache[i] # NoEntry => cache[i] \in published
  /\ \A c \in Clients :
       handle[c] # NoMetadata => \E e \in published : e.metadata = handle[c]

\* No acknowledged commit is lost: while the identifier names the table a
\* commit was acknowledged for, that commit is in its history (the promise of
\* swap_metadata_location's conflict report).
NoLostCommit ==
  \A a \in acked :
    (row # 0 /\ files[row].uuid = a.uuid) =>
      \E n \in DOMAIN files[row].commits : files[row].commits[n].id = a.id

\* The table the identifier names: the row's file.
Table ==
  IF row = 0 THEN [uuid |-> 0, commits |-> <<>>, head |-> 0]
  ELSE [uuid |-> files[row].uuid, commits |-> files[row].commits, head |-> files[row].head]

Uuids == {e.metadata.uuid : e \in published}

Atomic == INSTANCE AtomicTable WITH Ids <- 1 .. MaxLocs, table <- Table, uuids <- Uuids

\* Every step of the protocol is an atomic create, commit or drop of the
\* table, or invisible: caches that are stale, files written early and
\* deleted late never show in the table the identifier names.
RefinesAtomicTable == Atomic!Spec

=============================================================================
