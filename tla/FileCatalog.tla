---------------------------- MODULE FileCatalog ----------------------------
(***************************************************************************)
(* The commit protocol of the file catalog for one table identifier        *)
(* (src/catalogs/iceberg-file-catalog/src/lib.rs).                         *)
(*                                                                         *)
(* There is no database: the table is the file with the highest version    *)
(* number among the v<n>[.gz].metadata.json files of its directory, and    *)
(* the object store's copy_if_not_exists is the only atomic test-and-set.  *)
(* Several catalog instances share the store, each with its own cache;     *)
(* clients run the operations one await at a time.  A call that returns an *)
(* error without having changed anything is a stuttering step.             *)
(*                                                                         *)
(* Metadata is abstracted as in SqlCatalog, plus the one property that     *)
(* decides a file's name: the codec.                                       *)
(***************************************************************************)
EXTENDS FileCatalogClients, Sequences, FiniteSets, Functions

VARIABLES
  store,      \* the files of the table's directory: name -> metadata
  hint,       \* the version in version-hint.text
  cache,      \* per instance: the cached entry of the identifier
  handle,     \* per client: the metadata of the Table value it holds
  task,       \* per client: the call in progress
  nextId,     \* the next unused uuid or commit number
  published,  \* history: every entry stored under a version name
  acked       \* history: the commits reported Ok to their caller

vars == <<store, hint, cache, handle, task, nextId, published, acked>>

-----------------------------------------------------------------------------
(* Data *)

Ids == Nat \ {0}

\* "v" names v<n>[.gz].metadata.json, "t" the temporary file of commit n.
Codecs == {"none", "gzip"}
Names == [base : {"v", "t"}, n : Nat, codec : Codecs]
Version(v, codec) == [base |-> "v", n |-> v, codec |-> codec]
Temp(id, codec) == [base |-> "t", n |-> id, codec |-> codec]

Commits == [id : Ids, kind : {"data", "props", "gzip", "plain"}, base : Nat]
Metadata == [uuid : Nat, commits : Seq(Commits), head : Nat, codec : Codecs]
NoMetadata == [uuid |-> 0, commits |-> <<>>, head |-> 0, codec |-> "none"]

Entry == [name : Names, metadata : Metadata]
NoEntry == [name |-> Version(0, "none"), metadata |-> NoMetadata]

Pcs == {"idle", "get", "load_cache", "create_put", "create_cache",
        "copy", "update_cache", "delete"}
Tasks == [pc : Pcs, entry : Entry, id : Nat, paths : SUBSET Names]
IdleTask == [pc |-> "idle", entry |-> NoEntry, id |-> 0, paths |-> {}]

Put(f, n, m) == [x \in DOMAIN f \cup {n} |-> IF x = n THEN m ELSE f[x]]

\* The version files of a listing.
Versions(f) == {n \in DOMAIN f : n.base = "v"}

\* metadata_location: the version names sorted by number, the last one.  Two
\* names with one number, plain and gzipped, come in the order the store
\* lists them.
metadata_location(f) ==
  {n \in Versions(f) : \A o \in Versions(f) : o.n <= n.n}

\* check_table_requirements of a transaction built on base, against the
\* cached metadata m.  (uuid_only: the slip of leaving the snapshot out.)
uuid_only(kind, base, m) == m.uuid = base.uuid

check_table_requirements(kind, base, m) ==
  /\ m.uuid = base.uuid
  /\ kind = "data" => m.head = base.head

\* apply_table_updates: the commit joins the history; the properties update
\* of kinds "gzip" and "plain" sets write.metadata.compression-codec.
apply_table_updates(m, k) ==
  [m EXCEPT !.commits = Append(@, k),
            !.head = IF k.kind = "data" THEN k.id ELSE @,
            !.codec = CASE k.kind = "gzip" -> "gzip" [] k.kind = "plain" -> "none" [] OTHER -> @]

\* new_filesystem_metadata_location: one past the version of the previous
\* location, with the suffix the temporary file was written with.  (from_hint:
\* the slip of one past the version hint.)
from_hint(previous, temp) == Version(hint + 1, temp.codec)

new_filesystem_metadata_location(previous, temp) == Version(previous.n + 1, temp.codec)

\* A fresh uuid, for a table or in the name of a temporary file.
new_id ==
  /\ nextId <= MaxIds
  /\ nextId' = nextId + 1

\* copy_if_not_exists of the temporary file of commit id: its source is there
\* and its target is not.  (copies: the slip of a plain copy.)
copies(id, name) == Temp(id, name.codec) \in DOMAIN store

copy_if_not_exists(id, name) ==
  /\ Temp(id, name.codec) \in DOMAIN store
  /\ name \notin DOMAIN store

Init ==
  /\ store = [n \in {} |-> NoMetadata]
  /\ hint = 0
  /\ cache = [i \in Instances |-> NoEntry]
  /\ handle = [c \in Clients |-> NoMetadata]
  /\ task = [c \in Clients |-> IdleTask]
  /\ nextId = 1
  /\ published = {}
  /\ acked = {}

-----------------------------------------------------------------------------
(* load_tabular *)

\* The list; no version file is CatalogNotFound.
LoadList(c) ==
  /\ task[c].pc = "idle"
  /\ \E n \in metadata_location(store) :
       task' = [task EXCEPT ![c] = [IdleTask EXCEPT !.pc = "get", !.entry.name = n]]
  /\ UNCHANGED <<store, hint, cache, handle, nextId, published, acked>>

\* The get, and serde_json::from_slice on its bytes: a file that is gone is
\* CatalogNotFound, and gzipped bytes do not parse.
LoadGet(c) ==
  LET n == task[c].entry.name IN
  /\ task[c].pc = "get"
  /\ task' = [task EXCEPT ![c] =
       IF n \in DOMAIN store /\ n.codec = "none"
       THEN [IdleTask EXCEPT !.pc = "load_cache",
                             !.entry = [name |-> n, metadata |-> store[n]]]
       ELSE IdleTask]
  /\ UNCHANGED <<store, hint, cache, handle, nextId, published, acked>>

LoadCache(c) ==
  /\ task[c].pc = "load_cache"
  /\ cache' = [cache EXCEPT ![InstanceOf[c]] = task[c].entry]
  /\ handle' = [handle EXCEPT ![c] = task[c].entry.metadata]
  /\ task' = [task EXCEPT ![c] = IdleTask]
  /\ UNCHANGED <<store, hint, nextId, published, acked>>

-----------------------------------------------------------------------------
(* create_table *)

\* The list finds a version file; a list that fails finds none, the error
\* being taken for absence.
tabular_exists(failed) == ~failed /\ Versions(store) # {}

\* tabular_exists is false, there being no table or the list having failed.
CreateCheck(c) ==
  /\ c \in Creators
  /\ task[c].pc = "idle"
  /\ new_id
  /\ \E failed \in BOOLEAN : ~tabular_exists(failed)
  /\ task' = [task EXCEPT ![c] =
       [IdleTask EXCEPT !.pc = "create_put",
                        !.entry.metadata = [NoMetadata EXCEPT !.uuid = nextId]]]
  /\ UNCHANGED <<store, hint, cache, handle, published, acked>>

\* A plain put of v0.metadata.json, whatever is there by now.
CreatePut(c) ==
  LET e == task[c].entry IN
  /\ task[c].pc = "create_put"
  /\ store' = Put(store, e.name, e.metadata)
  /\ published' = published \cup {e}
  /\ task' = [task EXCEPT ![c].pc = "create_cache"]
  /\ UNCHANGED <<hint, cache, handle, nextId, acked>>

\* put_version_hint, the cache insert, and Ok.
CreateCache(c) ==
  LET e == task[c].entry IN
  /\ task[c].pc = "create_cache"
  /\ hint' = e.name.n
  /\ cache' = [cache EXCEPT ![InstanceOf[c]] = e]
  /\ handle' = [handle EXCEPT ![c] = e.metadata]
  /\ task' = [task EXCEPT ![c] = IdleTask]
  /\ UNCHANGED <<store, nextId, published, acked>>

-----------------------------------------------------------------------------
(* update_table *)

\* Everything up to the temporary file: the cache entry (none is an error),
\* the requirements (CommitConflict when they fail), the updates, put_metadata.
UpdatePut(c, kind) ==
  LET old == cache[InstanceOf[c]]
      k   == [id |-> nextId, kind |-> kind, base |-> handle[c].head]
      m   == apply_table_updates(old.metadata, k)
      tmp == Temp(nextId, m.codec)
  IN
  /\ task[c].pc = "idle"
  /\ handle[c].uuid # 0
  /\ old # NoEntry
  /\ check_table_requirements(kind, handle[c], old.metadata)
  /\ new_id
  /\ store' = Put(store, tmp, m)
  /\ task' = [task EXCEPT ![c] =
       [IdleTask EXCEPT !.pc = "copy", !.id = nextId,
          !.entry = [name |-> new_filesystem_metadata_location(old.name, tmp),
                     metadata |-> m]]]
  /\ UNCHANGED <<hint, cache, handle, published, acked>>

\* copy_if_not_exists took the version.
CopyWon(c) ==
  LET e == task[c].entry IN
  /\ task[c].pc = "copy"
  /\ copy_if_not_exists(task[c].id, e.name)
  /\ store' = Put(store, e.name, e.metadata)
  /\ published' = published \cup {e}
  /\ task' = [task EXCEPT ![c].pc = "update_cache"]
  /\ UNCHANGED <<hint, cache, handle, nextId, acked>>

\* The version is taken (CommitConflict), or a drop removed the temporary
\* file.  The cache entry stays.
CopyLost(c) ==
  /\ task[c].pc = "copy"
  /\ ~copy_if_not_exists(task[c].id, task[c].entry.name)
  /\ task' = [task EXCEPT ![c] = IdleTask]
  /\ UNCHANGED <<store, hint, cache, handle, nextId, published, acked>>

\* The store reports another error, before or after it copied the file.
CopyError(c) ==
  LET e == task[c].entry IN
  /\ task[c].pc = "copy"
  /\ \/ UNCHANGED <<store, published>>
     \/ /\ copy_if_not_exists(task[c].id, e.name)
        /\ store' = Put(store, e.name, e.metadata)
        /\ published' = published \cup {e}
  /\ task' = [task EXCEPT ![c] = IdleTask]
  /\ UNCHANGED <<hint, cache, handle, nextId, acked>>

\* put_version_hint, the cache insert, and Ok.
UpdateCache(c) ==
  LET e == task[c].entry IN
  /\ task[c].pc = "update_cache"
  /\ hint' = e.name.n
  /\ cache' = [cache EXCEPT ![InstanceOf[c]] = e]
  /\ handle' = [handle EXCEPT ![c] = e.metadata]
  /\ acked' = acked \cup {[uuid |-> e.metadata.uuid, id |-> task[c].id]}
  /\ task' = [task EXCEPT ![c] = IdleTask]
  /\ UNCHANGED <<store, nextId, published>>

-----------------------------------------------------------------------------
(* drop_table *)

\* drop_tabular lists every file of the directory, temporary ones too; it
\* does not ask whether there is a table.
DropList(c) ==
  /\ c \in Droppers
  /\ task[c].pc = "idle"
  /\ task' = [task EXCEPT ![c] = [IdleTask EXCEPT !.pc = "delete", !.paths = DOMAIN store]]
  /\ UNCHANGED <<store, hint, cache, handle, nextId, published, acked>>

\* One listed file at a time, in the order of the listing.
DropDelete(c) ==
  /\ task[c].pc = "delete"
  /\ \E n \in task[c].paths :
       /\ store' = Restrict(store, DOMAIN store \ {n})
       /\ task' = [task EXCEPT ![c].paths = @ \ {n}]
  /\ UNCHANGED <<hint, cache, handle, nextId, published, acked>>

\* A delete fails and the call returns: the files not yet deleted and the
\* cache entry stay.
DropError(c) ==
  /\ task[c].pc = "delete"
  /\ task[c].paths # {}
  /\ task' = [task EXCEPT ![c] = IdleTask]
  /\ UNCHANGED <<store, hint, cache, handle, nextId, published, acked>>

\* The cache entry of this instance goes.
DropDone(c) ==
  /\ task[c].pc = "delete"
  /\ task[c].paths = {}
  /\ cache' = [cache EXCEPT ![InstanceOf[c]] = NoEntry]
  /\ task' = [task EXCEPT ![c] = IdleTask]
  /\ UNCHANGED <<store, hint, handle, nextId, published, acked>>

-----------------------------------------------------------------------------

\* The process of an instance stops and restarts.
Crash(i) ==
  /\ \E c \in Clients : InstanceOf[c] = i /\ task[c].pc # "idle"
  /\ cache' = [cache EXCEPT ![i] = NoEntry]
  /\ task' = [c \in Clients |-> IF InstanceOf[c] = i THEN IdleTask ELSE task[c]]
  /\ handle' = [c \in Clients |-> IF InstanceOf[c] = i THEN NoMetadata ELSE handle[c]]
  /\ UNCHANGED <<store, hint, nextId, published, acked>>

Next ==
  \/ \E c \in Clients :
       \/ LoadList(c) \/ LoadGet(c) \/ LoadCache(c)
       \/ CreateCheck(c) \/ CreatePut(c) \/ CreateCache(c)
       \/ \E kind \in CommitKinds : UpdatePut(c, kind)
       \/ CopyWon(c) \/ CopyLost(c) \/ CopyError(c) \/ UpdateCache(c)
       \/ DropList(c) \/ DropDelete(c) \/ DropError(c) \/ DropDone(c)
  \/ \E i \in Instances : Crash(i)

Spec == Init /\ [][Next]_vars

-----------------------------------------------------------------------------
(* Properties *)

\* The metadata a load may find: a set because of equal version numbers.
Current == {store[n] : n \in metadata_location(store)}

\* Types, and the bound on uuids and commit numbers.
TypeOK ==
  /\ DOMAIN store \subseteq Names
  /\ \A n \in DOMAIN store : store[n] \in Metadata
  /\ hint \in Nat
  /\ cache \in [Instances -> Entry]
  /\ handle \in [Clients -> Metadata]
  /\ task \in [Clients -> Tasks]
  /\ nextId \in 1 .. MaxIds + 1
  /\ published \subseteq Entry
  /\ acked \subseteq [uuid : Nat, id : Nat]

\* The entry e is the version after the entry f: one commit more, whose
\* requirement the metadata of f met.
Continues(e, f) ==
  LET k == e.metadata.commits[Len(e.metadata.commits)] IN
  /\ f.name.n = e.name.n - 1
  /\ k.kind = "data" => k.base = f.metadata.head
  /\ e.metadata = apply_table_updates(f.metadata, k)

\* Every version file ever stored continues a file stored under the number
\* before it, and version 0 has no commits: so the number in a name is the
\* length of the history, and no history ever mixes two tables.  This whatever
\* happens to the directory, to which stale caches go on committing: it is
\* dropped in part or whole, created again under a live table, recoded, and its
\* writers crash (update_table builds on the cached entry, name and metadata
\* together, and the list decides by the number alone what the table is).
Lineage ==
  \A e \in published :
    IF e.name.n = 0 THEN e.metadata.commits = <<>>
    ELSE e.metadata.commits # <<>> /\ \E f \in published : Continues(e, f)

\* No acknowledged commit is lost: while the identifier names the table a
\* commit was acknowledged for, the commit is in its history (the test
\* conflicting_table_commits_report_commit_conflict expects CommitConflict
\* for the commit that comes second).
NoLostCommit ==
  \A a \in acked, m \in Current :
    m.uuid = a.uuid => \E i \in DOMAIN m.commits : m.commits[i].id = a.id

\* Without drops and gzip the table is what the highest version file holds.
Table ==
  IF Current = {} THEN [uuid |-> 0, commits |-> <<>>, head |-> 0]
  ELSE LET m == CHOOSE m \in Current : TRUE
       IN  [uuid |-> m.uuid, commits |-> m.commits, head |-> m.head]

Uuids == {e.metadata.uuid : e \in published}

Atomic == INSTANCE AtomicTable WITH Ids <- 1 .. MaxIds, table <- Table, uuids <- Uuids

\* Every step is an atomic create or commit of the table, or invisible: the
\* highest version file is the table although its writers only hold caches
\* and agree on nothing but copy_if_not_exists.  A create is atomic, though not
\* refused: one whose list failed puts v0 over a live table, which replaces a
\* table without commits and goes unnoticed afterwards.
AtomicFromFirstCommit == Atomic!UncheckedSpec

=============================================================================
