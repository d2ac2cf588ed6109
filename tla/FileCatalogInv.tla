--------------------------- MODULE FileCatalogInv ---------------------------
(***************************************************************************)
(* The inductive invariants of FileCatalog.                                *)
(*                                                                         *)
(* VersionsInv holds whatever the clients do: what is cached, listed and   *)
(* built on are published entries.  Inv holds where a directory is never   *)
(* dropped and every commit writes plain metadata (NeverDropped), with any *)
(* number of creations: the version files are a chain from version 1 on,   *)
(* each built on the one before it, none replaced, and copy_if_not_exists  *)
(* can only add the next.  Version 0 is the last one created, until some   *)
(* commit has decided which of the creations it continues.                 *)
(***************************************************************************)
EXTENDS FileCatalog

\* No drops, no codec changes.
NeverDropped ==
  /\ Droppers = {}
  /\ CommitKinds \subseteq {"data", "props"}

CommitIds(m) == {m.commits[i].id : i \in DOMAIN m.commits}

\* The numbers handed out so far.
Used == 1 .. nextId - 1

-----------------------------------------------------------------------------
(* The directory *)

\* Metadata a version file may hold.
WellFormed(m, used) ==
  /\ m \in Metadata
  /\ m.codec = "none"
  /\ m.uuid \in used
  /\ m.head \in used \cup {0}
  /\ CommitIds(m) \subseteq used

\* What was published is what the version files hold.
PublishedOK ==
  /\ \A e \in published :
       /\ e \in Entry /\ e.name = Version(e.name.n, "none") /\ WellFormed(e.metadata, Used)
       /\ e.name \in DOMAIN store
       /\ e.name.n > 0 => store[e.name] = e.metadata
       /\ e.name.n = 0 => e.metadata = [NoMetadata EXCEPT !.uuid = e.metadata.uuid]
  /\ \A n \in Versions(store) : [name |-> n, metadata |-> store[n]] \in published

\* No gap below a version.
Contiguous ==
  \A e \in published : \A k \in Nat :
    k < e.name.n => \E f \in published : f.name.n = k

\* Nor is a version without a last one above it.
HasLast ==
  published # {} => \E o \in published : \A e \in published : e.name.n <= o.name.n

\* From version 1 on one table, whose history grows with the version.
Chain ==
  \A e, f \in published :
    0 < e.name.n /\ e.name.n <= f.name.n =>
      /\ e.metadata.uuid = f.metadata.uuid
      /\ CommitIds(e.metadata) \subseteq CommitIds(f.metadata)

DirectoryInv == PublishedOK /\ Contiguous /\ HasLast /\ Chain

-----------------------------------------------------------------------------
(* Caches and calls *)

\* The task t commits on top of the published entry o.
BuiltOn(t, o, used) ==
  /\ t.entry.name = Version(o.name.n + 1, "none")
  /\ \E kind \in {"data", "props"}, base \in used \cup {0} :
       /\ kind = "data" => base = o.metadata.head
       /\ t.entry.metadata =
            [o.metadata EXCEPT
               !.commits = Append(@, [id |-> t.id, kind |-> kind, base |-> base]),
               !.head = IF kind = "data" THEN t.id ELSE @]

\* The commit number of a pending copy is nobody else's.
PendingOK ==
  \A c \in Clients : task[c].pc = "copy" =>
    /\ task[c].id \in Used
    /\ \E o \in published : BuiltOn(task[c], o, Used)
    /\ \A e \in published : task[c].id \notin CommitIds(e.metadata)
    /\ \A d \in Clients : d # c /\ task[d].pc = "copy" => task[d].id # task[c].id

\* A creation puts an empty table with a uuid of its own.
Creating(t, used, stored) ==
  /\ t.entry.name = Version(0, "none")
  /\ \E u \in used : t.entry.metadata = [NoMetadata EXCEPT !.uuid = u]
  /\ \A e \in stored : e.metadata.uuid # t.entry.metadata.uuid

CreateOK ==
  \A c \in Clients : task[c].pc = "create_put" =>
    /\ Creating(task[c], Used, published)
    /\ \A d \in Clients : d # c /\ task[d].pc = "create_put" =>
         task[d].entry.metadata.uuid # task[c].entry.metadata.uuid

\* What a call reads is a version file; what it returns or caches has been
\* published.
ReadOK ==
  \A c \in Clients :
    /\ task[c].pc # "delete"
    /\ task[c].pc = "get" => task[c].entry.name.base = "v"
    /\ task[c].pc \in {"load_cache", "create_cache", "update_cache"}
         => task[c].entry \in published
    /\ task[c].pc = "update_cache" => task[c].id \in CommitIds(task[c].entry.metadata)

HeldOK ==
  /\ \A i \in Instances : cache[i] = NoEntry \/ cache[i] \in published
  /\ \A c \in Clients : handle[c] = NoMetadata \/ \E e \in published : handle[c] = e.metadata

AckedOK ==
  \A a \in acked : \E e \in published :
    e.metadata.uuid = a.uuid /\ a.id \in CommitIds(e.metadata)

CallsInv == PendingOK /\ CreateOK /\ ReadOK /\ HeldOK /\ AckedOK

Inv == TypeOK /\ DirectoryInv /\ CallsInv

-----------------------------------------------------------------------------
(* Directories that are dropped, created again and recoded too *)

\* What the call t is about to store continues an entry stored before or is a
\* version 0; what it reads is a version file, what it caches has been stored.
Sound(t, stored) ==
  /\ t.pc = "create_put" => t.entry.name.n = 0 /\ t.entry.metadata.commits = <<>>
  /\ t.pc = "copy" => /\ t.entry.name.n > 0 /\ t.entry.metadata.commits # <<>>
                      /\ \E f \in stored : Continues(t.entry, f)
  /\ t.pc \in {"create_put", "copy", "get"} => t.entry.name.base = "v"
  /\ t.pc \in {"load_cache", "create_cache", "update_cache"} => t.entry \in stored

\* Version files hold published metadata, and so do caches.
SourcesOK ==
  /\ \A n \in Versions(store) : [name |-> n, metadata |-> store[n]] \in published
  /\ \A i \in Instances : cache[i] = NoEntry \/ cache[i] \in published

VersionsInv ==
  TypeOK /\ Lineage /\ SourcesOK /\ \A c \in Clients : Sound(task[c], published)

=============================================================================
