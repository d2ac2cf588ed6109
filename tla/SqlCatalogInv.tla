--------------------------- MODULE SqlCatalogInv ---------------------------
(***************************************************************************)
(* The inductive invariant of SqlCatalog: why its safety properties hold.  *)
(* A location is unpublished until the row points at it, is published at   *)
(* most once, and only published locations are cached, logged or deleted.  *)
(***************************************************************************)
EXTENDS SqlCatalog

PubLocs == {e.loc : e \in published}

CommitIds(m) == {m.commits[n].id : n \in DOMAIN m.commits}

Increasing(s) == \A i, j \in DOMAIN s : i < j => s[i] < s[j]

-----------------------------------------------------------------------------
(* The row, the files and what has been published *)

\* An entry that refers to the locations locs only, its log in order.
WellFormed(e, locs) ==
  /\ e.loc \in locs
  /\ e.metadata.uuid \in locs
  /\ e.metadata.head \in locs \cup {0}
  /\ CommitIds(e.metadata) \subseteq locs
  /\ Range(e.metadata.log) \subseteq locs
  /\ \A n \in DOMAIN e.metadata.log : e.metadata.log[n] < e.loc
  /\ Increasing(e.metadata.log)

PublishedOK ==
  /\ PubLocs \subseteq 1 .. nextLoc - 1
  /\ \A e \in published : WellFormed(e, PubLocs)
  /\ \A e, f \in published : e.loc = f.loc => e = f

\* A published file keeps its content until it is deleted.
FilesOK == \A e \in published : e.loc \in DOMAIN files => files[e.loc] = e.metadata

RowOK == row # 0 => row \in PubLocs /\ row \in DOMAIN files

LogOK == row # 0 => Range(files[row].log) \subseteq DOMAIN files

\* The current file has every commit any published file of its table has.
History ==
  row # 0 => \A e \in published :
               e.metadata.uuid = files[row].uuid
                 => CommitIds(e.metadata) \subseteq CommitIds(files[row])

StoreInv == PublishedOK /\ FilesOK /\ RowOK /\ LogOK /\ History

-----------------------------------------------------------------------------
(* The calls in progress, the caches and the callers *)

Pending(c) == task[c].pc \in {"insert", "swap"}

\* A file waiting for its insert or swap is unpublished and nobody else's.
PendingOK ==
  \A c \in Clients : Pending(c) =>
    /\ task[c].entry.loc \in DOMAIN files
    /\ files[task[c].entry.loc] = task[c].entry.metadata
    /\ task[c].entry.loc \notin PubLocs
    /\ \A d \in Clients : d # c /\ Pending(d) => task[d].entry.loc # task[c].entry.loc

InsertOK ==
  \A c \in Clients : task[c].pc = "insert" =>
    task[c].entry.metadata = [NoMetadata EXCEPT !.uuid = task[c].entry.loc]

\* The task t commits on top of the published entry o, and splits o's log
\* and o itself between the new log and the files to delete.
BuiltOn(t, o, locs) ==
  LET m == t.entry.metadata IN
  /\ t.prev = o.loc
  /\ m.uuid = o.metadata.uuid
  /\ \E kind \in Kinds, base \in locs \cup {0} :
       /\ kind = "data" => base = o.metadata.head
       /\ m.commits = Append(o.metadata.commits,
                              [id |-> t.entry.loc, kind |-> kind, base |-> base])
       /\ m.head = IF kind = "data" THEN t.entry.loc ELSE o.metadata.head
  /\ Range(m.log) \subseteq Range(o.metadata.log) \cup {o.loc}
  /\ \A n \in DOMAIN m.log : m.log[n] < t.entry.loc
  /\ Increasing(m.log)
  /\ Range(t.expired) \subseteq Range(o.metadata.log) \cup {o.loc}
  /\ Range(t.expired) \cap Range(m.log) = {}

SwapOK ==
  \A c \in Clients : task[c].pc = "swap" => \E o \in published : BuiltOn(task[c], o, PubLocs)

\* What a call is about to return or to cache has been published.
ReadOK ==
  \A c \in Clients :
    /\ task[c].pc = "get" => task[c].entry.loc \in PubLocs
    /\ task[c].pc \in {"load_cache", "create_cache", "delete", "update_cache"}
         => task[c].entry \in published
    /\ task[c].pc \in {"delete", "update_cache"}
         => task[c].entry.loc \in CommitIds(task[c].entry.metadata)

\* The files a winner deletes: published, not current, not in the current log.
ExpiredOK ==
  \A c \in Clients : task[c].pc = "delete" =>
    /\ Range(task[c].expired) \subseteq PubLocs
    /\ row \notin Range(task[c].expired)
    /\ row # 0 => Range(task[c].expired) \cap Range(files[row].log) = {}

AckedOK ==
  \A a \in acked : \E e \in published :
    e.metadata.uuid = a.uuid /\ a.id \in CommitIds(e.metadata)

TaskInv == PendingOK /\ InsertOK /\ SwapOK /\ ReadOK /\ ExpiredOK

-----------------------------------------------------------------------------

\* The inductive invariant: a location is written once, published at most
\* once, by the swap or insert of the call that wrote it, and deleted only
\* after the row and its log have left it behind.
Inv == TypeOK /\ StoreInv /\ TaskInv /\ AckedOK /\ NoDirtyRead

=============================================================================
