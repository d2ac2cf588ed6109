----------------------------- MODULE MCCatalogs -----------------------------
(***************************************************************************)
(* Two clients of one catalog instance and one of another: of SQL catalogs *)
(* over one database (the extended module), or of file catalogs over one   *)
(* object store, where the table's directory is created and committed to   *)
(* ("commits") or also dropped and recoded ("directory").  A behaviour is  *)
(* one of one part; the other parts stay in the initial state of the SQL   *)
(* catalog or have the value Unused.                                       *)
(***************************************************************************)
EXTENDS SqlCatalogInv, FileCatalogClients, TLC

CONSTANTS c1, c2, c3, a, b,
          Parts   \* "sql", "commits", "directory"

VARIABLES part,
  f_store, f_hint, f_cache, f_handle, f_task, f_nextId, f_published, f_acked,
  d_store, d_hint, d_cache, d_handle, d_task, d_nextId, d_published, d_acked

fileVars == <<f_store, f_hint, f_cache, f_handle, f_task, f_nextId, f_published, f_acked>>
directoryVars == <<d_store, d_hint, d_cache, d_handle, d_task, d_nextId, d_published, d_acked>>

MCClients == {c1, c2, c3}
MCTwoClients == {c1, c3}
MCInstances == {a, b}
MCInstanceOf == [c \in Clients |-> IF c = c3 THEN b ELSE a]

\* The clients of one instance are interchangeable.
MCSymmetry == Permutations({c1, c2})

File == INSTANCE FileCatalog
  WITH store <- f_store, hint <- f_hint, cache <- f_cache, handle <- f_handle,
       task <- f_task, nextId <- f_nextId, published <- f_published, acked <- f_acked

Directory == INSTANCE FileCatalog
  WITH Clients <- {"d1", "d2"}, InstanceOf <- [d1 |-> a, d2 |-> b],
       Creators <- {"d2"}, Droppers <- {"d1"}, CommitKinds <- {"data", "gzip"},
       MaxIds <- 3, store <- d_store, hint <- d_hint, cache <- d_cache, handle <- d_handle,
       task <- d_task, nextId <- d_nextId, published <- d_published, acked <- d_acked

Unused == "unused"

NoFile == /\ f_store = Unused /\ f_hint = Unused /\ f_cache = Unused /\ f_handle = Unused
          /\ f_task = Unused /\ f_nextId = Unused /\ f_published = Unused /\ f_acked = Unused
NoDirectory == /\ d_store = Unused /\ d_hint = Unused /\ d_cache = Unused /\ d_handle = Unused
               /\ d_task = Unused /\ d_nextId = Unused /\ d_published = Unused /\ d_acked = Unused

MCInit ==
  /\ part \in Parts
  /\ Init
  /\ IF part = "commits" THEN File!Init ELSE NoFile
  /\ IF part = "directory" THEN Directory!Init ELSE NoDirectory

MCNext ==
  \/ part = "sql" /\ Next /\ UNCHANGED <<part, fileVars, directoryVars>>
  \/ part = "commits" /\ File!Next /\ UNCHANGED <<part, vars, directoryVars>>
  \/ part = "directory" /\ Directory!Next /\ UNCHANGED <<part, vars, fileVars>>

MCSpec == MCInit /\ [][MCNext]_<<part, vars, fileVars, directoryVars>>

-----------------------------------------------------------------------------
(* The properties of the file catalog, stated in its module. *)

\* No commit that a file catalog acknowledged is lost.
FileNoLostCommit == part = "commits" => File!NoLostCommit

\* From its first commit on the table of a directory that is not dropped is
\* atomic.
FileAtomicFromFirstCommit ==
  /\ part = "commits" => File!Atomic!Init
  /\ [][part = "commits" => [File!Atomic!UncheckedNext]_<<File!Table, File!Uuids>>]_<<part, fileVars>>

\* Every version file of a directory continues one of the number before it.
FileLineage == part = "directory" => Directory!Lineage

=============================================================================
