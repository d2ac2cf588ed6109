------------------------------ MODULE SqlRetry ------------------------------
(***************************************************************************)
(* Writers that retry over the SQL catalog.  swap_metadata_location drops  *)
(* the stale cache entry "so the next load refreshes from the catalog":    *)
(* the caller of TableTransaction::commit reloads the table and commits    *)
(* again until a commit is accepted.  The catalog is SqlCatalog; a writer  *)
(* only decides which call it makes next.                                  *)
(***************************************************************************)
EXTENDS SqlCatalog

VARIABLES
  loaded,  \* the writers that loaded the table since their last attempt
  done     \* the writers whose commit was accepted

retryVars == <<vars, loaded, done>>

\* The table exists and nobody has loaded it yet.
RetryInit ==
  LET e == [loc |-> 1, metadata |-> [NoMetadata EXCEPT !.uuid = 1]] IN
  /\ row = e.loc
  /\ files = [l \in {e.loc} |-> e.metadata]
  /\ hint = e.loc
  /\ cache = [i \in Instances |-> NoEntry]
  /\ handle = [c \in Clients |-> NoMetadata]
  /\ task = [c \in Clients |-> IdleTask]
  /\ nextLoc = 2
  /\ faults = 0
  /\ published = {e}
  /\ acked = {}
  /\ loaded = {}
  /\ done = {}

\* load_table, before the first attempt and after every failed one.
Reload(c) ==
  /\ c \notin loaded \cup done
  /\ LoadRow(c)
  /\ UNCHANGED <<loaded, done>>

\* A commit that adds a snapshot, built on the table just loaded.
Attempt(c) ==
  /\ c \in loaded
  /\ UpdatePut(c, "data")
  /\ loaded' = loaded \ {c}
  /\ UNCHANGED done

\* update_table fails before it writes: another call of the same instance
\* has changed the cache entry since this writer loaded.
Rejected(c) ==
  LET old == cache[InstanceOf[c]] IN
  /\ c \in loaded
  /\ task[c].pc = "idle"
  /\ \/ old.loc = 0
     \/ ~check_table_requirements("data", handle[c], old.metadata)
  /\ loaded' = loaded \ {c}
  /\ UNCHANGED <<vars, done>>

\* A call in progress; LoadCache and UpdateCache are the returns with Ok.
Continue(c) ==
  /\ Proceed(c)
  /\ loaded' = IF task[c].pc = "load_cache" THEN loaded \cup {c} ELSE loaded
  /\ done' = IF task[c].pc = "update_cache" THEN done \cup {c} ELSE done

Writer(c) == Reload(c) \/ Attempt(c) \/ Rejected(c) \/ Continue(c)

RetryNext == \E c \in Clients : Writer(c)

\* Every task is polled again and again.
RetrySpec ==
  /\ RetryInit
  /\ [][RetryNext]_retryVars
  /\ \A c \in Clients : WF_retryVars(Writer(c))

-----------------------------------------------------------------------------

\* Every writer's commit is accepted eventually: no interleaving of loads
\* that write the shared cache late, lost swaps and deleted metadata files
\* makes writers refuse or outrun each other for ever.
AllCommitted == done = Clients

EveryWriterCommits == <>AllCommitted

=============================================================================
