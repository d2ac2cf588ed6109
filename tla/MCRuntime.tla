----------------------------- MODULE MCRuntime -----------------------------
(***************************************************************************)
(* Small instances of the components whose tasks wait for one another: the *)
(* Parquet writer's channels, those of DataFusion's sink, the fork of a    *)
(* physical plan, the caches of a scan, the row locks of the SQL catalog's *)
(* namespaces, and writers that retry over it.  A behaviour is one of one  *)
(* component, chosen by "part"; the variables of the others keep the value *)
(* Unused.                                                                 *)
(***************************************************************************)
EXTENDS Integers, Sequences

CONSTANTS Parts,          \* the components of a run
          NameClients,    \* of module SqlNamespaces
          PropertyKeys,
          UpdateSet,
          CacheReaders,   \* of module ReadCaches
          ReadsOf,
          NotPolledBefore,
          CacheCaps,
          MaxCalls,
          MaxFaults

VARIABLES part,
  files, cache, faults,                                       \* of several components
  input, next, groups, senders, tasks, flushing, result,
  sizes, executed, todo, slot, open, out, ended, drops,
  gates, locked, gate_ids, evictions, backed_off, rd,
  dialect, db, locks, writer, call, calls, serial,
  row, hint, handle, task, nextLoc, published, acked, loaded, done

Unused == "unused"

-----------------------------------------------------------------------------
X == <<"x", "p">>
Y == <<"y", "null">>
Z == <<"null", "p">>

\* Partitions that are evicted and come back, nulls, empty batches alone, after
\* a full file and before more rows, and a stream that fails.
StreamSet ==
  {<<<<X, Y, X>>, <<X>>, <<X, Z>>>>, <<<<X>>, <<>>, <<<<"error">>>>>>,
   <<<<X, Z>>, <<X, Y>>, <<Z, Z>>>>, <<<<>>>>, <<<<X, Y>>, <<>>>>, <<<<X, X>>, <<>>, <<Z>>>>}

\* A sorted write by a column and a bucket; the same with a column behind it
\* that is dropped later; a mixed direction; an order that is replaced after the
\* write; one that has no identity field in front; and a write that promises nothing.
By(column, transform, descending) ==
  [column |-> column, transform |-> transform, descending |-> descending]
ByA == By("a", "identity", FALSE)
Order(id, fields) == [id |-> id, fields |-> fields]
SortOf(entry, order, now, columns_now) ==
  [call |-> entry, order |-> order, order_now |-> now, columns |-> {"a", "b", "c", "d"},
   columns_now |-> columns_now,
   values |-> [id \in 1 .. 7 |-> [a |-> id \div 2, b |-> 9 - id, c |-> -id, d |-> 2 * id]]]
Bucketed == Order(1, <<ByA, By("b", "bucket", TRUE), By("b", "identity", FALSE)>>)
Mixed == Order(1, <<ByA, By("c", "identity", TRUE)>>)
Evolved == Order(2, <<By("b", "identity", FALSE)>>)
Hidden == Order(3, <<By("d", "bucket", FALSE), ByA>>)
SortSet ==
  {SortOf("sorted", Bucketed, Bucketed, {"a", "b", "c"}), SortOf("sorted", Mixed, Mixed, {"a", "c"}),
   SortOf("sorted", Mixed, Mixed, {"c"}), SortOf("sorted", Mixed, Evolved, {"a", "b", "c"}),
   SortOf("sorted", Hidden, Hidden, {"a", "b", "c"}),
   SortOf("unspecified", Evolved, Evolved, {"a", "b", "c"}),
   SortOf("equality", Evolved, Evolved, {"a", "b", "c"})}

Write == INSTANCE DemuxSink
  WITH Parallelism <- 1, TargetProperty <- 0, DefaultTargetSize <- 2, Buffer <- 1,
       Streams <- StreamSet, Sorts <- SortSet, MaxRowsPerFile <- 3, MinimumParallelFiles <- 2

\* Fewer, as many and more input partitions than the node has.
Fork == INSTANCE ForkNode
  WITH Inputs <- {<<2>>, <<1, 2>>, <<1, 1, 1>>, <<1, 0, 1, 1>>}, Partitions <- 2, MaxDrops <- 1

\* The parameters as definitions, which TLC evaluates once.
Reads == ReadsOf
Waits == NotPolledBefore
Caps == CacheCaps

Caches == INSTANCE ReadCaches
  WITH Readers <- CacheReaders, Programs <- Reads, WaitsFor <- Waits, Cap <- Caps,
       GatesCap <- 2, Backoff <- 0

\* A reader asks a cache for parts of a file; a footer is one part.
ASSUME CachesAssumption ==
  \A r \in CacheReaders :
    /\ ReadsOf[r] \in Seq([kind : Caches!Kinds, store : STRING, path : STRING, ranges : Seq(Nat)])
    /\ \A n \in DOMAIN ReadsOf[r] : ReadsOf[r][n].kind = "footer" => Len(ReadsOf[r][n].ranges) = 1

\* A join's probe side, its build side and a reader of another store.
Read(k, s, p, ranges) == [kind |-> k, store |-> s, path |-> p, ranges |-> ranges]
SmallReads ==
  [probe |-> <<Read("footer", "a", "x", <<0>>), Read("ranges", "a", "x", <<2, 3, 1>>)>>,
   build |-> <<Read("manifest", "a", "x", <<0>>), Read("footer", "a", "x", <<0>>),
               Read("footer", "a", "y", <<0>>), Read("ranges", "a", "x", <<2>>),
               Read("footer", "a", "x", <<0>>)>>,
   other |-> <<Read("manifest", "b", "x", <<0>>), Read("footer", "b", "x", <<0>>),
               Read("ranges", "b", "x", <<2, 1>>)>>]
SmallWaits == [probe |-> {"build"}, build |-> {}, other |-> {}]
SmallCaps == [footer |-> 4, ranges |-> 6, manifest |-> 1]

Names == INSTANCE SqlNamespaces
  WITH Clients <- NameClients, KeyOrder <- PropertyKeys, Dialects <- {"postgres", "sqlite"},
       Updates <- UpdateSet

\* The keys of a namespace: "exists" is one of them, and the identity row is
\* none.  Properties are set and removed by key.
ASSUME NamesAssumption ==
  /\ PropertyKeys \in Seq(Names!Keys)
  /\ "exists" \in Names!Keys
  /\ Names!Identity \notin Names!Keys
  /\ \A u \in UpdateSet : u.set \subseteq Names!Keys /\ u.remove \in Seq(Names!Keys)
  /\ Names!Nobody \notin NameClients

\* Two clients on two keys, one of them the key an old catalog uses itself.
SmallKeys == <<"a", "exists">>
Update(set, remove) == [set |-> set, remove |-> remove]
SmallUpdates == {Update({"a"}, <<>>), Update({"exists"}, <<"a">>),
                 Update({}, <<"exists">>), Update({}, <<"a">>)}

\* Two writers of one instance and one of another.
Writers == {"c1", "c2", "c3"}
InstanceOfWriter == [c1 |-> "a", c2 |-> "a", c3 |-> "b"]

Retry == INSTANCE SqlRetry
  WITH Clients <- Writers, Instances <- {"a", "b"}, InstanceOf <- InstanceOfWriter,
       PreviousVersionsMax <- 0, DeleteAfterCommit <- TRUE, MaxLocs <- 12, MaxFaults <- 0

-----------------------------------------------------------------------------
writeVars == <<input, next, groups, senders, tasks, flushing, result>>
forkVars == <<sizes, executed, todo, slot, open, out, ended, drops>>
cacheVars == <<gates, locked, gate_ids, evictions, backed_off, rd>>
nameVars == <<dialect, db, locks, writer, call, calls, serial>>
retryVars == <<row, hint, handle, task, nextLoc, published, acked, loaded, done>>

vars == <<part, files, cache, faults, writeVars, forkVars, cacheVars, nameVars, retryVars>>

NoWrite == /\ input = Unused /\ next = Unused /\ groups = Unused /\ senders = Unused
           /\ tasks = Unused /\ flushing = Unused /\ result = Unused
NoFork == /\ sizes = Unused /\ executed = Unused /\ todo = Unused /\ slot = Unused
          /\ open = Unused /\ out = Unused /\ ended = Unused /\ drops = Unused
NoCaches == /\ gates = Unused /\ locked = Unused /\ gate_ids = Unused
            /\ evictions = Unused /\ backed_off = Unused /\ rd = Unused
NoNames == /\ dialect = Unused /\ db = Unused /\ locks = Unused /\ writer = Unused
           /\ call = Unused /\ calls = Unused /\ serial = Unused
NoRetry == /\ row = Unused /\ hint = Unused /\ handle = Unused /\ task = Unused
           /\ nextLoc = Unused /\ published = Unused /\ acked = Unused
           /\ loaded = Unused /\ done = Unused

Init ==
  /\ part \in Parts
  /\ CASE part = "writer" ->
            Write!Init /\ cache = Unused /\ NoFork /\ NoCaches /\ NoNames /\ NoRetry
       [] part = "sink" ->
            Write!SinkInit /\ cache = Unused /\ NoFork /\ NoCaches /\ NoNames /\ NoRetry
       [] part = "fork" ->
            /\ Fork!Init /\ files = Unused /\ cache = Unused
            /\ NoWrite /\ NoCaches /\ NoNames /\ NoRetry
       [] part = "caches" ->
            Caches!Init /\ files = Unused /\ NoWrite /\ NoFork /\ NoNames /\ NoRetry
       [] part = "namespaces" ->
            /\ Names!Init /\ files = Unused /\ cache = Unused
            /\ NoWrite /\ NoFork /\ NoCaches /\ NoRetry
       [] part = "retry" ->
            Retry!RetryInit /\ NoWrite /\ NoFork /\ NoCaches /\ NoNames

\* A step of one component.
OfWriter(A) ==
  /\ part = "writer" /\ A
  /\ UNCHANGED <<part, cache, forkVars, cacheVars, nameVars, retryVars>>
OfSink(A) ==
  /\ part = "sink" /\ A
  /\ UNCHANGED <<part, cache, forkVars, cacheVars, nameVars, retryVars>>
OfFork(A) ==
  /\ part = "fork" /\ A
  /\ UNCHANGED <<part, files, cache, writeVars, cacheVars, nameVars, retryVars>>
OfCaches(A) ==
  /\ part = "caches" /\ A
  /\ UNCHANGED <<part, files, writeVars, forkVars, nameVars, retryVars>>
OfNames(A) ==
  /\ part = "namespaces" /\ A
  /\ UNCHANGED <<part, files, cache, writeVars, forkVars, cacheVars, retryVars>>
OfRetry(A) ==
  /\ part = "retry" /\ A
  /\ UNCHANGED <<part, writeVars, forkVars, cacheVars, nameVars>>

Next ==
  \/ OfWriter(Write!Next)
  \/ OfSink(Write!SinkNext)
  \/ OfFork(Fork!Next)
  \/ OfCaches(Caches!Next)
  \/ OfNames(Names!Next)
  \/ OfRetry(Retry!RetryNext)

\* What is not a fault, a new call or a dropped stream.
Progress ==
  \/ OfWriter(Write!Router \/ \E t \in DOMAIN tasks : Write!Task(t))
  \/ OfSink(Write!SinkProgress)
  \/ OfFork(\E b \in {"one", "two"}, p \in 0..1 : Fork!Poll(b, p))
  \/ OfCaches(\E r \in CacheReaders : Caches!Step(r))
  \/ OfNames(\E c \in NameClients : Names!Proceed(c))
  \/ OfRetry(Retry!RetryNext)

\* While some task can go on, one does.  It is weaker than the fairness of
\* the component modules, which have every task polled.
Spec == Init /\ [][Next]_vars /\ WF_vars(Progress)


-----------------------------------------------------------------------------
(* The properties of the components, each stated in its module. *)

\* A call of the Parquet writer, or of DataFusion's sink, that returns files has
\* written every row of the stream exactly once, in its own partition, and what
\* a scan claims about their order is true; a file is empty only after a full
\* one, and an insert counts its rows.
RowsWrittenOnce ==
  /\ part = "writer" => Write!RowsWrittenOnce
  /\ part = "sink" => Write!InsertExact

\* A call of either returns: the router never waits for a channel nobody empties
\* and no task for a channel nobody closes.
WriteReturns == <>(part \in {"writer", "sink"} => Write!Returned)

\* The two branches of a forked plan read the same batches, and all of them.
BranchesSeeEverything == part = "fork" => Fork!BranchesSeeEverything

\* Neither branch of a forked plan waits for ever for the other.
StreamsEnd == <>(part = "fork" => Fork!Ended)

\* A scan reads the bytes of the file it asked for, through all three caches.
ReadsExact == part = "caches" => Caches!ReadsExact

\* A cold read finishes, although a join's probe side is not polled.
ReadersFinish == <>(part = "caches" => Caches!AllFinished)

\* On SQLite a namespace is what the committed calls, one by one, make it.
SqliteSerial == part = "namespaces" => Names!SqliteSerial

\* A namespace only disappears by drop_namespace.
NamespaceSurvives == [][part = "namespaces" => Names!NamespaceSurvivesStep]_vars

\* Every call on a namespace returns, through row locks, deadlocks and retries.
CallsReturn ==
  \A c \in NameClients :
    (part = "namespaces" /\ Names!InCall(c)) ~> (part = "namespaces" => ~Names!InCall(c))

\* Every writer that reloads and retries commits in the end.
EveryWriterCommits == <>(part = "retry" => Retry!AllCommitted)

=============================================================================
