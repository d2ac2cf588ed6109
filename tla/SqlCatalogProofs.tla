-------------------------- MODULE SqlCatalogProofs --------------------------
(***************************************************************************)
(* The safety properties of SqlCatalog, and its refinement of AtomicTable, *)
(* for any number of clients, instances, metadata files and faults: Inv is *)
(* inductive and implies each of them.                                     *)
(***************************************************************************)
EXTENDS SqlCatalogInv, SequenceTheorems, TLAPS

-----------------------------------------------------------------------------
(* Types *)

LEMMA NoMetadataType == NoMetadata \in Metadata /\ NoEntry \in Entry /\ IdleTask \in Tasks
<1>1. NoMetadata \in Metadata
  BY DEF NoMetadata, Metadata
<1>2. NoEntry \in Entry
  BY <1>1 DEF NoEntry, Entry
<1>3. IdleTask \in Tasks
  BY <1>2 DEF IdleTask, Tasks, Pcs
<1>4. QED
  BY <1>1, <1>2, <1>3

\* Pruning a log gives two logs: what stays and what is expired.
LEMMA LogTypes ==
  ASSUME NEW m \in Metadata, NEW prev \in Locs
  PROVE  /\ log_metadata(m, prev) \in Metadata
         /\ expired_metadata_files(m, prev) \in Seq(Locs)
<1> DEFINE log == Append(m.log, prev)
           n == Excess(log)
<1>1. log \in Seq(Locs) /\ Len(log) \in Nat /\ \A i \in 1 .. Len(log) : log[i] \in Locs
  BY DEF Metadata
<1>2. n \in 0 .. Len(log)
  BY <1>1, ClientsAssumption, ConstantsAssumption DEF Excess
<1>3. SubSeq(log, n + 1, Len(log)) \in Seq(Locs)
  BY <1>1, <1>2, SubSeqProperties
<1>4. SubSeq(log, 1, n) \in Seq(Locs)
  BY <1>1, <1>2, SubSeqProperties
<1>5. log_metadata(m, prev) \in Metadata
  BY <1>3 DEF log_metadata, Metadata
<1>6. QED
  BY <1>4, <1>5 DEF expired_metadata_files

LEMMA UpdateTypes ==
  ASSUME NEW m \in Metadata, NEW k \in Commits
  PROVE  apply_table_updates(m, k) \in Metadata
<1>1. Append(m.commits, k) \in Seq(Commits)
  BY DEF Metadata
<1>2. k.id \in Nat /\ m.head \in Nat
  BY DEF Metadata, Commits, Locs
<1>3. QED
  BY <1>1, <1>2 DEF apply_table_updates, Metadata

\* A client's task after one of its steps is a task.
LEMMA TaskTypes ==
  ASSUME TypeOK, NEW c \in Clients, NEW t \in Tasks
  PROVE  [task EXCEPT ![c] = t] \in [Clients -> Tasks]
BY DEF TypeOK

LEMMA PutTypes ==
  ASSUME TypeOK, new_metadata_location, NEW m \in Metadata,
         files' = Put(files, nextLoc, m)
  PROVE  /\ nextLoc \in 1 .. MaxLocs /\ nextLoc \in Locs /\ nextLoc \in Nat
         /\ nextLoc' \in 1 .. MaxLocs + 1
         /\ DOMAIN files' \subseteq 1 .. nextLoc' - 1
         /\ \A l \in DOMAIN files' : files'[l] \in Metadata
BY ClientsAssumption, ConstantsAssumption DEF TypeOK, new_metadata_location, Put, Locs

\* What put_version_hint and a fault leave.
LEMMA FaultTypes ==
  ASSUME TypeOK
  PROVE  /\ Fault => faults' \in 0 .. MaxFaults
         /\ \A l \in Nat : put_version_hint(l) => hint' \in Nat /\ faults' \in 0 .. MaxFaults
BY ClientsAssumption, ConstantsAssumption DEF TypeOK, put_version_hint, Fault

LEMMA TypeInit == Init => TypeOK
BY NoMetadataType, ClientsAssumption, ConstantsAssumption DEF Init, TypeOK, Locs

LEMMA TypeLoad ==
  ASSUME TypeOK, NEW c \in Clients, LoadRow(c) \/ LoadGet(c) \/ LoadCache(c)
  PROVE  TypeOK'
<1>0. task[c] \in Tasks /\ InstanceOf[c] \in Instances
  BY ClientsAssumption, ConstantsAssumption DEF TypeOK
<1>1. CASE LoadRow(c)
  <2>1. [IdleTask EXCEPT !.pc = "get", !.entry.loc = row] \in Tasks
    BY NoMetadataType DEF TypeOK, Tasks, Pcs, Entry
  <2>2. QED
    BY <1>1, <2>1, TaskTypes DEF LoadRow, TypeOK
<1>2. CASE LoadGet(c)
  <2> DEFINE l == task[c].entry.loc
             t == IF l \in DOMAIN files
                  THEN [IdleTask EXCEPT !.pc = "load_cache",
                                        !.entry = [loc |-> l, metadata |-> files[l]]]
                  ELSE IdleTask
  <2>1. t \in Tasks
    <3>1. CASE l \in DOMAIN files
      <4>1. [loc |-> l, metadata |-> files[l]] \in Entry
        BY <1>0, <3>1 DEF TypeOK, Tasks, Entry
      <4>2. QED
        BY <4>1, <3>1, NoMetadataType DEF Tasks, Pcs
    <3>2. CASE l \notin DOMAIN files
      BY <3>2, NoMetadataType
    <3>3. QED
      BY <3>1, <3>2
  <2>2. QED
    BY <1>2, <2>1, TaskTypes DEF LoadGet, TypeOK
<1>3. CASE LoadCache(c)
  <2>1. task[c].entry \in Entry /\ task[c].entry.metadata \in Metadata
    BY <1>0 DEF Tasks, Entry
  <2>2. QED
    BY <1>0, <1>3, <2>1, NoMetadataType, TaskTypes DEF LoadCache, TypeOK
<1>4. QED
  BY <1>1, <1>2, <1>3

LEMMA TypeCreate ==
  ASSUME TypeOK, NEW c \in Clients,
         \/ CreatePut(c) \/ CreateInsert(c) \/ CreateExists(c)
         \/ CreateError(c) \/ CreateCache(c)
  PROVE  TypeOK'
<1>0. /\ task[c] \in Tasks /\ InstanceOf[c] \in Instances
      /\ task[c].entry \in Entry /\ task[c].entry.loc \in Nat
      /\ task[c].entry.metadata \in Metadata
  BY ClientsAssumption, ConstantsAssumption DEF TypeOK, Tasks, Entry
<1>1. CASE CreatePut(c)
  <2> DEFINE m == [NoMetadata EXCEPT !.uuid = nextLoc]
             e == [loc |-> nextLoc, metadata |-> m]
             t == [IdleTask EXCEPT !.pc = "insert", !.entry = e]
  <2>0. nextLoc \in Nat
    BY ClientsAssumption, ConstantsAssumption DEF TypeOK
  <2>1. m \in Metadata
    BY <2>0, NoMetadataType DEF Metadata
  <2>2. e \in Entry
    BY <2>1 DEF TypeOK, Entry
  <2>3. t \in Tasks
    BY <2>2, NoMetadataType DEF Tasks, Pcs
  <2>4. /\ files' = Put(files, nextLoc, m) /\ new_metadata_location
        /\ task' = [task EXCEPT ![c] = t] /\ put_version_hint(nextLoc)
        /\ UNCHANGED <<row, cache, handle, published, acked>>
    BY <1>1 DEF CreatePut
  <2> HIDE DEF m, e, t
  <2>5. QED
    BY <2>1, <2>3, <2>4, TaskTypes, PutTypes, FaultTypes DEF TypeOK
<1>2. CASE CreateInsert(c)
  <2>1. [task[c] EXCEPT !.pc = "create_cache"] \in Tasks
    BY <1>0 DEF Tasks, Pcs
  <2>2. QED
    BY <1>0, <1>2, <2>1, TaskTypes DEF CreateInsert, TypeOK
<1>3. CASE CreateExists(c)
  BY <1>3, NoMetadataType, TaskTypes DEF CreateExists, TypeOK
<1>4. CASE CreateError(c)
  BY <1>0, <1>4, NoMetadataType, TaskTypes, FaultTypes DEF CreateError, TypeOK
<1>5. CASE CreateCache(c)
  BY <1>0, <1>5, NoMetadataType, TaskTypes DEF CreateCache, TypeOK
<1>6. QED
  BY <1>1, <1>2, <1>3, <1>4, <1>5

LEMMA TypeUpdatePut ==
  ASSUME TypeOK, NEW c \in Clients, NEW kind \in Kinds, UpdatePut(c, kind)
  PROVE  TypeOK'
<1> DEFINE old == cache[InstanceOf[c]]
           k   == [id |-> nextLoc, kind |-> kind, base |-> handle[c].head]
           m   == apply_table_updates(old.metadata, k)
           e   == [loc |-> nextLoc, metadata |-> log_metadata(m, old.loc)]
           t   == [pc |-> "swap", prev |-> old.loc, entry |-> e,
                   expired |-> expired_metadata_files(m, old.loc)]
<1>0. old \in Entry /\ old.metadata \in Metadata /\ old.loc \in Locs /\ handle[c].head \in Nat
  BY ClientsAssumption, ConstantsAssumption DEF TypeOK, UpdatePut, Entry, Metadata, Locs
<1>1. k \in Commits
  BY <1>0 DEF TypeOK, Commits, Locs
<1>2. m \in Metadata
  BY <1>0, <1>1, UpdateTypes
<1>3. log_metadata(m, old.loc) \in Metadata /\ expired_metadata_files(m, old.loc) \in Seq(Locs)
  BY <1>0, <1>2, LogTypes
<1>4. t \in Tasks
  BY <1>0, <1>3 DEF Tasks, Pcs, Entry, TypeOK, Locs
<1>5. /\ files' = Put(files, nextLoc, log_metadata(m, old.loc)) /\ new_metadata_location
      /\ task' = [task EXCEPT ![c] = t] /\ put_version_hint(nextLoc)
      /\ UNCHANGED <<row, cache, handle, published, acked>>
  BY DEF UpdatePut
<1> HIDE DEF old, k, m, e, t
<1>6. QED
  BY <1>3, <1>4, <1>5, TaskTypes, PutTypes, FaultTypes DEF TypeOK

LEMMA TypeSwap ==
  ASSUME TypeOK, NEW c \in Clients,
         \/ SwapWon(c) \/ SwapLost(c) \/ SwapError(c)
         \/ UpdateDelete(c) \/ UpdateCache(c)
  PROVE  TypeOK'
<1>0. /\ task[c] \in Tasks /\ InstanceOf[c] \in Instances
      /\ task[c].entry \in Entry /\ task[c].entry.loc \in Nat
      /\ task[c].entry.metadata \in Metadata /\ task[c].entry.metadata.uuid \in Nat
      /\ task[c].expired \in Seq(Locs)
  BY ClientsAssumption, ConstantsAssumption DEF TypeOK, Tasks, Entry, Metadata
<1>1. CASE SwapWon(c)
  <2> DEFINE pc == IF DeleteAfterCommit THEN "delete" ELSE "update_cache"
  <2>1. [task[c] EXCEPT !.pc = pc] \in Tasks
    BY <1>0 DEF Tasks, Pcs
  <2>2. QED
    BY <1>0, <1>1, <2>1, TaskTypes DEF SwapWon, TypeOK
<1>2. CASE SwapLost(c)
  BY <1>0, <1>2, NoMetadataType, TaskTypes DEF SwapLost, TypeOK
<1>3. CASE SwapError(c)
  BY <1>0, <1>3, NoMetadataType, TaskTypes, FaultTypes DEF SwapError, TypeOK
<1>4. CASE UpdateDelete(c)
  <2>1. task' \in [Clients -> Tasks]
    <3>1. CASE task[c].expired = <<>>
      <4>1. [task[c] EXCEPT !.pc = "update_cache"] \in Tasks
        BY <1>0 DEF Tasks, Pcs
      <4>2. QED
        BY <1>4, <3>1, <4>1, TaskTypes DEF UpdateDelete
    <3>2. CASE task[c].expired # <<>>
      <4>1. Tail(task[c].expired) \in Seq(Locs)
        BY <1>0, <3>2, HeadTailProperties
      <4>2. [task[c] EXCEPT !.expired = Tail(task[c].expired)] \in Tasks
        BY <1>0, <4>1 DEF Tasks
      <4>3. QED
        BY <1>4, <3>2, <4>2, TaskTypes DEF UpdateDelete
    <3>3. QED
      BY <3>1, <3>2
  <2>2. /\ faults' \in 0 .. MaxFaults
        /\ DOMAIN files' \subseteq DOMAIN files
        /\ \A l \in DOMAIN files' : files'[l] = files[l]
    BY <1>4, FaultTypes DEF UpdateDelete, Restrict, TypeOK
  <2>3. QED
    BY <1>4, <2>1, <2>2 DEF UpdateDelete, TypeOK
<1>5. CASE UpdateCache(c)
  BY <1>0, <1>5, NoMetadataType, TaskTypes DEF UpdateCache, TypeOK
<1>6. QED
  BY <1>1, <1>2, <1>3, <1>4, <1>5

LEMMA TypeOther ==
  ASSUME TypeOK,
         (\E c \in Clients : DropTable(c)) \/ (\E i \in Instances : Crash(i)) \/ UNCHANGED vars
  PROVE  TypeOK'
<1>1. CASE \E c \in Clients : DropTable(c)
  BY <1>1 DEF DropTable, TypeOK
<1>2. CASE \E i \in Instances : Crash(i)
  BY <1>2, NoMetadataType, FaultTypes DEF Crash, TypeOK
<1>3. CASE UNCHANGED vars
  BY <1>3 DEF vars, TypeOK
<1>4. QED
  BY <1>1, <1>2, <1>3

LEMMA TypeStep == TypeOK /\ [Next]_vars => TypeOK'
BY TypeLoad, TypeCreate, TypeUpdatePut, TypeSwap, TypeOther
   DEF Next, Proceed, Call

\* Every variable of the catalog keeps its type, a location never exceeds the
\* next unused one, and neither bound is exceeded.
THEOREM TypeCorrect == Spec => []TypeOK
BY TypeInit, TypeStep, PTL DEF Spec

-----------------------------------------------------------------------------
(* The metadata log *)

\* Pruning splits the log and the superseded location in two: the new log
\* and the expired files are disjoint, and the new log is still in order.
LEMMA LogSplit ==
  ASSUME NEW m \in Metadata, NEW prev \in Locs,
         Increasing(m.log), \A n \in DOMAIN m.log : m.log[n] < prev
  PROVE  LET new == log_metadata(m, prev).log
             old == expired_metadata_files(m, prev)
         IN  /\ Range(new) \subseteq Range(m.log) \cup {prev}
             /\ Range(old) \subseteq Range(m.log) \cup {prev}
             /\ Range(old) \cap Range(new) = {}
             /\ Increasing(new)
             /\ \A n \in DOMAIN new : new[n] <= prev
<1> DEFINE log == Append(m.log, prev)
           k == Excess(log)
           new == SubSeq(log, k + 1, Len(log))
           old == SubSeq(log, 1, k)
<1>1. /\ m.log \in Seq(Locs) /\ DOMAIN m.log = 1 .. Len(m.log) /\ Len(m.log) \in Nat
      /\ log \in Seq(Locs) /\ DOMAIN log = 1 .. Len(log) /\ Len(log) = Len(m.log) + 1
      /\ \A i \in 1 .. Len(log) : log[i] = IF i <= Len(m.log) THEN m.log[i] ELSE prev
      /\ \A i \in 1 .. Len(log) : log[i] \in Locs
  BY DEF Metadata
<1>2. k \in 0 .. Len(log)
  BY <1>1, ClientsAssumption, ConstantsAssumption DEF Excess
<1>3. Increasing(log) /\ \A i \in DOMAIN log : log[i] <= prev
  BY <1>1 DEF Increasing, Locs
<1>4. \A i \in DOMAIN log : log[i] \in Range(m.log) \cup {prev}
  BY <1>1 DEF Range
<1> HIDE DEF log
<1>5. /\ Len(new) = Len(log) - k /\ DOMAIN new = 1 .. Len(log) - k
      /\ \A i \in 1 .. Len(log) - k : new[i] = log[k + i]
  <2>1. /\ new \in Seq(Locs) /\ Len(new) = IF k + 1 <= Len(log) THEN Len(log) - k ELSE 0
        /\ \A i \in 1 .. Len(log) - k : new[i] = log[k + i]
    <3>1. k + 1 \in Int /\ Len(log) \in Int /\ \A i \in k + 1 .. Len(log) : log[i] \in Locs
      BY <1>1, <1>2
    <3>2. /\ new \in Seq(Locs)
          /\ Len(new) = IF k + 1 <= Len(log) THEN Len(log) - (k + 1) + 1 ELSE 0
          /\ \A i \in 1 .. Len(log) - (k + 1) + 1 : new[i] = log[k + 1 + i - 1]
      BY <3>1, SubSeqProperties
    <3> HIDE DEF new, k
    <3>3. k \in Int /\ Len(log) - (k + 1) + 1 = Len(log) - k
      BY <1>1, <1>2
    <3>4. ASSUME NEW i \in 1 .. Len(log) - k PROVE new[i] = log[k + i]
      <4>1. k + 1 + i - 1 = k + i /\ i \in 1 .. Len(log) - (k + 1) + 1
        BY <3>1, <3>3
      <4>2. QED
        BY <3>2, <4>1
    <3>5. QED
      BY <3>2, <3>3, <3>4
  <2>2. QED
    BY <1>1, <1>2, <2>1, LenProperties
<1>6. /\ Len(old) = k /\ DOMAIN old = 1 .. k
      /\ \A i \in 1 .. k : old[i] = log[i]
  <2>1. /\ old \in Seq(Locs) /\ Len(old) = IF 1 <= k THEN k ELSE 0
        /\ \A i \in 1 .. k : old[i] = log[i]
    BY <1>1, <1>2, SubSeqProperties
  <2>2. QED
    BY <1>1, <1>2, <2>1, LenProperties
<1> HIDE DEF new, old, k
<1>7. Range(new) \subseteq Range(m.log) \cup {prev} /\ Range(old) \subseteq Range(m.log) \cup {prev}
  <2>1. \A i \in 1 .. Len(log) - k : k + i \in DOMAIN log
    BY <1>1, <1>2
  <2>2. \A i \in 1 .. k : i \in DOMAIN log
    BY <1>1, <1>2
  <2>3. QED
    BY <1>4, <1>5, <1>6, <2>1, <2>2 DEF Range
<1>8. Range(old) \cap Range(new) = {}
  <2>1. SUFFICES ASSUME NEW i \in 1 .. k, NEW j \in 1 .. Len(log) - k, old[i] = new[j]
                 PROVE  FALSE
    BY <1>5, <1>6 DEF Range
  <2>2. i \in DOMAIN log /\ k + j \in DOMAIN log /\ i < k + j
    BY <1>1, <1>2
  <2>3. log[i] < log[k + j] /\ log[i] \in Nat /\ log[k + j] \in Nat
    BY <1>1, <1>3, <2>2 DEF Increasing, Locs
  <2>4. QED
    BY <1>5, <1>6, <2>1, <2>3
<1>9. Increasing(new) /\ \A n \in DOMAIN new : new[n] <= prev
  <2>1. \A i \in 1 .. Len(log) - k : k + i \in DOMAIN log
    BY <1>1, <1>2
  <2>2. \A i, j \in 1 .. Len(log) - k : i < j => k + i < k + j
    BY <1>1, <1>2
  <2>3. QED
    BY <1>3, <1>5, <2>1, <2>2 DEF Increasing
<1>10. log_metadata(m, prev).log = new /\ expired_metadata_files(m, prev) = old
  BY DEF log_metadata, expired_metadata_files, Metadata, new, old, log, k
<1>11. QED
  BY <1>7, <1>8, <1>9, <1>10

-----------------------------------------------------------------------------
(* Steps that touch neither the row nor the files *)

\* A task that has nothing to insert, swap or delete, and reads published
\* locations only.
Harmless(t) ==
  \/ t.pc = "idle"
  \/ t.pc = "get" /\ t.entry.loc \in PubLocs
  \/ t.pc = "load_cache" /\ t.entry \in published

LEMMA QuietStep ==
  ASSUME StoreInv, TaskInv,
         UNCHANGED <<row, files, nextLoc, published>>,
         \A c \in Clients : task'[c] = task[c] \/ Harmless(task'[c])
  PROVE  StoreInv' /\ TaskInv'
<1>1. PubLocs' = PubLocs
  BY DEF PubLocs
<1>2. StoreInv'
  BY <1>1 DEF StoreInv, PublishedOK, FilesOK, RowOK, LogOK, History
<1>3. PendingOK'
  BY <1>1 DEF TaskInv, PendingOK, Pending, Harmless
<1>4. InsertOK'
  BY DEF TaskInv, InsertOK, Harmless
<1>5. SwapOK'
  BY <1>1 DEF TaskInv, SwapOK, Harmless
<1>6. ReadOK'
  BY <1>1 DEF TaskInv, ReadOK, Harmless
<1>7. ExpiredOK'
  BY <1>1 DEF TaskInv, ExpiredOK, Harmless
<1>8. QED
  BY <1>2, <1>3, <1>4, <1>5, <1>6, <1>7 DEF TaskInv

-----------------------------------------------------------------------------
(* A new file, and the call that wrote it waiting for its insert or swap *)

LEMMA PutStep ==
  ASSUME TypeOK, StoreInv, TaskInv, NEW c \in Clients, NEW t,
         new_metadata_location,
         files' = Put(files, nextLoc, t.entry.metadata),
         UNCHANGED <<row, published>>,
         task' = [task EXCEPT ![c] = t],
         t.entry.loc = nextLoc,
         t.pc \in {"insert", "swap"},
         t.pc = "insert" => t.entry.metadata = [NoMetadata EXCEPT !.uuid = t.entry.loc],
         t.pc = "swap" => \E o \in published : BuiltOn(t, o, PubLocs)
  PROVE  StoreInv' /\ TaskInv'
<1>1. /\ PubLocs' = PubLocs
      /\ nextLoc \in Nat /\ nextLoc' = nextLoc + 1
      /\ DOMAIN files' = DOMAIN files \cup {nextLoc}
      /\ nextLoc \notin DOMAIN files /\ nextLoc \notin PubLocs
      /\ files'[nextLoc] = t.entry.metadata
      /\ \A l \in DOMAIN files : files'[l] = files[l]
  BY ClientsAssumption, ConstantsAssumption DEF PubLocs, TypeOK, new_metadata_location, Put, StoreInv, PublishedOK
<1>2. /\ task'[c] = t
      /\ \A d \in Clients : d # c => task'[d] = task[d]
  BY DEF TypeOK
<1>3. PublishedOK'
  BY <1>1 DEF StoreInv, PublishedOK
<1>4. FilesOK' /\ RowOK' /\ LogOK' /\ History'
  <2>1. \A e \in published : e.loc \in PubLocs
    BY DEF PubLocs
  <2>2. FilesOK' /\ RowOK'
    BY <1>1, <2>1 DEF StoreInv, FilesOK, RowOK
  <2>3. row # 0 => files'[row] = files[row]
    BY <1>1 DEF StoreInv, RowOK
  <2>4. LogOK' /\ History'
    BY <1>1, <2>3 DEF StoreInv, LogOK, History
  <2>5. QED
    BY <2>2, <2>4
<1>5. PendingOK'
  <2> SUFFICES ASSUME NEW d \in Clients, Pending(d)'
               PROVE  /\ task'[d].entry.loc \in DOMAIN files'
                      /\ files'[task'[d].entry.loc] = task'[d].entry.metadata
                      /\ task'[d].entry.loc \notin PubLocs'
                      /\ \A x \in Clients : x # d /\ Pending(x)' =>
                           task'[x].entry.loc # task'[d].entry.loc
    BY DEF PendingOK
  <2>1. \A x \in Clients : x # c /\ Pending(x)' =>
          /\ task'[x].entry.loc \in DOMAIN files
          /\ files[task'[x].entry.loc] = task'[x].entry.metadata
          /\ task'[x].entry.loc \notin PubLocs
    BY <1>2 DEF TaskInv, PendingOK, Pending
  <2>2. CASE d = c
    BY <1>1, <1>2, <2>1, <2>2
  <2>3. CASE d # c
    <3>1. \A x \in Clients : x # d /\ x # c /\ Pending(x)' =>
            task'[x].entry.loc # task'[d].entry.loc
      BY <1>2, <2>3 DEF TaskInv, PendingOK, Pending
    <3>2. QED
      BY <1>1, <1>2, <2>1, <2>3, <3>1
  <2>4. QED
    BY <2>2, <2>3
<1>6. InsertOK'
  BY <1>2 DEF TaskInv, InsertOK
<1>7. SwapOK'
  BY <1>1, <1>2 DEF TaskInv, SwapOK
<1>8. ReadOK'
  BY <1>1, <1>2 DEF TaskInv, ReadOK
<1>9. ExpiredOK'
  <2>1. row # 0 => files'[row] = files[row]
    BY <1>1 DEF StoreInv, RowOK
  <2>2. QED
    BY <1>1, <1>2, <2>1 DEF TaskInv, ExpiredOK
<1>10. QED
  BY <1>3, <1>4, <1>5, <1>6, <1>7, <1>8, <1>9 DEF StoreInv, TaskInv

-----------------------------------------------------------------------------
(* The row moves to a new file *)

\* What the two ways of moving the row, insert and swap, have in common: the
\* file of the call c becomes the published entry e and the row.
LEMMA PublishFacts ==
  ASSUME TypeOK, StoreInv, TaskInv, NEW c \in Clients, NEW e, NEW t,
         Pending(c), e = task[c].entry,
         row' = e.loc, published' = published \cup {e},
         UNCHANGED <<files, nextLoc>>,
         task' = [task EXCEPT ![c] = t], t.pc \notin {"insert", "swap"}
  PROVE  /\ PubLocs' = PubLocs \cup {e.loc}
         /\ e.loc \notin PubLocs /\ e.loc \in DOMAIN files /\ files[e.loc] = e.metadata
         /\ e.loc \in 1 .. nextLoc - 1 /\ e.loc # 0
         /\ RowOK' /\ FilesOK' /\ PendingOK' /\ InsertOK' /\ SwapOK'
         /\ task'[c] = t /\ \A d \in Clients : d # c => task'[d] = task[d]
<1>1. /\ PubLocs' = PubLocs \cup {e.loc}
      /\ e.loc \notin PubLocs /\ e.loc \in DOMAIN files /\ files[e.loc] = e.metadata
  BY DEF PubLocs, TaskInv, PendingOK
<1>2. e.loc \in 1 .. nextLoc - 1 /\ e.loc # 0
  BY <1>1 DEF TypeOK
<1>3. task'[c] = t /\ \A d \in Clients : d # c => task'[d] = task[d]
  BY DEF TypeOK
<1>4. RowOK'
  BY <1>1 DEF RowOK
<1>5. FilesOK'
  BY <1>1 DEF StoreInv, FilesOK
<1>6. PendingOK'
  BY <1>1, <1>3 DEF TaskInv, PendingOK, Pending
<1>7. InsertOK'
  BY <1>3 DEF TaskInv, InsertOK
<1>8. SwapOK'
  <2>1. SUFFICES ASSUME NEW d \in Clients, task'[d].pc = "swap"
                 PROVE  \E o \in published' : BuiltOn(task'[d], o, PubLocs')
    BY DEF SwapOK
  <2>2. task'[d] = task[d]
    BY <1>3, <2>1
  <2>3. PICK o \in published : BuiltOn(task[d], o, PubLocs)
    BY <2>1, <2>2 DEF TaskInv, SwapOK
  <2>4. BuiltOn(task[d], o, PubLocs')
    BY <1>1, <2>3 DEF BuiltOn
  <2>5. QED
    BY <2>2, <2>4
<1>9. QED
  BY <1>1, <1>2, <1>3, <1>4, <1>5, <1>6, <1>7, <1>8

\* More published locations keep an entry well formed.
LEMMA WellFormedMonotonic ==
  ASSUME NEW e, NEW S, NEW T, S \subseteq T, WellFormed(e, S)
  PROVE  WellFormed(e, T)
BY DEF WellFormed

LEMMA InsertStep ==
  ASSUME TypeOK, StoreInv, TaskInv, NEW c \in Clients, NEW t,
         task[c].pc = "insert",
         row' = task[c].entry.loc, published' = published \cup {task[c].entry},
         UNCHANGED <<files, nextLoc>>,
         task' = [task EXCEPT ![c] = t],
         t.pc = "idle" \/ (t.pc = "create_cache" /\ t.entry = task[c].entry)
  PROVE  StoreInv' /\ TaskInv'
<1> DEFINE e == task[c].entry
<1>1. /\ PubLocs' = PubLocs \cup {e.loc}
      /\ e.loc \notin PubLocs /\ e.loc \in DOMAIN files /\ files[e.loc] = e.metadata
      /\ e.loc \in 1 .. nextLoc - 1 /\ e.loc # 0
      /\ RowOK' /\ FilesOK' /\ PendingOK' /\ InsertOK' /\ SwapOK'
      /\ task'[c] = t /\ \A d \in Clients : d # c => task'[d] = task[d]
  <2>1. Pending(c) /\ t.pc \notin {"insert", "swap"} /\ e = task[c].entry
    BY DEF Pending
  <2>2. row' = e.loc /\ published' = published \cup {e}
    BY DEF e
  <2> HIDE DEF e
  <2>3. QED
    BY <2>1, <2>2, PublishFacts
<1>2. /\ e.metadata.uuid = e.loc /\ e.metadata.head = 0
      /\ CommitIds(e.metadata) = {} /\ DOMAIN e.metadata.log = {} /\ Range(e.metadata.log) = {}
  <2>1. /\ e.metadata.uuid = e.loc /\ e.metadata.head = 0
        /\ e.metadata.commits = <<>> /\ e.metadata.log = <<>>
    BY DEF TaskInv, InsertOK, NoMetadata
  <2> HIDE DEF e
  <2>2. DOMAIN e.metadata.log = {} /\ DOMAIN e.metadata.commits = {}
    BY <2>1
  <2>3. QED
    BY <2>1, <2>2 DEF CommitIds, Range
<1> HIDE DEF e
<1>3. WellFormed(e, PubLocs')
  BY <1>1, <1>2 DEF WellFormed, Increasing
<1>4. PublishedOK'
  <2>1. \A f \in published : WellFormed(f, PubLocs')
    BY <1>1, WellFormedMonotonic DEF StoreInv, PublishedOK
  <2>2. \A f, g \in published' : f.loc = g.loc => f = g
    <3>1. \A f \in published : f.loc \in PubLocs
      BY DEF PubLocs
    <3>2. QED
      BY <1>1, <3>1 DEF StoreInv, PublishedOK, e
  <2>3. QED
    BY <1>1, <1>3, <2>1, <2>2 DEF StoreInv, PublishedOK, e
<1>5. LogOK'
  BY <1>1, <1>2 DEF LogOK, e
<1>6. History'
  <2>1. \A f \in published : f.metadata.uuid # e.loc
    BY <1>1 DEF StoreInv, PublishedOK, WellFormed
  <2>2. row' = e.loc /\ published' = published \cup {e} /\ files' = files
    BY DEF e
  <2>3. QED
    BY <1>1, <1>2, <2>1, <2>2 DEF History
<1>7. ReadOK'
  <2>1. published \subseteq published' /\ PubLocs \subseteq PubLocs'
    BY <1>1
  <2>2. \A d \in Clients : d # c =>
          /\ task'[d].pc = "get" => task'[d].entry.loc \in PubLocs'
          /\ task'[d].pc \in {"load_cache", "create_cache", "delete", "update_cache"}
               => task'[d].entry \in published'
          /\ task'[d].pc \in {"delete", "update_cache"}
               => task'[d].entry.loc \in CommitIds(task'[d].entry.metadata)
    BY <1>1, <2>1 DEF TaskInv, ReadOK
  <2>3. QED
    BY <1>1, <2>2 DEF ReadOK, e
<1>8. ExpiredOK'
  <2>1. row' = e.loc /\ files'[row'] = e.metadata
    BY <1>1 DEF e
  <2>2. QED
    BY <1>1, <1>2, <2>1 DEF TaskInv, ExpiredOK
<1>9. QED
  BY <1>1, <1>4, <1>5, <1>6, <1>7, <1>8 DEF StoreInv, TaskInv

\* A commit's ids are those of the table it was built on, and its own.
LEMMA AppendIds ==
  ASSUME NEW m \in Metadata, NEW o \in Metadata, NEW k, m.commits = Append(o.commits, k)
  PROVE  CommitIds(m) = CommitIds(o) \cup {k.id}
<1> DEFINE s == o.commits
           a == Append(s, k)
<1>1. /\ DOMAIN s = 1 .. Len(s) /\ Len(s) \in Nat /\ DOMAIN a = 1 .. Len(s) + 1
      /\ \A n \in 1 .. Len(s) : a[n] = s[n]
      /\ a[Len(s) + 1] = k
  BY DEF Metadata
<1> HIDE DEF s, a
<1>2. 1 .. Len(s) + 1 = (1 .. Len(s)) \cup {Len(s) + 1}
  BY <1>1
<1>3. {a[n].id : n \in DOMAIN a} = {s[n].id : n \in DOMAIN s} \cup {k.id}
  BY <1>1, <1>2
<1>4. QED
  BY <1>3 DEF CommitIds, a, s

LEMMA SwapStep ==
  ASSUME TypeOK, StoreInv, TaskInv, NEW c \in Clients, NEW t,
         task[c].pc = "swap", row_matches(c),
         row' = task[c].entry.loc, published' = published \cup {task[c].entry},
         UNCHANGED <<files, nextLoc>>,
         task' = [task EXCEPT ![c] = t],
         \/ t.pc = "idle"
         \/ /\ t.pc \in {"delete", "update_cache"}
            /\ t.entry = task[c].entry /\ t.expired = task[c].expired
  PROVE  StoreInv' /\ TaskInv'
<1> DEFINE e == task[c].entry
<1>1. /\ PubLocs' = PubLocs \cup {e.loc}
      /\ e.loc \notin PubLocs /\ e.loc \in DOMAIN files /\ files[e.loc] = e.metadata
      /\ e.loc \in 1 .. nextLoc - 1 /\ e.loc # 0
      /\ RowOK' /\ FilesOK' /\ PendingOK' /\ InsertOK' /\ SwapOK'
      /\ task'[c] = t /\ \A d \in Clients : d # c => task'[d] = task[d]
  <2>1. Pending(c) /\ t.pc \notin {"insert", "swap"} /\ e = task[c].entry
    BY DEF Pending
  <2>2. row' = e.loc /\ published' = published \cup {e}
    BY DEF e
  <2> HIDE DEF e
  <2>3. QED
    BY <2>1, <2>2, PublishFacts
<1>2. PICK o \in published : BuiltOn(task[c], o, PubLocs)
  BY DEF TaskInv, SwapOK
<1>3. /\ o.loc = row /\ row # 0 /\ row \in PubLocs /\ files[row] = o.metadata
      /\ WellFormed(o, PubLocs)
  <2>1. o.loc = row
    BY <1>2 DEF BuiltOn, row_matches
  <2>2. o.loc \in PubLocs /\ WellFormed(o, PubLocs)
    BY DEF StoreInv, PublishedOK, PubLocs
  <2>3. row # 0
    BY <2>1, <2>2 DEF StoreInv, PublishedOK
  <2>4. QED
    BY <2>1, <2>2, <2>3 DEF StoreInv, RowOK, FilesOK
<1>4. /\ e.metadata.uuid = o.metadata.uuid
      /\ Range(e.metadata.log) \subseteq Range(o.metadata.log) \cup {o.loc}
      /\ \A n \in DOMAIN e.metadata.log : e.metadata.log[n] < e.loc
      /\ Increasing(e.metadata.log)
      /\ e.metadata.head \in {e.loc, o.metadata.head}
      /\ Range(task[c].expired) \subseteq Range(o.metadata.log) \cup {o.loc}
      /\ Range(task[c].expired) \cap Range(e.metadata.log) = {}
  BY <1>2 DEF BuiltOn
<1>5. CommitIds(e.metadata) = CommitIds(o.metadata) \cup {e.loc}
  <2>1. PICK kind \in Kinds, base \in PubLocs \cup {0} :
          e.metadata.commits = Append(o.metadata.commits,
                                      [id |-> e.loc, kind |-> kind, base |-> base])
    BY <1>2 DEF BuiltOn
  <2>2. o.metadata \in Metadata /\ e.metadata \in Metadata
    BY DEF TypeOK, Entry, Tasks
  <2> DEFINE k == [id |-> e.loc, kind |-> kind, base |-> base]
  <2>3. k.id = e.loc /\ e.metadata.commits = Append(o.metadata.commits, k)
    BY <2>1
  <2> DEFINE new == e.metadata
             old == o.metadata
  <2>4. /\ k.id = e.loc /\ new \in Metadata /\ old \in Metadata
        /\ new.commits = Append(old.commits, k)
    BY <2>2, <2>3
  <2> HIDE DEF e, k, new, old
  <2>5. CommitIds(new) = CommitIds(old) \cup {k.id}
    BY <2>4, AppendIds
  <2>6. QED
    BY <2>4, <2>5 DEF new, old
<1> HIDE DEF e
<1>6. WellFormed(e, PubLocs')
  BY <1>1, <1>3, <1>4, <1>5 DEF WellFormed
<1>7. PublishedOK'
  <2>1. \A f \in published : WellFormed(f, PubLocs')
    BY <1>1, WellFormedMonotonic DEF StoreInv, PublishedOK
  <2>2. \A f, g \in published' : f.loc = g.loc => f = g
    <3>1. \A f \in published : f.loc \in PubLocs
      BY DEF PubLocs
    <3>2. QED
      BY <1>1, <3>1 DEF StoreInv, PublishedOK, e
  <2>3. QED
    BY <1>1, <1>6, <2>1, <2>2 DEF StoreInv, PublishedOK, e
<1>8. row' = e.loc /\ files' = files /\ files'[row'] = e.metadata /\ published' = published \cup {e}
  BY <1>1 DEF e
<1>9. LogOK'
  BY <1>3, <1>4, <1>8 DEF StoreInv, RowOK, LogOK
<1>10. History'
  BY <1>3, <1>4, <1>5, <1>8 DEF StoreInv, History
<1>11. ReadOK'
  <2>1. published \subseteq published' /\ PubLocs \subseteq PubLocs'
    BY <1>1
  <2>2. \A d \in Clients : d # c =>
          /\ task'[d].pc = "get" => task'[d].entry.loc \in PubLocs'
          /\ task'[d].pc \in {"load_cache", "create_cache", "delete", "update_cache"}
               => task'[d].entry \in published'
          /\ task'[d].pc \in {"delete", "update_cache"}
               => task'[d].entry.loc \in CommitIds(task'[d].entry.metadata)
    BY <1>1, <2>1 DEF TaskInv, ReadOK
  <2>3. QED
    BY <1>1, <1>5, <1>8, <2>2 DEF ReadOK, e
<1>12. ExpiredOK'
  <2>1. SUFFICES ASSUME NEW d \in Clients, task'[d].pc = "delete"
                 PROVE  /\ Range(task'[d].expired) \subseteq PubLocs'
                        /\ e.loc \notin Range(task'[d].expired)
                        /\ Range(task'[d].expired) \cap Range(e.metadata.log) = {}
    BY <1>8 DEF ExpiredOK
  <2>2. CASE d = c
    <3>1. Range(task[c].expired) \subseteq PubLocs
      BY <1>3, <1>4 DEF WellFormed
    <3>2. QED
      BY <1>1, <1>4, <2>1, <2>2, <3>1
  <2>3. CASE d # c
    BY <1>1, <1>3, <1>4, <2>1, <2>3 DEF TaskInv, ExpiredOK
  <2>4. QED
    BY <2>2, <2>3
<1>13. QED
  BY <1>1, <1>7, <1>9, <1>10, <1>11, <1>12 DEF StoreInv, TaskInv

-----------------------------------------------------------------------------
(* Files and rows that go away *)

LEMMA DeleteStep ==
  ASSUME TypeOK, StoreInv, TaskInv, NEW c \in Clients, UpdateDelete(c)
  PROVE  StoreInv' /\ TaskInv'
<1> DEFINE x == task[c].expired
<1>1. /\ UNCHANGED <<row, nextLoc, published>> /\ PubLocs' = PubLocs
      /\ task[c].pc = "delete" /\ task[c] \in Tasks /\ x \in Seq(Locs)
  BY DEF UpdateDelete, PubLocs, TypeOK, Tasks
<1>2. /\ \A d \in Clients : d # c => task'[d] = task[d]
      /\ task'[c].entry = task[c].entry
      /\ task'[c].pc \in {"delete", "update_cache"}
      /\ Range(task'[c].expired) \subseteq Range(x)
  <2>1. CASE x = <<>>
    BY <1>1, <2>1 DEF UpdateDelete, TypeOK, Tasks
  <2>2. CASE x # <<>>
    <3>1. task' = [task EXCEPT ![c].expired = Tail(x)]
      BY <2>2 DEF UpdateDelete
    <3>2. Range(Tail(x)) \subseteq Range(x)
      BY <1>1, <2>2 DEF Range
    <3>3. QED
      BY <1>1, <3>1, <3>2 DEF TypeOK, Tasks
  <2>3. QED
    BY <2>1, <2>2
<1>3. /\ DOMAIN files' \subseteq DOMAIN files
      /\ \A l \in DOMAIN files \ Range(x) : l \in DOMAIN files'
      /\ \A l \in DOMAIN files' : files'[l] = files[l]
  <2>1. CASE x = <<>>
    BY <2>1 DEF UpdateDelete
  <2>2. CASE x # <<>>
    <3>1. Head(x) \in Range(x)
      BY <1>1, <2>2 DEF Range
    <3>2. files' = files \/ files' = [l \in DOMAIN files \ {Head(x)} |-> files[l]]
      BY <2>2 DEF UpdateDelete, Restrict
    <3>3. QED
      BY <3>1, <3>2
  <2>3. QED
    BY <2>1, <2>2
<1>4. /\ Range(x) \subseteq PubLocs /\ row \notin Range(x)
      /\ row # 0 => Range(x) \cap Range(files[row].log) = {}
  BY <1>1 DEF TaskInv, ExpiredOK
<1> HIDE DEF x
<1>5. row # 0 => row \in DOMAIN files' /\ files'[row] = files[row]
  BY <1>3, <1>4 DEF StoreInv, RowOK
<1>6. StoreInv'
  <2>1. PublishedOK' /\ FilesOK' /\ RowOK'
    BY <1>1, <1>3, <1>5 DEF StoreInv, PublishedOK, FilesOK, RowOK
  <2>2. LogOK' /\ History'
    BY <1>1, <1>3, <1>4, <1>5 DEF StoreInv, LogOK, History
  <2>3. QED
    BY <2>1, <2>2 DEF StoreInv
<1>7. PendingOK'
  <2>1. \A d \in Clients : Pending(d)' => d # c /\ Pending(d) /\ task'[d] = task[d]
    BY <1>2 DEF Pending
  <2>2. QED
    BY <1>1, <1>3, <1>4, <2>1 DEF TaskInv, PendingOK
<1>8. InsertOK' /\ SwapOK'
  BY <1>1, <1>2 DEF TaskInv, InsertOK, SwapOK
<1>9. ReadOK'
  <2>1. task'[c].entry \in published' /\ task'[c].entry.loc \in CommitIds(task'[c].entry.metadata)
    BY <1>1, <1>2 DEF TaskInv, ReadOK
  <2>2. QED
    BY <1>1, <1>2, <2>1 DEF TaskInv, ReadOK
<1>10. ExpiredOK'
  BY <1>1, <1>2, <1>4, <1>5 DEF TaskInv, ExpiredOK, x
<1>11. QED
  BY <1>6, <1>7, <1>8, <1>9, <1>10 DEF TaskInv

LEMMA DropStep ==
  ASSUME TypeOK, StoreInv, TaskInv, NEW c \in Clients, DropTable(c)
  PROVE  StoreInv' /\ TaskInv'
<1>1. row' = 0 /\ UNCHANGED <<files, task, nextLoc, published>> /\ PubLocs' = PubLocs
  BY DEF DropTable, PubLocs
<1>2. StoreInv'
  BY <1>1 DEF StoreInv, PublishedOK, FilesOK, RowOK, LogOK, History
<1>3. PendingOK' /\ InsertOK' /\ SwapOK' /\ ReadOK'
  BY <1>1 DEF TaskInv, PendingOK, Pending, InsertOK, SwapOK, ReadOK
<1>4. ExpiredOK'
  <2>1. 0 \notin PubLocs
    BY DEF StoreInv, PublishedOK
  <2>2. QED
    BY <1>1, <2>1 DEF TaskInv, ExpiredOK
<1>5. QED
  BY <1>2, <1>3, <1>4 DEF TaskInv

-----------------------------------------------------------------------------
(* Inv is inductive *)

LEMMA InvInit == Init => Inv
<1> SUFFICES ASSUME Init PROVE Inv
  OBVIOUS
<1>1. TypeOK
  BY TypeInit
<1>2. published = {} /\ PubLocs = {} /\ row = 0
  BY DEF Init, PubLocs
<1>3. StoreInv
  BY <1>2 DEF StoreInv, PublishedOK, FilesOK, RowOK, LogOK, History
<1>4. TaskInv
  BY DEF Init, IdleTask, TaskInv, PendingOK, Pending, InsertOK, SwapOK, ReadOK, ExpiredOK
<1>5. AckedOK /\ NoDirtyRead
  BY DEF Init, AckedOK, NoDirtyRead
<1>6. QED
  BY <1>1, <1>3, <1>4, <1>5 DEF Inv

\* load_tabular reads published files only, even when it reads them late.
LEMMA LoadPreserves ==
  ASSUME Inv, NEW c \in Clients, LoadRow(c) \/ LoadGet(c) \/ LoadCache(c)
  PROVE  StoreInv' /\ TaskInv'
<1> USE DEF Inv
<1>1. CASE LoadRow(c)
  <2>1. Harmless(task'[c]) /\ \A d \in Clients : d # c => task'[d] = task[d]
    BY <1>1 DEF LoadRow, TypeOK, IdleTask, NoEntry, Harmless, StoreInv, RowOK
  <2>2. QED
    BY <1>1, <2>1, QuietStep DEF LoadRow
<1>2. CASE LoadGet(c)
  <2> DEFINE l == task[c].entry.loc
  <2>1. l \in PubLocs
    BY <1>2 DEF LoadGet, TaskInv, ReadOK
  <2>2. PICK e \in published : e.loc = l
    BY <2>1 DEF PubLocs
  <2>3. l \in DOMAIN files => [loc |-> l, metadata |-> files[l]] \in published
    <3>1. l \in DOMAIN files => files[l] = e.metadata
      BY <2>2 DEF StoreInv, FilesOK
    <3>2. e = [loc |-> e.loc, metadata |-> e.metadata]
      BY <2>2 DEF TypeOK, Entry
    <3>3. QED
      BY <2>2, <3>1, <3>2
  <2>4. Harmless(task'[c]) /\ \A d \in Clients : d # c => task'[d] = task[d]
    BY <1>2, <2>3 DEF LoadGet, TypeOK, IdleTask, Harmless
  <2>5. QED
    BY <1>2, <2>4, QuietStep DEF LoadGet
<1>3. CASE LoadCache(c)
  <2>1. \A d \in Clients : task'[d] = task[d] \/ Harmless(task'[d])
    BY <1>3 DEF LoadCache, TypeOK, IdleTask, Harmless
  <2>2. QED
    BY <1>3, <2>1, QuietStep DEF LoadCache
<1>4. QED
  BY <1>1, <1>2, <1>3

LEMMA CreatePreserves ==
  ASSUME Inv, NEW c \in Clients,
         \/ CreatePut(c) \/ CreateInsert(c) \/ CreateExists(c)
         \/ CreateError(c) \/ CreateCache(c)
  PROVE  StoreInv' /\ TaskInv'
<1> USE DEF Inv
<1>1. CASE CreatePut(c)
  <2> DEFINE e == [loc |-> nextLoc, metadata |-> [NoMetadata EXCEPT !.uuid = nextLoc]]
             t == [IdleTask EXCEPT !.pc = "insert", !.entry = e]
  <2>1. /\ t.pc = "insert" /\ t.entry.loc = nextLoc
        /\ t.entry.metadata = [NoMetadata EXCEPT !.uuid = t.entry.loc]
    BY DEF IdleTask
  <2>2. /\ new_metadata_location /\ files' = Put(files, nextLoc, t.entry.metadata)
        /\ UNCHANGED <<row, published>> /\ task' = [task EXCEPT ![c] = t]
    BY <1>1 DEF CreatePut, IdleTask
  <2> HIDE DEF t
  <2>3. QED
    BY <2>1, <2>2, PutStep
<1>2. CASE CreateInsert(c)
  <2> DEFINE t == [task[c] EXCEPT !.pc = "create_cache"]
  <2>1. t.pc = "create_cache" /\ t.entry = task[c].entry /\ task' = [task EXCEPT ![c] = t]
    BY <1>2 DEF CreateInsert, TypeOK, Tasks
  <2> HIDE DEF t
  <2>2. QED
    BY <1>2, <2>1, InsertStep DEF CreateInsert
<1>3. CASE CreateExists(c)
  <2>1. \A d \in Clients : task'[d] = task[d] \/ Harmless(task'[d])
    BY <1>3 DEF CreateExists, TypeOK, IdleTask, Harmless
  <2>2. QED
    BY <1>3, <2>1, QuietStep DEF CreateExists
<1>4. CASE CreateError(c)
  <2>1. CASE UNCHANGED <<row, published>>
    <3>1. \A d \in Clients : task'[d] = task[d] \/ Harmless(task'[d])
      BY <1>4 DEF CreateError, TypeOK, IdleTask, Harmless
    <3>2. QED
      BY <1>4, <2>1, <3>1, QuietStep DEF CreateError
  <2>2. CASE row = 0 /\ row' = task[c].entry.loc /\ published' = published \cup {task[c].entry}
    <3>1. IdleTask.pc = "idle"
      BY DEF IdleTask
    <3>2. QED
      BY <1>4, <2>2, <3>1, InsertStep DEF CreateError
  <2>3. QED
    BY <1>4, <2>1, <2>2 DEF CreateError
<1>5. CASE CreateCache(c)
  <2>1. \A d \in Clients : task'[d] = task[d] \/ Harmless(task'[d])
    BY <1>5 DEF CreateCache, TypeOK, IdleTask, Harmless
  <2>2. QED
    BY <1>5, <2>1, QuietStep DEF CreateCache
<1>6. QED
  BY <1>1, <1>2, <1>3, <1>4, <1>5

\* Whatever the cache holds when update_table starts, the new file extends a
\* published entry.
LEMMA UpdatePutPreserves ==
  ASSUME Inv, NEW c \in Clients, NEW kind \in Kinds, UpdatePut(c, kind)
  PROVE  StoreInv' /\ TaskInv'
<1> USE DEF Inv
<1> DEFINE old == cache[InstanceOf[c]]
           k   == [id |-> nextLoc, kind |-> kind, base |-> handle[c].head]
           m   == apply_table_updates(old.metadata, k)
           e   == [loc |-> nextLoc, metadata |-> log_metadata(m, old.loc)]
           t   == [pc |-> "swap", prev |-> old.loc, entry |-> e,
                   expired |-> expired_metadata_files(m, old.loc)]
<1>0. old \in Entry /\ old.metadata \in Metadata /\ old.loc \in Locs /\ handle[c].head \in Nat
  BY ClientsAssumption, ConstantsAssumption DEF TypeOK, UpdatePut, Entry, Metadata, Locs
<1>1. old \in published /\ WellFormed(old, PubLocs) /\ old.loc < nextLoc
  <2>1. old # NoEntry /\ InstanceOf[c] \in Instances
    BY ClientsAssumption, ConstantsAssumption DEF UpdatePut, NoEntry
  <2>2. old \in published
    BY <2>1 DEF NoDirtyRead
  <2>3. old.loc \in PubLocs /\ WellFormed(old, PubLocs)
    BY <2>2 DEF StoreInv, PublishedOK, PubLocs
  <2>4. PubLocs \subseteq 1 .. nextLoc - 1 /\ nextLoc \in Nat
    BY ClientsAssumption, ConstantsAssumption DEF StoreInv, PublishedOK, TypeOK
  <2>5. old.loc \in 1 .. nextLoc - 1
    BY <2>3, <2>4
  <2>6. old.loc < nextLoc
    BY <2>4, <2>5
  <2>7. QED
    BY <2>2, <2>3, <2>6
<1>2. handle[c].head \in PubLocs \cup {0}
  <2>1. CASE handle[c] = NoMetadata
    BY <2>1 DEF NoMetadata
  <2>2. CASE handle[c] # NoMetadata
    BY <2>2 DEF NoDirtyRead, StoreInv, PublishedOK, WellFormed
  <2>3. QED
    BY <2>1, <2>2
<1>3. kind = "data" => handle[c].head = old.metadata.head
  BY DEF UpdatePut, check_table_requirements
<1>4. /\ k \in Commits /\ m \in Metadata /\ m.log = old.metadata.log
      /\ m.uuid = old.metadata.uuid /\ m.commits = Append(old.metadata.commits, k)
      /\ m.head = IF kind = "data" THEN nextLoc ELSE old.metadata.head
  <2>1. k \in Commits /\ k.id = nextLoc /\ k.kind = kind
    BY <1>0 DEF TypeOK, Commits, Locs
  <2> HIDE DEF k
  <2>2. m \in Metadata
    BY <1>0, <2>1, UpdateTypes
  <2>3. QED
    BY <1>0, <2>1, <2>2 DEF apply_table_updates, Metadata
<1>5. /\ log_metadata(m, old.loc).uuid = m.uuid
      /\ log_metadata(m, old.loc).commits = m.commits
      /\ log_metadata(m, old.loc).head = m.head
  BY <1>4 DEF log_metadata, Metadata
<1>6. Increasing(m.log) /\ \A n \in DOMAIN m.log : m.log[n] < old.loc
  BY <1>1, <1>4 DEF WellFormed
<1> HIDE DEF m
<1>7. LET new == log_metadata(m, old.loc).log
          gone == expired_metadata_files(m, old.loc)
      IN  /\ Range(new) \subseteq Range(m.log) \cup {old.loc}
          /\ Range(gone) \subseteq Range(m.log) \cup {old.loc}
          /\ Range(gone) \cap Range(new) = {}
          /\ Increasing(new)
          /\ \A n \in DOMAIN new : new[n] <= old.loc
  BY <1>0, <1>4, <1>6, LogSplit
<1>8. \A n \in DOMAIN log_metadata(m, old.loc).log : log_metadata(m, old.loc).log[n] < nextLoc
  <2>1. log_metadata(m, old.loc).log \in Seq(Locs)
    BY <1>0, <1>4, LogTypes DEF Metadata
  <2>2. QED
    BY <1>0, <1>1, <1>7, <2>1 DEF TypeOK, Locs
<1>9. BuiltOn(t, old, PubLocs)
  <2>1. \E kd \in Kinds, base \in PubLocs \cup {0} :
          /\ kd = "data" => base = old.metadata.head
          /\ log_metadata(m, old.loc).commits
               = Append(old.metadata.commits, [id |-> nextLoc, kind |-> kd, base |-> base])
          /\ log_metadata(m, old.loc).head = IF kd = "data" THEN nextLoc ELSE old.metadata.head
    BY <1>2, <1>3, <1>4, <1>5
  <2>2. QED
    BY <1>4, <1>5, <1>7, <1>8, <2>1 DEF BuiltOn
<1>10. /\ new_metadata_location
       /\ files' = Put(files, nextLoc, t.entry.metadata)
       /\ UNCHANGED <<row, published>> /\ task' = [task EXCEPT ![c] = t]
       /\ t.pc = "swap" /\ t.entry.loc = nextLoc
  BY DEF UpdatePut, m
<1> HIDE DEF t, old
<1>11. QED
  BY <1>1, <1>9, <1>10, PutStep

LEMMA SwapPreserves ==
  ASSUME Inv, NEW c \in Clients,
         SwapWon(c) \/ SwapLost(c) \/ SwapError(c) \/ UpdateCache(c)
  PROVE  StoreInv' /\ TaskInv'
<1> USE DEF Inv
<1>1. CASE SwapWon(c)
  <2> DEFINE pc == IF DeleteAfterCommit THEN "delete" ELSE "update_cache"
             t == [task[c] EXCEPT !.pc = pc]
  <2>1. /\ t.pc \in {"delete", "update_cache"} /\ t.entry = task[c].entry
        /\ t.expired = task[c].expired /\ task' = [task EXCEPT ![c] = t]
    BY <1>1 DEF SwapWon, TypeOK, Tasks
  <2> HIDE DEF t
  <2>2. QED
    BY <1>1, <2>1, SwapStep DEF SwapWon
<1>2. CASE SwapLost(c)
  <2>1. \A d \in Clients : task'[d] = task[d] \/ Harmless(task'[d])
    BY <1>2 DEF SwapLost, TypeOK, IdleTask, Harmless
  <2>2. QED
    BY <1>2, <2>1, QuietStep DEF SwapLost
<1>3. CASE SwapError(c)
  <2>1. CASE UNCHANGED <<row, published>>
    <3>1. \A d \in Clients : task'[d] = task[d] \/ Harmless(task'[d])
      BY <1>3 DEF SwapError, TypeOK, IdleTask, Harmless
    <3>2. QED
      BY <1>3, <2>1, <3>1, QuietStep DEF SwapError
  <2>2. CASE /\ row_matches(c) /\ row' = task[c].entry.loc
             /\ published' = published \cup {task[c].entry}
    <3>1. IdleTask.pc = "idle"
      BY DEF IdleTask
    <3>2. QED
      BY <1>3, <2>2, <3>1, SwapStep DEF SwapError
  <2>3. QED
    BY <1>3, <2>1, <2>2 DEF SwapError
<1>4. CASE UpdateCache(c)
  <2>1. \A d \in Clients : task'[d] = task[d] \/ Harmless(task'[d])
    BY <1>4 DEF UpdateCache, TypeOK, IdleTask, Harmless
  <2>2. QED
    BY <1>4, <2>1, QuietStep DEF UpdateCache
<1>5. QED
  BY <1>1, <1>2, <1>3, <1>4

LEMMA CrashPreserves ==
  ASSUME Inv, NEW i \in Instances, Crash(i)
  PROVE  StoreInv' /\ TaskInv'
<1>1. \A d \in Clients : task'[d] = task[d] \/ Harmless(task'[d])
  BY DEF Crash, IdleTask, Harmless
<1>2. QED
  BY <1>1, QuietStep DEF Inv, Crash

\* Only published metadata reaches a cache or a caller.
LEMMA ReadsPreserve ==
  ASSUME Inv, Next
  PROVE  NoDirtyRead' /\ published \subseteq published'
<1> USE DEF Inv
<1> DEFINE Same == UNCHANGED <<cache, handle>> /\ published \subseteq published'
           Returns(c) == /\ task[c].entry \in published /\ published' = published
                         /\ cache' = [cache EXCEPT ![InstanceOf[c]] = task[c].entry]
                         /\ handle' = [handle EXCEPT ![c] = task[c].entry.metadata]
           Forgets == /\ published' = published
                      /\ \A i \in Instances : cache'[i] \in {cache[i], NoEntry}
                      /\ \A c \in Clients : handle'[c] \in {handle[c], NoMetadata}
<1>1. CASE Same
  BY <1>1 DEF NoDirtyRead
<1>2. ASSUME NEW c \in Clients, Returns(c) PROVE NoDirtyRead' /\ published \subseteq published'
  <2>1. /\ \A i \in Instances : cache'[i] \in {cache[i], task[c].entry}
        /\ \A d \in Clients : handle'[d] \in {handle[d], task[c].entry.metadata}
    BY <1>2 DEF TypeOK
  <2>2. QED
    BY <1>2, <2>1 DEF NoDirtyRead
<1>3. CASE Forgets
  BY <1>3 DEF NoDirtyRead
<1>4. ASSUME NEW c \in Clients, LoadCache(c) \/ CreateCache(c) \/ UpdateCache(c)
      PROVE  Returns(c)
  BY <1>4 DEF LoadCache, CreateCache, UpdateCache, TaskInv, ReadOK
<1>5. ASSUME NEW c \in Clients, SwapLost(c) PROVE Forgets
  BY <1>5 DEF SwapLost, TypeOK
<1>6. ASSUME NEW i \in Instances, Crash(i) PROVE Forgets
  BY <1>6 DEF Crash, TypeOK
<1>7. ASSUME NEW c \in Clients,
             \/ LoadRow(c) \/ LoadGet(c) \/ CreatePut(c) \/ CreateInsert(c) \/ CreateExists(c)
             \/ CreateError(c) \/ (\E kind \in Kinds : UpdatePut(c, kind)) \/ SwapWon(c)
             \/ SwapError(c) \/ UpdateDelete(c) \/ DropTable(c)
      PROVE  Same
  BY <1>7 DEF LoadRow, LoadGet, CreatePut, CreateInsert, CreateExists, CreateError, UpdatePut,
              SwapWon, SwapError, UpdateDelete, DropTable
<1> HIDE DEF Same, Returns, Forgets
<1>8. QED
  BY <1>1, <1>2, <1>3, <1>4, <1>5, <1>6, <1>7 DEF Next, Proceed, Call

\* A commit is acknowledged only after it was published.
LEMMA AcksPreserve ==
  ASSUME Inv, Next, published \subseteq published'
  PROVE  AckedOK'
<1> USE DEF Inv
<1>1. CASE acked' = acked
  BY <1>1 DEF AckedOK
<1>2. ASSUME NEW c \in Clients, UpdateCache(c) PROVE AckedOK'
  <2>1. task[c].entry \in published /\ task[c].entry.loc \in CommitIds(task[c].entry.metadata)
    BY <1>2 DEF UpdateCache, TaskInv, ReadOK
  <2>2. acked' = acked \cup {[uuid |-> task[c].entry.metadata.uuid, id |-> task[c].entry.loc]}
    BY <1>2 DEF UpdateCache
  <2>3. QED
    BY <2>1, <2>2 DEF AckedOK
<1>3. (\E c \in Clients : UpdateCache(c)) \/ acked' = acked
  BY DEF Next, Proceed, Call, LoadRow, LoadGet, LoadCache, CreatePut, CreateInsert,
         CreateExists, CreateError, CreateCache, UpdatePut, SwapWon, SwapLost, SwapError,
         UpdateDelete, DropTable, Crash
<1>4. QED
  BY <1>1, <1>2, <1>3

LEMMA InvStep == Inv /\ [Next]_vars => Inv'
<1> SUFFICES ASSUME Inv, [Next]_vars PROVE Inv'
  OBVIOUS
<1>1. TypeOK'
  BY TypeStep DEF Inv
<1>2. CASE UNCHANGED vars
  <2>1. \A c \in Clients : task'[c] = task[c]
    BY <1>2 DEF vars
  <2>2. StoreInv' /\ TaskInv'
    BY <1>2, <2>1, QuietStep DEF vars, Inv
  <2>3. AckedOK' /\ NoDirtyRead'
    BY <1>2 DEF vars, Inv, AckedOK, NoDirtyRead
  <2>4. QED
    BY <1>1, <2>2, <2>3 DEF Inv
<1>3. CASE Next
  <2>1. StoreInv' /\ TaskInv'
    <3>1. ASSUME NEW c \in Clients, UpdateDelete(c) \/ DropTable(c) PROVE StoreInv' /\ TaskInv'
      BY <3>1, DeleteStep, DropStep DEF Inv
    <3>2. QED
      BY <1>3, <3>1, LoadPreserves, CreatePreserves, UpdatePutPreserves, SwapPreserves,
         CrashPreserves DEF Next, Proceed, Call
  <2>2. NoDirtyRead' /\ AckedOK'
    BY <1>3, ReadsPreserve, AcksPreserve
  <2>3. QED
    BY <1>1, <2>1, <2>2 DEF Inv
<1>4. QED
  BY <1>2, <1>3

\* Inv holds always: locations are published once, in the call that wrote
\* them, and only what has been published is read, logged or deleted.
THEOREM InvHolds == Spec => []Inv
BY InvInit, InvStep, PTL DEF Spec

-----------------------------------------------------------------------------
(* The safety properties *)

\* The row never dangles and neither does the metadata log of the table it
\* names, whatever order commits and deletions interleave in.
THEOREM CurrentFilesAlwaysExist == Spec => []CurrentFilesExist
<1>1. Inv => CurrentFilesExist
  BY DEF Inv, StoreInv, RowOK, LogOK, CurrentFilesExist, Range
<1>2. QED
  BY <1>1, InvHolds, PTL

\* No cache and no caller ever holds metadata the row has not pointed at.
THEOREM NeverDirtyRead == Spec => []NoDirtyRead
<1>1. Inv => NoDirtyRead
  BY DEF Inv
<1>2. QED
  BY <1>1, InvHolds, PTL

\* A commit that was acknowledged stays in the history of its table.
THEOREM NeverLosesCommit == Spec => []NoLostCommit
<1>1. Inv => NoLostCommit
  <2> SUFFICES ASSUME Inv, NEW a \in acked, row # 0, files[row].uuid = a.uuid
               PROVE  \E n \in DOMAIN files[row].commits : files[row].commits[n].id = a.id
    BY DEF NoLostCommit
  <2>1. PICK e \in published : e.metadata.uuid = a.uuid /\ a.id \in CommitIds(e.metadata)
    BY DEF Inv, AckedOK
  <2>2. a.id \in CommitIds(files[row])
    BY <2>1 DEF Inv, StoreInv, History
  <2>3. QED
    BY <2>2 DEF CommitIds
<1>2. QED
  BY <1>1, InvHolds, PTL

-----------------------------------------------------------------------------
(* Refinement *)

\* Steps that leave the row, its file and the history alone are invisible.
LEMMA Invisible ==
  ASSUME UNCHANGED <<row, published>>, row # 0 => files'[row] = files[row]
  PROVE  UNCHANGED <<Table, Uuids>>
BY DEF Table, Uuids

\* The insert of a row creates the table.
LEMMA InsertCreates ==
  ASSUME Inv, NEW c \in Clients, task[c].pc = "insert", row = 0,
         row' = task[c].entry.loc, published' = published \cup {task[c].entry},
         files' = files
  PROVE  \E u \in 1 .. MaxLocs : Atomic!Create(u)
<1> DEFINE e == task[c].entry
<1>1. e.loc \in 1 .. MaxLocs /\ e.loc # 0 /\ e.loc \notin PubLocs /\ files[e.loc] = e.metadata
  BY ClientsAssumption, ConstantsAssumption DEF Inv, TypeOK, TaskInv, PendingOK, Pending
<1>2. e.metadata.uuid = e.loc /\ e.metadata.commits = <<>> /\ e.metadata.head = 0
  BY DEF Inv, TaskInv, InsertOK, NoMetadata
<1>3. row' = e.loc /\ published' = published \cup {e}
  OBVIOUS
<1> HIDE DEF e
<1>4. Table.uuid = 0
  BY DEF Table
<1>5. e.loc \notin Uuids
  BY <1>1 DEF Inv, StoreInv, PublishedOK, WellFormed, Uuids
<1>6. Table' = [uuid |-> e.loc, commits |-> <<>>, head |-> 0]
  BY <1>1, <1>2, <1>3 DEF Table
<1>7. Uuids' = Uuids \cup {e.loc}
  BY <1>2, <1>3 DEF Uuids
<1>8. QED
  BY <1>1, <1>4, <1>5, <1>6, <1>7 DEF Atomic!Create

\* A swap that matches the row appends the commit to the current table.
LEMMA SwapCommits ==
  ASSUME Inv, NEW c \in Clients, task[c].pc = "swap", row_matches(c),
         row' = task[c].entry.loc, published' = published \cup {task[c].entry},
         files' = files
  PROVE  \E k \in Atomic!Commits : Atomic!Commit(k)
<1> DEFINE e == task[c].entry
<1>1. e.loc \in 1 .. MaxLocs /\ e.loc # 0 /\ e.loc \notin PubLocs /\ files[e.loc] = e.metadata
  BY ClientsAssumption, ConstantsAssumption DEF Inv, TypeOK, TaskInv, PendingOK, Pending
<1>2. PICK o \in published : BuiltOn(task[c], o, PubLocs)
  BY DEF Inv, TaskInv, SwapOK
<1>3. /\ o.loc = row /\ row # 0 /\ files[row] = o.metadata
      /\ WellFormed(o, PubLocs) /\ o.metadata \in Metadata
  <2>1. o.loc = row
    BY <1>2 DEF BuiltOn, row_matches
  <2>2. o.loc \in PubLocs /\ WellFormed(o, PubLocs) /\ o.metadata \in Metadata
    BY DEF Inv, StoreInv, PublishedOK, PubLocs, TypeOK, Entry
  <2>3. row # 0
    BY <2>1, <2>2 DEF Inv, StoreInv, PublishedOK
  <2>4. QED
    BY <2>1, <2>2, <2>3 DEF Inv, StoreInv, RowOK, FilesOK
<1>4. PICK kind \in Kinds, base \in PubLocs \cup {0} :
        /\ kind = "data" => base = o.metadata.head
        /\ e.metadata.commits = Append(o.metadata.commits,
                                       [id |-> e.loc, kind |-> kind, base |-> base])
        /\ e.metadata.head = IF kind = "data" THEN e.loc ELSE o.metadata.head
  BY <1>2 DEF BuiltOn
<1>5. e.metadata.uuid = o.metadata.uuid
  BY <1>2 DEF BuiltOn
<1>6. row' = e.loc /\ published' = published \cup {e}
  OBVIOUS
<1> HIDE DEF e
<1> DEFINE k == [id |-> e.loc, kind |-> kind, base |-> base]
<1>7. k \in Atomic!Commits
  <2>1. PubLocs \subseteq 1 .. MaxLocs
    BY ClientsAssumption, ConstantsAssumption DEF Inv, StoreInv, PublishedOK, TypeOK
  <2>2. QED
    BY <1>1, <2>1 DEF Atomic!Commits, Atomic!Kinds, Kinds
<1>8. k.id = e.loc /\ k.kind = kind /\ k.base = base
  OBVIOUS
<1>9. Table.uuid = o.metadata.uuid /\ Table.commits = o.metadata.commits /\ Table.head = o.metadata.head
  BY <1>3 DEF Table
<1>10. Table.uuid # 0
  BY <1>3, <1>9 DEF WellFormed, Inv, StoreInv, PublishedOK
<1>11. \A i \in 1 .. Len(Table.commits) : Table.commits[i].id # k.id
  <2>1. DOMAIN o.metadata.commits = 1 .. Len(o.metadata.commits)
    BY <1>3 DEF Metadata
  <2>2. QED
    BY <1>1, <1>3, <1>8, <1>9, <2>1 DEF WellFormed, CommitIds
<1>12. Table' = [uuid |-> Table.uuid, commits |-> Append(Table.commits, k),
                 head |-> IF k.kind = "data" THEN k.id ELSE Table.head]
  BY <1>1, <1>4, <1>5, <1>6, <1>8, <1>9 DEF Table
<1>13. Uuids' = Uuids
  BY <1>5, <1>6 DEF Uuids
<1> HIDE DEF k
<1>14. Atomic!Commit(k)
  BY <1>4, <1>8, <1>9, <1>10, <1>11, <1>12, <1>13 DEF Atomic!Commit
<1>15. QED
  BY <1>7, <1>14

LEMMA DropDrops ==
  ASSUME Inv, NEW c \in Clients, DropTable(c)
  PROVE  Atomic!Drop
<1>1. row # 0 /\ row' = 0 /\ published' = published
  BY DEF DropTable
<1>2. files[row].uuid # 0
  <2>1. PICK e \in published : e.loc = row
    BY <1>1 DEF Inv, StoreInv, RowOK, PubLocs
  <2>2. files[row] = e.metadata /\ e.metadata.uuid \in PubLocs
    BY <1>1, <2>1 DEF Inv, StoreInv, RowOK, FilesOK, PublishedOK, WellFormed
  <2>3. QED
    BY <2>2 DEF Inv, StoreInv, PublishedOK
<1>3. Table.uuid # 0
  BY <1>1, <1>2 DEF Table
<1>4. Table' = Atomic!NoTable
  BY <1>1 DEF Table, Atomic!NoTable
<1>5. QED
  BY <1>1, <1>3, <1>4 DEF Atomic!Drop, Uuids

\* A file written ahead of its swap, or deleted after one, is not the row's.
LEMMA OtherStepsInvisible ==
  ASSUME Inv, NEW c \in Clients,
         \/ CreatePut(c) \/ (\E kind \in Kinds : UpdatePut(c, kind)) \/ UpdateDelete(c)
  PROVE  UNCHANGED <<Table, Uuids>>
<1>1. CASE CreatePut(c) \/ \E kind \in Kinds : UpdatePut(c, kind)
  <2>1. UNCHANGED <<row, published>> /\ \E m : files' = Put(files, nextLoc, m)
    BY <1>1 DEF CreatePut, UpdatePut
  <2>2. row # 0 => row \in DOMAIN files /\ row # nextLoc
    BY DEF Inv, StoreInv, RowOK, TypeOK
  <2>3. QED
    BY <2>1, <2>2, Invisible DEF Put
<1>2. CASE UpdateDelete(c)
  <2>1. UNCHANGED <<row, published>> /\ task[c].expired \in Seq(Locs)
    BY <1>2 DEF UpdateDelete, Inv, TypeOK, Tasks
  <2>2. row \notin Range(task[c].expired)
    BY <1>2 DEF UpdateDelete, Inv, TaskInv, ExpiredOK
  <2>3. task[c].expired # <<>> => Head(task[c].expired) # row
    BY <2>1, <2>2 DEF Range
  <2>4. row # 0 => files'[row] = files[row]
    BY <1>2, <2>3 DEF UpdateDelete, Restrict, Inv, StoreInv, RowOK
  <2>5. QED
    BY <2>1, <2>4, Invisible
<1>3. QED
  BY <1>1, <1>2

LEMMA StepRefines == Inv /\ [Next]_vars => [Atomic!Next]_<<Table, Uuids>>
<1> SUFFICES ASSUME Inv, [Next]_vars PROVE Atomic!Next \/ UNCHANGED <<Table, Uuids>>
  OBVIOUS
<1>1. ASSUME NEW c \in Clients, CreateInsert(c) \/ CreateError(c)
      PROVE  Atomic!Next \/ UNCHANGED <<Table, Uuids>>
  <2>1. CASE UNCHANGED <<row, published>>
    BY <1>1, <2>1, Invisible DEF CreateInsert, CreateError
  <2>2. CASE row = 0 /\ row' = task[c].entry.loc /\ published' = published \cup {task[c].entry}
    <3>1. PICK u \in 1 .. MaxLocs : Atomic!Create(u)
      BY <1>1, <2>2, InsertCreates DEF CreateInsert, CreateError
    <3>2. Uuids' # Uuids
      BY <3>1 DEF Atomic!Create
    <3>3. QED
      BY <3>1, <3>2 DEF Atomic!Next
  <2>3. QED
    BY <1>1, <2>1, <2>2 DEF CreateInsert, CreateError
<1>2. ASSUME NEW c \in Clients, SwapWon(c) \/ SwapError(c)
      PROVE  Atomic!Next \/ UNCHANGED <<Table, Uuids>>
  <2>1. CASE UNCHANGED <<row, published>>
    BY <1>2, <2>1, Invisible DEF SwapWon, SwapError
  <2>2. CASE /\ row_matches(c) /\ row' = task[c].entry.loc
             /\ published' = published \cup {task[c].entry}
    <3>1. PICK k \in Atomic!Commits : Atomic!Commit(k)
      BY <1>2, <2>2, SwapCommits DEF SwapWon, SwapError
    <3>2. Table' = Table => UNCHANGED <<Table, Uuids>>
      BY <3>1 DEF Atomic!Commit
    <3>3. QED
      BY <3>1, <3>2 DEF Atomic!Next
  <2>3. QED
    BY <1>2, <2>1, <2>2 DEF SwapWon, SwapError
<1>3. ASSUME NEW c \in Clients, DropTable(c) PROVE Atomic!Next
  BY <1>3, DropDrops DEF Atomic!Next
<1>4. ASSUME \/ UNCHANGED vars
             \/ \E i \in Instances : Crash(i)
             \/ \E c \in Clients :
                  \/ LoadRow(c) \/ LoadGet(c) \/ LoadCache(c) \/ CreateExists(c)
                  \/ CreateCache(c) \/ SwapLost(c) \/ UpdateCache(c)
      PROVE  UNCHANGED <<Table, Uuids>>
  <2>1. UNCHANGED <<row, published, files>>
    BY <1>4 DEF vars, Crash, LoadRow, LoadGet, LoadCache, CreateExists, CreateCache,
                SwapLost, UpdateCache
  <2>2. QED
    BY <2>1, Invisible
<1>5. QED
  BY <1>1, <1>2, <1>3, <1>4, OtherStepsInvisible DEF Next, Proceed, Call

\* The catalog is an atomic table, for any number of clients, instances,
\* files and faults: stale caches, lost replies, early writes and late
\* deletions never show.
THEOREM Refinement == Spec => RefinesAtomicTable
<1>1. Init => Atomic!Init
  BY DEF Init, Atomic!Init, Atomic!NoTable, Table, Uuids
<1>2. QED
  BY <1>1, StepRefines, InvHolds, PTL DEF Spec, RefinesAtomicTable, Atomic!Spec

=============================================================================
