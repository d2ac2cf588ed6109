------------------------- MODULE FileCatalogProofs -------------------------
(***************************************************************************)
(* What FileCatalog guarantees for every value of its constants: each      *)
(* version file continues one of the version before it whatever the        *)
(* clients do, and where nobody drops the table or changes its codec       *)
(* (NeverDropped), no acknowledged commit is lost and the directory        *)
(* implements AtomicTable's weaker promise, creations over a live table    *)
(* included.                                                               *)
(***************************************************************************)
EXTENDS FileCatalogInv, TLAPS

-----------------------------------------------------------------------------
(* Types *)

LEMMA ConstantTypes ==
  /\ NoMetadata \in Metadata /\ NoEntry \in Entry /\ IdleTask \in Tasks
  /\ NoEntry.name = Version(0, "none") /\ NoEntry.metadata = NoMetadata
  /\ IdleTask.entry = NoEntry /\ IdleTask.pc = "idle" /\ IdleTask.id = 0
BY DEF Tasks, Pcs, IdleTask, Entry, NoEntry, Names, Version, Metadata, NoMetadata, Commits, Codecs

\* A name, or a file, joins a directory.
LEMMA PutTypes ==
  ASSUME NEW f, NEW n \in Names, NEW m \in Metadata,
         DOMAIN f \subseteq Names, \A x \in DOMAIN f : f[x] \in Metadata
  PROVE  /\ DOMAIN Put(f, n, m) = DOMAIN f \cup {n}
         /\ DOMAIN Put(f, n, m) \subseteq Names
         /\ \A x \in DOMAIN Put(f, n, m) : Put(f, n, m)[x] \in Metadata
         /\ Put(f, n, m)[n] = m
         /\ \A x \in DOMAIN f : x # n => Put(f, n, m)[x] = f[x]
BY DEF Put

LEMMA NameTypes ==
  ASSUME NEW n \in Nat, NEW codec \in Codecs
  PROVE  /\ Version(n, codec) \in Names /\ Temp(n, codec) \in Names
         /\ Version(n, codec).base = "v" /\ Version(n, codec).n = n /\ Version(n, codec).codec = codec
         /\ Temp(n, codec).base = "t"
BY DEF Version, Temp, Names

LEMMA CommitTypes ==
  ASSUME NEW m \in Metadata, NEW id \in Ids, NEW kind \in {"data", "props", "gzip", "plain"},
         NEW base \in Nat
  PROVE  apply_table_updates(m, [id |-> id, kind |-> kind, base |-> base]) \in Metadata
<1> DEFINE k == [id |-> id, kind |-> kind, base |-> base]
           cs == Append(m.commits, k)
           h == IF k.kind = "data" THEN k.id ELSE m.head
           x == CASE k.kind = "gzip" -> "gzip" [] k.kind = "plain" -> "none" [] OTHER -> m.codec
<1>1. k \in Commits /\ k.kind = kind /\ k.id = id
  BY DEF Commits
<1>2. cs \in Seq(Commits)
  <2> HIDE DEF k
  <2>1. QED
    BY <1>1 DEF Metadata
<1>3. h \in Nat /\ x \in Codecs
  BY DEF Metadata, Ids, Codecs
<1>4. apply_table_updates(m, k) = [m EXCEPT !.commits = cs, !.head = h, !.codec = x]
  BY DEF apply_table_updates
<1> HIDE DEF cs, h, x
<1>5. [m EXCEPT !.commits = cs, !.head = h, !.codec = x] \in Metadata
  BY <1>2, <1>3 DEF Metadata
<1>6. QED
  BY <1>4, <1>5

LEMMA TypeInit == Init => TypeOK
BY ConstantTypes, ClientsAssumption, FileConstantsAssumption DEF Init, TypeOK

LEMMA LoadTypes ==
  ASSUME TypeOK, NEW c \in Clients, LoadList(c) \/ LoadGet(c) \/ LoadCache(c)
  PROVE  TypeOK'
<1>1. CASE LoadList(c)
  <2>1. PICK n \in metadata_location(store) :
          task' = [task EXCEPT ![c] = [IdleTask EXCEPT !.pc = "get", !.entry.name = n]]
    BY <1>1 DEF LoadList
  <2>2. n \in Names
    BY DEF metadata_location, Versions, TypeOK
  <2>3. [IdleTask EXCEPT !.pc = "get", !.entry.name = n] \in Tasks
    BY <2>2, ConstantTypes DEF Tasks, Entry, Pcs
  <2>4. QED
    BY <1>1, <2>1, <2>3 DEF LoadList, TypeOK
<1>2. CASE LoadGet(c)
  <2> DEFINE n == task[c].entry.name
             t == [IdleTask EXCEPT !.pc = "load_cache", !.entry = [name |-> n, metadata |-> store[n]]]
  <2>1. n \in DOMAIN store => t \in Tasks
    BY ConstantTypes DEF Tasks, Entry, Pcs, TypeOK
  <2>2. task' = [task EXCEPT ![c] = IF n \in DOMAIN store /\ n.codec = "none" THEN t ELSE IdleTask]
    BY <1>2 DEF LoadGet
  <2> HIDE DEF t, n
  <2>3. task' \in [Clients -> Tasks]
    BY <2>1, <2>2, ConstantTypes DEF TypeOK
  <2>4. QED
    BY <1>2, <2>3 DEF LoadGet, TypeOK
<1>3. CASE LoadCache(c)
  <2>1. task[c].entry \in Entry /\ task[c].entry.metadata \in Metadata
    BY DEF TypeOK, Tasks, Entry
  <2>2. QED
    BY <1>3, <2>1, ConstantTypes, ClientsAssumption, FileConstantsAssumption DEF LoadCache, TypeOK
<1>4. QED
  BY <1>1, <1>2, <1>3

LEMMA CreateTypes ==
  ASSUME TypeOK, NEW c \in Clients, CreateCheck(c) \/ CreatePut(c) \/ CreateCache(c)
  PROVE  TypeOK'
<1>0. task[c].entry \in Entry /\ task[c].entry.metadata \in Metadata /\ task[c].entry.name \in Names
  BY DEF TypeOK, Tasks, Entry
<1>1. CASE CreateCheck(c)
  <2>1. [NoMetadata EXCEPT !.uuid = nextId] \in Metadata
    <3>1. nextId \in Nat
      BY ClientsAssumption, FileConstantsAssumption DEF TypeOK
    <3>2. QED
      BY <3>1, ConstantTypes DEF Metadata
  <2>2. [IdleTask EXCEPT !.pc = "create_put", !.entry.metadata = [NoMetadata EXCEPT !.uuid = nextId]] \in Tasks
    BY <2>1, ConstantTypes DEF Tasks, Entry, Pcs
  <2>3. QED
    BY <1>1, <2>2, ClientsAssumption, FileConstantsAssumption DEF CreateCheck, TypeOK, new_id
<1>2. CASE CreatePut(c)
  <2>1. [task[c] EXCEPT !.pc = "create_cache"] \in Tasks
    BY DEF TypeOK, Tasks, Pcs
  <2>2. task' \in [Clients -> Tasks]
    BY <1>2, <2>1 DEF CreatePut, TypeOK
  <2>3. DOMAIN store' \subseteq Names /\ \A n \in DOMAIN store' : store'[n] \in Metadata
    <3>1. store' = Put(store, task[c].entry.name, task[c].entry.metadata)
      BY <1>2 DEF CreatePut
    <3>2. DOMAIN store \subseteq Names /\ \A n \in DOMAIN store : store[n] \in Metadata
      BY DEF TypeOK
    <3>3. QED
      BY <1>0, <3>1, <3>2, PutTypes
  <2>4. QED
    BY <1>0, <1>2, <2>2, <2>3 DEF CreatePut, TypeOK
<1>3. CASE CreateCache(c)
  <2>1. task[c].entry.name.n \in Nat
    BY <1>0 DEF Names
  <2>2. QED
    BY <1>0, <1>3, <2>1, ConstantTypes, ClientsAssumption, FileConstantsAssumption DEF CreateCache, TypeOK
<1>4. QED
  BY <1>1, <1>2, <1>3

LEMMA UpdateTypes ==
  ASSUME TypeOK, NEW c \in Clients, NEW kind \in CommitKinds, UpdatePut(c, kind)
  PROVE  TypeOK'
<1> DEFINE old == cache[InstanceOf[c]]
           m   == apply_table_updates(old.metadata, [id |-> nextId, kind |-> kind, base |-> handle[c].head])
           tmp == Temp(nextId, m.codec)
           e   == [name |-> new_filesystem_metadata_location(old.name, tmp), metadata |-> m]
<1>1. old \in Entry /\ old.metadata \in Metadata /\ old.name \in Names /\ old.name.n \in Nat
      /\ handle[c].head \in Nat /\ nextId \in Ids /\ nextId \in Nat
  BY ClientsAssumption, FileConstantsAssumption DEF TypeOK, Entry, Metadata, Names, Ids
<1>2. m \in Metadata /\ m.codec \in Codecs
  <2>1. kind \in {"data", "props", "gzip", "plain"}
    BY ClientsAssumption, FileConstantsAssumption
  <2> HIDE DEF old
  <2>2. m \in Metadata
    BY <1>1, <2>1, CommitTypes
  <2>3. QED
    BY <2>2 DEF Metadata
<1> HIDE DEF m
<1>3. tmp \in Names /\ tmp.codec = m.codec
  BY <1>1, <1>2, NameTypes DEF Temp
<1>4. e \in Entry
  <2>1. Version(old.name.n + 1, tmp.codec) \in Names
    <3>1. old.name.n + 1 \in Nat /\ tmp.codec \in Codecs
      BY <1>1, <1>2, <1>3
    <3> HIDE DEF old, tmp
    <3>2. QED
      BY <3>1, NameTypes
  <2>2. QED
    BY <1>2, <2>1 DEF Entry, new_filesystem_metadata_location
<1>5. /\ store' = Put(store, tmp, m)
      /\ task' = [task EXCEPT ![c] = [IdleTask EXCEPT !.pc = "copy", !.id = nextId, !.entry = e]]
      /\ nextId <= MaxIds /\ nextId' = nextId + 1
      /\ UNCHANGED <<hint, cache, handle, published, acked>>
  BY DEF UpdatePut, new_id, m
<1> HIDE DEF tmp, e, old
<1>6. DOMAIN store' \subseteq Names /\ \A n \in DOMAIN store' : store'[n] \in Metadata
  BY <1>2, <1>3, <1>5, PutTypes DEF TypeOK
<1>7. [IdleTask EXCEPT !.pc = "copy", !.id = nextId, !.entry = e] \in Tasks
  BY <1>1, <1>4, ConstantTypes DEF Tasks, Pcs
<1>8. QED
  BY <1>5, <1>6, <1>7, ClientsAssumption, FileConstantsAssumption DEF TypeOK

LEMMA CopyTypes ==
  ASSUME TypeOK, NEW c \in Clients,
         CopyWon(c) \/ CopyLost(c) \/ CopyError(c) \/ UpdateCache(c)
  PROVE  TypeOK'
<1>0. /\ task[c].entry \in Entry /\ task[c].entry.metadata \in Metadata /\ task[c].entry.name \in Names
      /\ task[c].entry.metadata.uuid \in Nat /\ task[c].id \in Nat /\ task[c].entry.name.n \in Nat
  BY DEF TypeOK, Tasks, Entry, Metadata, Names
<1>1. /\ DOMAIN Put(store, task[c].entry.name, task[c].entry.metadata) \subseteq Names
      /\ \A n \in DOMAIN Put(store, task[c].entry.name, task[c].entry.metadata) :
           Put(store, task[c].entry.name, task[c].entry.metadata)[n] \in Metadata
  BY <1>0, PutTypes DEF TypeOK
<1>2. CASE CopyWon(c)
  <2>1. [task[c] EXCEPT !.pc = "update_cache"] \in Tasks
    BY DEF TypeOK, Tasks, Pcs
  <2>2. task' \in [Clients -> Tasks]
    BY <1>2, <2>1 DEF CopyWon, TypeOK
  <2>3. QED
    BY <1>0, <1>1, <1>2, <2>2 DEF CopyWon, TypeOK
<1>3. CASE CopyLost(c)
  BY <1>3, ConstantTypes DEF CopyLost, TypeOK
<1>4. CASE CopyError(c)
  BY <1>0, <1>1, <1>4, ConstantTypes DEF CopyError, TypeOK
<1>5. CASE UpdateCache(c)
  <2>1. [uuid |-> task[c].entry.metadata.uuid, id |-> task[c].id] \in [uuid : Nat, id : Nat]
    BY <1>0
  <2>2. acked' \subseteq [uuid : Nat, id : Nat]
    BY <1>5, <2>1 DEF UpdateCache, TypeOK
  <2>3. QED
    BY <1>0, <1>5, <2>2, ConstantTypes, ClientsAssumption, FileConstantsAssumption DEF UpdateCache, TypeOK
<1>6. QED
  BY <1>2, <1>3, <1>4, <1>5

LEMMA DropTypes ==
  ASSUME TypeOK, NEW c \in Clients,
         DropList(c) \/ DropDelete(c) \/ DropError(c) \/ DropDone(c)
  PROVE  TypeOK'
<1>1. CASE DropList(c)
  <2>1. [IdleTask EXCEPT !.pc = "delete", !.paths = DOMAIN store] \in Tasks
    BY ConstantTypes DEF TypeOK, Tasks, Pcs
  <2>2. QED
    BY <1>1, <2>1 DEF DropList, TypeOK
<1>2. CASE DropDelete(c)
  <2>1. PICK n \in task[c].paths :
          /\ store' = Restrict(store, DOMAIN store \ {n})
          /\ task' = [task EXCEPT ![c].paths = @ \ {n}]
    BY <1>2 DEF DropDelete
  <2>2. [task[c] EXCEPT !.paths = @ \ {n}] \in Tasks
    BY DEF TypeOK, Tasks
  <2>3. task' \in [Clients -> Tasks]
    BY <2>1, <2>2 DEF TypeOK
  <2>4. DOMAIN store' \subseteq Names /\ \A x \in DOMAIN store' : store'[x] \in Metadata
    BY <2>1 DEF TypeOK, Restrict
  <2>5. QED
    BY <1>2, <2>3, <2>4 DEF DropDelete, TypeOK
<1>3. CASE DropError(c)
  BY <1>3, ConstantTypes DEF DropError, TypeOK
<1>4. CASE DropDone(c)
  BY <1>4, ConstantTypes, ClientsAssumption, FileConstantsAssumption DEF DropDone, TypeOK
<1>5. QED
  BY <1>1, <1>2, <1>3, <1>4

LEMMA CrashTypes ==
  ASSUME TypeOK, NEW i \in Instances, Crash(i)
  PROVE  TypeOK'
BY ConstantTypes DEF Crash, TypeOK

\* Every step keeps the types.
LEMMA TypeStep == TypeOK /\ [Next]_vars => TypeOK'
<1> SUFFICES ASSUME TypeOK, [Next]_vars PROVE TypeOK'
  OBVIOUS
<1>1. CASE UNCHANGED vars
  BY <1>1 DEF TypeOK, vars
<1>2. CASE Next
  BY <1>2, LoadTypes, CreateTypes, UpdateTypes, CopyTypes, DropTypes, CrashTypes DEF Next
<1>3. QED
  BY <1>1, <1>2

\* The state of the file catalog stays in its types, and no more numbers are
\* handed out than MaxIds, whoever creates, commits, drops and crashes.
THEOREM TypeCorrect == Spec => []TypeOK
BY TypeInit, TypeStep, PTL DEF Spec

-----------------------------------------------------------------------------
(* Versions continue one another *)

LEMMA VersionsInit == Init => VersionsInv
<1> SUFFICES ASSUME Init PROVE VersionsInv
  OBVIOUS
<1>1. Lineage /\ SourcesOK
  BY DEF Init, Lineage, SourcesOK, Versions
<1>2. \A c \in Clients : Sound(task[c], published)
  BY ConstantTypes DEF Init, Sound
<1>3. QED
  BY <1>1, <1>2, TypeInit DEF VersionsInv

\* A call goes on to t, and nothing is published.
LEMMA CallStep ==
  ASSUME VersionsInv, NEW c \in Clients, NEW t, Sound(t, published),
         task' = [task EXCEPT ![c] = t], UNCHANGED published
  PROVE  Lineage' /\ \A d \in Clients : Sound(task'[d], published')
<1>1. \A d \in Clients : Sound(task'[d], published)
  BY DEF VersionsInv, TypeOK
<1>2. QED
  BY <1>1 DEF VersionsInv, Lineage

\* A call stores the entry e, which continues a published one or is a version 0,
\* and goes on to t.
LEMMA StoreStep ==
  ASSUME VersionsInv, NEW c \in Clients, NEW t, NEW e \in Entry,
         \/ e.name.n = 0 /\ e.metadata.commits = <<>>
         \/ /\ e.name.n > 0 /\ e.metadata.commits # <<>>
            /\ \E f \in published : Continues(e, f),
         store' = Put(store, e.name, e.metadata), published' = published \cup {e},
         task' = [task EXCEPT ![c] = t], UNCHANGED cache,
         \/ t.pc = "idle"
         \/ t.pc \in {"create_cache", "update_cache"} /\ t.entry = e
  PROVE  Lineage' /\ SourcesOK' /\ \A d \in Clients : Sound(task'[d], published')
<1>1. Lineage'
  BY DEF VersionsInv, Lineage
<1>2. SourcesOK'
  <2>1. e = [name |-> e.name, metadata |-> e.metadata]
    BY DEF Entry
  <2>2. ASSUME NEW n \in Versions(store') PROVE [name |-> n, metadata |-> store'[n]] \in published'
    BY <2>1, <2>2 DEF VersionsInv, SourcesOK, Versions, Put
  <2>3. QED
    BY <2>2 DEF VersionsInv, SourcesOK
<1>3. ASSUME NEW d \in Clients PROVE Sound(task'[d], published')
  <2>1. CASE d = c
    <3>1. task'[d] = t /\ e \in published'
      BY <2>1 DEF VersionsInv, TypeOK
    <3>2. QED
      BY <3>1 DEF Sound
  <2>2. CASE d # c
    <3>1. task'[d] = task[d] /\ Sound(task[d], published) /\ published \subseteq published'
      BY <2>2 DEF VersionsInv, TypeOK
    <3>2. QED
      BY <3>1 DEF Sound
  <2>3. QED
    BY <2>1, <2>2
<1>4. QED
  BY <1>1, <1>2, <1>3

\* A commit continues the cached entry it is built on.
LEMMA UpdateContinues ==
  ASSUME VersionsInv, NEW c \in Clients, NEW kind \in CommitKinds, UpdatePut(c, kind)
  PROVE  Lineage' /\ SourcesOK' /\ \A d \in Clients : Sound(task'[d], published')
<1> DEFINE old == cache[InstanceOf[c]]
           k   == [id |-> nextId, kind |-> kind, base |-> handle[c].head]
           m   == apply_table_updates(old.metadata, k)
           tmp == Temp(nextId, m.codec)
           e   == [name |-> new_filesystem_metadata_location(old.name, tmp), metadata |-> m]
           t   == [IdleTask EXCEPT !.pc = "copy", !.id = nextId, !.entry = e]
<1>1. /\ old \in published /\ old.name.n \in Nat /\ old.metadata \in Metadata
      /\ kind = "data" => handle[c].head = old.metadata.head
  BY ClientsAssumption DEF UpdatePut, VersionsInv, TypeOK, Entry, Names, SourcesOK, check_table_requirements
<1>2. /\ store' = Put(store, tmp, m) /\ task' = [task EXCEPT ![c] = t]
      /\ UNCHANGED <<cache, published>>
  BY DEF UpdatePut
<1>3. m.commits = Append(old.metadata.commits, k)
  BY <1>1 DEF apply_table_updates, Metadata
<1>4. m.commits # <<>> /\ m.commits[Len(m.commits)] = k
  <2>1. old.metadata.commits \in Seq(Commits)
    BY <1>1 DEF Metadata
  <2> HIDE DEF k, m, old
  <2>2. QED
    BY <1>3, <2>1
<1>5. e.metadata = m /\ e.name.n = old.name.n + 1 /\ e.name.base = "v"
  BY DEF new_filesystem_metadata_location, Version
<1>6. t.pc = "copy" /\ t.entry = e /\ tmp.base = "t"
  BY DEF IdleTask, Temp
<1>7. k.kind = kind /\ k.base = handle[c].head /\ m = apply_table_updates(old.metadata, k)
  OBVIOUS
<1> HIDE DEF t, e, tmp, m, k, old
<1>8. Continues(e, old)
  BY <1>1, <1>4, <1>5, <1>7 DEF Continues
<1>9. Sound(t, published)
  BY <1>1, <1>4, <1>5, <1>6, <1>8 DEF Sound
<1>10. SourcesOK'
  BY <1>2, <1>6 DEF VersionsInv, SourcesOK, Versions, Put
<1>11. QED
  BY <1>2, <1>9, <1>10, CallStep

LEMMA VersionsStep == VersionsInv /\ [Next]_vars => VersionsInv'
<1> SUFFICES ASSUME VersionsInv, [Next]_vars PROVE VersionsInv'
  OBVIOUS
<1> DEFINE Goal == Lineage' /\ SourcesOK' /\ \A d \in Clients : Sound(task'[d], published')
<1>1. \A stored : Sound(IdleTask, stored)
  BY ConstantTypes DEF Sound
<1>2. ASSUME UNCHANGED vars PROVE Goal
  BY <1>2 DEF vars, VersionsInv, Lineage, SourcesOK
<1>3. ASSUME NEW c \in Clients, LoadList(c) PROVE Goal
  <2>1. PICK n \in metadata_location(store) :
          task' = [task EXCEPT ![c] = [IdleTask EXCEPT !.pc = "get", !.entry.name = n]]
    BY <1>3 DEF LoadList
  <2> DEFINE t == [IdleTask EXCEPT !.pc = "get", !.entry.name = n]
  <2>2. t.pc = "get" /\ t.entry.name = n /\ n.base = "v"
    BY DEF IdleTask, NoEntry, metadata_location, Versions
  <2>3. task' = [task EXCEPT ![c] = t] /\ UNCHANGED <<store, cache, published>>
    BY <1>3, <2>1 DEF LoadList
  <2> HIDE DEF t
  <2>4. Sound(t, published)
    BY <2>2 DEF Sound
  <2>5. QED
    BY <2>3, <2>4, CallStep DEF VersionsInv, SourcesOK
<1>4. ASSUME NEW c \in Clients, LoadGet(c) PROVE Goal
  <2> DEFINE n == task[c].entry.name
             t == [IdleTask EXCEPT !.pc = "load_cache", !.entry = [name |-> n, metadata |-> store[n]]]
  <2>1. ASSUME n \in DOMAIN store PROVE [name |-> n, metadata |-> store[n]] \in published
    BY <1>4, <2>1 DEF LoadGet, VersionsInv, Sound, SourcesOK, Versions
  <2>2. t.pc = "load_cache" /\ t.entry = [name |-> n, metadata |-> store[n]]
    BY DEF IdleTask
  <2>3. /\ task' = [task EXCEPT ![c] = IF n \in DOMAIN store /\ n.codec = "none" THEN t ELSE IdleTask]
        /\ UNCHANGED <<store, cache, published>>
    BY <1>4 DEF LoadGet
  <2> HIDE DEF t, n
  <2>4. n \in DOMAIN store => Sound(t, published)
    BY <2>1, <2>2 DEF Sound
  <2>5. QED
    BY <1>1, <2>3, <2>4, CallStep DEF VersionsInv, SourcesOK
<1>5. ASSUME NEW c \in Clients, LoadCache(c) \/ CreateCache(c) \/ UpdateCache(c) PROVE Goal
  <2>1. /\ task[c].entry \in published
        /\ cache' = [cache EXCEPT ![InstanceOf[c]] = task[c].entry]
        /\ task' = [task EXCEPT ![c] = IdleTask] /\ UNCHANGED <<store, published>>
    BY <1>5 DEF LoadCache, CreateCache, UpdateCache, VersionsInv, Sound
  <2>2. SourcesOK'
    BY <2>1 DEF VersionsInv, TypeOK, SourcesOK
  <2>3. QED
    BY <1>1, <2>1, <2>2, CallStep
<1>6. ASSUME NEW c \in Clients, CreateCheck(c) PROVE Goal
  <2> DEFINE t == [IdleTask EXCEPT !.pc = "create_put",
                                   !.entry.metadata = [NoMetadata EXCEPT !.uuid = nextId]]
  <2>1. /\ t.pc = "create_put" /\ t.entry.name.n = 0 /\ t.entry.name.base = "v"
        /\ t.entry.metadata.commits = <<>>
    BY DEF IdleTask, NoEntry, NoMetadata, Version
  <2>2. task' = [task EXCEPT ![c] = t] /\ UNCHANGED <<store, cache, published>>
    BY <1>6 DEF CreateCheck
  <2> HIDE DEF t
  <2>3. Sound(t, published)
    BY <2>1 DEF Sound
  <2>4. QED
    BY <2>2, <2>3, CallStep DEF VersionsInv, SourcesOK
<1>7. ASSUME NEW c \in Clients, CreatePut(c) \/ CopyWon(c) PROVE Goal
  <2> DEFINE e == task[c].entry
             t == [task[c] EXCEPT !.pc = IF CreatePut(c) THEN "create_cache" ELSE "update_cache"]
  <2>1. /\ store' = Put(store, e.name, e.metadata) /\ published' = published \cup {e}
        /\ UNCHANGED cache
        /\ \E pc \in {"create_cache", "update_cache"} : task' = [task EXCEPT ![c].pc = pc]
    BY <1>7 DEF CreatePut, CopyWon
  <2>2. PICK pc \in {"create_cache", "update_cache"} : task' = [task EXCEPT ![c].pc = pc]
    BY <2>1
  <2>3. [task[c] EXCEPT !.pc = pc].pc = pc /\ [task[c] EXCEPT !.pc = pc].entry = e /\ e \in Entry
    BY DEF VersionsInv, TypeOK, Tasks
  <2>4. \/ e.name.n = 0 /\ e.metadata.commits = <<>>
        \/ /\ e.name.n > 0 /\ e.metadata.commits # <<>>
           /\ \E f \in published : Continues(e, f)
    BY <1>7 DEF CreatePut, CopyWon, VersionsInv, Sound
  <2> HIDE DEF e
  <2>5. QED
    BY <2>1, <2>2, <2>3, <2>4, StoreStep
<1>8. ASSUME NEW c \in Clients, CopyError(c) PROVE Goal
  <2> DEFINE e == task[c].entry
  <2>1. /\ task' = [task EXCEPT ![c] = IdleTask] /\ UNCHANGED cache
        /\ IdleTask.pc = "idle" /\ e \in Entry
    BY <1>8, ConstantTypes DEF CopyError, VersionsInv, TypeOK, Tasks
  <2>2. /\ e.name.n > 0 /\ e.metadata.commits # <<>>
        /\ \E f \in published : Continues(e, f)
    BY <1>8 DEF CopyError, VersionsInv, Sound
  <2>3. \/ UNCHANGED <<store, published>>
        \/ store' = Put(store, e.name, e.metadata) /\ published' = published \cup {e}
    BY <1>8 DEF CopyError
  <2> HIDE DEF e
  <2>4. CASE UNCHANGED <<store, published>>
    BY <1>1, <2>1, <2>4, CallStep DEF VersionsInv, SourcesOK
  <2>5. CASE store' = Put(store, e.name, e.metadata) /\ published' = published \cup {e}
    BY <2>1, <2>2, <2>5, StoreStep
  <2>6. QED
    BY <2>3, <2>4, <2>5
<1>9. ASSUME NEW c \in Clients, CopyLost(c) \/ DropError(c) PROVE Goal
  <2>1. task' = [task EXCEPT ![c] = IdleTask] /\ UNCHANGED <<store, cache, published>>
    BY <1>9 DEF CopyLost, DropError
  <2>2. QED
    BY <1>1, <2>1, CallStep DEF VersionsInv, SourcesOK
<1>10. ASSUME NEW c \in Clients, DropList(c) \/ DropDelete(c) \/ DropDone(c) PROVE Goal
  <2> DEFINE t == task'[c]
  <2>1. t.pc \in {"idle", "delete"} /\ task' = [task EXCEPT ![c] = t]
    BY <1>10, ConstantTypes DEF IdleTask, DropList, DropDelete, DropDone, VersionsInv, TypeOK, Tasks
  <2> HIDE DEF t
  <2>2. Sound(t, published)
    BY <2>1 DEF Sound
  <2>3. /\ UNCHANGED published
        /\ \A n \in DOMAIN store' : n \in DOMAIN store /\ store'[n] = store[n]
        /\ \A i \in Instances : cache'[i] = cache[i] \/ cache'[i] = NoEntry
    BY <1>10 DEF DropList, DropDelete, DropDone, Restrict, VersionsInv, TypeOK
  <2>4. SourcesOK'
    BY <2>3 DEF VersionsInv, SourcesOK, Versions
  <2>5. QED
    BY <2>1, <2>2, <2>3, <2>4, CallStep
<1>11. ASSUME NEW i \in Instances, Crash(i) PROVE Goal
  <2>1. /\ UNCHANGED <<store, published>>
        /\ \A j \in Instances : cache'[j] = cache[j] \/ cache'[j] = NoEntry
        /\ \A c \in Clients : task'[c] = task[c] \/ task'[c] = IdleTask
    BY <1>11 DEF Crash, VersionsInv, TypeOK
  <2>2. \A c \in Clients : Sound(task'[c], published')
    BY <1>1, <2>1 DEF VersionsInv
  <2>3. QED
    BY <2>1, <2>2 DEF VersionsInv, Lineage, SourcesOK
<1>12. ASSUME NEW c \in Clients, NEW kind \in CommitKinds, UpdatePut(c, kind) PROVE Goal
  BY <1>12, UpdateContinues
<1>13. Goal
  <2> HIDE DEF Goal
  <2>1. QED
    BY <1>2, <1>3, <1>4, <1>5, <1>6, <1>7, <1>8, <1>9, <1>10, <1>11, <1>12 DEF Next
<1>14. TypeOK'
  BY TypeStep DEF VersionsInv
<1>15. QED
  BY <1>13, <1>14 DEF VersionsInv

\* Each version file is one commit more than one of the version before it, for
\* any number of clients and instances that create, commit, drop, recode and
\* crash at any time: a cache may be stale, but it holds name and metadata of
\* one published entry.
THEOREM LineageHolds == Spec => []Lineage
<1>1. VersionsInv /\ [Next]_vars => VersionsInv'
  BY VersionsStep
<1>2. VersionsInv => Lineage
  BY DEF VersionsInv
<1>3. QED
  BY <1>1, <1>2, VersionsInit, PTL DEF Spec

-----------------------------------------------------------------------------
(* Commit histories *)

\* A commit's ids are those of the metadata it was built on, and its own.
LEMMA AppendedIds ==
  ASSUME NEW s \in Seq(Commits), NEW k
  PROVE  {Append(s, k)[i].id : i \in DOMAIN Append(s, k)} = {s[i].id : i \in DOMAIN s} \cup {k.id}
<1> DEFINE a == Append(s, k)
<1>1. /\ DOMAIN s = 1 .. Len(s) /\ Len(s) \in Nat /\ DOMAIN a = 1 .. Len(s) + 1
      /\ \A n \in 1 .. Len(s) : a[n] = s[n]
      /\ a[Len(s) + 1] = k
  OBVIOUS
<1> HIDE DEF a
<1>2. 1 .. Len(s) + 1 = (1 .. Len(s)) \cup {Len(s) + 1}
  BY <1>1
<1>3. {a[n].id : n \in DOMAIN a} = {s[n].id : n \in DOMAIN s} \cup {k.id}
  BY <1>1, <1>2
<1>4. QED
  BY <1>3 DEF a

\* What a task that is built on o publishes.
LEMMA BuiltMetadata ==
  ASSUME NEW t, NEW o, NEW used, o.metadata \in Metadata, BuiltOn(t, o, used)
  PROVE  /\ t.entry.name = Version(o.name.n + 1, "none")
         /\ t.entry.metadata.uuid = o.metadata.uuid
         /\ t.entry.metadata.codec = o.metadata.codec
         /\ t.entry.metadata.head \in {t.id, o.metadata.head}
         /\ CommitIds(t.entry.metadata) = CommitIds(o.metadata) \cup {t.id}
<1>1. PICK kind \in {"data", "props"}, base \in used \cup {0} :
        t.entry.metadata =
          [o.metadata EXCEPT
             !.commits = Append(@, [id |-> t.id, kind |-> kind, base |-> base]),
             !.head = IF kind = "data" THEN t.id ELSE @]
  BY DEF BuiltOn
<1> DEFINE k == [id |-> t.id, kind |-> kind, base |-> base]
           new == t.entry.metadata
<1>2. k.id = t.id
  OBVIOUS
<1>3. /\ new.commits = Append(o.metadata.commits, k)
      /\ new.uuid = o.metadata.uuid /\ new.codec = o.metadata.codec
      /\ new.head \in {t.id, o.metadata.head}
  BY <1>1 DEF Metadata
<1>4. o.metadata.commits \in Seq(Commits)
  BY DEF Metadata
<1> HIDE DEF k, new
<1>5. CommitIds(new) = CommitIds(o.metadata) \cup {t.id}
  <2> DEFINE s == o.metadata.commits
  <2>1. s \in Seq(Commits) /\ new.commits = Append(s, k)
    BY <1>3, <1>4
  <2>2. CommitIds(new) = {Append(s, k)[i].id : i \in DOMAIN Append(s, k)}
    BY <2>1 DEF CommitIds
  <2>3. CommitIds(o.metadata) = {s[i].id : i \in DOMAIN s}
    BY DEF CommitIds
  <2> HIDE DEF s
  <2>4. QED
    BY <1>2, <2>1, <2>2, <2>3, AppendedIds
<1>6. QED
  BY <1>3, <1>5 DEF BuiltOn, new

-----------------------------------------------------------------------------
(* Steps that neither write a file nor take a number *)

\* A task with nothing to write, that reads version files only.
Harmless(t) ==
  \/ t.pc = "idle"
  \/ t.pc = "get" /\ t.entry.name.base = "v"
  \/ t.pc = "load_cache" /\ t.entry \in published

LEMMA QuietStep ==
  ASSUME DirectoryInv, PendingOK, CreateOK, ReadOK,
         UNCHANGED <<store, nextId, published>>,
         \A c \in Clients : task'[c] = task[c] \/ Harmless(task'[c])
  PROVE  DirectoryInv' /\ PendingOK' /\ CreateOK' /\ ReadOK'
<1>1. Used' = Used
  BY DEF Used
<1>2. DirectoryInv'
  BY <1>1 DEF DirectoryInv, PublishedOK, Contiguous, HasLast, Chain
<1>3. PendingOK'
  BY <1>1 DEF PendingOK, Harmless
<1>4. CreateOK'
  <2>1. \A d \in Clients : task'[d].pc = "create_put" => task'[d] = task[d]
    BY DEF Harmless
  <2>2. QED
    BY <1>1, <2>1 DEF CreateOK, Creating
<1>5. ReadOK'
  BY DEF ReadOK, Harmless
<1>6. QED
  BY <1>2, <1>3, <1>4, <1>5

-----------------------------------------------------------------------------
(* Steps that take a number *)

\* More numbers keep metadata well formed.
LEMMA UsedGrows ==
  ASSUME TypeOK, nextId' = nextId + 1
  PROVE  /\ Used \subseteq Used' /\ nextId \in Used' /\ nextId \notin Used
         /\ nextId \in Nat
         /\ \A m : WellFormed(m, Used) => WellFormed(m, Used')
         /\ \A t, o : BuiltOn(t, o, Used) => BuiltOn(t, o, Used')
<1>1. nextId \in Nat /\ nextId >= 1
  BY ClientsAssumption, FileConstantsAssumption DEF TypeOK
<1>2. Used \subseteq Used' /\ nextId \in Used' /\ nextId \notin Used
  BY <1>1 DEF Used
<1>3. ASSUME NEW m, WellFormed(m, Used) PROVE WellFormed(m, Used')
  BY <1>2, <1>3 DEF WellFormed
<1>4. ASSUME NEW t, NEW o, BuiltOn(t, o, Used) PROVE BuiltOn(t, o, Used')
  BY <1>2, <1>4 DEF BuiltOn
<1>5. QED
  BY <1>1, <1>2, <1>3, <1>4

\* A call takes the next number, writes no version file, and goes on to
\* create the table or to copy its commit.
LEMMA StartStep ==
  ASSUME TypeOK, DirectoryInv, PendingOK, CreateOK, ReadOK,
         NEW c \in Clients, NEW t,
         nextId' = nextId + 1, published' = published,
         DOMAIN store \subseteq DOMAIN store', Versions(store') = Versions(store),
         \A n \in Versions(store) : store'[n] = store[n],
         task' = [task EXCEPT ![c] = t],
         \/ /\ t.pc = "create_put"
            /\ t.entry.name = Version(0, "none")
            /\ t.entry.metadata = [NoMetadata EXCEPT !.uuid = nextId]
         \/ /\ t.pc = "copy" /\ t.id = nextId
            /\ \E o \in published : BuiltOn(t, o, Used)
  PROVE  DirectoryInv' /\ PendingOK' /\ CreateOK' /\ ReadOK'
<1>1. /\ Used \subseteq Used' /\ nextId \in Used' /\ nextId \notin Used
      /\ \A m : WellFormed(m, Used) => WellFormed(m, Used')
      /\ \A u, o : BuiltOn(u, o, Used) => BuiltOn(u, o, Used')
  BY UsedGrows
<1>2. task'[c] = t /\ \A d \in Clients : d # c => task'[d] = task[d]
  BY DEF TypeOK
<1>3. DirectoryInv'
  <2>1. \A e \in published : e.name \in Versions(store)
    <3>1. \A n \in Nat : Version(n, "none").base = "v"
      BY DEF Version
    <3>2. \A e \in published : e.name.n \in Nat /\ e.name = Version(e.name.n, "none") /\ e.name \in DOMAIN store
      BY DEF DirectoryInv, PublishedOK, Entry, Names
    <3>3. QED
      BY <3>1, <3>2 DEF Versions
  <2>2. PublishedOK'
    <3>1. ASSUME NEW e \in published
          PROVE  /\ e \in Entry /\ e.name = Version(e.name.n, "none") /\ WellFormed(e.metadata, Used')
                 /\ e.name \in DOMAIN store'
                 /\ e.name.n > 0 => store'[e.name] = e.metadata
                 /\ e.name.n = 0 => e.metadata = [NoMetadata EXCEPT !.uuid = e.metadata.uuid]
      BY <1>1, <2>1 DEF DirectoryInv, PublishedOK
    <3>2. \A n \in Versions(store') : [name |-> n, metadata |-> store'[n]] \in published
      BY DEF DirectoryInv, PublishedOK
    <3>3. QED
      BY <3>1, <3>2 DEF PublishedOK
  <2>3. Contiguous' /\ HasLast' /\ Chain'
    BY DEF DirectoryInv, Contiguous, HasLast, Chain
  <2>4. QED
    BY <2>2, <2>3 DEF DirectoryInv
<1>4. PendingOK'
  <2> SUFFICES ASSUME NEW d \in Clients, task'[d].pc = "copy"
               PROVE  /\ task'[d].id \in Used'
                      /\ \E o \in published : BuiltOn(task'[d], o, Used')
                      /\ \A e \in published : task'[d].id \notin CommitIds(e.metadata)
                      /\ \A x \in Clients : x # d /\ task'[x].pc = "copy" => task'[x].id # task'[d].id
    BY DEF PendingOK
  <2>1. \A x \in Clients : x # c /\ task'[x].pc = "copy" => task'[x].id \in Used
    BY <1>2 DEF PendingOK
  <2>2. \A e \in published : nextId \notin CommitIds(e.metadata)
    BY <1>1 DEF DirectoryInv, PublishedOK, WellFormed
  <2>3. CASE d = c
    BY <1>1, <1>2, <2>1, <2>2, <2>3
  <2>4. CASE d # c
    <3>1. \A x \in Clients : x # d /\ x # c /\ task'[x].pc = "copy" => task'[x].id # task'[d].id
      BY <1>2, <2>4 DEF PendingOK
    <3>2. task'[c].pc = "copy" => task'[c].id # task'[d].id
      BY <1>1, <1>2, <2>1, <2>4
    <3>3. \E o \in published : BuiltOn(task'[d], o, Used')
      BY <1>1, <1>2, <2>4 DEF PendingOK
    <3>4. \A e \in published : task'[d].id \notin CommitIds(e.metadata)
      BY <1>2, <2>4 DEF PendingOK
    <3>5. QED
      BY <1>1, <2>1, <2>4, <3>1, <3>2, <3>3, <3>4
  <2>5. QED
    BY <2>3, <2>4
<1>5. CreateOK'
  <2>1. ASSUME NEW d \in Clients, d # c, task'[d].pc = "create_put"
        PROVE  /\ Creating(task[d], Used, published) /\ task'[d] = task[d]
               /\ task'[d].entry.metadata.uuid \in Used
    <3>1. task'[d] = task[d] /\ Creating(task[d], Used, published)
      BY <1>2, <2>1 DEF CreateOK
    <3>2. PICK u \in Used : task[d].entry.metadata = [NoMetadata EXCEPT !.uuid = u]
      BY <3>1 DEF Creating
    <3>3. QED
      BY <3>1, <3>2 DEF NoMetadata
  <2>2. ASSUME t.pc = "create_put"
        PROVE  /\ t.entry.metadata.uuid = nextId
               /\ \A e \in published : e.metadata.uuid # nextId
    BY <1>1, <2>2 DEF NoMetadata, DirectoryInv, PublishedOK, WellFormed
  <2>3. ASSUME NEW d \in Clients, task'[d].pc = "create_put"
        PROVE  Creating(task'[d], Used', published')
    <3>1. CASE d = c
      <4>1. task'[d] = t /\ t.pc = "create_put"
        BY <1>2, <2>3, <3>1
      <4>2. /\ t.entry.name = Version(0, "none")
            /\ t.entry.metadata = [NoMetadata EXCEPT !.uuid = nextId]
        BY <4>1
      <4>3. \A e \in published' : e.metadata.uuid # t.entry.metadata.uuid
        BY <2>2, <4>1
      <4>4. QED
        BY <1>1, <4>1, <4>2, <4>3 DEF Creating
    <3>2. CASE d # c
      <4>1. task'[d] = task[d] /\ Creating(task[d], Used, published)
        BY <2>1, <2>3, <3>2
      <4>2. Used \subseteq Used' /\ published' = published
        BY <1>1
      <4>3. QED
        BY ONLY <4>1, <4>2 DEF Creating
    <3>3. QED
      BY <3>1, <3>2
  <2>4. ASSUME NEW d \in Clients, task'[d].pc = "create_put",
               NEW x \in Clients, x # d, task'[x].pc = "create_put"
        PROVE  task'[x].entry.metadata.uuid # task'[d].entry.metadata.uuid
    <3>1. CASE d = c \/ x = c
      BY <1>1, <1>2, <2>1, <2>2, <2>4, <3>1
    <3>2. CASE d # c /\ x # c
      BY <2>1, <2>4, <3>2 DEF CreateOK
    <3>3. QED
      BY <3>1, <3>2
  <2>5. QED
    BY <2>3, <2>4 DEF CreateOK
<1>6. ReadOK'
  BY <1>2 DEF ReadOK
<1>7. QED
  BY <1>3, <1>4, <1>5, <1>6

-----------------------------------------------------------------------------
(* Steps that publish a version *)

\* The entry e of the call c is stored: as a version 0, or as the next one.
LEMMA PublishStep ==
  ASSUME TypeOK, DirectoryInv, PendingOK, CreateOK, ReadOK,
         NEW c \in Clients, NEW e \in Entry, NEW t,
         e.name = Version(e.name.n, "none"), WellFormed(e.metadata, Used),
         e.name.n = 0 => e.metadata = [NoMetadata EXCEPT !.uuid = e.metadata.uuid],
         e.name.n > 0 =>
           /\ e.name \notin DOMAIN store
           /\ \A f \in published :
                /\ f.name.n < e.name.n
                /\ f.name.n > 0 => /\ f.metadata.uuid = e.metadata.uuid
                                   /\ CommitIds(f.metadata) \subseteq CommitIds(e.metadata),
         \A k \in Nat : k < e.name.n => \E f \in published : f.name.n = k,
         \A d \in Clients : d # c /\ task[d].pc = "copy" => task[d].id \notin CommitIds(e.metadata),
         \A d \in Clients : d # c /\ task[d].pc = "create_put" =>
                            task[d].entry.metadata.uuid # e.metadata.uuid,
         store' = Put(store, e.name, e.metadata), published' = published \cup {e},
         nextId' = nextId, task' = [task EXCEPT ![c] = t],
         \/ t.pc = "idle"
         \/ t.pc = "create_cache" /\ t.entry = e
         \/ t.pc = "update_cache" /\ t.entry = e /\ t.id \in CommitIds(e.metadata)
  PROVE  DirectoryInv' /\ PendingOK' /\ CreateOK' /\ ReadOK'
<1>1. Used' = Used
  BY DEF Used
<1>2. task'[c] = t /\ \A d \in Clients : d # c => task'[d] = task[d]
  BY DEF TypeOK
<1>3. /\ DOMAIN store' = DOMAIN store \cup {e.name}
      /\ store'[e.name] = e.metadata
      /\ \A x \in DOMAIN store : x # e.name => store'[x] = store[x]
  BY DEF Put
<1>4. e.name.n \in Nat /\ \A x \in published' : x.name.n \in Nat
  BY DEF Entry, Names, DirectoryInv, PublishedOK
<1>5. PublishedOK'
  <2>1. ASSUME NEW f \in published'
        PROVE  /\ f \in Entry /\ f.name = Version(f.name.n, "none") /\ WellFormed(f.metadata, Used)
               /\ f.name \in DOMAIN store'
               /\ f.name.n > 0 => store'[f.name] = f.metadata
               /\ f.name.n = 0 => f.metadata = [NoMetadata EXCEPT !.uuid = f.metadata.uuid]
    <3>1. CASE f = e
      BY <1>3, <3>1
    <3>2. CASE f \in published
      <4>1. f.name.n > 0 => f.name # e.name
        BY <1>4, <3>2 DEF DirectoryInv, PublishedOK
      <4>2. QED
        BY <1>3, <3>2, <4>1 DEF DirectoryInv, PublishedOK
    <3>3. QED
      BY <3>1, <3>2
  <2>2. ASSUME NEW n \in Versions(store') PROVE [name |-> n, metadata |-> store'[n]] \in published'
    <3>1. CASE n = e.name
      <4>1. e = [name |-> e.name, metadata |-> e.metadata]
        BY DEF Entry
      <4>2. QED
        BY <1>3, <3>1, <4>1
    <3>2. CASE n # e.name
      <4>1. n \in Versions(store)
        BY <1>3, <2>2, <3>2 DEF Versions
      <4>2. store'[n] = store[n]
        BY <1>3, <3>2, <4>1 DEF Versions
      <4>3. QED
        BY <4>1, <4>2 DEF DirectoryInv, PublishedOK
    <3>3. QED
      BY <3>1, <3>2
  <2>3. QED
    BY <1>1, <2>1, <2>2 DEF PublishedOK
<1>6. Contiguous'
  <2> SUFFICES ASSUME NEW f \in published', NEW k \in Nat, k < f.name.n
               PROVE  \E g \in published' : g.name.n = k
    BY DEF Contiguous
  <2>1. CASE f = e
    BY <2>1
  <2>2. CASE f \in published
    BY <2>2 DEF DirectoryInv, Contiguous
  <2>3. QED
    BY <2>1, <2>2
<1>7. HasLast'
  <2>1. CASE published = {}
    BY <1>4, <2>1 DEF HasLast
  <2>2. CASE published # {}
    <3>1. PICK o \in published : \A f \in published : f.name.n <= o.name.n
      BY <2>2 DEF DirectoryInv, HasLast
    <3>2. CASE e.name.n <= o.name.n
      BY <3>1, <3>2 DEF HasLast
    <3>3. CASE ~(e.name.n <= o.name.n)
      BY <1>4, <3>1, <3>3 DEF HasLast
    <3>4. QED
      BY <3>2, <3>3
  <2>3. QED
    BY <2>1, <2>2
<1>8. Chain'
  <2> SUFFICES ASSUME NEW f \in published', NEW g \in published',
                      0 < f.name.n, f.name.n <= g.name.n
               PROVE  /\ f.metadata.uuid = g.metadata.uuid
                      /\ CommitIds(f.metadata) \subseteq CommitIds(g.metadata)
    BY DEF Chain
  <2>1. CASE f \in published /\ g \in published
    BY <2>1 DEF DirectoryInv, Chain
  <2>2. CASE f = e /\ g \in published
    BY <1>4, <2>2
  <2>3. CASE f \in published /\ g = e
    BY <1>4, <2>3
  <2>4. CASE f = e /\ g = e
    BY <2>4
  <2>5. QED
    BY <2>1, <2>2, <2>3, <2>4
<1>9. PendingOK'
  <2> SUFFICES ASSUME NEW d \in Clients, task'[d].pc = "copy"
               PROVE  /\ task'[d].id \in Used
                      /\ \E o \in published' : BuiltOn(task'[d], o, Used)
                      /\ \A f \in published' : task'[d].id \notin CommitIds(f.metadata)
                      /\ \A x \in Clients : x # d /\ task'[x].pc = "copy" => task'[x].id # task'[d].id
    BY <1>1 DEF PendingOK
  <2>1. d # c /\ task'[d] = task[d] /\ task[d].pc = "copy"
    BY <1>2
  <2>2. \A x \in Clients : task'[x].pc = "copy" => task'[x] = task[x]
    BY <1>2
  <2>3. QED
    BY <2>1, <2>2 DEF PendingOK
<1>10. CreateOK'
  <2>1. \A d \in Clients : task'[d].pc = "create_put" => d # c /\ task'[d] = task[d]
    BY <1>2
  <2>2. ASSUME NEW d \in Clients, task'[d].pc = "create_put" PROVE Creating(task'[d], Used', published')
    <3>1. Creating(task[d], Used, published) /\ task'[d] = task[d]
          /\ e.metadata.uuid # task[d].entry.metadata.uuid
      BY <2>1, <2>2 DEF CreateOK
    <3>2. QED
      BY <1>1, <3>1 DEF Creating
  <2>3. ASSUME NEW d \in Clients, task'[d].pc = "create_put",
               NEW x \in Clients, x # d, task'[x].pc = "create_put"
        PROVE  task'[x].entry.metadata.uuid # task'[d].entry.metadata.uuid
    BY <2>1, <2>3 DEF CreateOK
  <2>4. QED
    BY <2>2, <2>3 DEF CreateOK
<1>11. ReadOK'
  BY <1>2 DEF ReadOK
<1>12. QED
  BY <1>5, <1>6, <1>7, <1>8, <1>9, <1>10, <1>11 DEF DirectoryInv

\* The version after o is free, so o is the last one: copy_if_not_exists
\* detects every commit the cache has missed.
LEMMA FreeIsNext ==
  ASSUME DirectoryInv, NEW o \in published, Version(o.name.n + 1, "none") \notin DOMAIN store
  PROVE  /\ o.name.n \in Nat
         /\ \A f \in published : f.name.n <= o.name.n
         /\ \A k \in Nat : k < o.name.n + 1 => \E f \in published : f.name.n = k
<1>1. \A f \in published : f.name.n \in Nat /\ f.name = Version(f.name.n, "none") /\ f.name \in DOMAIN store
  BY DEF DirectoryInv, PublishedOK, Entry, Names
<1>2. ASSUME NEW f \in published, f.name.n > o.name.n PROVE FALSE
  <2>1. CASE f.name.n = o.name.n + 1
    BY <1>1, <2>1
  <2>2. CASE f.name.n > o.name.n + 1
    <3>1. o.name.n + 1 \in Nat
      BY <1>1
    <3>2. PICK g \in published : g.name.n = o.name.n + 1
      BY <2>2, <3>1 DEF DirectoryInv, Contiguous
    <3>3. QED
      BY <1>1, <3>2
  <2>3. QED
    BY <1>1, <1>2, <2>1, <2>2
<1>3. ASSUME NEW k \in Nat, k < o.name.n + 1 PROVE \E f \in published : f.name.n = k
  <2>1. CASE k = o.name.n
    BY <2>1
  <2>2. CASE k < o.name.n
    BY <2>2 DEF DirectoryInv, Contiguous
  <2>3. QED
    BY <1>1, <1>3, <2>1, <2>2
<1>4. QED
  BY <1>1, <1>2, <1>3

\* A pending copy that finds its version free publishes the next one.
LEMMA CopyStep ==
  ASSUME TypeOK, DirectoryInv, PendingOK, CreateOK, ReadOK,
         NEW c \in Clients, NEW t, task[c].pc = "copy",
         copy_if_not_exists(task[c].id, task[c].entry.name),
         store' = Put(store, task[c].entry.name, task[c].entry.metadata),
         published' = published \cup {task[c].entry},
         nextId' = nextId, task' = [task EXCEPT ![c] = t],
         \/ t.pc = "idle"
         \/ t.pc = "update_cache" /\ t.entry = task[c].entry /\ t.id = task[c].id
  PROVE  DirectoryInv' /\ PendingOK' /\ CreateOK' /\ ReadOK'
<1> DEFINE e == task[c].entry
           id == task[c].id
<1>1. PICK o \in published : BuiltOn(task[c], o, Used)
  BY DEF PendingOK
<1>2. /\ o \in Entry /\ o.metadata \in Metadata /\ o.name.n \in Nat /\ WellFormed(o.metadata, Used)
      /\ e \in Entry /\ e.metadata \in Metadata
  BY DEF DirectoryInv, PublishedOK, Entry, Names, TypeOK, Tasks
<1>3. /\ e.name = Version(o.name.n + 1, "none")
      /\ e.metadata.uuid = o.metadata.uuid
      /\ e.metadata.codec = o.metadata.codec
      /\ e.metadata.head \in {id, o.metadata.head}
      /\ CommitIds(e.metadata) = CommitIds(o.metadata) \cup {id}
  BY <1>1, <1>2, BuiltMetadata
<1>4. id \in Used /\ e.name \notin DOMAIN store /\ e.name.n = o.name.n + 1
  BY <1>3 DEF PendingOK, copy_if_not_exists, Version
<1>5. \A d \in Clients : d # c /\ task[d].pc = "copy" => task[d].id \notin CommitIds(o.metadata) \cup {id}
  BY DEF PendingOK
<1>6. \A d \in Clients : d # c /\ task[d].pc = "create_put" =>
                         task[d].entry.metadata.uuid # o.metadata.uuid
  BY DEF CreateOK, Creating
<1>7. /\ store' = Put(store, e.name, e.metadata) /\ published' = published \cup {e}
      /\ t.pc = "idle" \/ (t.pc = "update_cache" /\ t.entry = e /\ t.id = id)
  OBVIOUS
<1> HIDE DEF e, id
<1>8. WellFormed(e.metadata, Used)
  BY <1>2, <1>3, <1>4 DEF WellFormed
<1>9. /\ \A f \in published : f.name.n <= o.name.n /\ f.name.n \in Nat
      /\ \A k \in Nat : k < o.name.n + 1 => \E f \in published : f.name.n = k
  BY <1>3, <1>4, FreeIsNext DEF DirectoryInv, PublishedOK, Entry, Names
<1>10. ASSUME NEW f \in published
       PROVE  /\ f.name.n < e.name.n
              /\ f.name.n > 0 => /\ f.metadata.uuid = e.metadata.uuid
                                 /\ CommitIds(f.metadata) \subseteq CommitIds(e.metadata)
  <2>1. f.name.n > 0 => /\ f.metadata.uuid = o.metadata.uuid
                        /\ CommitIds(f.metadata) \subseteq CommitIds(o.metadata)
    BY <1>9 DEF DirectoryInv, Chain
  <2>2. QED
    BY <1>2, <1>3, <1>4, <1>9, <2>1
<1>11. \A k \in Nat : k < e.name.n => \E f \in published : f.name.n = k
  BY <1>4, <1>9
<1>12. /\ e.name = Version(e.name.n, "none") /\ e.name.n # 0
       /\ \A d \in Clients : d # c /\ task[d].pc = "copy" => task[d].id \notin CommitIds(e.metadata)
       /\ \A d \in Clients : d # c /\ task[d].pc = "create_put" =>
                            task[d].entry.metadata.uuid # e.metadata.uuid
       /\ \/ t.pc = "idle"
          \/ t.pc = "create_cache" /\ t.entry = e
          \/ t.pc = "update_cache" /\ t.entry = e /\ t.id \in CommitIds(e.metadata)
  BY <1>2, <1>3, <1>4, <1>5, <1>6, <1>7
<1>13. QED
  BY ONLY TypeOK, DirectoryInv, PendingOK, CreateOK, ReadOK, c \in Clients, nextId' = nextId,
     task' = [task EXCEPT ![c] = t], <1>2, <1>4, <1>7, <1>8, <1>10, <1>11, <1>12, PublishStep

\* A creation puts v0, whatever the directory holds.
LEMMA CreatePutStep ==
  ASSUME TypeOK, DirectoryInv, PendingOK, CreateOK, ReadOK,
         NEW c \in Clients, CreatePut(c)
  PROVE  DirectoryInv' /\ PendingOK' /\ CreateOK' /\ ReadOK'
<1> DEFINE e == task[c].entry
           t == [task[c] EXCEPT !.pc = "create_cache"]
<1>1. task[c].pc = "create_put" /\ e.name = Version(0, "none")
  BY DEF CreatePut, CreateOK, Creating
<1>2. PICK u \in Used : e.metadata = [NoMetadata EXCEPT !.uuid = u]
  BY <1>1 DEF CreateOK, Creating
<1>3. e \in Entry /\ e.metadata \in Metadata
  BY DEF TypeOK, Tasks, Entry
<1>4. /\ e.metadata.uuid = u /\ e.metadata.codec = "none" /\ e.metadata.head = 0
      /\ e.metadata.commits = <<>>
  BY <1>2 DEF NoMetadata
<1>5. \A d \in Clients : d # c /\ task[d].pc = "create_put" =>
                         task[d].entry.metadata.uuid # e.metadata.uuid
  BY <1>1 DEF CreateOK
<1>6. e.name.n = 0 /\ e.name = Version(e.name.n, "none")
  BY <1>1 DEF Version
<1>7. /\ store' = Put(store, e.name, e.metadata) /\ published' = published \cup {e}
      /\ nextId' = nextId /\ task' = [task EXCEPT ![c] = t]
      /\ t.pc = "create_cache" /\ t.entry = e
  BY DEF CreatePut, TypeOK, Tasks
<1> HIDE DEF e, t
<1>8. CommitIds(e.metadata) = {}
  BY <1>4 DEF CommitIds
<1>9. WellFormed(e.metadata, Used)
  BY <1>3, <1>4, <1>8 DEF WellFormed
<1>10. /\ e.name.n = 0 => e.metadata = [NoMetadata EXCEPT !.uuid = e.metadata.uuid]
       /\ ~(e.name.n > 0)
       /\ \A k \in Nat : k < e.name.n => \E f \in published : f.name.n = k
       /\ \A d \in Clients : d # c /\ task[d].pc = "copy" => task[d].id \notin CommitIds(e.metadata)
  BY <1>2, <1>4, <1>6, <1>8
<1>11. QED
  BY ONLY TypeOK, DirectoryInv, PendingOK, CreateOK, ReadOK, c \in Clients,
     <1>3, <1>5, <1>6, <1>7, <1>9, <1>10, PublishStep

-----------------------------------------------------------------------------
(* Inv is inductive *)

LEMMA InvInit == Init => Inv
<1> SUFFICES ASSUME Init PROVE Inv
  OBVIOUS
<1>1. TypeOK
  BY TypeInit
<1>2. DirectoryInv
  BY DEF Init, DirectoryInv, PublishedOK, Contiguous, HasLast, Chain, Versions
<1>3. CallsInv
  BY ConstantTypes DEF Init, CallsInv, PendingOK, CreateOK, ReadOK, HeldOK, AckedOK
<1>4. QED
  BY <1>1, <1>2, <1>3 DEF Inv

\* Loads, losers and finished calls write nothing.
LEMMA QuietPreserves ==
  ASSUME Inv, NEW c \in Clients,
         \/ LoadList(c) \/ LoadGet(c) \/ LoadCache(c) \/ CreateCache(c)
         \/ CopyLost(c) \/ UpdateCache(c)
  PROVE  DirectoryInv' /\ PendingOK' /\ CreateOK' /\ ReadOK'
<1> USE DEF Inv, CallsInv
<1>1. UNCHANGED <<store, nextId, published>>
  BY DEF LoadList, LoadGet, LoadCache, CreateCache, CopyLost, UpdateCache
<1>2. ASSUME NEW t, task' = [task EXCEPT ![c] = t], Harmless(t)
      PROVE  \A d \in Clients : task'[d] = task[d] \/ Harmless(task'[d])
  BY <1>2 DEF TypeOK
<1>3. Harmless(IdleTask)
  BY ConstantTypes DEF Harmless
<1>4. CASE LoadList(c)
  <2>1. PICK n \in metadata_location(store) :
          task' = [task EXCEPT ![c] = [IdleTask EXCEPT !.pc = "get", !.entry.name = n]]
    BY <1>4 DEF LoadList
  <2> DEFINE t == [IdleTask EXCEPT !.pc = "get", !.entry.name = n]
  <2>2. n.base = "v"
    BY DEF metadata_location, Versions
  <2>3. t.pc = "get" /\ t.entry.name = n
    BY DEF IdleTask, NoEntry
  <2> HIDE DEF t
  <2>4. Harmless(t)
    BY <2>2, <2>3 DEF Harmless
  <2>5. task' = [task EXCEPT ![c] = t]
    BY <2>1 DEF t
  <2>6. QED
    BY <1>1, <1>2, <2>4, <2>5, QuietStep
<1>5. CASE LoadGet(c)
  <2> DEFINE n == task[c].entry.name
             e == [name |-> n, metadata |-> store[n]]
             t == [IdleTask EXCEPT !.pc = "load_cache", !.entry = e]
  <2>1. ASSUME n \in DOMAIN store PROVE e \in published
    <3>1. n \in Versions(store)
      BY <1>5, <2>1 DEF LoadGet, ReadOK, Versions
    <3>2. QED
      BY <3>1 DEF DirectoryInv, PublishedOK
  <2>2. t.pc = "load_cache" /\ t.entry = e
    BY DEF IdleTask
  <2>3. task' = [task EXCEPT ![c] = t] \/ task' = [task EXCEPT ![c] = IdleTask]
    BY <1>5 DEF LoadGet
  <2>4. task' = [task EXCEPT ![c] = t] => n \in DOMAIN store \/ task' = [task EXCEPT ![c] = IdleTask]
    BY <1>5 DEF LoadGet
  <2> HIDE DEF n, e, t
  <2>5. n \in DOMAIN store => Harmless(t)
    BY <2>1, <2>2 DEF Harmless
  <2>6. QED
    BY <1>1, <1>2, <1>3, <2>3, <2>4, <2>5, QuietStep
<1>6. CASE LoadCache(c) \/ CreateCache(c) \/ CopyLost(c) \/ UpdateCache(c)
  <2>1. task' = [task EXCEPT ![c] = IdleTask]
    BY <1>6 DEF LoadCache, CreateCache, CopyLost, UpdateCache
  <2>2. QED
    BY <1>1, <1>2, <1>3, <2>1, QuietStep
<1>7. QED
  BY <1>4, <1>5, <1>6

LEMMA CrashPreserves ==
  ASSUME Inv, NEW i \in Instances, Crash(i)
  PROVE  DirectoryInv' /\ PendingOK' /\ CreateOK' /\ ReadOK'
<1>1. \A c \in Clients : task'[c] = task[c] \/ Harmless(task'[c])
  BY ConstantTypes DEF Crash, Harmless
<1>2. QED
  BY <1>1, QuietStep DEF Crash, Inv, CallsInv

LEMMA CreateCheckPreserves ==
  ASSUME Inv, NEW c \in Clients, CreateCheck(c)
  PROVE  DirectoryInv' /\ PendingOK' /\ CreateOK' /\ ReadOK'
<1> USE DEF Inv, CallsInv
<1> DEFINE t == [IdleTask EXCEPT !.pc = "create_put",
                                 !.entry.metadata = [NoMetadata EXCEPT !.uuid = nextId]]
<1>1. /\ t.pc = "create_put" /\ t.entry.name = Version(0, "none")
      /\ t.entry.metadata = [NoMetadata EXCEPT !.uuid = nextId]
  BY DEF IdleTask, NoEntry
<1>2. /\ nextId' = nextId + 1 /\ store' = store /\ published' = published
      /\ task' = [task EXCEPT ![c] = t]
  BY DEF CreateCheck, new_id
<1> HIDE DEF t
<1>3. QED
  BY <1>1, <1>2, StartStep

\* Whatever the cache holds when update_table starts, the commit is built on
\* a published version.
LEMMA UpdatePutPreserves ==
  ASSUME NeverDropped, Inv, NEW c \in Clients, NEW kind \in CommitKinds, UpdatePut(c, kind)
  PROVE  DirectoryInv' /\ PendingOK' /\ CreateOK' /\ ReadOK'
<1> USE DEF Inv, CallsInv
<1> DEFINE old == cache[InstanceOf[c]]
           k   == [id |-> nextId, kind |-> kind, base |-> handle[c].head]
           m   == apply_table_updates(old.metadata, k)
           tmp == Temp(nextId, m.codec)
           e   == [name |-> new_filesystem_metadata_location(old.name, tmp), metadata |-> m]
           t   == [IdleTask EXCEPT !.pc = "copy", !.id = nextId, !.entry = e]
<1>1. old \in published /\ old \in Entry /\ old.metadata \in Metadata
      /\ WellFormed(old.metadata, Used) /\ kind \in {"data", "props"}
  <2>1. kind \in {"data", "props"}
    BY DEF NeverDropped
  <2>2. old \in published
    BY ClientsAssumption DEF UpdatePut, HeldOK
  <2>3. old \in Entry /\ WellFormed(old.metadata, Used)
    BY <2>2 DEF DirectoryInv, PublishedOK
  <2>4. QED
    BY <2>1, <2>2, <2>3 DEF Entry
<1>2. /\ check_table_requirements(kind, handle[c], old.metadata)
      /\ nextId' = nextId + 1 /\ published' = published
      /\ store' = Put(store, tmp, m) /\ task' = [task EXCEPT ![c] = t]
  BY DEF UpdatePut, new_id
<1>3. t.pc = "copy" /\ t.id = nextId /\ t.entry = e
  BY DEF IdleTask
<1>4. m = [old.metadata EXCEPT !.commits = Append(@, k),
                               !.head = IF kind = "data" THEN nextId ELSE @]
  <2>1. old.metadata.codec = "none"
    BY <1>1 DEF WellFormed
  <2>2. m = [old.metadata EXCEPT !.commits = Append(@, k),
                                 !.head = IF kind = "data" THEN nextId ELSE @,
                                 !.codec = "none"]
    BY <1>1, <2>1 DEF apply_table_updates
  <2> HIDE DEF old, m
  <2>3. QED
    BY <1>1, <2>1, <2>2 DEF Metadata
<1>5. m.codec = "none"
  <2>1. old.metadata.codec = "none"
    BY <1>1 DEF WellFormed
  <2> HIDE DEF m, k, old
  <2>2. QED
    BY <1>1, <1>4, <2>1 DEF Metadata
<1>6. e.name = Version(old.name.n + 1, "none") /\ tmp.base = "t"
  BY <1>5 DEF new_filesystem_metadata_location, Temp
<1>7. handle[c].head \in Used \cup {0}
  <2>1. NoMetadata.head = 0
    BY DEF NoMetadata
  <2>2. QED
    BY <2>1 DEF HeldOK, DirectoryInv, PublishedOK, WellFormed
<1>8. kind = "data" => handle[c].head = old.metadata.head
  BY <1>2 DEF check_table_requirements
<1>9. BuiltOn(t, old, Used)
  <2>1. e.metadata = m
    OBVIOUS
  <2> DEFINE b == handle[c].head
  <2>2. m = [old.metadata EXCEPT !.commits = Append(@, [id |-> nextId, kind |-> kind, base |-> b]),
                                 !.head = IF kind = "data" THEN nextId ELSE @]
    BY <1>4
  <2>3. b \in Used \cup {0} /\ (kind = "data" => b = old.metadata.head)
    BY <1>7, <1>8
  <2> HIDE DEF t, e, old, m, b
  <2>4. QED
    BY <1>1, <1>3, <1>6, <2>1, <2>2, <2>3 DEF BuiltOn
<1> HIDE DEF t, e, tmp, m, old, k
<1>10. /\ DOMAIN store \subseteq DOMAIN store' /\ Versions(store') = Versions(store)
       /\ \A n \in Versions(store) : store'[n] = store[n]
  BY <1>2, <1>6 DEF Put, Versions
<1>11. QED
  BY <1>1, <1>2, <1>3, <1>9, <1>10, StartStep

LEMMA CopyPreserves ==
  ASSUME Inv, NEW c \in Clients, CopyWon(c) \/ CopyError(c)
  PROVE  DirectoryInv' /\ PendingOK' /\ CreateOK' /\ ReadOK'
<1> USE DEF Inv, CallsInv
<1>1. CASE CopyWon(c)
  <2> DEFINE t == [task[c] EXCEPT !.pc = "update_cache"]
  <2>1. t.pc = "update_cache" /\ t.entry = task[c].entry /\ t.id = task[c].id
        /\ task' = [task EXCEPT ![c] = t]
    BY <1>1 DEF CopyWon, TypeOK, Tasks
  <2> HIDE DEF t
  <2>2. QED
    BY <1>1, <2>1, CopyStep DEF CopyWon
<1>2. CASE CopyError(c)
  <2>1. task' = [task EXCEPT ![c] = IdleTask] /\ IdleTask.pc = "idle" /\ nextId' = nextId
        /\ task[c].pc = "copy"
    BY <1>2, ConstantTypes DEF CopyError
  <2>2. CASE UNCHANGED <<store, published>>
    <3>1. \A d \in Clients : task'[d] = task[d] \/ Harmless(task'[d])
      BY <2>1 DEF TypeOK, Harmless
    <3>2. QED
      BY <2>1, <2>2, <3>1, QuietStep
  <2>3. CASE /\ copy_if_not_exists(task[c].id, task[c].entry.name)
             /\ store' = Put(store, task[c].entry.name, task[c].entry.metadata)
             /\ published' = published \cup {task[c].entry}
    BY <2>1, <2>3, CopyStep
  <2>4. QED
    BY <1>2, <2>2, <2>3 DEF CopyError
<1>3. QED
  BY <1>1, <1>2

\* Without droppers no call ever deletes.
LEMMA NoDrops ==
  ASSUME NeverDropped, Inv, NEW c \in Clients,
         DropList(c) \/ DropDelete(c) \/ DropError(c) \/ DropDone(c)
  PROVE  FALSE
BY DEF NeverDropped, Inv, CallsInv, ReadOK, DropList, DropDelete, DropError, DropDone

\* Caches and handles hold what a finished call had published or loaded.
LEMMA HeldPreserves ==
  ASSUME NeverDropped, Inv, Next
  PROVE  HeldOK' /\ published \subseteq published'
<1> USE DEF Inv, CallsInv
<1> DEFINE Same == UNCHANGED <<cache, handle>> /\ published \subseteq published'
           Returns(c) == /\ published' = published /\ task[c].entry \in published
                         /\ cache' = [cache EXCEPT ![InstanceOf[c]] = task[c].entry]
                         /\ handle' = [handle EXCEPT ![c] = task[c].entry.metadata]
           Forgets == /\ published' = published
                      /\ \A i \in Instances : cache'[i] \in {cache[i], NoEntry}
                      /\ \A c \in Clients : handle'[c] \in {handle[c], NoMetadata}
<1>1. CASE Same
  BY <1>1 DEF HeldOK
<1>2. ASSUME NEW c \in Clients, Returns(c) PROVE HeldOK' /\ published \subseteq published'
  <2>1. /\ \A i \in Instances : cache'[i] \in {cache[i], task[c].entry}
        /\ \A d \in Clients : handle'[d] \in {handle[d], task[c].entry.metadata}
    BY <1>2 DEF TypeOK
  <2>2. QED
    BY <1>2, <2>1 DEF HeldOK
<1>3. CASE Forgets
  BY <1>3 DEF HeldOK
<1>4. ASSUME NEW c \in Clients, LoadCache(c) \/ CreateCache(c) \/ UpdateCache(c)
      PROVE  Returns(c)
  BY <1>4 DEF LoadCache, CreateCache, UpdateCache, ReadOK
<1>5. ASSUME NEW i \in Instances, Crash(i) PROVE Forgets
  BY <1>5 DEF Crash, TypeOK
<1>6. ASSUME NEW c \in Clients,
             \/ LoadList(c) \/ LoadGet(c) \/ CreateCheck(c) \/ CreatePut(c)
             \/ (\E kind \in CommitKinds : UpdatePut(c, kind)) \/ CopyWon(c) \/ CopyLost(c)
             \/ CopyError(c)
      PROVE  Same
  BY <1>6 DEF LoadList, LoadGet, CreateCheck, CreatePut, UpdatePut, CopyWon, CopyLost, CopyError
<1> HIDE DEF Same, Returns, Forgets
<1>7. QED
  BY <1>1, <1>2, <1>3, <1>4, <1>5, <1>6, NoDrops DEF Next

\* A commit is acknowledged only after it was published.
LEMMA AckedPreserves ==
  ASSUME NeverDropped, Inv, Next, published \subseteq published'
  PROVE  AckedOK'
<1> USE DEF Inv, CallsInv
<1>1. CASE acked' = acked
  BY <1>1 DEF AckedOK
<1>2. ASSUME NEW c \in Clients, UpdateCache(c) PROVE AckedOK'
  <2>1. task[c].entry \in published /\ task[c].id \in CommitIds(task[c].entry.metadata)
    BY <1>2 DEF UpdateCache, ReadOK
  <2>2. acked' = acked \cup {[uuid |-> task[c].entry.metadata.uuid, id |-> task[c].id]}
    BY <1>2 DEF UpdateCache
  <2>3. QED
    BY <2>1, <2>2 DEF AckedOK
<1>3. (\E c \in Clients : UpdateCache(c)) \/ acked' = acked
  BY NoDrops DEF Next, LoadList, LoadGet, LoadCache, CreateCheck, CreatePut, CreateCache,
       UpdatePut, CopyWon, CopyLost, CopyError, Crash
<1>4. QED
  BY <1>1, <1>2, <1>3

LEMMA InvStep == NeverDropped /\ Inv /\ [Next]_vars => Inv'
<1> SUFFICES ASSUME NeverDropped, Inv, [Next]_vars PROVE Inv'
  OBVIOUS
<1>1. TypeOK'
  BY TypeStep DEF Inv
<1>2. CASE UNCHANGED vars
  <2>1. DirectoryInv' /\ PendingOK' /\ CreateOK' /\ ReadOK'
    BY <1>2, QuietStep DEF vars, Inv, CallsInv
  <2>2. HeldOK' /\ AckedOK'
    BY <1>2 DEF vars, Inv, CallsInv, HeldOK, AckedOK
  <2>3. QED
    BY <1>1, <2>1, <2>2 DEF Inv, CallsInv
<1>3. CASE Next
  <2>1. DirectoryInv' /\ PendingOK' /\ CreateOK' /\ ReadOK'
    <3>1. ASSUME NEW c \in Clients, CreatePut(c)
          PROVE  DirectoryInv' /\ PendingOK' /\ CreateOK' /\ ReadOK'
      BY <3>1, CreatePutStep DEF Inv, CallsInv
    <3>2. QED
      BY <1>3, <3>1, QuietPreserves, CreateCheckPreserves, UpdatePutPreserves, CopyPreserves,
         CrashPreserves, NoDrops DEF Next
  <2>2. HeldOK' /\ AckedOK'
    BY <1>3, HeldPreserves, AckedPreserves
  <2>3. QED
    BY <1>1, <2>1, <2>2 DEF Inv, CallsInv
<1>4. QED
  BY <1>2, <1>3

\* Inv holds always: from version 1 on the version files are a chain without
\* gaps, every commit under way is built on one of them or on a version 0, every
\* creation under way has a uuid of its own, and only published entries are held.
THEOREM InvHolds == NeverDropped => (Spec => []Inv)
<1> SUFFICES ASSUME NeverDropped PROVE Spec => []Inv
  OBVIOUS
<1>1. Inv /\ [Next]_vars => Inv'
  BY InvStep
<1>2. QED
  BY <1>1, InvInit, PTL DEF Spec

-----------------------------------------------------------------------------
(* No acknowledged commit is lost *)

\* The last version, in a directory f whose version files are named by P.
LEMMA LastVersion ==
  ASSUME NEW f, NEW P, NEW o \in P,
         \A e \in P : /\ e.name = Version(e.name.n, "none") /\ e.name.n \in Nat
                      /\ e.name \in DOMAIN f,
         \A n \in Versions(f) : \E e \in P : e.name = n,
         \A e \in P : e.name.n <= o.name.n
  PROVE  {f[n] : n \in metadata_location(f)} = {f[o.name]}
<1>1. \A n : Version(n, "none").base = "v"
  BY DEF Version
<1>2. \A e \in P : e.name \in Versions(f)
  BY <1>1 DEF Versions
<1>3. o.name \in metadata_location(f)
  BY <1>2 DEF metadata_location
<1>4. ASSUME NEW n \in metadata_location(f) PROVE n = o.name
  <2>1. n \in Versions(f) /\ o.name.n <= n.n
    BY <1>2 DEF metadata_location
  <2>2. PICK e \in P : e.name = n
    BY <2>1
  <2>3. e.name.n = o.name.n
    BY <2>1, <2>2
  <2>4. QED
    BY <2>2, <2>3
<1>5. QED
  BY <1>3, <1>4

\* What a load finds is what the last name holds: in the directory f, whose
\* version files are those of the entries p.
StoredAs(f, p) ==
  /\ \A e \in p : /\ e.name = Version(e.name.n, "none") /\ e.name.n \in Nat
                   /\ e.name \in DOMAIN f
  /\ \A n \in Versions(f) : \E e \in p : e.name = n

LEMMA DirectoryStored == DirectoryInv => StoredAs(store, published)
<1> SUFFICES ASSUME DirectoryInv PROVE StoredAs(store, published)
  OBVIOUS
<1>1. \A f \in published : /\ f.name = Version(f.name.n, "none") /\ f.name.n \in Nat
                           /\ f.name \in DOMAIN store
  BY DEF DirectoryInv, PublishedOK, Entry, Names
<1>2. ASSUME NEW n \in Versions(store) PROVE \E f \in published : f.name = n
  <2>1. [name |-> n, metadata |-> store[n]] \in published
    BY DEF DirectoryInv, PublishedOK
  <2>2. QED
    BY <2>1
<1>3. QED
  BY <1>1, <1>2 DEF StoredAs

LEMMA CurrentIs ==
  ASSUME NEW f, NEW p, NEW o \in p, StoredAs(f, p), \A e \in p : e.name.n <= o.name.n
  PROVE  {f[n] : n \in metadata_location(f)} = {f[o.name]}
BY LastVersion DEF StoredAs

\* While the table is the one a commit was acknowledged for, the commit is in
\* its history: for any number of clients and instances whose caches miss any
\* number of each other's commits, and any number of creations over the table.
THEOREM NeverLosesCommit == NeverDropped => (Spec => []NoLostCommit)
<1> SUFFICES ASSUME NeverDropped PROVE Spec => []NoLostCommit
  OBVIOUS
<1>1. Inv => NoLostCommit
  <2> SUFFICES ASSUME Inv, NEW a \in acked, NEW m \in Current, m.uuid = a.uuid
               PROVE  \E i \in DOMAIN m.commits : m.commits[i].id = a.id
    BY DEF NoLostCommit
  <2>1. PICK e \in published : e.metadata.uuid = a.uuid /\ a.id \in CommitIds(e.metadata)
    BY DEF Inv, CallsInv, AckedOK
  <2>2. PICK o \in published : \A f \in published : f.name.n <= o.name.n
    BY DEF Inv, DirectoryInv, HasLast
  <2>3. m = store[o.name]
    BY <2>2, CurrentIs, DirectoryStored DEF Inv, Current
  <2>4. e.name.n > 0
    <3>1. CASE e.name.n = 0
      <4>1. e.metadata.commits = <<>>
        BY <3>1 DEF Inv, DirectoryInv, PublishedOK, NoMetadata
      <4>2. QED
        BY <2>1, <4>1 DEF CommitIds
    <3>2. e.name.n \in Nat
      BY DEF Inv, DirectoryInv, PublishedOK, Entry, Names
    <3>3. QED
      BY <3>1, <3>2
  <2>5. e.name.n <= o.name.n /\ e.name.n \in Nat /\ o.name.n \in Nat
    BY <2>2 DEF Inv, DirectoryInv, PublishedOK, Entry, Names
  <2>6. m = o.metadata
    <3>1. o.name.n > 0
      BY <2>4, <2>5
    <3>2. QED
      BY <2>3, <3>1 DEF Inv, DirectoryInv, PublishedOK
  <2>7. a.id \in CommitIds(m)
    BY <2>1, <2>4, <2>5, <2>6 DEF Inv, DirectoryInv, Chain
  <2>8. QED
    BY <2>7 DEF CommitIds
<1>2. QED
  BY <1>1, InvHolds, PTL

-----------------------------------------------------------------------------
(* Refinement *)

\* Steps that leave the version files alone are invisible.
LEMMA Invisible ==
  ASSUME published' = published, Versions(store') = Versions(store),
         \A n \in Versions(store) : store'[n] = store[n]
  PROVE  UNCHANGED <<Table, Uuids>>
<1>1. metadata_location(store') = metadata_location(store)
  BY DEF metadata_location
<1>2. \A n \in metadata_location(store) : store'[n] = store[n]
  BY DEF metadata_location
<1>3. Current' = Current
  BY <1>1, <1>2 DEF Current
<1>4. QED
  BY <1>3 DEF Table, Uuids

\* A version 0 is an empty table.
LEMMA EmptyTable ==
  ASSUME DirectoryInv, NEW n \in Versions(store), n.n = 0
  PROVE  /\ store[n].commits = <<>> /\ store[n].head = 0 /\ store[n].uuid # 0
         /\ store[n].uuid \in Uuids
<1> DEFINE e == [name |-> n, metadata |-> store[n]]
<1>1. e \in published /\ e.name.n = 0 /\ e.metadata = store[n]
  BY DEF DirectoryInv, PublishedOK
<1>2. e.metadata = [NoMetadata EXCEPT !.uuid = e.metadata.uuid] /\ e.metadata.uuid # 0
  BY <1>1 DEF DirectoryInv, PublishedOK, WellFormed, Used
<1>3. e.metadata.commits = <<>> /\ e.metadata.head = 0
  BY <1>2 DEF NoMetadata
<1>4. QED
  BY <1>1, <1>2, <1>3 DEF Uuids

\* Published names are version files.
LEMMA PublishedNames ==
  ASSUME DirectoryInv, NEW e \in published
  PROVE  e.name \in Versions(store) /\ e.name.n \in Nat /\ e.name = Version(e.name.n, "none")
<1>1. e.name = Version(e.name.n, "none") /\ e.name \in DOMAIN store /\ e.name.n \in Nat
  BY DEF DirectoryInv, PublishedOK, Entry, Names
<1>2. Version(e.name.n, "none").base = "v"
  BY DEF Version
<1>3. QED
  BY <1>1, <1>2 DEF Versions

LEMMA PutCreates ==
  ASSUME NeverDropped, Inv, Inv', Lineage, NEW c \in Clients, CreatePut(c)
  PROVE  /\ Uuids' # Uuids
         /\ \E u \in 1 .. MaxIds : Atomic!Create(u) \/ Atomic!CreateOver(u)
<1> DEFINE e == task[c].entry
<1>1. /\ e.name = Version(0, "none") /\ e.name.n = 0 /\ published' = published \cup {e}
      /\ store' = Put(store, e.name, e.metadata) /\ Creating(task[c], Used, published)
  BY DEF CreatePut, Inv, CallsInv, CreateOK, Creating, Version
<1>2. PICK u \in Used : e.metadata = [NoMetadata EXCEPT !.uuid = u]
  BY <1>1 DEF Creating
<1>3. e.metadata.uuid = u /\ e.metadata.commits = <<>> /\ e.metadata.head = 0
  BY <1>2 DEF NoMetadata
<1>4. u \in 1 .. MaxIds
  BY ClientsAssumption, FileConstantsAssumption DEF Used, Inv, TypeOK
<1>5. u \notin Uuids
  BY <1>1, <1>3 DEF Creating, Uuids
<1> HIDE DEF e
<1>6. Uuids' = Uuids \cup {u}
  BY <1>1, <1>3 DEF Uuids
<1>7. store'[e.name] = e.metadata /\ \A n \in DOMAIN store : n # e.name => store'[n] = store[n]
  BY <1>1 DEF Put
<1>8. DirectoryInv /\ DirectoryInv'
  BY DEF Inv
<1>0. StoredAs(store, published) /\ StoredAs(store', published')
  <2>1. StoredAs(store, published)
    BY <1>8, DirectoryStored
  <2>2. StoredAs(store, published)'
    BY <1>8, DirectoryStored, PTL
  <2>3. QED
    BY <2>1, <2>2
<1>9. \A f \in published' : f.name.n \in Nat
  BY <1>8 DEF DirectoryInv, PublishedOK, Entry, Names
<1>10. ASSUME \A f \in published : f.name.n = 0
       PROVE  Table' = [uuid |-> u, commits |-> <<>>, head |-> 0]
  <2>1. e \in published' /\ \A f \in published' : f.name.n <= e.name.n
    BY <1>1, <1>10
  <2>2. Current' = {store'[e.name]}
    BY <1>0, <2>1, CurrentIs DEF Current
  <2>3. QED
    BY <1>3, <1>7, <2>2 DEF Table
<1>11. CASE published = {}
  <2>1. Versions(store) = {}
    BY <1>8, <1>11 DEF DirectoryInv, PublishedOK
  <2>2. Table.uuid = 0
    BY <2>1 DEF Table, Current, metadata_location
  <2>3. Atomic!Create(u)
    BY <1>5, <1>6, <1>10, <1>11, <2>2 DEF Atomic!Create
  <2>4. QED
    BY <1>4, <1>5, <1>6, <2>3
<1>12. CASE published # {}
  <2>1. PICK o \in published : \A f \in published : f.name.n <= o.name.n
    BY <1>8, <1>12 DEF DirectoryInv, HasLast
  <2>2. o.name \in Versions(store) /\ o.name.n \in Nat
    BY <1>8, PublishedNames
  <2>3. Current = {store[o.name]}
    BY <1>0, <2>1, CurrentIs DEF Current
  <2>4. Table = [uuid |-> store[o.name].uuid, commits |-> store[o.name].commits, head |-> store[o.name].head]
    BY <2>3 DEF Table
  <2>5. CASE o.name.n = 0
    <3>1. Table.uuid # 0 /\ Table.commits = <<>>
      BY <1>8, <2>2, <2>4, <2>5, EmptyTable
    <3>2. \A f \in published : f.name.n = 0
      BY <1>1, <1>9, <2>1, <2>5
    <3>3. Atomic!CreateOver(u)
      BY <1>5, <1>6, <1>10, <3>1, <3>2 DEF Atomic!CreateOver, Atomic!Empty
    <3>4. QED
      BY <1>4, <1>5, <1>6, <3>3
  <2>6. CASE o.name.n > 0
    <3>1. store[o.name] = o.metadata /\ o.metadata.uuid # 0
      <4>1. store[o.name] = o.metadata /\ o.metadata.uuid \in Used
        BY <1>8, <2>6 DEF DirectoryInv, PublishedOK, WellFormed
      <4>2. QED
        BY <4>1 DEF Used
    <3>2. o.metadata.commits # <<>>
      BY <2>2, <2>6 DEF Lineage
    <3>3. o.name # e.name
      BY <1>1, <2>6
    <3>4. \A f \in published' : f.name.n <= o.name.n
      BY <1>1, <1>9, <2>1, <2>6
    <3>5. o \in published'
      BY <1>1
    <3>6. Current' = {store'[o.name]}
      BY <1>0, <3>4, <3>5, CurrentIs DEF Current
    <3>7. store'[o.name] = store[o.name]
      BY <1>7, <2>2, <3>3 DEF Versions
    <3>8. Table' = Table
      BY <2>4, <3>6, <3>7 DEF Table
    <3>9. Table.uuid # 0 /\ Table.commits # <<>>
      BY <2>4, <3>1, <3>2
    <3>10. Atomic!CreateOver(u)
      BY <1>5, <1>6, <3>8, <3>9 DEF Atomic!CreateOver
    <3>11. QED
      BY <1>4, <1>5, <1>6, <3>10
  <2>7. QED
    BY <2>2, <2>5, <2>6
<1>13. QED
  BY <1>11, <1>12

LEMMA CopyCommits ==
  ASSUME NeverDropped, Inv, Inv', NEW c \in Clients, task[c].pc = "copy",
         copy_if_not_exists(task[c].id, task[c].entry.name),
         store' = Put(store, task[c].entry.name, task[c].entry.metadata),
         published' = published \cup {task[c].entry}
  PROVE  /\ Table' # Table
         /\ \E k \in Atomic!Commits :
              Atomic!Commit(k) \/ \E u \in Uuids : Atomic!FirstCommit(k, u)
<1> DEFINE e == task[c].entry
           id == task[c].id
<1>1. PICK o \in published : BuiltOn(task[c], o, Used)
  BY DEF Inv, CallsInv, PendingOK
<1>2. o \in Entry /\ o.metadata \in Metadata /\ o.name.n \in Nat /\ WellFormed(o.metadata, Used)
  BY DEF Inv, DirectoryInv, PublishedOK, Entry, Names
<1>3. /\ e.name = Version(o.name.n + 1, "none") /\ e.name.n = o.name.n + 1
      /\ e.metadata.uuid = o.metadata.uuid
  <2>1. e.name = Version(o.name.n + 1, "none") /\ e.metadata.uuid = o.metadata.uuid
    BY <1>1, <1>2, BuiltMetadata
  <2>2. Version(o.name.n + 1, "none").n = o.name.n + 1
    BY DEF Version
  <2>3. QED
    BY <2>1, <2>2
<1>4. PICK kind \in {"data", "props"}, base \in Used \cup {0} :
        /\ kind = "data" => base = o.metadata.head
        /\ e.metadata = [o.metadata EXCEPT
                           !.commits = Append(@, [id |-> id, kind |-> kind, base |-> base]),
                           !.head = IF kind = "data" THEN id ELSE @]
  BY <1>1 DEF BuiltOn
<1>5. /\ id \in Used /\ e.name \notin DOMAIN store /\ published' = published \cup {e}
      /\ id \notin CommitIds(o.metadata) /\ store' = Put(store, e.name, e.metadata)
  BY DEF Inv, CallsInv, PendingOK, copy_if_not_exists
<1> HIDE DEF e, id
<1>6. \A f \in published : f.name.n <= o.name.n /\ f.name.n \in Nat
  BY <1>3, <1>5, FreeIsNext DEF Inv, DirectoryInv, PublishedOK, Entry, Names
<1>7. DirectoryInv /\ DirectoryInv'
  BY DEF Inv
<1>0. StoredAs(store, published) /\ StoredAs(store', published')
  <2>1. StoredAs(store, published)
    BY <1>7, DirectoryStored
  <2>2. StoredAs(store, published)'
    BY <1>7, DirectoryStored, PTL
  <2>3. QED
    BY <2>1, <2>2
<1>8. Current = {store[o.name]} /\ o.name \in Versions(store)
  BY <1>0, <1>6, <1>7, CurrentIs, PublishedNames DEF Current
<1>9. Current' = {e.metadata}
  <2>1. e \in published' /\ \A f \in published' : f.name.n <= e.name.n
    BY <1>2, <1>3, <1>5, <1>6
  <2>2. Current' = {store'[e.name]}
    BY <1>0, <2>1, CurrentIs DEF Current
  <2>3. QED
    BY <1>5, <2>2 DEF Put
<1> DEFINE k == [id |-> id, kind |-> kind, base |-> base]
<1>10. k \in Atomic!Commits
  <2>1. Used \subseteq 1 .. MaxIds
    BY ClientsAssumption, FileConstantsAssumption DEF Used, Inv, TypeOK
  <2>2. QED
    BY <1>5, <2>1 DEF Atomic!Commits, Atomic!Kinds
<1>11. k.id = id /\ k.kind = kind /\ k.base = base
  OBVIOUS
<1>12. /\ e.metadata.commits = Append(o.metadata.commits, k)
       /\ e.metadata.head = IF kind = "data" THEN id ELSE o.metadata.head
  BY <1>2, <1>4 DEF Metadata
<1> HIDE DEF k
<1>13. Table' = [uuid |-> e.metadata.uuid, commits |-> e.metadata.commits, head |-> e.metadata.head]
  BY <1>9 DEF Table
<1>14. Table = [uuid |-> store[o.name].uuid, commits |-> store[o.name].commits, head |-> store[o.name].head]
  BY <1>8 DEF Table
<1>15. Uuids' = Uuids /\ o.metadata.uuid \in Uuids
  BY <1>3, <1>5 DEF Uuids
<1>16. CASE o.name.n > 0
  <2>1. store[o.name] = o.metadata
    BY <1>7, <1>16 DEF DirectoryInv, PublishedOK
  <2>2. Table.uuid = o.metadata.uuid /\ Table.commits = o.metadata.commits /\ Table.head = o.metadata.head
    BY <1>14, <2>1
  <2>3. Table.uuid # 0
    BY <1>2, <2>2 DEF WellFormed, Used
  <2>4. o.metadata.commits \in Seq(Commits)
    BY <1>2 DEF Metadata
  <2>5. \A i \in 1 .. Len(Table.commits) : Table.commits[i].id # k.id
    <3>1. DOMAIN o.metadata.commits = 1 .. Len(o.metadata.commits)
      BY <2>4
    <3>2. QED
      BY <1>5, <1>11, <2>2, <3>1 DEF CommitIds
  <2>6. Table' = [uuid |-> Table.uuid, commits |-> Append(Table.commits, k),
                  head |-> IF k.kind = "data" THEN k.id ELSE Table.head]
    BY <1>3, <1>11, <1>12, <1>13, <2>2
  <2>7. Append(o.metadata.commits, k) # o.metadata.commits
    <3>1. Len(Append(o.metadata.commits, k)) = Len(o.metadata.commits) + 1 /\ Len(o.metadata.commits) \in Nat
      BY <2>4
    <3>2. QED
      BY <3>1
  <2>8. Table' # Table
    BY <2>2, <2>6, <2>7
  <2>9. Atomic!Commit(k)
    BY <1>4, <1>11, <1>15, <2>2, <2>3, <2>5, <2>6 DEF Atomic!Commit
  <2>10. QED
    BY <1>10, <2>8, <2>9
<1>17. CASE o.name.n = 0
  <2>1. Table.commits = <<>>
    BY <1>7, <1>8, <1>14, <1>17, EmptyTable
  <2>2. o.metadata.commits = <<>> /\ o.metadata.head = 0
    <3>1. o.metadata = [NoMetadata EXCEPT !.uuid = o.metadata.uuid]
      BY <1>7, <1>17 DEF DirectoryInv, PublishedOK
    <3>2. QED
      BY <3>1 DEF NoMetadata
  <2>3. e.metadata.commits = <<k>> /\ <<k>> # <<>>
    BY <1>12, <2>2
  <2>4. Table' = [uuid |-> o.metadata.uuid, commits |-> <<k>>,
                  head |-> IF k.kind = "data" THEN k.id ELSE 0]
    BY <1>3, <1>11, <1>12, <1>13, <2>2, <2>3
  <2>5. Table' # Table
    <3>1. Table'.commits = <<k>>
      BY <1>13, <2>3
    <3>2. <<k>> # Table.commits
      BY <2>1, <2>3
    <3>3. QED
      BY <3>1, <3>2
  <2>6. Atomic!FirstCommit(k, o.metadata.uuid)
    BY <1>4, <1>11, <1>15, <2>1, <2>2, <2>4 DEF Atomic!FirstCommit
  <2>7. QED
    BY <1>10, <1>15, <2>5, <2>6
<1>18. QED
  BY <1>2, <1>16, <1>17

LEMMA StepRefines ==
  NeverDropped /\ Inv /\ Inv' /\ Lineage /\ [Next]_vars => [Atomic!UncheckedNext]_<<Table, Uuids>>
<1> SUFFICES ASSUME NeverDropped, Inv, Inv', Lineage, [Next]_vars
             PROVE  Atomic!UncheckedNext \/ UNCHANGED <<Table, Uuids>>
  OBVIOUS
<1>1. ASSUME NEW c \in Clients, CreatePut(c) PROVE Atomic!UncheckedNext
  BY <1>1, PutCreates DEF Atomic!UncheckedNext
<1>2. ASSUME NEW c \in Clients, CopyWon(c) \/ CopyError(c)
      PROVE  Atomic!UncheckedNext \/ UNCHANGED <<Table, Uuids>>
  <2>1. CASE UNCHANGED <<store, published>>
    BY <2>1, Invisible
  <2>2. CASE /\ task[c].pc = "copy" /\ copy_if_not_exists(task[c].id, task[c].entry.name)
             /\ store' = Put(store, task[c].entry.name, task[c].entry.metadata)
             /\ published' = published \cup {task[c].entry}
    BY <2>2, CopyCommits DEF Atomic!UncheckedNext
  <2>3. QED
    BY <1>2, <2>1, <2>2 DEF CopyWon, CopyError
<1>3. ASSUME NEW c \in Clients, NEW kind \in CommitKinds, UpdatePut(c, kind)
      PROVE  UNCHANGED <<Table, Uuids>>
  <2>1. published' = published /\ \E n, m : n.base = "t" /\ store' = Put(store, n, m)
    BY <1>3 DEF UpdatePut, Temp
  <2>2. Versions(store') = Versions(store) /\ \A n \in Versions(store) : store'[n] = store[n]
    BY <2>1 DEF Put, Versions
  <2>3. QED
    BY <2>1, <2>2, Invisible
<1>4. ASSUME \/ UNCHANGED vars
             \/ \E i \in Instances : Crash(i)
             \/ \E c \in Clients :
                  \/ LoadList(c) \/ LoadGet(c) \/ LoadCache(c) \/ CreateCheck(c)
                  \/ CreateCache(c) \/ CopyLost(c) \/ UpdateCache(c)
      PROVE  UNCHANGED <<Table, Uuids>>
  <2>1. UNCHANGED <<published, store>>
    BY <1>4 DEF vars, Crash, LoadList, LoadGet, LoadCache, CreateCheck, CreateCache,
                CopyLost, UpdateCache
  <2>2. QED
    BY <2>1, Invisible
<1>5. QED
  BY <1>1, <1>2, <1>3, <1>4, NoDrops DEF Next

\* From its first commit on the directory of version files is an atomic table
\* for any number of clients, instances, creations that did not see it, commits,
\* lost replies and crashes, although the only thing its writers agree on is
\* copy_if_not_exists.
THEOREM Refinement == NeverDropped => (Spec => AtomicFromFirstCommit)
<1> SUFFICES ASSUME NeverDropped PROVE Spec => AtomicFromFirstCommit
  OBVIOUS
<1>1. Init => Atomic!Init
  BY DEF Init, Atomic!Init, Atomic!NoTable, Table, Uuids, Current, metadata_location, Versions
<1>2. Inv /\ Inv' /\ Lineage /\ [Next]_vars => [Atomic!UncheckedNext]_<<Table, Uuids>>
  BY StepRefines
<1>3. QED
  BY <1>1, <1>2, InvHolds, LineageHolds, PTL DEF Spec, AtomicFromFirstCommit, Atomic!UncheckedSpec

=============================================================================
