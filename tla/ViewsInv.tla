------------------------------ MODULE ViewsInv ------------------------------
(***************************************************************************)
(* The inductive invariant of Views.                                       *)
(*                                                                         *)
(* A transaction is executed on metadata its client held, applied to       *)
(* metadata its instance cached, and stored when the location has not      *)
(* moved since; neither of the two need be the stored view.  So nothing is *)
(* said of a transaction that would be refused.  One that would be         *)
(* accepted was applied to the stored view or, in a directory, to another  *)
(* creation of its first version, and every schema its client knew is      *)
(* there.                                                                  *)
(***************************************************************************)
EXTENDS Views

\* What the theorems assume of the parameters: each client has a catalog
\* instance, of one of the two kinds, and transactions are sequences of the
\* two operations.
Deployment ==
  /\ Clients \subseteq DOMAIN InstanceOf
  /\ Backends \subseteq {"sql", "file"}
  /\ \A ops \in Transactions : Len(ops) \in Nat /\ DOMAIN ops = 1 .. Len(ops)

-----------------------------------------------------------------------------
(* One view's metadata *)

\* Ids are numbers with a largest among them.
Ids(s) == s \subseteq Nat /\ \E x \in s : \A y \in s : y <= x

Typed(m) ==
  /\ m = [uuid |-> m.uuid, current |-> m.current, versions |-> m.versions,
          schemas |-> m.schemas, refs |-> m.refs]
  /\ m.versions = [v \in DOMAIN m.versions |-> m.versions[v]]
  /\ m.schemas = [s \in DOMAIN m.schemas |-> m.schemas[s]]
  /\ Ids(DOMAIN m.versions) /\ Ids(DOMAIN m.schemas)

\* What ViewResolves asks for.
Resolves(m) ==
  /\ m.current \in DOMAIN m.versions
  /\ \A b \in DOMAIN m.refs : m.refs[b] \in DOMAIN m.versions
  /\ \A v \in DOMAIN m.versions : m.versions[v].schema \in DOMAIN m.schemas

Sound(m) == Typed(m) /\ Resolves(m)

KnowsSchemas(m, old) == DOMAIN old.schemas \subseteq DOMAIN m.schemas

-----------------------------------------------------------------------------
(* What is held: in caches, by clients and by calls about to return *)

\* What is known of metadata m somebody holds when s is what backend b has
\* stored: the stored view has its schemas, unless it is another view; while a
\* directory has one version, what is held is what a creation made.
HeldMetadata(m, s, b) ==
  /\ Sound(m)
  /\ (s # NoEntry /\ s.metadata.uuid = m.uuid) => KnowsSchemas(s.metadata, m)
  /\ b = "file" => s # NoEntry /\ (s.loc = 1 => m = NewView(m.uuid))

\* A location has one content, but for the first version in a directory.
HeldEntry(e, s, b) ==
  /\ e.loc >= 1
  /\ HeldMetadata(e.metadata, s, b)
  /\ b = "file" => e.loc <= s.loc
  /\ (s # NoEntry /\ e.loc = s.loc) => (e = s \/ (b = "file" /\ e.loc = 1))

-----------------------------------------------------------------------------
(* Calls *)

CreateKnows(t, b) ==
  /\ t.entry.loc >= 1
  /\ b = "file" => t.entry.loc = 1
  /\ t.entry.metadata.uuid >= 1
  /\ t.entry.metadata = NewView(t.entry.metadata.uuid)

\* What an accepted transaction leaves of the stored view.
Extends(m, base, s, b) ==
  /\ IF b = "file" /\ s.loc = 1
     THEN 0 \in DOMAIN m.schemas
     ELSE m.uuid = s.metadata.uuid /\ KnowsSchemas(m, s.metadata)
  /\ m.uuid = s.metadata.uuid =>
       /\ KeepsBut(s.metadata.versions, m.versions, MaxKey(base.versions) + 1)
       /\ KeepsBut(s.metadata.schemas, m.schemas, MaxKey(base.schemas) + 1)
  /\ b = "sql" => m.uuid = base.uuid \/ m.versions = s.metadata.versions

\* (The second premise of the last conjunct is row_matches.)
SwapKnows(t, s, b) ==
  /\ t.prev >= 1
  /\ b = "sql" => t.prev < t.entry.loc
  /\ b = "file" => t.entry.loc = t.prev + 1 /\ s # NoEntry /\ t.prev <= s.loc
  /\ (s # NoEntry /\ s.loc = t.prev) =>
       Sound(t.entry.metadata) /\ Extends(t.entry.metadata, t.base, s, b)

CallKnows(t, s, b) ==
  /\ t.pc = "idle" => t = IdleTask
  /\ t.pc = "create" => CreateKnows(t, b)
  /\ t.pc = "swap" => SwapKnows(t, s, b)
  /\ t.pc \in {"create_storage", "cache"} => HeldEntry(t.entry, s, b)

\* Nobody else has the uuid of a view that is being created.
OwnUuid(c) ==
  task[c].pc = "create" =>
    LET uuid == task[c].entry.metadata.uuid IN
    /\ stored.metadata.uuid # uuid
    /\ \A i \in Instances : cache[i].metadata.uuid # uuid
    /\ \A d \in Clients : handle[d].uuid # uuid
    /\ \A d \in Clients \ {c} : task[d].entry.metadata.uuid # uuid

\* SQL: the location of a file that is not stored yet is its own.
OwnLocation(c) ==
  backend = "sql" /\ task[c].pc \in {"create", "swap"} =>
    LET loc == task[c].entry.loc IN
    /\ stored.loc # loc
    /\ \A i \in Instances : cache[i].loc # loc
    /\ \A d \in Clients \ {c} : task[d].entry.loc # loc
    /\ \A d \in Clients : task[d].prev # loc

-----------------------------------------------------------------------------
(* Types and bounds: n transactions have begun, next is the next location. *)

EntryTyped(e, n, next, b) ==
  /\ e = [loc |-> e.loc, metadata |-> e.metadata]
  /\ e.loc \in Nat /\ e.metadata.uuid \in 0 .. n
  /\ b = "sql" => e.loc < next

Pcs == {"idle", "create", "create_storage", "swap", "cache"}

TaskTyped(t, n, next, b) ==
  /\ t = [pc |-> t.pc, prev |-> t.prev, entry |-> t.entry, base |-> t.base]
  /\ t.pc \in Pcs
  /\ t.prev \in Nat
  /\ b = "sql" => t.prev < next
  /\ EntryTyped(t.entry, n, next, b)

TypeOK ==
  /\ backend \in {"sql", "file"}
  /\ txns \in Nat
  /\ nextLoc \in Nat \ {0} /\ (backend = "file" => nextLoc = 1)
  /\ EntryTyped(stored, txns, nextLoc, backend)
  /\ cache = [i \in Instances |-> cache[i]]
  /\ \A i \in Instances : EntryTyped(cache[i], txns, nextLoc, backend)
  /\ handle = [c \in Clients |-> handle[c]]
  /\ \A c \in Clients : handle[c].uuid \in 0 .. txns
  /\ task = [c \in Clients |-> task[c]]
  /\ \A c \in Clients : TaskTyped(task[c], txns, nextLoc, backend)

StoredOK == stored # NoEntry => HeldEntry(stored, stored, backend)

CachesOK == \A i \in Instances : cache[i] # NoEntry => HeldEntry(cache[i], stored, backend)

HandlesOK ==
  \A c \in Clients : handle[c] # NoMetadata => HeldMetadata(handle[c], stored, backend)

TasksOK == \A c \in Clients : CallKnows(task[c], stored, backend) /\ OwnUuid(c) /\ OwnLocation(c)

IInv == TypeOK /\ StoredOK /\ CachesOK /\ HandlesOK /\ TasksOK

=============================================================================
