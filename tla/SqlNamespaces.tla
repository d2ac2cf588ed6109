---------------------------- MODULE SqlNamespaces ----------------------------
(***************************************************************************)
(* One namespace of the SQL catalog: create_namespace, drop_namespace,     *)
(* update_namespace and load_namespace over iceberg_namespaces (the        *)
(* identity row, with its legacy_marker) and iceberg_namespace_properties  *)
(* (src/catalogs/iceberg-sql-catalog/src/lib.rs).                          *)
(*                                                                         *)
(* A call runs its SQL statements one at a time in a transaction of the    *)
(* database, which is modelled from how the catalog uses it: PostgreSQL    *)
(* with its default READ COMMITTED isolation and row locks, or SQLite with *)
(* one writer at a time.  A statement sees the rows committed when it      *)
(* starts; a row another transaction has locked is waited for, and skipped *)
(* when it was deleted meanwhile, even if its key was inserted again.      *)
(*                                                                         *)
(* A row is its value and the call that inserted it: a delete followed by  *)
(* an insert makes another row, an update keeps the row.                   *)
(***************************************************************************)
EXTENDS Naturals, Sequences, FiniteSets, SequencesExt, Relation

CONSTANTS
  Clients,     \* tasks calling a catalog
  KeyOrder,    \* the property keys in the order of property_key, "exists" among them
  Updates,     \* the arguments of update_namespace: [set : subset of the keys, remove : sequence of keys]
  Dialects,    \* "postgres", "sqlite"
  MaxCalls,    \* bound: calls in a behaviour
  MaxFaults    \* bound: statements that fail with an error of the database

Keys == Range(KeyOrder)
Identity == "identity"
Rows == Keys \cup {Identity}

NoRow == [id |-> 0, val |-> "none"]
Same == [id |-> 0, val |-> "same"]
Nobody == "nobody"
NotStarted == <<[row |-> "none", id |-> 0]>>

VARIABLES
  dialect,   \* database_url.scheme()
  db,        \* the committed rows
  locks,     \* per row: the client whose transaction holds it
  writer,    \* SQLite: the client that holds the writer lock
  call,      \* per client: the call in progress
  calls,     \* the calls so far
  faults,    \* the failed statements so far
  serial     \* history: the namespace as the committed calls, one after another, make it

vars == <<dialect, db, locks, writer, call, calls, faults, serial>>

Untouched == [r \in Rows |-> Same]

IdleCall ==
  [pc |-> "idle", op |-> "none", id |-> 0, set |-> {}, remove |-> <<>>, retries |-> 0,
   own |-> Untouched, script |-> <<>>, seen |-> NotStarted]

\* The rows of an old catalog: properties only, where the key "exists" only
\* says that the namespace is there.
LegacyRows == {[r \in Rows |-> IF r \in ks THEN [id |-> 1, val |-> "old"] ELSE NoRow] : ks \in SUBSET Keys}

\* The rows create_namespace leaves.
CurrentRows == [r \in Rows |-> CASE r = Identity -> [id |-> 1, val |-> "0"]
                                 [] r = KeyOrder[1] -> [id |-> 1, val |-> "old"]
                                 [] OTHER -> NoRow]

namespace_exists(rows) == \E r \in Rows : rows[r] # NoRow

\* load_namespace: the keys it returns; "exists" is hidden unless the marker is '0'.
load_namespace(rows) == {k \in Keys : rows[k] # NoRow /\ (k = "exists" => rows[Identity].val = "0")}

Init ==
  /\ dialect \in Dialects
  /\ db \in LegacyRows \cup {CurrentRows}
  /\ locks = [r \in Rows |-> Nobody]
  /\ writer = Nobody
  /\ call = [c \in Clients |-> IdleCall]
  /\ calls = 1
  /\ faults = 0
  /\ serial = [exists |-> namespace_exists(db), keys |-> load_namespace(db)]

-----------------------------------------------------------------------------
(* The database *)

\* A row as the transaction of c sees it.
View(c, r) == IF call[c].own[r] # Same THEN call[c].own[r] ELSE db[r]

Free(c, r) == locks[r] \in {Nobody, c}

\* An insert waits for the transaction that inserted or deleted the key.
CanInsert(c, r) == ~Free(c, r) => call[locks[r]].own[r] = Same

\* The first write of a transaction takes SQLite's writer lock.
TakeWriter(c) ==
  /\ dialect = "sqlite" => writer \in {Nobody, c}
  /\ writer' = IF dialect = "sqlite" THEN c ELSE writer

\* The end of a transaction: what it holds is released.
Release(c) ==
  /\ locks' = [r \in Rows |-> IF locks[r] = c THEN Nobody ELSE locks[r]]
  /\ writer' = IF writer = c THEN Nobody ELSE writer

Return(c) == call' = [call EXCEPT ![c] = IdleCall]

Goto(c, pc) == call' = [call EXCEPT ![c].pc = pc, ![c].seen = NotStarted]

Lock(c, r) == locks' = [locks EXCEPT ![r] = c]

\* The rows among rs, in the order of the keys, that a statement starting now sees.
Visible(c, rs) ==
  LET order == <<Identity>> \o KeyOrder
      seen(r) == IF r \in rs /\ View(c, r) # NoRow THEN <<[row |-> r, id |-> View(c, r).id]>> ELSE <<>>
  IN  FlattenSeq([i \in DOMAIN order |-> seen(order[i])])

\* A statement starts on rows it has to wait for: what it saw is kept.
See(c, rs) == call' = [call EXCEPT ![c].seen = Visible(c, rs)]

\* The row a statement waits for or is about to take.
Target(c) == Head(call[c].seen)
StillThere(c) == View(c, Target(c).row).id = Target(c).id

-----------------------------------------------------------------------------
(* lock_namespace_for_mutation *)

\* Statements that change rows: which rows, and what becomes of them.
Delete(rs) == [kind |-> "delete", rows |-> rs, val |-> "none"]
Insert(r, v) == [kind |-> "insert", rows |-> {r}, val |-> v]
InsertIgnore(r, v) == [kind |-> "insert_ignore", rows |-> {r}, val |-> v]
SetMarker == [kind |-> "update", rows |-> {Identity}, val |-> "0"]

\* Statements for each of some keys; a hash map gives them in any order.
ForEach(ks, statements(_)) ==
  FlattenSeq([i \in DOMAIN KeyOrder |-> IF KeyOrder[i] \in ks THEN statements(KeyOrder[i]) ELSE <<>>])

\* The statements of update_namespace after the namespace is locked.
\* (forgets_touch: the slip of leaving the marker as it is.)
Replacements(ks) == ForEach(ks, LAMBDA k : <<Delete({k}), Insert(k, "new")>>)

Mutations(c) ==
  [i \in DOMAIN call[c].remove |-> Delete({call[c].remove[i]})] \o Replacements(call[c].set)

forgets_touch(c) == Mutations(c)

update_statements(c) ==
  Mutations(c) \o IF "exists" \in call[c].set \cup Range(call[c].remove) THEN <<SetMarker>> ELSE <<>>

drop_statements == <<Delete(Keys), Delete({Identity})>>

Creations(ks) == ForEach(ks, LAMBDA k : <<Insert(k, "new")>>)

create_statements(c) == <<Insert(Identity, "0")>> \o Creations(call[c].set)

\* The promotion of a namespace that has properties only.
\* (not_promoted: the slip of leaving the identity row to the next creation.)
not_promoted(c) == <<>>

promotion(c) ==
  <<InsertIgnore(Identity, IF View(c, "exists") # NoRow THEN "1" ELSE "0")>>

Run(c, script) == call' = [call EXCEPT ![c].pc = "run", ![c].script = script, ![c].seen = NotStarted]

\* The namespace is there: its identity row is held.
Current(c) == Run(c, IF call[c].op = "drop" THEN drop_statements ELSE update_statements(c))

\* The namespace has properties only: one property row is held.
Legacy(c) ==
  Run(c, IF call[c].op = "drop" THEN drop_statements ELSE promotion(c) \o update_statements(c))

\* Nothing to drop, or CatalogNotFound.  (keeps_open: the slip of returning
\* with the transaction open.)
keeps_open(c) == Return(c) /\ UNCHANGED <<locks, writer>>

Missing(c) == Return(c) /\ Release(c)

\* The probe without a lock; on SQLite after the write that takes the writer lock.
Probe(c) ==
  /\ call[c].pc = "probe"
  /\ TakeWriter(c)
  /\ Goto(c, IF View(c, Identity) # NoRow THEN "lock_identity" ELSE "lock_property")
  /\ UNCHANGED <<dialect, db, locks, calls, faults, serial>>

\* "select ... for update" of the identity row.
LockIdentity(c) ==
  /\ call[c].pc \in {"lock_identity", "recheck"}
  /\ \/ /\ call[c].seen = NotStarted
        /\ ~Free(c, Identity)
        /\ View(c, Identity) # NoRow
        /\ See(c, {Identity})
        /\ UNCHANGED <<locks, writer>>
     \/ LET s == IF call[c].seen = NotStarted THEN Visible(c, {Identity}) ELSE call[c].seen
            found == s # <<>> /\ View(c, Identity).id = s[1].id
        IN  /\ s # <<>> => Free(c, Identity)
            /\ \/ found /\ Current(c) /\ Lock(c, Identity) /\ UNCHANGED writer
               \/ /\ ~found /\ call[c].pc = "lock_identity"
                  /\ Goto(c, "lock_property")
                  /\ UNCHANGED <<locks, writer>>
               \/ ~found /\ call[c].pc = "recheck" /\ Missing(c)
  /\ UNCHANGED <<dialect, db, calls, faults, serial>>

\* "select ... order by property_key limit 1 for update": the first of the
\* property rows it sees that is still there when its lock is released.
LockProperty(c) ==
  /\ call[c].pc = "lock_property"
  /\ \/ call[c].seen = NotStarted /\ See(c, Keys) /\ UNCHANGED locks
     \/ call[c].seen = <<>> /\ Goto(c, "recheck") /\ UNCHANGED locks
     \/ /\ call[c].seen \notin {NotStarted, <<>>}
        /\ Free(c, Target(c).row)
        /\ IF StillThere(c)
           THEN Legacy(c) /\ Lock(c, Target(c).row)
           ELSE call' = [call EXCEPT ![c].seen = Tail(@)] /\ UNCHANGED locks
  /\ UNCHANGED <<dialect, db, writer, calls, faults, serial>>

-----------------------------------------------------------------------------
(* The statements of a transaction *)

Written(stmt, c, r) ==
  CASE stmt.kind = "delete" -> NoRow
    [] stmt.kind = "update" -> [View(c, r) EXCEPT !.val = stmt.val]
    [] OTHER -> [id |-> call[c].id, val |-> stmt.val]

\* delete and update: the rows they see, one after another.
Change(c) ==
  LET stmt == Head(call[c].script)
      last == Len(call[c].seen) = 1
      done == [call[c] EXCEPT !.seen = IF last THEN NotStarted ELSE Tail(@),
                              !.script = IF last THEN Tail(@) ELSE @]
      r == Target(c).row IN
  /\ call[c].pc = "run"
  /\ call[c].script # <<>>
  /\ stmt.kind \in {"delete", "update"}
  /\ \/ /\ call[c].seen = NotStarted
        /\ IF Visible(c, stmt.rows) = <<>>
           THEN call' = [call EXCEPT ![c].script = Tail(@)]
           ELSE See(c, stmt.rows)
        /\ UNCHANGED locks
     \/ /\ call[c].seen # NotStarted
        /\ Free(c, r)
        /\ IF StillThere(c)
           THEN call' = [call EXCEPT ![c] = [done EXCEPT !.own[r] = Written(stmt, c, r)]] /\ Lock(c, r)
           ELSE call' = [call EXCEPT ![c] = done] /\ UNCHANGED locks
  /\ UNCHANGED <<dialect, db, writer, calls, faults, serial>>

\* insert: a key that is there already is a unique violation, which ends the
\* call, or with "on conflict do nothing" is left as it is.
InsertRow(c) ==
  LET stmt == Head(call[c].script)
      r == CHOOSE x \in stmt.rows : TRUE IN
  /\ call[c].pc = "run"
  /\ call[c].script # <<>>
  /\ stmt.kind \in {"insert", "insert_ignore"}
  /\ CanInsert(c, r)
  /\ \/ /\ View(c, r) = NoRow
        /\ TakeWriter(c)
        /\ call' = [call EXCEPT ![c].own[r] = Written(stmt, c, r), ![c].script = Tail(@)]
        /\ Lock(c, r)
     \/ /\ View(c, r) # NoRow /\ stmt.kind = "insert_ignore"
        /\ call' = [call EXCEPT ![c].script = Tail(@)]
        /\ UNCHANGED <<locks, writer>>
     \/ /\ View(c, r) # NoRow /\ stmt.kind = "insert"
        /\ Return(c) /\ Release(c)
  /\ UNCHANGED <<dialect, db, calls, faults, serial>>

\* What a call does to a namespace when it runs alone.
SerialEffect(c) ==
  CASE call[c].op = "create" -> [exists |-> TRUE, keys |-> call[c].set]
    [] call[c].op = "drop" -> [exists |-> FALSE, keys |-> {}]
    [] call[c].op = "update" ->
         [serial EXCEPT !.keys = (@ \ Range(call[c].remove)) \cup call[c].set]

Commit(c) ==
  /\ call[c].pc = "run"
  /\ call[c].script = <<>>
  /\ db' = [r \in Rows |-> View(c, r)]
  /\ serial' = SerialEffect(c)
  /\ Return(c) /\ Release(c)
  /\ UNCHANGED <<dialect, calls, faults>>

-----------------------------------------------------------------------------
(* Calls *)

Begin(c, op, pc, set, remove) ==
  /\ call[c].pc = "idle"
  /\ calls < MaxCalls
  /\ calls' = calls + 1
  /\ call' = [call EXCEPT ![c] = [IdleCall EXCEPT !.pc = pc, !.op = op, !.id = calls + 1,
                                                  !.set = set, !.remove = remove]]
  /\ UNCHANGED <<dialect, db, locks, writer, faults, serial>>

create_namespace(c) == \E ks \in {{}, {KeyOrder[1]}, {"exists"}} : Begin(c, "create", "precheck", ks, <<>>)
drop_namespace(c) == Begin(c, "drop", "probe", {}, <<>>)
update_namespace(c) == \E u \in Updates : Begin(c, "update", "probe", u.set, u.remove)

\* create_namespace looks for the namespace before its transaction begins.
Precheck(c) ==
  /\ call[c].pc = "precheck"
  /\ IF namespace_exists(db) THEN Return(c) ELSE Run(c, create_statements(c))
  /\ UNCHANGED <<dialect, db, locks, writer, calls, faults, serial>>

\* The row c waits for.
WaitsFor(c) ==
  IF call[c].pc = "idle" THEN {}
  ELSE {r \in Rows :
         \/ call[c].seen \notin {NotStarted, <<>>} /\ r = Target(c).row /\ ~Free(c, r)
         \/ /\ call[c].pc = "run" /\ call[c].script # <<>>
            /\ Head(call[c].script).kind \in {"insert", "insert_ignore"}
            /\ r \in Head(call[c].script).rows /\ ~CanInsert(c, r)}

WaitGraph == [e \in Clients \X Clients |-> \E r \in WaitsFor(e[1]) : locks[r] = e[2]]

\* backoff_namespace_deadlock: the transaction is gone; drop and update run
\* again, at most three times.
Rollback(c) ==
  /\ Release(c)
  /\ IF call[c].op # "create" /\ call[c].retries < 3
     THEN call' = [call EXCEPT ![c].pc = "probe", ![c].retries = @ + 1, ![c].own = Untouched,
                               ![c].script = <<>>, ![c].seen = NotStarted]
     ELSE Return(c)

\* The database ends a transaction that waits in a circle.
Deadlock(c) ==
  /\ call[c].pc # "idle"
  /\ TransitiveClosure(WaitGraph, Clients)[c, c]
  /\ Rollback(c)
  /\ UNCHANGED <<dialect, db, calls, faults, serial>>

\* Any other error of the database ends the call, and dropping the
\* transaction rolls it back.
Fail(c) ==
  /\ call[c].pc # "idle"
  /\ faults < MaxFaults
  /\ faults' = faults + 1
  /\ Return(c) /\ Release(c)
  /\ UNCHANGED <<dialect, db, calls, serial>>

\* What a call in progress does next.
Proceed(c) ==
  \/ Precheck(c) \/ Probe(c) \/ LockIdentity(c) \/ LockProperty(c)
  \/ Change(c) \/ InsertRow(c) \/ Commit(c) \/ Deadlock(c)

Start(c) == create_namespace(c) \/ drop_namespace(c) \/ update_namespace(c)

Next == \E c \in Clients : Start(c) \/ Proceed(c) \/ Fail(c)

Fairness == \A c \in Clients : WF_vars(Proceed(c))

Spec == Init /\ [][Next]_vars /\ Fairness

-----------------------------------------------------------------------------
(* Properties *)

\* On SQLite the namespace is always what the committed calls, one after
\* another, make it: promotion, markers and retries never show the internal
\* "exists", hide a user's, lose an update or bring a dropped one back.
SqliteSerial ==
  dialect = "sqlite" =>
    /\ namespace_exists(db) = serial.exists
    /\ load_namespace(db) = serial.keys

\* A namespace that is there by the calls committed so far only disappears by
\* drop_namespace: a promoter that removes the last property beside other calls
\* leaves the identity row.
NamespaceSurvivesStep ==
  serial.exists /\ namespace_exists(db) /\ ~namespace_exists(db') =>
    \E c \in Clients : call[c].op = "drop" /\ call'[c].pc = "idle"

NamespaceSurvives == [][NamespaceSurvivesStep]_vars

\* Every call returns: calls wait for each other's rows, and a circle of them
\* is broken by the database and tried again a bounded number of times.
InCall(c) == call[c].pc # "idle"

CallsReturn == \A c \in Clients : InCall(c) ~> ~InCall(c)

=============================================================================
