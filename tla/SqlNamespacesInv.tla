-------------------------- MODULE SqlNamespacesInv --------------------------
(***************************************************************************)
(* The inductive invariants of SqlNamespaces.                              *)
(*                                                                         *)
(* IInv holds on both databases: the types, and that no call but a drop    *)
(* takes the identity row away; while the namespace is there without one,  *)
(* every update in progress is about to promote it.  SInv is about SQLite: *)
(* one call has written, and what it has done and still has to do, as far  *)
(* as it has come, make up what the call does when it runs alone.  The     *)
(* others have not written, and know nothing they rely on.                 *)
(***************************************************************************)
EXTENDS SqlNamespaces

\* What the theorems assume of the parameters: "exists" is one of the keys, the
\* identity row is none, and updates set and remove keys.
Deployment ==
  /\ KeyOrder \in Seq(Keys)
  /\ "exists" \in Keys
  /\ Identity \notin Keys
  /\ \A u \in Updates : u.set \subseteq Keys /\ u.remove \in Seq(Keys)
  /\ Nobody \notin Clients

-----------------------------------------------------------------------------
(* Both databases *)

\* A row that is there.
Values == {"none", "old", "new", "0", "1"}
Present == [id : Nat \ {0}, val : Values]

Statement ==
  [kind : {"delete", "update"}, rows : SUBSET Rows, val : Values] \cup
  [kind : {"insert", "insert_ignore"}, rows : {{r} : r \in Rows}, val : Values]
SeenRow == [row : Rows, id : Nat \ {0}]

Typed(k) ==
  /\ k \in [pc : {"idle", "precheck", "probe", "lock_identity", "lock_property", "recheck", "run"},
            op : {"none", "create", "drop", "update"}, id : Nat, set : SUBSET Keys, remove : Seq(Keys),
            retries : Nat, own : [Rows -> Present \cup {NoRow, Same}], script : Seq(Statement),
            seen : Seq(SeenRow) \cup {NotStarted}]
  /\ k.pc # "idle" => k.op # "none" /\ k.id # 0
  /\ k.pc # "run" => k.own = Untouched
  /\ k.pc = "precheck" => k.op = "create"
  /\ k.pc \notin {"idle", "precheck", "run"} => k.op \in {"drop", "update"}

\* What a statement that has started still has to visit are rows of its own.
Visits(k) ==
  k.pc = "run" /\ k.seen # NotStarted =>
    /\ k.seen # <<>> /\ k.script # <<>>
    /\ Head(k.script).kind \in {"delete", "update"}
    /\ \A i \in DOMAIN k.seen : k.seen[i].row \in Head(k.script).rows

PromotesFirst(k) ==
  k.script # <<>> /\ Head(k.script).kind = "insert_ignore" /\ Head(k.script).rows = {Identity}

\* create and update never take the identity row away, and create begins with it.
KeepsIdentity(k) ==
  k.pc = "run" /\ k.op \in {"create", "update"} =>
    /\ k.own[Identity] # NoRow
    /\ \A i \in DOMAIN k.script : k.script[i].kind = "delete" => Identity \notin k.script[i].rows
    /\ k.op = "create" =>
         \/ k.own[Identity] \in Present
         \/ k.script # <<>> /\ Head(k.script).kind = "insert" /\ Head(k.script).rows = {Identity}

CallInv(k) == Typed(k) /\ Visits(k) /\ KeepsIdentity(k)

\* An update of a namespace without an identity row promotes it.
Promotes(k) ==
  k.pc = "run" /\ k.op = "update" => k.own[Identity] \in Present \/ PromotesFirst(k)

IInv ==
  /\ db \in [Rows -> Present \cup {NoRow}]
  /\ calls \in Nat \ {0}
  /\ DOMAIN call = Clients
  /\ serial \in [exists : BOOLEAN, keys : SUBSET Keys]
  /\ \A c \in Clients : CallInv(call[c])
  /\ serial.exists =>
       \/ db[Identity] # NoRow
       \/ namespace_exists(db) /\ \A c \in Clients : Promotes(call[c])

-----------------------------------------------------------------------------
(* SQLite *)

\* A row as call k sees it.
Through(k, rows, r) == IF k.own[r] # Same THEN k.own[r] ELSE rows[r]

CreateScript(k) == <<Insert(Identity, "0")>> \o Creations(k.set)

\* A statement that has started has in sight every row it still has to change.
InSight(k, rows) ==
  k.seen # NotStarted =>
    \A r \in Head(k.script).rows :
      \/ Through(k, rows, r) = NoRow
      \/ \E i \in DOMAIN k.seen : k.seen[i].row = r /\ k.seen[i].id = Through(k, rows, r).id
      \/ Head(k.script).kind = "update" /\ Through(k, rows, r).val = Head(k.script).val

Dropping(k, rows) ==
  /\ \A i \in DOMAIN k.script : k.script[i].kind = "delete"
  /\ \A r \in Rows : Through(k, rows, r) = NoRow \/ \E i \in DOMAIN k.script : r \in k.script[i].rows

Creating(k, rows) ==
  /\ \A r \in Rows : rows[r] = NoRow
  /\ k.own[Identity] \in Present /\ k.own[Identity].val = "0"
  /\ \A i \in DOMAIN k.script : \E x \in k.set : k.script[i] = Insert(x, "new")
  /\ \A x \in Keys :
       IF x \in k.set THEN k.own[x] \in Present \/ \E i \in DOMAIN k.script : k.script[i] = Insert(x, "new")
       ELSE k.own[x] = Same

UpdateStatements ==
  {Delete({x}) : x \in Keys} \cup {Insert(x, "new") : x \in Keys} \cup {SetMarker}

Has(s, stmt) == \E i \in DOMAIN s : s[i] = stmt
Touched(k) == k.set \cup Range(k.remove)
Marker(rows) == IF rows["exists"] # NoRow THEN "1" ELSE "0"

\* The statements an update has left.
UpdatesOnly(k, rows) ==
  \A i \in DOMAIN k.script :
    \/ k.script[i] \in UpdateStatements
    \/ i = 1 /\ k.script[i] = InsertIgnore(Identity, Marker(rows))

\* Each key it sets is there or will be inserted, each key it only removes is gone
\* or will be deleted, and it leaves the others alone.
UpdatesKeys(k, rows) ==
  /\ \A x \in k.set :
       /\ Through(k, rows, x) # NoRow \/ Has(k.script, Insert(x, "new"))
       /\ \A i \in DOMAIN k.script : k.script[i] = Delete({x}) =>
            \E j \in DOMAIN k.script : j > i /\ k.script[j] = Insert(x, "new")
  /\ \A x \in Range(k.remove) \ k.set :
       /\ ~Has(k.script, Insert(x, "new"))
       /\ Through(k, rows, x) = NoRow \/ Has(k.script, Delete({x}))
  /\ \A x \in Keys \ Touched(k) :
       /\ ~Has(k.script, Insert(x, "new")) /\ ~Has(k.script, Delete({x}))
       /\ k.own[x] = Same

\* The identity row is there or comes first, and its marker is the one before, or
\* '0' when the update touches "exists".
UpdatesIdentity(k, rows) ==
  /\ rows[Identity] = NoRow =>
       \/ k.own[Identity] = Same /\ PromotesFirst(k)
       \/ k.own[Identity] \in Present
  /\ rows[Identity] # NoRow => k.own[Identity] \in Present \cup {Same}
  /\ "exists" \in Touched(k) => Has(k.script, SetMarker) \/ Through(k, rows, Identity).val = "0"
  /\ "exists" \notin Touched(k) =>
       /\ ~Has(k.script, SetMarker)
       /\ rows[Identity] # NoRow => k.own[Identity] = Same
       /\ rows[Identity] = NoRow => k.own[Identity] = Same \/ k.own[Identity].val = Marker(rows)

Updating(k, rows) ==
  namespace_exists(rows) /\ UpdatesOnly(k, rows) /\ UpdatesKeys(k, rows) /\ UpdatesIdentity(k, rows)

\* What the holder of the writer lock knows of the rows.
Knows(k, rows) ==
  /\ k.pc \in {"lock_identity", "lock_property", "recheck", "run"}
  /\ k.pc = "lock_identity" =>
       /\ rows[Identity] # NoRow
       /\ k.seen # NotStarted => k.seen # <<>> /\ k.seen[1].id = rows[Identity].id
  /\ k.pc = "lock_property" =>
       /\ rows[Identity] = NoRow
       /\ k.seen # NotStarted => \A i \in DOMAIN k.seen : k.seen[i].id = rows[k.seen[i].row].id
       /\ k.seen = <<>> => \A r \in Rows : rows[r] = NoRow
  /\ k.pc = "recheck" => k.seen = NotStarted /\ \A r \in Rows : rows[r] = NoRow
  /\ k.pc = "run" =>
       /\ InSight(k, rows)
       /\ k.op = "drop" => Dropping(k, rows)
       /\ k.op = "create" => Creating(k, rows)
       /\ k.op = "update" => Updating(k, rows)

\* A call that does not hold it has not written: only a create that is about to
\* insert the identity row is in its transaction.
Waits(k, rows) ==
  /\ k.pc \in {"idle", "precheck", "probe", "run"}
  /\ k.pc = "run" =>
       /\ k.op = "create" /\ k.own = Untouched /\ k.script = CreateScript(k)
       /\ rows[Identity] # NoRow \/ \A r \in Rows : rows[r] = NoRow

SInv ==
  dialect = "sqlite" =>
    /\ serial = [exists |-> namespace_exists(db), keys |-> load_namespace(db)]
    /\ \A c \in Clients : IF c = writer THEN Knows(call[c], db) ELSE Waits(call[c], db)

=============================================================================
