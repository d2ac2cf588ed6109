----------------------------- MODULE ViewsProofs -----------------------------
(***************************************************************************)
(* Views keep resolving and keep their history, for any clients, instances *)
(* and transactions.                                                       *)
(*                                                                         *)
(* First what a transaction does to metadata, whichever metadata that is:  *)
(* its updates are a loop over its operations and are applied in a loop,   *)
(* and every update points at what is there (Backed), so that what they    *)
(* are applied to keeps resolving (Applied).  Then that the metadata file  *)
(* is read as it was written.  Then the steps of ViewsInv's invariant: one *)
(* lemma for steps that leave the stored view alone, one for those that    *)
(* store an entry, by what the new entry leaves of what is held.           *)
(***************************************************************************)
EXTENDS ViewsInv, WellFoundedInduction, TLAPS

-----------------------------------------------------------------------------
(* Loops *)

\* Induction up to n, with a set in the place of a predicate.
LEMMA Induction ==
  ASSUME NEW n \in Nat, NEW T, 0 \in T,
         \A k \in 0 .. n - 1 : k \in T => k + 1 \in T
  PROVE  \A k \in 0 .. n : k \in T
<1> DEFINE Bad == {k \in 0 .. n : k \notin T}
           R == OpToRel(<, Nat)
<1> SUFFICES ASSUME Bad # {} PROVE FALSE
  OBVIOUS
<1>1. \A x, y \in Nat : x < y => <<x, y>> \in R
  BY DEF OpToRel
<1>2. IsWellFoundedOn(R, Nat)
  BY NatLessThanWellFounded
<1> HIDE DEF R
<1>3. PICK x \in Bad : \A y \in Bad : ~ (<<y, x>> \in R)
  <2>1. Bad \subseteq Nat
    OBVIOUS
  <2> HIDE DEF Bad
  <2>2. QED
    BY <2>1, <1>2, WFMin
<1>4. x \in 0 .. n /\ x # 0 /\ x - 1 \in 0 .. n - 1
  OBVIOUS
<1>5. x - 1 \notin Bad
  <2>1. x \in Nat /\ x - 1 \in Nat /\ x - 1 < x
    BY <1>4
  <2>2. <<x - 1, x>> \in R
    BY <2>1, <1>1
  <2> HIDE DEF Bad
  <2>3. QED
    BY <2>2, <1>3
<1>6. x \in T
  BY <1>4, <1>5
<1>7. QED
  BY <1>6


\* apply_view_updates is the last state of a run of apply_view_update over the updates.
LEMMA UpdateLoop ==
  ASSUME NEW m, NEW updates, Len(updates) \in Nat
  PROVE  \E g : /\ g[0] = m
                /\ \A i \in 1 .. Len(updates) : g[i] = apply_view_update(updates[i], g[i - 1])
                /\ apply_view_updates(m, updates) = g[Len(updates)]
<1> DEFINE n == Len(updates)
           P(k) == \E g : g = [i \in 0 .. k |-> IF i = 0 THEN m
                                                ELSE apply_view_update(updates[i], g[i - 1])]
           T == {k \in 0 .. n : P(k)}
           loop == CHOOSE g : g = [i \in 0 .. n |-> IF i = 0 THEN m
                                                    ELSE apply_view_update(updates[i], g[i - 1])]
<1>1. P(0)
  <2> DEFINE g == [i \in 0 .. 0 |-> m]
  <2>1. g = [i \in 0 .. 0 |-> IF i = 0 THEN m ELSE apply_view_update(updates[i], g[i - 1])]
    OBVIOUS
  <2> QED
    BY <2>1
<1>2. ASSUME NEW k \in 0 .. n - 1, P(k) PROVE P(k + 1)
  <2>1. PICK g : g = [i \in 0 .. k |-> IF i = 0 THEN m
                                       ELSE apply_view_update(updates[i], g[i - 1])]
    BY <1>2
  <2> DEFINE h == [i \in 0 .. k + 1 |-> IF i = k + 1 THEN apply_view_update(updates[k + 1], g[k]) ELSE g[i]]
             e == [i \in 0 .. k + 1 |-> IF i = 0 THEN m ELSE apply_view_update(updates[i], h[i - 1])]
  <2>2. ASSUME NEW i \in 0 .. k + 1 PROVE h[i] = e[i]
    <3>1. CASE i = k + 1
      <4>1. h[i] = apply_view_update(updates[k + 1], g[k]) /\ h[i - 1] = g[k] /\ i # 0
        BY <3>1
      <4> QED
        BY <4>1, <3>1
    <3>2. CASE i # k + 1
      <4>1. i \in 0 .. k /\ h[i] = g[i]
        BY <3>2
      <4>2. CASE i = 0
        BY <2>1, <4>1, <4>2
      <4>3. CASE i # 0
        <5>1. i - 1 \in 0 .. k /\ h[i - 1] = g[i - 1]
          BY <4>1, <4>3
        <5>2. g[i] = apply_view_update(updates[i], g[i - 1])
          BY <2>1, <4>1, <4>3
        <5> QED
          BY <5>1, <5>2, <4>1, <4>3
      <4> QED
        BY <4>2, <4>3
    <3> QED
      BY <3>1, <3>2
  <2>3. h = e
    <3> HIDE <2>1
    <3>1. DOMAIN h = DOMAIN e
      OBVIOUS
    <3> QED
      BY <2>2
  <2> QED
    BY <2>3
<1>3. P(n)
  <2> HIDE DEF P
  <2>1. \A k \in 0 .. n - 1 : k \in T => k + 1 \in T
    BY <1>2
  <2>2. 0 \in T
    BY <1>1
  <2>3. \A k \in 0 .. n : k \in T
    BY <2>1, <2>2, Induction
  <2> QED
    BY <2>3
<1>4. loop = [i \in 0 .. n |-> IF i = 0 THEN m ELSE apply_view_update(updates[i], loop[i - 1])]
  BY <1>3
<1>5. apply_view_updates(m, updates) = loop[n]
  BY DEF apply_view_updates
<1> HIDE DEF loop
<1>6. loop[0] = m
  BY <1>4
<1>7. ASSUME NEW i \in 1 .. n PROVE loop[i] = apply_view_update(updates[i], loop[i - 1])
  <2>1. i \in 0 .. n /\ i # 0
    OBVIOUS
  <2> HIDE DEF n
  <2> QED
    BY <2>1, <1>4, Zenon
<1> QED
  BY <1>5, <1>6, <1>7

\* What one operation of a transaction adds to the updates.
Contribution(m, ops, txn, i) ==
  IF ops[i].op = "representations" THEN UpdateRepresentations(m, ops[i], txn)
  ELSE <<[update |-> "SetProperties"]>>

\* execute is the concatenation of what the operations contribute.
LEMMA OperationLoop ==
  ASSUME NEW m, NEW ops, NEW txn, Len(ops) \in Nat
  PROVE  \E g : /\ g[0] = <<>>
                /\ \A i \in 1 .. Len(ops) : g[i] = g[i - 1] \o Contribution(m, ops, txn, i)
                /\ execute(m, ops, txn) = g[Len(ops)]
<1> DEFINE n == Len(ops)
           P(k) == \E g : g = [i \in 0 .. k |-> IF i = 0 THEN <<>>
                                                ELSE g[i - 1] \o Contribution(m, ops, txn, i)]
           T == {k \in 0 .. n : P(k)}
           loop == CHOOSE g : g = [i \in 0 .. n |-> IF i = 0 THEN <<>>
                                                    ELSE g[i - 1] \o Contribution(m, ops, txn, i)]
<1>1. P(0)
  <2> DEFINE g == [i \in 0 .. 0 |-> <<>>]
  <2>1. g = [i \in 0 .. 0 |-> IF i = 0 THEN <<>> ELSE g[i - 1] \o Contribution(m, ops, txn, i)]
    OBVIOUS
  <2> QED
    BY <2>1
<1>2. ASSUME NEW k \in 0 .. n - 1, P(k) PROVE P(k + 1)
  <2>1. PICK g : g = [i \in 0 .. k |-> IF i = 0 THEN <<>>
                                       ELSE g[i - 1] \o Contribution(m, ops, txn, i)]
    BY <1>2
  <2> DEFINE h == [i \in 0 .. k + 1 |-> IF i = k + 1 THEN g[k] \o Contribution(m, ops, txn, k + 1) ELSE g[i]]
             e == [i \in 0 .. k + 1 |-> IF i = 0 THEN <<>> ELSE h[i - 1] \o Contribution(m, ops, txn, i)]
  <2>2. ASSUME NEW i \in 0 .. k + 1 PROVE h[i] = e[i]
    <3>1. CASE i = k + 1
      <4>1. h[i] = g[k] \o Contribution(m, ops, txn, k + 1) /\ h[i - 1] = g[k] /\ i # 0
        BY <3>1
      <4> QED
        BY <4>1, <3>1
    <3>2. CASE i # k + 1
      <4>1. i \in 0 .. k /\ h[i] = g[i]
        BY <3>2
      <4>2. CASE i = 0
        BY <2>1, <4>1, <4>2
      <4>3. CASE i # 0
        <5>1. i - 1 \in 0 .. k /\ h[i - 1] = g[i - 1]
          BY <4>1, <4>3
        <5>2. g[i] = g[i - 1] \o Contribution(m, ops, txn, i)
          BY <2>1, <4>1, <4>3
        <5> QED
          BY <5>1, <5>2, <4>1, <4>3
      <4> QED
        BY <4>2, <4>3
    <3> QED
      BY <3>1, <3>2
  <2>3. h = e
    <3> HIDE <2>1
    <3>1. DOMAIN h = DOMAIN e
      OBVIOUS
    <3> QED
      BY <2>2
  <2> QED
    BY <2>3
<1>3. P(n)
  <2> HIDE DEF P
  <2>1. \A k \in 0 .. n - 1 : k \in T => k + 1 \in T
    BY <1>2
  <2>2. 0 \in T
    BY <1>1
  <2>3. \A k \in 0 .. n : k \in T
    BY <2>1, <2>2, Induction
  <2> QED
    BY <2>3
<1>4. loop = [i \in 0 .. n |-> IF i = 0 THEN <<>> ELSE loop[i - 1] \o Contribution(m, ops, txn, i)]
  BY <1>3
<1>5. execute(m, ops, txn) = loop[n]
  BY DEF execute, Contribution
<1> HIDE DEF loop
<1>6. loop[0] = <<>>
  BY <1>4
<1>7. ASSUME NEW i \in 1 .. n PROVE loop[i] = loop[i - 1] \o Contribution(m, ops, txn, i)
  <2>1. i \in 0 .. n /\ i # 0
    OBVIOUS
  <2> HIDE DEF n
  <2> QED
    BY <2>1, <1>4, Zenon
<1> QED
  BY <1>5, <1>6, <1>7

-----------------------------------------------------------------------------
(* The ids a transaction takes *)

NewVersion(m) == MaxKey(m.versions) + 1
NewSchema(m) == MaxKey(m.schemas) + 1

\* One past the largest of the ids is a number that is none of them.
LEMMA NewIds ==
  ASSUME NEW f, Ids(DOMAIN f)
  PROVE  /\ MaxKey(f) \in Nat
         /\ \A x \in DOMAIN f : x < MaxKey(f) + 1
<1>1. PICK y \in DOMAIN f : \A x \in DOMAIN f : x <= y
  BY DEF Ids
<1>2. DOMAIN f \subseteq Nat
  BY DEF Ids
<1>3. y \in DOMAIN f \cup {0} /\ \A x \in DOMAIN f \cup {0} : y >= x
  BY <1>1, <1>2
<1>4. MaxKey(f) \in DOMAIN f \cup {0} /\ \A x \in DOMAIN f \cup {0} : MaxKey(f) >= x
  BY <1>3 DEF MaxKey, Max
<1>5. MaxKey(f) \in Nat
  BY <1>2, <1>4
<1>6. ASSUME NEW x \in DOMAIN f PROVE x < MaxKey(f) + 1
  BY <1>2, <1>4, <1>5
<1> QED
  BY <1>5, <1>6

\* So the ids a transaction takes are not those of the metadata it is executed on.
LEMMA IdsAreNew ==
  ASSUME NEW m, Typed(m)
  PROVE  /\ NewVersion(m) \in Nat /\ NewVersion(m) \notin DOMAIN m.versions
         /\ NewSchema(m) \in Nat /\ NewSchema(m) \notin DOMAIN m.schemas
<1>1. /\ MaxKey(m.versions) \in Nat /\ \A x \in DOMAIN m.versions : x < MaxKey(m.versions) + 1
      /\ MaxKey(m.schemas) \in Nat /\ \A x \in DOMAIN m.schemas : x < MaxKey(m.schemas) + 1
  BY NewIds DEF Typed
<1>2. DOMAIN m.versions \subseteq Nat /\ DOMAIN m.schemas \subseteq Nat
  BY DEF Typed, Ids
<1> QED
  BY <1>1, <1>2 DEF NewVersion, NewSchema

\* f is the map r with k added.
Inserted(f, r, k, v) ==
  /\ Ids(DOMAIN f)
  /\ DOMAIN f = DOMAIN r \cup {k}
  /\ f[k] = v
  /\ \A x \in DOMAIN r : x # k => f[x] = r[x]
  /\ f = [x \in DOMAIN f |-> f[x]]

\* Ids stay ids when one is added.
LEMMA InsertIds ==
  ASSUME NEW f, Ids(DOMAIN f), NEW k \in Nat, NEW v
  PROVE  Inserted(Insert(f, k, v), f, k, v)
<1>1. PICK y \in DOMAIN f : \A x \in DOMAIN f : x <= y
  BY DEF Ids
<1>2. DOMAIN Insert(f, k, v) = DOMAIN f \cup {k}
  BY DEF Insert
<1>3. DOMAIN f \subseteq Nat
  BY DEF Ids
<1>4. Ids(DOMAIN f \cup {k})
  <2>1. CASE k <= y
    <3>1. y \in DOMAIN f \cup {k} /\ \A x \in DOMAIN f \cup {k} : x <= y
      BY <1>1, <2>1
    <3> QED
      BY <3>1, <1>3 DEF Ids
  <2>2. CASE ~(k <= y)
    <3>1. k \in DOMAIN f \cup {k} /\ \A x \in DOMAIN f \cup {k} : x <= k
      BY <1>1, <1>3, <2>2
    <3> QED
      BY <3>1, <1>3 DEF Ids
  <2> QED
    BY <2>1, <2>2
<1> QED
  BY <1>2, <1>4 DEF Insert, Inserted

-----------------------------------------------------------------------------
(* The updates of a transaction *)

\* An update points at what is there: at a schema of the metadata h it was
\* computed from or one added before, at the version added before.
BackedAt(h, L, i) ==
  \/ L[i].update = "SetProperties"
  \/ L[i].update = "AddSchema" /\ L[i].id = NewSchema(h)
  \/ /\ L[i].update = "AddViewVersion" /\ L[i].id = NewVersion(h)
     /\ \/ L[i].value.schema \in DOMAIN h.schemas
        \/ \E j \in 1 .. i - 1 : L[j].update = "AddSchema" /\ L[j].id = L[i].value.schema
  \/ /\ L[i].update \in {"SetCurrentViewVersion", "SetRef"} /\ L[i].id = NewVersion(h)
     /\ \E j \in 1 .. i - 1 : L[j].update = "AddViewVersion" /\ L[j].id = L[i].id

Backed(h, L) == \A i \in 1 .. Len(L) : BackedAt(h, L, i)

\* What one operation contributes points at what is there.
LEMMA ContributionBacked ==
  ASSUME NEW h, Sound(h), NEW ops, NEW txn, NEW i
  PROVE  LET L == Contribution(h, ops, txn, i) IN
         /\ Backed(h, L)
         /\ ops[i].op # "representations" => \A j \in 1 .. Len(L) : L[j].update = "SetProperties"
         /\ \E U : L \in Seq(U)
<1> DEFINE L == Contribution(h, ops, txn, i)
           o == ops[i]
<1>1. CASE o.op # "representations"
  <2>1. L = <<[update |-> "SetProperties"]>>
    BY <1>1 DEF Contribution
  <2>2. Len(L) = 1 /\ L[1].update = "SetProperties" /\ L \in Seq({[update |-> "SetProperties"]})
    BY <2>1
  <2> QED
    BY <1>1, <2>2 DEF Backed, BackedAt
<1>2. CASE o.op = "representations"
  <2> DEFINE s == current_version(h, o.branch).schema
             S == IF schema_changed(h, o) THEN NewSchema(h) ELSE s
  <2> DEFINE version == [schema |-> S,
                         reps |-> upsert_representation(current_version(h, o.branch).reps,
                                                        [dialect |-> o.dialect, sql |-> txn])]
             a == [update |-> "AddSchema", id |-> S, value |-> o.schema]
             v == [update |-> "AddViewVersion", id |-> NewVersion(h), value |-> version]
             c == [update |-> "SetCurrentViewVersion", id |-> NewVersion(h)]
             r == [update |-> "SetRef", branch |-> IF o.branch = "" THEN "main" ELSE o.branch,
                   id |-> NewVersion(h)]
  <2>1. L = AddSchema(h, o, S) \o <<v, c, r>>
    BY <1>2 DEF Contribution, UpdateRepresentations, new_version_id, NewVersion, NewSchema
  <2>2. s \in DOMAIN h.schemas
    BY DEF Sound, Resolves, current_version, current_version_id
  <2>3. /\ v.update = "AddViewVersion" /\ v.id = NewVersion(h) /\ v.value.schema = S
        /\ c.update = "SetCurrentViewVersion" /\ c.id = NewVersion(h)
        /\ r.update = "SetRef" /\ r.id = NewVersion(h)
        /\ a.update = "AddSchema" /\ a.id = S
    OBVIOUS
  <2>4. CASE schema_changed(h, o)
    <3>1. AddSchema(h, o, S) = <<a>> /\ S = NewSchema(h)
      BY <2>4 DEF AddSchema
    <3> HIDE DEF a, v, c, r, L, S, s, o
    <3>2. L = <<a>> \o <<v, c, r>>
      BY <2>1, <3>1
    <3>3. Len(L) = 4 /\ L[1] = a /\ L[2] = v /\ L[3] = c /\ L[4] = r /\ L \in Seq({a, v, c, r})
      <4> DEFINE W == {a, v, c, r}
      <4>1. <<a>> \in Seq(W) /\ <<v, c, r>> \in Seq(W)
        OBVIOUS
      <4>2. Len(<<a>>) = 1 /\ Len(<<v, c, r>>) = 3
        OBVIOUS
      <4>3. L \in Seq(W)
        BY <3>2, <4>1
      <4> QED
        BY <3>2, <4>2, <4>3
    <3>4. BackedAt(h, L, 1)
      BY <2>3, <3>1, <3>3 DEF BackedAt
    <3>5. BackedAt(h, L, 2)
      <4>1. 1 \in 1 .. 2 - 1
        OBVIOUS
      <4> QED
        BY <2>3, <3>1, <3>3, <4>1 DEF BackedAt
    <3>6. BackedAt(h, L, 3) /\ BackedAt(h, L, 4)
      <4>1. 2 \in 1 .. 3 - 1 /\ 2 \in 1 .. 4 - 1
        OBVIOUS
      <4> QED
        BY <2>3, <3>1, <3>3, <4>1 DEF BackedAt
    <3>7. Backed(h, L)
      <4>1. \A j \in 1 .. 4 : j = 1 \/ j = 2 \/ j = 3 \/ j = 4
        OBVIOUS
      <4> QED
        BY <3>3, <3>4, <3>5, <3>6, <4>1 DEF Backed
    <3> QED
      BY <3>3, <3>7, <1>2 DEF L, o
  <2>5. CASE ~schema_changed(h, o)
    <3>1. AddSchema(h, o, S) = <<>> /\ S = s
      BY <2>5 DEF AddSchema
    <3> HIDE DEF a, v, c, r, L, S, s, o
    <3>2. L = <<v, c, r>>
      BY <2>1, <3>1
    <3>3. Len(L) = 3 /\ L[1] = v /\ L[2] = c /\ L[3] = r /\ L \in Seq({v, c, r})
      BY <3>2
    <3>4. BackedAt(h, L, 1)
      BY <2>2, <2>3, <3>1, <3>3 DEF BackedAt
    <3>5. BackedAt(h, L, 2) /\ BackedAt(h, L, 3)
      <4>1. 1 \in 1 .. 2 - 1 /\ 1 \in 1 .. 3 - 1
        OBVIOUS
      <4> QED
        BY <2>3, <3>1, <3>3, <4>1 DEF BackedAt
    <3>6. Backed(h, L)
      <4>1. \A j \in 1 .. 3 : j = 1 \/ j = 2 \/ j = 3
        OBVIOUS
      <4> QED
        BY <3>3, <3>4, <3>5, <4>1 DEF Backed
    <3> QED
      BY <3>3, <3>6, <1>2 DEF L, o
  <2> QED
    BY <2>4, <2>5
<1> QED
  BY <1>1, <1>2

\* Updates of two operations, one after the other.
LEMMA ConcatBacked ==
  ASSUME NEW h, NEW U, NEW K \in Seq(U), NEW L \in Seq(U), Backed(h, K), Backed(h, L)
  PROVE  Backed(h, K \o L)
<1> DEFINE M == K \o L
<1>1. /\ Len(K) \in Nat /\ Len(L) \in Nat /\ Len(M) = Len(K) + Len(L)
      /\ \A i \in 1 .. Len(K) : M[i] = K[i]
      /\ \A i \in 1 .. Len(L) : M[i + Len(K)] = L[i]
  OBVIOUS
<1> SUFFICES ASSUME NEW i \in 1 .. Len(M) PROVE BackedAt(h, M, i)
  BY DEF Backed
<1> HIDE DEF M
<1>2. CASE i <= Len(K)
  <2>1. i \in 1 .. Len(K)
    BY <1>1, <1>2
  <2>2. BackedAt(h, K, i) /\ M[i] = K[i]
    BY <1>1, <2>1 DEF Backed
  <2>3. \A j \in 1 .. i - 1 : M[j] = K[j]
    BY <1>1, <2>1
  <2> QED
    BY <2>2, <2>3 DEF BackedAt
<1>3. CASE ~(i <= Len(K))
  <2> DEFINE x == i - Len(K)
  <2>1. x \in 1 .. Len(L) /\ x + Len(K) = i
    BY <1>1, <1>3
  <2>2. BackedAt(h, L, x) /\ M[i] = L[x]
    BY <1>1, <2>1 DEF Backed
  <2>3. \A j \in 1 .. x - 1 : j + Len(K) \in 1 .. i - 1 /\ M[j + Len(K)] = L[j]
    BY <1>1, <2>1
  <2> HIDE DEF x
  <2> QED
    BY <2>2, <2>3 DEF BackedAt
<1> QED
  BY <1>2, <1>3

\* Every transaction points at what is there; one without representations
\* only sets properties.
LEMMA ExecuteBacked ==
  ASSUME NEW h, Sound(h), NEW ops, Len(ops) \in Nat, NEW txn
  PROVE  LET L == execute(h, ops, txn) IN
         /\ Backed(h, L) /\ Len(L) \in Nat
         /\ (\A i \in 1 .. Len(ops) : ops[i].op # "representations")
               => \A j \in 1 .. Len(L) : L[j].update = "SetProperties"
<1> DEFINE n == Len(ops)
           C(i) == Contribution(h, ops, txn, i)
           U == UNION {Range(C(i)) : i \in 1 .. n}
           Plain == \A i \in 1 .. n : ops[i].op # "representations"
           Fine(L) == /\ L \in Seq(U) /\ Backed(h, L)
                      /\ Plain => \A j \in 1 .. Len(L) : L[j].update = "SetProperties"
<1>1. PICK g : /\ g[0] = <<>>
               /\ \A i \in 1 .. n : g[i] = g[i - 1] \o C(i)
               /\ execute(h, ops, txn) = g[n]
  BY ZenonT(60), OperationLoop
<1>2. ASSUME NEW i \in 1 .. n PROVE Fine(C(i))
  <2>1. /\ Backed(h, C(i))
        /\ Plain => \A j \in 1 .. Len(C(i)) : C(i)[j].update = "SetProperties"
        /\ \E W : C(i) \in Seq(W)
    BY ContributionBacked
  <2> DEFINE L == C(i)
  <2>2. L \in Seq(U)
    <3>1. L \in Seq(Range(L))
      <4> HIDE DEF C
      <4>1. PICK W : L \in Seq(W)
        BY <2>1
      <4> HIDE DEF L
      <4>2. Len(L) \in Nat /\ L = [j \in 1 .. Len(L) |-> L[j]] /\ DOMAIN L = 1 .. Len(L)
        BY <4>1
      <4>3. \A j \in 1 .. Len(L) : L[j] \in Range(L)
        BY <4>2 DEF Range
      <4> QED
        BY <4>2, <4>3
    <3>2. Range(L) \subseteq U
      OBVIOUS
    <3> HIDE DEF L, U
    <3> QED
      BY <3>1, <3>2
  <2> QED
    BY <2>1, <2>2
<1> HIDE DEF C, U, Plain
<1>3. Fine(g[0])
  <2>1. <<>> \in Seq(U) /\ Len(<<>>) = 0
    OBVIOUS
  <2>2. Backed(h, <<>>)
    BY <2>1 DEF Backed
  <2> QED
    BY <1>1, <2>1, <2>2
<1>4. ASSUME NEW k \in 0 .. n - 1, Fine(g[k]) PROVE Fine(g[k + 1])
  <2> DEFINE K == g[k]
             L == C(k + 1)
  <2>1. k + 1 \in 1 .. n /\ (k + 1) - 1 = k
    OBVIOUS
  <2>2. Fine(L) /\ Fine(K) /\ g[k + 1] = K \o L
    BY <1>1, <1>2, <1>4, <2>1
  <2> HIDE DEF K, L
  <2>3. Backed(h, K \o L)
    BY <2>2, ConcatBacked
  <2>4. ASSUME Plain, NEW j \in 1 .. Len(K \o L) PROVE (K \o L)[j].update = "SetProperties"
    <3>1. Len(K) \in Nat /\ Len(L) \in Nat /\ Len(K \o L) = Len(K) + Len(L)
      BY <2>2
    <3>2. CASE j <= Len(K)
      <4>1. j \in 1 .. Len(K) /\ (K \o L)[j] = K[j]
        BY <2>2, <3>1, <3>2
      <4> QED
        BY <2>2, <2>4, <4>1
    <3>3. CASE ~(j <= Len(K))
      <4>1. j - Len(K) \in 1 .. Len(L) /\ (K \o L)[j] = L[j - Len(K)]
        BY <2>2, <3>1, <3>3
      <4> QED
        BY <2>2, <2>4, <4>1
    <3> QED
      BY <3>2, <3>3
  <2> QED
    BY <2>2, <2>3, <2>4
<1> HIDE DEF Fine
<1>5. \A k \in 0 .. n : k \in {x \in 0 .. n : Fine(g[x])}
  <2> DEFINE T == {x \in 0 .. n : Fine(g[x])}
  <2>1. 0 \in T
    BY <1>3
  <2>2. \A k \in 0 .. n - 1 : k \in T => k + 1 \in T
    BY <1>4
  <2> HIDE DEF T
  <2>3. \A k \in 0 .. n : k \in T
    BY <2>1, <2>2, Induction
  <2> QED
    BY <2>3 DEF T
<1>6. Fine(execute(h, ops, txn))
  BY <1>1, <1>5
<1> QED
  BY <1>6 DEF Fine, Plain

-----------------------------------------------------------------------------
(* Applying them *)

\* What holds after the first n of updates L, computed from h, are applied to g.
Applied(h, g, L, n, m) ==
  /\ Typed(m) /\ m.uuid = g.uuid
  /\ m.current \in DOMAIN m.versions
  /\ \A b \in DOMAIN m.refs : m.refs[b] \in DOMAIN m.versions
  /\ \A v \in DOMAIN g.versions :
       v \in DOMAIN m.versions /\ (v # NewVersion(h) => m.versions[v] = g.versions[v])
  /\ \A s \in DOMAIN g.schemas :
       s \in DOMAIN m.schemas /\ (s # NewSchema(h) => m.schemas[s] = g.schemas[s])
  /\ \A j \in 1 .. n :
       /\ L[j].update = "AddSchema" => L[j].id \in DOMAIN m.schemas
       /\ L[j].update = "AddViewVersion" => L[j].id \in DOMAIN m.versions
  /\ KnowsSchemas(g, h) => \A v \in DOMAIN m.versions : m.versions[v].schema \in DOMAIN m.schemas

\* A record with one field replaced.
LEMMA Replaced ==
  ASSUME NEW m, Typed(m), NEW x
  PROVE  /\ [m EXCEPT !.versions = x] = [uuid |-> m.uuid, current |-> m.current, versions |-> x,
                                         schemas |-> m.schemas, refs |-> m.refs]
         /\ [m EXCEPT !.schemas = x] = [uuid |-> m.uuid, current |-> m.current, versions |-> m.versions,
                                        schemas |-> x, refs |-> m.refs]
         /\ [m EXCEPT !.current = x] = [uuid |-> m.uuid, current |-> x, versions |-> m.versions,
                                        schemas |-> m.schemas, refs |-> m.refs]
         /\ [m EXCEPT !.refs = x] = [uuid |-> m.uuid, current |-> m.current, versions |-> m.versions,
                                     schemas |-> m.schemas, refs |-> x]
<1> DEFINE r == [uuid |-> m.uuid, current |-> m.current, versions |-> m.versions,
                 schemas |-> m.schemas, refs |-> m.refs]
<1>1. m = r
  BY DEF Typed
<1>2. [r EXCEPT !.versions = x] = [uuid |-> m.uuid, current |-> m.current, versions |-> x,
                                   schemas |-> m.schemas, refs |-> m.refs]
  OBVIOUS
<1>3. [r EXCEPT !.schemas = x] = [uuid |-> m.uuid, current |-> m.current, versions |-> m.versions,
                                  schemas |-> x, refs |-> m.refs]
  OBVIOUS
<1>4. [r EXCEPT !.current = x] = [uuid |-> m.uuid, current |-> x, versions |-> m.versions,
                                  schemas |-> m.schemas, refs |-> m.refs]
  OBVIOUS
<1>5. [r EXCEPT !.refs = x] = [uuid |-> m.uuid, current |-> m.current, versions |-> m.versions,
                               schemas |-> m.schemas, refs |-> x]
  OBVIOUS
<1> HIDE DEF r
<1> QED
  BY <1>1, <1>2, <1>3, <1>4, <1>5

\* One update.
LEMMA UpdateApplied ==
  ASSUME NEW h, Typed(h), NEW g, NEW L, Len(L) \in Nat, Backed(h, L),
         NEW k \in 0 .. Len(L) - 1, NEW m, Applied(h, g, L, k, m)
  PROVE  Applied(h, g, L, k + 1, apply_view_update(L[k + 1], m))
<1> DEFINE u == L[k + 1]
           a == apply_view_update(u, m)
<1> SUFFICES Applied(h, g, L, k + 1, a)
  OBVIOUS
<1>1. BackedAt(h, L, k + 1)
  BY DEF Backed
<1>2. /\ \A j \in 1 .. k + 1 : j \in 1 .. k \/ j = k + 1
      /\ \A j \in 1 .. (k + 1) - 1 : j \in 1 .. k
  OBVIOUS
<1>3. NewVersion(h) \in Nat /\ NewSchema(h) \in Nat
  BY IdsAreNew
<1>4. Typed(m) /\ Ids(DOMAIN m.versions) /\ Ids(DOMAIN m.schemas)
  BY DEF Applied, Typed
<1>5. u.update \in {"SetProperties", "AddSchema", "AddViewVersion", "SetCurrentViewVersion", "SetRef"}
  BY <1>1 DEF BackedAt
<1> HIDE DEF u
<1>6. CASE u.update = "SetProperties"
  <2>1. a = m
    BY <1>6 DEF apply_view_update
  <2> HIDE DEF a
  <2> QED
    BY <1>2, <1>6, <2>1 DEF Applied, u
<1>7. CASE u.update = "AddSchema"
  <2> DEFINE f == Insert(m.schemas, u.id, u.value)
  <2>1. u.id = NewSchema(h)
    BY <1>1, <1>7 DEF BackedAt, u
  <2>2. a = [m EXCEPT !.schemas = f]
    BY <1>7 DEF apply_view_update
  <2>3. a = [uuid |-> m.uuid, current |-> m.current, versions |-> m.versions,
             schemas |-> f, refs |-> m.refs]
    BY <1>4, <2>2, Replaced
  <2>4. /\ Ids(DOMAIN f) /\ DOMAIN f = DOMAIN m.schemas \cup {u.id}
        /\ \A x \in DOMAIN m.schemas : x # u.id => f[x] = m.schemas[x]
        /\ f = [x \in DOMAIN f |-> f[x]]
    <3>1. u.id \in Nat
      BY <1>3, <2>1
    <3>2. Inserted(f, m.schemas, u.id, u.value)
      BY <1>4, <3>1, InsertIds
    <3> HIDE DEF f
    <3> QED
      BY <3>2 DEF Inserted
  <2> HIDE DEF f, a
  <2>5. /\ a.uuid = m.uuid /\ a.current = m.current /\ a.versions = m.versions
        /\ a.schemas = f /\ a.refs = m.refs
    BY <2>3
  <2>6. Typed(a)
    BY <1>4, <2>3, <2>4, <2>5 DEF Typed
  <2>7. \A j \in 1 .. k + 1 :
          /\ L[j].update = "AddSchema" => L[j].id \in DOMAIN a.schemas
          /\ L[j].update = "AddViewVersion" => L[j].id \in DOMAIN a.versions
    BY <1>2, <1>7, <2>4, <2>5 DEF Applied, u
  <2> QED
    BY <2>1, <2>4, <2>5, <2>6, <2>7 DEF Applied
<1>8. CASE u.update = "AddViewVersion"
  <2> DEFINE f == Insert(m.versions, u.id, u.value)
  <2>1. /\ u.id = NewVersion(h)
        /\ \/ u.value.schema \in DOMAIN h.schemas
           \/ \E j \in 1 .. (k + 1) - 1 : L[j].update = "AddSchema" /\ L[j].id = u.value.schema
    BY <1>1, <1>8 DEF BackedAt, u
  <2>2. a = [m EXCEPT !.versions = f]
    BY <1>8 DEF apply_view_update
  <2>3. a = [uuid |-> m.uuid, current |-> m.current, versions |-> f,
             schemas |-> m.schemas, refs |-> m.refs]
    BY <1>4, <2>2, Replaced
  <2>4. /\ Ids(DOMAIN f) /\ DOMAIN f = DOMAIN m.versions \cup {u.id}
        /\ \A x \in DOMAIN m.versions : x # u.id => f[x] = m.versions[x]
        /\ f = [x \in DOMAIN f |-> f[x]] /\ f[u.id] = u.value
    <3>1. u.id \in Nat
      BY <1>3, <2>1
    <3>2. Inserted(f, m.versions, u.id, u.value)
      BY <1>4, <3>1, InsertIds
    <3> HIDE DEF f
    <3> QED
      BY <3>2 DEF Inserted
  <2> HIDE DEF f, a
  <2>5. /\ a.uuid = m.uuid /\ a.current = m.current /\ a.versions = f
        /\ a.schemas = m.schemas /\ a.refs = m.refs
    BY <2>3
  <2>6. Typed(a)
    BY <1>4, <2>3, <2>4, <2>5 DEF Typed
  <2>7. \A j \in 1 .. k + 1 :
          /\ L[j].update = "AddSchema" => L[j].id \in DOMAIN a.schemas
          /\ L[j].update = "AddViewVersion" => L[j].id \in DOMAIN a.versions
    BY <1>2, <1>8, <2>4, <2>5 DEF Applied, u
  <2>8. ASSUME KnowsSchemas(g, h), NEW v \in DOMAIN f PROVE f[v].schema \in DOMAIN m.schemas
    <3>1. CASE v = u.id
      <4>1. CASE u.value.schema \in DOMAIN h.schemas
        BY <2>4, <2>8, <3>1, <4>1 DEF Applied, KnowsSchemas
      <4>2. CASE \E j \in 1 .. (k + 1) - 1 : L[j].update = "AddSchema" /\ L[j].id = u.value.schema
        BY <1>2, <2>4, <3>1, <4>2 DEF Applied
      <4> QED
        BY <2>1, <4>1, <4>2
    <3>2. CASE v # u.id
      BY <2>4, <2>8, <3>2 DEF Applied
    <3> QED
      BY <3>1, <3>2
  <2>9. /\ a.current \in DOMAIN a.versions
        /\ \A b \in DOMAIN a.refs : a.refs[b] \in DOMAIN a.versions
        /\ \A v \in DOMAIN g.versions :
             v \in DOMAIN a.versions /\ (v # NewVersion(h) => a.versions[v] = g.versions[v])
    BY <2>1, <2>4, <2>5 DEF Applied
  <2> QED
    BY <2>5, <2>6, <2>7, <2>8, <2>9 DEF Applied
<1>9. CASE u.update = "SetCurrentViewVersion"
  <2>1. \E j \in 1 .. (k + 1) - 1 : L[j].update = "AddViewVersion" /\ L[j].id = u.id
    BY <1>1, <1>9 DEF BackedAt, u
  <2>2. u.id \in DOMAIN m.versions
    BY <1>2, <2>1 DEF Applied
  <2>3. a = [m EXCEPT !.current = u.id]
    BY <1>9 DEF apply_view_update
  <2>4. a = [uuid |-> m.uuid, current |-> u.id, versions |-> m.versions,
             schemas |-> m.schemas, refs |-> m.refs]
    BY <1>4, <2>3, Replaced
  <2> HIDE DEF a
  <2>5. /\ a.uuid = m.uuid /\ a.current = u.id /\ a.versions = m.versions
        /\ a.schemas = m.schemas /\ a.refs = m.refs
    BY <2>4
  <2>6. Typed(a)
    BY <1>4, <2>4, <2>5 DEF Typed
  <2>7. \A j \in 1 .. k + 1 :
          /\ L[j].update = "AddSchema" => L[j].id \in DOMAIN a.schemas
          /\ L[j].update = "AddViewVersion" => L[j].id \in DOMAIN a.versions
    BY <1>2, <1>9, <2>5 DEF Applied, u
  <2> QED
    BY <2>2, <2>5, <2>6, <2>7 DEF Applied
<1>10. CASE u.update = "SetRef"
  <2> DEFINE f == Insert(m.refs, u.branch, u.id)
  <2>1. \E j \in 1 .. (k + 1) - 1 : L[j].update = "AddViewVersion" /\ L[j].id = u.id
    BY <1>1, <1>10 DEF BackedAt, u
  <2>2. u.id \in DOMAIN m.versions
    BY <1>2, <2>1 DEF Applied
  <2>3. a = [m EXCEPT !.refs = f]
    BY <1>10 DEF apply_view_update
  <2>4. a = [uuid |-> m.uuid, current |-> m.current, versions |-> m.versions,
             schemas |-> m.schemas, refs |-> f]
    BY <1>4, <2>3, Replaced
  <2>5. \A b \in DOMAIN f : f[b] = u.id \/ (b \in DOMAIN m.refs /\ f[b] = m.refs[b])
    BY DEF Insert
  <2> HIDE DEF a, f
  <2>6. /\ a.uuid = m.uuid /\ a.current = m.current /\ a.versions = m.versions
        /\ a.schemas = m.schemas /\ a.refs = f
    BY <2>4
  <2>7. Typed(a)
    BY <1>4, <2>4, <2>6 DEF Typed
  <2>8. \A j \in 1 .. k + 1 :
          /\ L[j].update = "AddSchema" => L[j].id \in DOMAIN a.schemas
          /\ L[j].update = "AddViewVersion" => L[j].id \in DOMAIN a.versions
    BY <1>2, <1>10, <2>6 DEF Applied, u
  <2>9. \A b \in DOMAIN a.refs : a.refs[b] \in DOMAIN a.versions
    BY <2>2, <2>5, <2>6 DEF Applied
  <2> QED
    BY <2>6, <2>7, <2>8, <2>9 DEF Applied
<1> QED
  BY <1>5, <1>6, <1>7, <1>8, <1>9, <1>10

\* The whole transaction.
LEMMA TransactionApplied ==
  ASSUME NEW h, Sound(h), NEW g, Sound(g), NEW ops, Len(ops) \in Nat, NEW txn
  PROVE  LET m == apply_view_updates(g, execute(h, ops, txn)) IN
         /\ Typed(m) /\ m.uuid = g.uuid
         /\ KnowsSchemas(m, g)
         /\ KnowsSchemas(g, h) => Sound(m)
         /\ KeepsBut(g.versions, m.versions, NewVersion(h))
         /\ KeepsBut(g.schemas, m.schemas, NewSchema(h))
         /\ (\A i \in 1 .. Len(ops) : ops[i].op # "representations") => m = g
<1> DEFINE L == execute(h, ops, txn)
           n == Len(L)
           Plain == \A i \in 1 .. Len(ops) : ops[i].op # "representations"
<1>1. Backed(h, L) /\ n \in Nat /\ (Plain => \A j \in 1 .. n : L[j].update = "SetProperties")
  BY ExecuteBacked
<1> HIDE DEF L, n, Plain
<1>2. PICK f : /\ f[0] = g
               /\ \A i \in 1 .. n : f[i] = apply_view_update(L[i], f[i - 1])
               /\ apply_view_updates(g, L) = f[n]
  BY <1>1, UpdateLoop DEF n
<1> DEFINE T == {k \in 0 .. n : Applied(h, g, L, k, f[k]) /\ (Plain => f[k] = g)}
<1>3. 0 \in T
  <2>1. Applied(h, g, L, 0, g)
    BY DEF Applied, Sound, Resolves
  <2> QED
    BY <1>1, <1>2, <2>1
<1>4. ASSUME NEW k \in 0 .. n - 1, k \in T PROVE k + 1 \in T
  <2>1. k + 1 \in 1 .. n /\ (k + 1) - 1 = k /\ k + 1 \in 0 .. n
    BY <1>1
  <2>2. f[k + 1] = apply_view_update(L[k + 1], f[k])
    BY <1>2, <2>1
  <2>3. Applied(h, g, L, k, f[k]) /\ (Plain => f[k] = g)
    BY <1>4
  <2>4. Applied(h, g, L, k + 1, f[k + 1])
    <3>1. Typed(h) /\ Len(L) \in Nat /\ k \in 0 .. Len(L) - 1
      BY <1>1 DEF Sound, n
    <3> QED
      BY <1>1, <2>2, <2>3, <3>1, UpdateApplied
  <2>5. ASSUME Plain PROVE f[k + 1] = g
    <3>1. L[k + 1].update = "SetProperties"
      BY <1>1, <2>1, <2>5
    <3>2. f[k + 1] = f[k]
      BY <2>2, <3>1 DEF apply_view_update
    <3> QED
      BY <2>3, <2>5, <3>2
  <2> QED
    BY <2>1, <2>4, <2>5
<1> HIDE DEF T
<1>5. \A k \in 0 .. n : k \in T
  BY <1>1, <1>3, <1>4, Induction
<1>6. Applied(h, g, L, n, f[n]) /\ (Plain => f[n] = g)
  BY <1>1, <1>5 DEF T
<1> DEFINE m == f[n]
<1>7. apply_view_updates(g, execute(h, ops, txn)) = m
  BY <1>2 DEF L
<1> HIDE DEF m
<1>8. /\ Typed(m) /\ m.uuid = g.uuid /\ KnowsSchemas(m, g)
      /\ KnowsSchemas(g, h) => Sound(m)
  BY <1>6 DEF Applied, KnowsSchemas, Sound, Resolves, m
<1>9. /\ KeepsBut(g.versions, m.versions, NewVersion(h))
      /\ KeepsBut(g.schemas, m.schemas, NewSchema(h))
  BY <1>6 DEF Applied, KeepsBut, m
<1>10. Plain => m = g
  BY <1>6 DEF m
<1> QED
  BY <1>7, <1>8, <1>9, <1>10 DEF Plain

-----------------------------------------------------------------------------
(* Metadata files and entries *)

\* A record with three fields replaced.
LEMMA ListsReplaced ==
  ASSUME NEW m, Typed(m), NEW v, NEW s, NEW r
  PROVE  [m EXCEPT !.versions = v, !.schemas = s, !.refs = r]
         = [uuid |-> m.uuid, current |-> m.current, versions |-> v, schemas |-> s, refs |-> r]
<1> DEFINE R == [m EXCEPT !.versions = v, !.schemas = s, !.refs = r]
<1>1. m = [uuid |-> m.uuid, current |-> m.current, versions |-> m.versions,
           schemas |-> m.schemas, refs |-> m.refs]
  BY DEF Typed
<1>2. R = [x \in {"uuid", "current", "versions", "schemas", "refs"} |-> R[x]]
  BY <1>1
<1>3. R.uuid = m.uuid /\ R.current = m.current /\ R.versions = v /\ R.schemas = s /\ R.refs = r
  BY <1>1
<1> HIDE DEF R
<1>4. R = [uuid |-> m.uuid, current |-> m.current, versions |-> v, schemas |-> s, refs |-> r]
  BY <1>2, <1>3
<1> QED
  BY <1>4 DEF R

\* What is written is what is read: the ids the lists carry are the keys.
LEMMA MetadataIsWritten ==
  ASSUME NEW m, Typed(m)
  PROVE  view_metadata_try_from(ViewMetadataV1(m)) = m
<1> DEFINE vs == {[version_id |-> v, version |-> m.versions[v]] : v \in DOMAIN m.versions}
           ss == {[schema_id |-> s, schema |-> m.schemas[s]] : s \in DOMAIN m.schemas}
           rs == IF m.refs = <<>> THEN {} ELSE {m.refs}
           f == [uuid |-> m.uuid, current |-> m.current, versions |-> vs, schemas |-> ss, refs |-> rs]
<1>1. m = [uuid |-> m.uuid, current |-> m.current, versions |-> m.versions,
           schemas |-> m.schemas, refs |-> m.refs]
  BY DEF Typed
<1>2. ViewMetadataV1(m) = f
  <2>1. ViewMetadataV1(m) = [m EXCEPT !.versions = vs, !.schemas = ss, !.refs = rs]
    BY DEF ViewMetadataV1
  <2> HIDE DEF vs, ss, rs
  <2> QED
    BY <2>1, ListsReplaced
<1> DEFINE V == [v \in {x.version_id : x \in vs} |-> (CHOOSE x \in vs : x.version_id = v).version]
           S == [s \in {x.schema_id : x \in ss} |-> (CHOOSE x \in ss : x.schema_id = s).schema]
           R == IF rs = {} THEN <<>> ELSE CHOOSE r \in rs : TRUE
<1>3. V = m.versions
  <2>1. {x.version_id : x \in vs} = DOMAIN m.versions
    <3>1. ASSUME NEW x \in vs PROVE x.version_id \in DOMAIN m.versions
      OBVIOUS
    <3>2. ASSUME NEW v \in DOMAIN m.versions PROVE \E x \in vs : x.version_id = v
      <4>1. [version_id |-> v, version |-> m.versions[v]] \in vs
        OBVIOUS
      <4> QED
        BY <4>1
    <3> HIDE DEF vs
    <3> QED
      BY <3>1, <3>2
  <2>2. ASSUME NEW v \in DOMAIN m.versions
        PROVE  (CHOOSE x \in vs : x.version_id = v).version = m.versions[v]
    <3>1. [version_id |-> v, version |-> m.versions[v]] \in vs
      OBVIOUS
    <3>2. \A x \in vs : x.version_id = v => x.version = m.versions[v]
      OBVIOUS
    <3> HIDE DEF vs
    <3> QED
      BY <3>1, <3>2
  <2>3. m.versions = [v \in DOMAIN m.versions |-> m.versions[v]]
    BY DEF Typed
  <2> HIDE DEF vs
  <2> QED
    BY <2>1, <2>2, <2>3
<1>4. S = m.schemas
  <2>1. {x.schema_id : x \in ss} = DOMAIN m.schemas
    <3>1. ASSUME NEW x \in ss PROVE x.schema_id \in DOMAIN m.schemas
      OBVIOUS
    <3>2. ASSUME NEW s \in DOMAIN m.schemas PROVE \E x \in ss : x.schema_id = s
      <4>1. [schema_id |-> s, schema |-> m.schemas[s]] \in ss
        OBVIOUS
      <4> QED
        BY <4>1
    <3> HIDE DEF ss
    <3> QED
      BY <3>1, <3>2
  <2>2. ASSUME NEW s \in DOMAIN m.schemas
        PROVE  (CHOOSE x \in ss : x.schema_id = s).schema = m.schemas[s]
    <3>1. [schema_id |-> s, schema |-> m.schemas[s]] \in ss
      OBVIOUS
    <3>2. \A x \in ss : x.schema_id = s => x.schema = m.schemas[s]
      OBVIOUS
    <3> HIDE DEF ss
    <3> QED
      BY <3>1, <3>2
  <2>3. m.schemas = [s \in DOMAIN m.schemas |-> m.schemas[s]]
    BY DEF Typed
  <2> HIDE DEF ss
  <2> QED
    BY <2>1, <2>2, <2>3
<1>5. R = m.refs
  OBVIOUS
<1>6. view_metadata_try_from(f) = [uuid |-> m.uuid, current |-> m.current, versions |-> V,
                                   schemas |-> S, refs |-> R]
  <2>1. view_metadata_try_from(f) = [f EXCEPT !.versions = V, !.schemas = S, !.refs = R]
    BY DEF view_metadata_try_from
  <2> HIDE DEF V, S, R, vs, ss, rs
  <2> QED
    BY <2>1
<1> HIDE DEF V, S, R, f
<1> QED
  BY <1>1, <1>2, <1>3, <1>4, <1>5, <1>6

LEMMA ParsedIsWritten ==
  ASSUME NEW e, e = [loc |-> e.loc, metadata |-> e.metadata], Typed(e.metadata)
  PROVE  Parsed(e) = e
<1> DEFINE m == e.metadata
<1>1. Parsed(e) = [e EXCEPT !.metadata = view_metadata_try_from(ViewMetadataV1(m))]
  BY DEF Parsed
<1>2. view_metadata_try_from(ViewMetadataV1(m)) = m
  BY MetadataIsWritten
<1>3. [e EXCEPT !.metadata = m] = [loc |-> e.loc, metadata |-> m]
  OBVIOUS
<1> QED
  BY <1>1, <1>2, <1>3

\* A new view is sound.
LEMMA NewViewSound ==
  ASSUME NEW txn
  PROVE  /\ Sound(NewView(txn)) /\ NewView(txn).uuid = txn
         /\ DOMAIN NewView(txn).schemas = {0}
<1> DEFINE m == NewView(txn)
<1> DEFINE version == [schema |-> 0, reps |-> <<[dialect |-> "d1", sql |-> txn]>>]
           vs == [v \in {0} |-> version]
           ss == [s \in {0} |-> "s0"]
<1>0. m = [uuid |-> txn, current |-> 0, versions |-> vs, schemas |-> ss, refs |-> <<>>]
  BY DEF NewView
<1>5. vs = [x \in {0} |-> version] /\ ss = [x \in {0} |-> "s0"] /\ version.schema = 0
  OBVIOUS
<1> HIDE DEF m, version, vs, ss
<1>1. /\ m.uuid = txn /\ m.current = 0 /\ m.refs = <<>>
      /\ m.versions = vs /\ m.schemas = ss
      /\ DOMAIN m.versions = {0} /\ m.versions[0].schema = 0
      /\ DOMAIN m.schemas = {0}
  BY <1>0, <1>5
<1>2. Ids({0})
  BY DEF Ids
<1>3. DOMAIN m.refs = {}
  BY <1>1
<1>4. Typed(m)
  BY <1>0, <1>5, <1>1, <1>2 DEF Typed
<1> QED
  BY <1>1, <1>3, <1>4 DEF Sound, Resolves, m

\* Sound metadata is that of a view.
LEMMA SoundIsMetadata ==
  ASSUME NEW m, Sound(m)
  PROVE  m # NoMetadata
<1>1. DOMAIN m.versions # {}
  BY DEF Sound, Resolves
<1>2. DOMAIN NoMetadata.versions = {}
  BY DEF NoMetadata
<1> QED
  BY <1>1, <1>2

-----------------------------------------------------------------------------
(* What a new entry leaves of what is known of an old one *)

\* A creation is stored, in a row nobody has or over a directory's first version.
Creates(new, s, b) ==
  \/ b = "sql" /\ s = NoEntry
  \/ b = "file" /\ s.loc <= 1 /\ s.loc \in Nat /\ new.loc = 1

LEMMA CreationLeavesMetadata ==
  ASSUME NEW m, NEW s, NEW new, NEW b, HeldMetadata(m, s, b), new # NoEntry,
         Creates(new, s, b), m.uuid # new.metadata.uuid,
         (b = "file" /\ s # NoEntry) => s.loc >= 1
  PROVE  HeldMetadata(m, new, b)
<1>1. CASE b = "sql"
  BY <1>1 DEF HeldMetadata
<1>2. CASE b = "file"
  <2>1. s.loc = 1 /\ m = NewView(m.uuid)
    BY <1>2 DEF HeldMetadata, Creates
  <2> QED
    BY <1>2, <2>1 DEF HeldMetadata
<1> QED
  BY <1>1, <1>2 DEF Creates

LEMMA CreationLeavesEntry ==
  ASSUME NEW e, NEW s, NEW new, NEW b, HeldEntry(e, s, b), new # NoEntry, e.loc \in Nat,
         Creates(new, s, b), e.metadata.uuid # new.metadata.uuid,
         b = "sql" => e.loc # new.loc,
         (b = "file" /\ s # NoEntry) => s.loc >= 1
  PROVE  HeldEntry(e, new, b)
<1>1. HeldMetadata(e.metadata, new, b)
  BY CreationLeavesMetadata DEF HeldEntry
<1>2. CASE b = "sql"
  BY <1>1, <1>2 DEF HeldEntry
<1>3. CASE b = "file"
  <2>1. s.loc = 1 /\ e.loc = 1 /\ new.loc = 1
    BY <1>3 DEF HeldEntry, HeldMetadata, Creates
  <2> QED
    BY <1>1, <1>3, <2>1 DEF HeldEntry
<1> QED
  BY <1>2, <1>3 DEF Creates

LEMMA CreationLeavesSwap ==
  ASSUME NEW t, NEW s, NEW new, NEW b, SwapKnows(t, s, b), new # NoEntry, t.prev \in Nat,
         Creates(new, s, b), t.entry.metadata.uuid # new.metadata.uuid,
         b = "sql" => t.prev # new.loc,
         (b = "file" /\ s # NoEntry) => s.loc >= 1
  PROVE  SwapKnows(t, new, b)
<1>1. CASE b = "sql"
  BY <1>1 DEF SwapKnows
<1>2. CASE b = "file"
  <2>1. s # NoEntry /\ s.loc = 1 /\ t.prev = 1 /\ new.loc = 1
    BY <1>2 DEF SwapKnows, Creates
  <2>2. Sound(t.entry.metadata) /\ Extends(t.entry.metadata, t.base, s, b)
    BY <1>2, <2>1 DEF SwapKnows
  <2>3. Extends(t.entry.metadata, t.base, new, b)
    BY <1>2, <2>1, <2>2 DEF Extends
  <2> QED
    BY <1>2, <2>1, <2>2, <2>3 DEF SwapKnows
<1> QED
  BY <1>1, <1>2 DEF Creates

\* A new version is stored, which m and base are the metadata of.
Replaces(new, base, s, b) ==
  /\ s # NoEntry /\ new # NoEntry
  /\ s.loc \in Nat /\ s.loc >= 1
  /\ b \in {"sql", "file"}
  /\ b = "file" => new.loc = s.loc + 1
  /\ Sound(new.metadata) /\ Extends(new.metadata, base, s, b)

LEMMA VersionLeavesMetadata ==
  ASSUME NEW m, NEW s, NEW new, NEW b, NEW base, HeldMetadata(m, s, b), Replaces(new, base, s, b)
  PROVE  HeldMetadata(m, new, b)
<1>1. ASSUME new.metadata.uuid = m.uuid PROVE KnowsSchemas(new.metadata, m)
  <2>1. CASE b = "file" /\ s.loc = 1
    <3>1. m = NewView(m.uuid) /\ 0 \in DOMAIN new.metadata.schemas
      BY <2>1 DEF HeldMetadata, Replaces, Extends
    <3>2. DOMAIN m.schemas = {0}
      BY <3>1, NewViewSound
    <3> QED
      BY <3>1, <3>2 DEF KnowsSchemas
  <2>2. CASE ~(b = "file" /\ s.loc = 1)
    BY <1>1, <2>2 DEF HeldMetadata, Replaces, Extends, KnowsSchemas
  <2> QED
    BY <2>1, <2>2
<1>2. b = "file" => ~(new.loc = 1)
  BY DEF Replaces
<1> QED
  BY <1>1, <1>2 DEF HeldMetadata, Replaces

LEMMA VersionLeavesEntry ==
  ASSUME NEW e, NEW s, NEW new, NEW b, NEW base, HeldEntry(e, s, b), Replaces(new, base, s, b),
         e.loc \in Nat, b = "sql" => e.loc # new.loc
  PROVE  HeldEntry(e, new, b)
<1>1. HeldMetadata(e.metadata, new, b)
  BY VersionLeavesMetadata DEF HeldEntry
<1>2. b = "file" => e.loc <= new.loc /\ e.loc # new.loc
  BY DEF HeldEntry, Replaces
<1> QED
  BY <1>1, <1>2 DEF HeldEntry, Replaces

LEMMA VersionLeavesSwap ==
  ASSUME NEW t, NEW s, NEW new, NEW b, NEW base, SwapKnows(t, s, b), Replaces(new, base, s, b),
         t.prev \in Nat, b = "sql" => t.prev # new.loc
  PROVE  SwapKnows(t, new, b)
<1>1. b = "file" => t.prev <= new.loc /\ t.prev # new.loc
  BY DEF SwapKnows, Replaces
<1> QED
  BY <1>1 DEF SwapKnows, Replaces

\* What is stored is held.
LEMMA StoredIsHeld ==
  ASSUME NEW new, NEW b, Sound(new.metadata), new.loc >= 1, new.loc \in Nat,
         new # NoEntry,
         (b = "file" /\ new.loc = 1) => new.metadata = NewView(new.metadata.uuid)
  PROVE  HeldEntry(new, new, b)
<1>1. HeldMetadata(new.metadata, new, b)
  BY DEF HeldMetadata, KnowsSchemas
<1> QED
  BY <1>1 DEF HeldEntry

-----------------------------------------------------------------------------
(* What the steps have in common *)

\* A step of client c that leaves it with call t: where the new values come from.
Moves(c, t) ==
  /\ backend' = backend
  /\ task' = [task EXCEPT ![c] = t]
  /\ txns' \in Nat /\ txns <= txns'
  /\ nextLoc' \in Nat /\ nextLoc <= nextLoc' /\ (backend = "file" => nextLoc' = nextLoc)
  /\ stored' \in {stored, NoEntry, task[c].entry}
  /\ \/ cache' = cache
     \/ cache' = [cache EXCEPT ![InstanceOf[c]] = NoEntry]
     \/ cache' = [cache EXCEPT ![InstanceOf[c]] = task[c].entry]
  /\ \/ handle' = handle
     \/ handle' = [handle EXCEPT ![c] = task[c].entry.metadata]
  /\ t.entry.metadata.uuid \in {0, stored.metadata.uuid, task[c].entry.metadata.uuid,
                                cache[InstanceOf[c]].metadata.uuid, txns + 1}
  /\ backend = "sql" =>
       /\ t.entry.loc \in {0, stored.loc, task[c].entry.loc, nextLoc}
       /\ t.prev \in {0, task[c].prev, cache[InstanceOf[c]].loc}
  /\ TaskTyped(t, txns', nextLoc', backend)

LEMMA InstanceExists ==
  ASSUME Deployment, NEW c \in Clients
  PROVE  InstanceOf[c] \in Instances
  BY DEF Deployment, Instances, Range

LEMMA NothingIsTyped ==
  ASSUME NEW n \in Nat, NEW next \in Nat \ {0}, NEW b
  PROVE  EntryTyped(NoEntry, n, next, b) /\ TaskTyped(IdleTask, n, next, b)
<1>1. NoEntry = [loc |-> 0, metadata |-> NoMetadata] /\ NoMetadata.uuid = 0
  BY DEF NoEntry, NoMetadata
<1>2. EntryTyped(NoEntry, n, next, b)
  BY <1>1 DEF EntryTyped
<1>3. /\ IdleTask.pc = "idle" /\ IdleTask.prev = 0 /\ IdleTask.entry = NoEntry
      /\ IdleTask.base = NoMetadata
  BY DEF IdleTask
<1> QED
  BY <1>2, <1>3 DEF TaskTyped, IdleTask, Pcs

LEMMA TypedStays ==
  ASSUME NEW n \in Nat, NEW n1 \in Nat, n <= n1, NEW next \in Nat, NEW next1 \in Nat, next <= next1, NEW b
  PROVE  /\ \A e : EntryTyped(e, n, next, b) => EntryTyped(e, n1, next1, b)
         /\ \A t : TaskTyped(t, n, next, b) => TaskTyped(t, n1, next1, b)
<1>1. ASSUME NEW e, EntryTyped(e, n, next, b) PROVE EntryTyped(e, n1, next1, b)
  BY <1>1 DEF EntryTyped
<1>2. ASSUME NEW t, TaskTyped(t, n, next, b) PROVE TaskTyped(t, n1, next1, b)
  BY <1>1, <1>2 DEF TaskTyped
<1> QED
  BY <1>1, <1>2

LEMMA MovesTyped ==
  ASSUME Deployment, TypeOK, NEW c \in Clients, NEW t, Moves(c, t)
  PROVE  TypeOK'
<1> DEFINE Typ(e) == EntryTyped(e, txns', nextLoc', backend)
<1>1. backend \in {"sql", "file"} /\ txns \in Nat /\ nextLoc \in Nat \ {0}
  BY DEF TypeOK
<1>2. /\ backend' = backend /\ txns' \in Nat /\ nextLoc' \in Nat \ {0}
      /\ backend' = "file" => nextLoc' = 1
  BY <1>1 DEF Moves, TypeOK
<1>3. /\ \A e : EntryTyped(e, txns, nextLoc, backend) => Typ(e)
      /\ \A x : TaskTyped(x, txns, nextLoc, backend) => TaskTyped(x, txns', nextLoc', backend)
  <2>1. txns <= txns' /\ nextLoc <= nextLoc' /\ nextLoc \in Nat /\ nextLoc' \in Nat
    BY <1>1 DEF Moves
  <2> QED
    BY <1>1, <1>2, <2>1, TypedStays
<1>4. Typ(NoEntry)
  BY <1>2, NothingIsTyped
<1>5. Typ(task[c].entry)
  BY <1>3 DEF TypeOK, TaskTyped
<1>6. Typ(stored')
  BY <1>3, <1>4, <1>5 DEF Moves, TypeOK
<1> HIDE DEF Typ
<1>7. InstanceOf[c] \in Instances
  BY InstanceExists
<1>8. cache' = [i \in Instances |-> cache'[i]] /\ \A i \in Instances : Typ(cache'[i])
  <2>1. cache = [i \in Instances |-> cache[i]] /\ \A i \in Instances : Typ(cache[i])
    BY <1>3 DEF TypeOK, Typ
  <2>2. CASE cache' = cache
    BY <2>1, <2>2
  <2>3. CASE cache' = [cache EXCEPT ![InstanceOf[c]] = NoEntry]
    BY <1>4, <1>7, <2>1, <2>3
  <2>4. CASE cache' = [cache EXCEPT ![InstanceOf[c]] = task[c].entry]
    BY <1>5, <1>7, <2>1, <2>4
  <2> QED
    BY <2>2, <2>3, <2>4 DEF Moves
<1>9. handle' = [x \in Clients |-> handle'[x]] /\ \A x \in Clients : handle'[x].uuid \in 0 .. txns'
  <2>1. handle = [x \in Clients |-> handle[x]] /\ \A x \in Clients : handle[x].uuid \in 0 .. txns'
    <3>1. \A x \in Clients : handle[x].uuid \in 0 .. txns
      BY DEF TypeOK
    <3>2. txns \in Nat /\ txns' \in Nat /\ txns <= txns'
      BY <1>1 DEF Moves
    <3> QED
      BY <3>1, <3>2 DEF TypeOK
  <2>2. task[c].entry.metadata.uuid \in 0 .. txns'
    BY <1>5 DEF Typ, EntryTyped
  <2>3. CASE handle' = handle
    BY <2>1, <2>3
  <2>4. CASE handle' = [handle EXCEPT ![c] = task[c].entry.metadata]
    BY <2>1, <2>2, <2>4
  <2> QED
    BY <2>3, <2>4 DEF Moves
<1>10. /\ task' = [x \in Clients |-> task'[x]]
       /\ \A x \in Clients : TaskTyped(task'[x], txns', nextLoc', backend)
  <2>1. /\ task = [x \in Clients |-> task[x]]
        /\ \A x \in Clients : TaskTyped(task[x], txns', nextLoc', backend)
    BY <1>3 DEF TypeOK
  <2>2. task' = [task EXCEPT ![c] = t] /\ TaskTyped(t, txns', nextLoc', backend)
    BY DEF Moves
  <2> QED
    BY <2>1, <2>2
<1> QED
  BY <1>1, <1>2, <1>6, <1>8, <1>9, <1>10 DEF TypeOK, Typ

\* The tasks after a step of c.
LEMMA MovesTasks ==
  ASSUME TypeOK, NEW c \in Clients, NEW t, Moves(c, t)
  PROVE  task'[c] = t /\ \A d \in Clients \ {c} : task'[d] = task[d]
<1>1. task = [x \in Clients |-> task[x]] /\ task' = [task EXCEPT ![c] = t]
  BY DEF Moves, TypeOK
<1> QED
  BY <1>1

\* The caches and the handles after a step of c.
LEMMA MovesCopies ==
  ASSUME Deployment, TypeOK, NEW c \in Clients, NEW t, Moves(c, t)
  PROVE  /\ \A i \in Instances : cache'[i] \in {cache[i], NoEntry, task[c].entry}
         /\ \A d \in Clients : handle'[d] \in {handle[d], task[c].entry.metadata}
<1>1. cache = [i \in Instances |-> cache[i]] /\ handle = [x \in Clients |-> handle[x]]
  BY DEF TypeOK
<1>2. InstanceOf[c] \in Instances
  BY InstanceExists
<1>3. \A i \in Instances : cache'[i] \in {cache[i], NoEntry, task[c].entry}
  BY <1>1, <1>2 DEF Moves
<1>4. \A d \in Clients : handle'[d] \in {handle[d], task[c].entry.metadata}
  BY <1>1 DEF Moves
<1> QED
  BY <1>3, <1>4

\* A step hands out nothing that is another creation's or transaction's own.
LEMMA MovesOwn ==
  ASSUME Deployment, IInv, NEW c \in Clients, NEW t, Moves(c, t), NEW d \in Clients \ {c}
  PROVE  (OwnUuid(d) /\ OwnLocation(d))'
<1>1. TypeOK /\ OwnUuid(d) /\ OwnLocation(d) /\ CallKnows(task[d], stored, backend)
  BY DEF IInv, TasksOK
<1>2. task'[c] = t /\ \A x \in Clients \ {c} : task'[x] = task[x]
  BY <1>1, MovesTasks
<1>3. /\ \A i \in Instances : cache'[i] \in {cache[i], NoEntry, task[c].entry}
      /\ \A x \in Clients : handle'[x] \in {handle[x], task[c].entry.metadata}
      /\ stored' \in {stored, NoEntry, task[c].entry}
      /\ backend' = backend
  BY <1>1, MovesCopies DEF Moves
<1>4. NoEntry.loc = 0 /\ NoEntry.metadata.uuid = 0
  BY DEF NoEntry, NoMetadata
<1>5. InstanceOf[c] \in Instances
  BY InstanceExists
<1>6. TaskTyped(task[d], txns, nextLoc, backend) /\ txns \in Nat /\ nextLoc \in Nat
  BY <1>1 DEF TypeOK
<1>7. ASSUME task[d].pc = "create" PROVE OwnUuid(d)'
  <2> DEFINE uuid == task[d].entry.metadata.uuid
  <2>1. /\ stored.metadata.uuid # uuid
        /\ \A i \in Instances : cache[i].metadata.uuid # uuid
        /\ \A x \in Clients : handle[x].uuid # uuid
        /\ \A x \in Clients \ {d} : task[x].entry.metadata.uuid # uuid
    BY <1>1, <1>7 DEF OwnUuid
  <2>2. uuid # 0 /\ uuid # txns + 1
    BY <1>1, <1>6, <1>7 DEF CallKnows, CreateKnows, TaskTyped, EntryTyped
  <2>3. t.entry.metadata.uuid # uuid
    BY <1>5, <2>1, <2>2 DEF Moves
  <2>4. /\ stored'.metadata.uuid # uuid
        /\ \A i \in Instances : cache'[i].metadata.uuid # uuid
        /\ \A x \in Clients : handle'[x].uuid # uuid
    BY <1>3, <1>4, <2>1, <2>2
  <2>5. \A x \in Clients \ {d} : task'[x].entry.metadata.uuid # uuid
    BY <1>2, <2>1, <2>3
  <2>6. task'[d] = task[d]
    BY <1>2
  <2> QED
    BY <2>4, <2>5, <2>6 DEF OwnUuid
<1>8. ASSUME backend = "sql", task[d].pc \in {"create", "swap"} PROVE OwnLocation(d)'
  <2> DEFINE loc == task[d].entry.loc
  <2>1. /\ stored.loc # loc
        /\ \A i \in Instances : cache[i].loc # loc
        /\ \A x \in Clients \ {d} : task[x].entry.loc # loc
        /\ \A x \in Clients : task[x].prev # loc
    BY <1>1, <1>8 DEF OwnLocation
  <2>2. loc # 0 /\ loc # nextLoc
    <3>1. loc \in Nat /\ loc < nextLoc
      BY <1>6, <1>8 DEF TaskTyped, EntryTyped
    <3>2. CASE task[d].pc = "create"
      BY <1>1, <3>1, <3>2 DEF CallKnows, CreateKnows
    <3>3. CASE task[d].pc = "swap"
      <4>1. task[d].prev \in Nat
        BY <1>6 DEF TaskTyped
      <4> QED
        BY <1>1, <1>8, <3>1, <3>3, <4>1 DEF CallKnows, SwapKnows
    <3> QED
      BY <1>6, <1>8, <3>1, <3>2, <3>3
  <2>3. t.entry.loc # loc /\ t.prev # loc
    BY <1>5, <1>8, <2>1, <2>2 DEF Moves
  <2>4. stored'.loc # loc /\ \A i \in Instances : cache'[i].loc # loc
    BY <1>3, <1>4, <2>1, <2>2
  <2>5. /\ \A x \in Clients \ {d} : task'[x].entry.loc # loc
        /\ \A x \in Clients : task'[x].prev # loc
    BY <1>2, <2>1, <2>3
  <2>6. task'[d] = task[d]
    BY <1>2
  <2> QED
    BY <2>4, <2>5, <2>6 DEF OwnLocation
<1>9. task'[d] = task[d]
  BY <1>2
<1> QED
  BY <1>3, <1>7, <1>8, <1>9 DEF OwnUuid, OwnLocation

\* A step that leaves what is stored alone.
LEMMA QuietKeeps ==
  ASSUME Deployment, IInv, NEW c \in Clients, NEW t, Moves(c, t),
         stored' = stored,
         (cache' = cache /\ handle' = handle) \/ task[c].pc = "cache",
         CallKnows(t, stored, backend), OwnUuid(c)', OwnLocation(c)'
  PROVE  IInv'
<1>1. TypeOK /\ backend' = backend
  BY DEF IInv, Moves
<1>2. TypeOK'
  BY <1>1, MovesTyped
<1>3. StoredOK'
  BY <1>1 DEF IInv, StoredOK
<1>4. task[c].pc = "cache" => HeldEntry(task[c].entry, stored, backend)
  BY DEF IInv, TasksOK, CallKnows
<1>5. CachesOK'
  <2>1. ASSUME NEW i \in Instances, cache'[i] # NoEntry
        PROVE  HeldEntry(cache'[i], stored, backend)
    <3>1. CASE cache'[i] = cache[i]
      BY <2>1, <3>1 DEF IInv, CachesOK
    <3>2. CASE cache'[i] = task[c].entry /\ ~(cache' = cache)
      BY <1>4, <3>2
    <3> QED
      BY <1>1, <2>1, <3>1, <3>2, MovesCopies
  <2> QED
    BY <1>1, <2>1 DEF CachesOK
<1>6. HandlesOK'
  <2>1. ASSUME NEW x \in Clients, handle'[x] # NoMetadata
        PROVE  HeldMetadata(handle'[x], stored, backend)
    <3>1. CASE handle'[x] = handle[x]
      BY <2>1, <3>1 DEF IInv, HandlesOK
    <3>2. CASE handle'[x] = task[c].entry.metadata /\ ~(handle' = handle)
      BY <1>4, <3>2 DEF HeldEntry
    <3> QED
      BY <1>1, <2>1, <3>1, <3>2, MovesCopies
  <2> QED
    BY <1>1, <2>1 DEF HandlesOK
<1>7. TasksOK'
  <2>1. ASSUME NEW d \in Clients
        PROVE  CallKnows(task'[d], stored, backend) /\ (OwnUuid(d) /\ OwnLocation(d))'
    <3>1. task'[c] = t /\ (d # c => task'[d] = task[d])
      BY <1>1, MovesTasks
    <3>2. CASE d = c
      BY <3>1, <3>2
    <3>3. CASE d # c
      <4>1. (OwnUuid(d) /\ OwnLocation(d))'
        BY <3>3, MovesOwn
      <4>2. CallKnows(task'[d], stored, backend)
        BY <3>1, <3>3 DEF IInv, TasksOK
      <4> QED
        BY <4>1, <4>2
    <3> QED
      BY <3>2, <3>3
  <2> QED
    BY <1>1, <2>1 DEF TasksOK
<1> QED
  BY <1>2, <1>3, <1>5, <1>6, <1>7 DEF IInv

-----------------------------------------------------------------------------
(* The steps *)

LEMMA InitEstablishes ==
  ASSUME Deployment, Init
  PROVE  IInv
<1>1. /\ stored = NoEntry /\ cache = [i \in Instances |-> NoEntry]
      /\ handle = [c \in Clients |-> NoMetadata] /\ task = [c \in Clients |-> IdleTask]
      /\ txns = 0 /\ nextLoc = 1 /\ backend \in {"sql", "file"}
  BY DEF Init, Deployment
<1>2. EntryTyped(NoEntry, 0, 1, backend) /\ TaskTyped(IdleTask, 0, 1, backend)
  BY NothingIsTyped
<1>3. NoMetadata.uuid = 0 /\ IdleTask.pc = "idle"
  BY DEF NoMetadata, IdleTask
<1>4. TypeOK
  BY <1>1, <1>2, <1>3 DEF TypeOK
<1>5. StoredOK /\ CachesOK /\ HandlesOK
  BY <1>1 DEF StoredOK, CachesOK, HandlesOK
<1>6. TasksOK
  BY <1>1, <1>3 DEF TasksOK, CallKnows, OwnUuid, OwnLocation
<1> QED
  BY <1>4, <1>5, <1>6 DEF IInv

\* A call that is over knows nothing and owns nothing.
LEMMA IdleKnows ==
  ASSUME TypeOK, NEW c \in Clients, Moves(c, IdleTask)
  PROVE  CallKnows(IdleTask, stored, backend) /\ (OwnUuid(c) /\ OwnLocation(c))'
<1>1. task'[c] = IdleTask
  BY MovesTasks
<1>2. IdleTask.pc = "idle"
  BY DEF IdleTask
<1> QED
  BY <1>1, <1>2 DEF CallKnows, OwnUuid, OwnLocation

LEMMA IdleMoves ==
  ASSUME Deployment, TypeOK, NEW c \in Clients, Goto(c, IdleTask),
         UNCHANGED <<backend, txns, nextLoc>>,
         stored' \in {stored, NoEntry, task[c].entry},
         \/ cache' = cache
         \/ cache' = [cache EXCEPT ![InstanceOf[c]] = NoEntry]
         \/ cache' = [cache EXCEPT ![InstanceOf[c]] = task[c].entry],
         \/ handle' = handle
         \/ handle' = [handle EXCEPT ![c] = task[c].entry.metadata]
  PROVE  Moves(c, IdleTask)
<1>1. txns \in Nat /\ nextLoc \in Nat \ {0}
  BY DEF TypeOK
<1>2. /\ IdleTask.entry.metadata.uuid = 0 /\ IdleTask.entry.loc = 0 /\ IdleTask.prev = 0
  BY DEF IdleTask, NoEntry, NoMetadata
<1>3. TaskTyped(IdleTask, txns, nextLoc, backend)
  BY <1>1, NothingIsTyped
<1>4. txns' = txns /\ nextLoc' = nextLoc /\ backend' = backend
  OBVIOUS
<1>5. txns <= txns' /\ nextLoc <= nextLoc'
  BY <1>1, <1>4
<1> QED
  BY <1>1, <1>2, <1>3, <1>4, <1>5 DEF Moves, Goto

LEMMA FailKeeps ==
  ASSUME Deployment, IInv, NEW c \in Clients, Fail(c)
  PROVE  IInv'
<1>1. TypeOK /\ Goto(c, IdleTask)
      /\ UNCHANGED <<backend, kind, stored, storage, cache, handle, txns, nextLoc>>
  BY DEF IInv, Fail
<1>2. Moves(c, IdleTask)
  BY <1>1, IdleMoves
<1> QED
  BY <1>1, <1>2, IdleKnows, QuietKeeps

LEMMA FinishKeeps ==
  ASSUME Deployment, IInv, NEW c \in Clients, Finish(c)
  PROVE  IInv'
<1>1. /\ TypeOK /\ Goto(c, IdleTask) /\ task[c].pc = "cache"
      /\ cache' = [cache EXCEPT ![InstanceOf[c]] = task[c].entry]
      /\ handle' = [handle EXCEPT ![c] = task[c].entry.metadata]
      /\ UNCHANGED <<backend, kind, stored, storage, txns, nextLoc>>
  BY DEF IInv, Finish
<1>2. Moves(c, IdleTask)
  BY <1>1, IdleMoves
<1> QED
  BY <1>1, <1>2, IdleKnows, QuietKeeps

\* The task of a step that only moves on.
LEMMA NextPc ==
  ASSUME TypeOK, NEW c \in Clients, NEW p \in Pcs
  PROVE  LET t == [task[c] EXCEPT !.pc = p] IN
         /\ t = [pc |-> p, prev |-> task[c].prev, entry |-> task[c].entry, base |-> task[c].base]
         /\ t.pc = p /\ t.prev = task[c].prev /\ t.entry = task[c].entry /\ t.base = task[c].base
         /\ TaskTyped(t, txns, nextLoc, backend)
<1> DEFINE x == task[c]
           t == [x EXCEPT !.pc = p]
<1>1. TaskTyped(x, txns, nextLoc, backend)
  BY DEF TypeOK
<1> HIDE DEF x
<1>2. x = [pc |-> x.pc, prev |-> x.prev, entry |-> x.entry, base |-> x.base]
  BY <1>1 DEF TaskTyped
<1>3. t = [pc |-> p, prev |-> x.prev, entry |-> x.entry, base |-> x.base]
  BY <1>2
<1>4. t.pc = p /\ t.prev = x.prev /\ t.entry = x.entry /\ t.base = x.base
  BY <1>3
<1> HIDE DEF t
<1>5. TaskTyped(t, txns, nextLoc, backend)
  BY <1>1, <1>3, <1>4 DEF TaskTyped
<1> QED
  BY <1>3, <1>4, <1>5 DEF t, x

\* Such a step moves, with or without storing the entry.
LEMMA NextPcMoves ==
  ASSUME TypeOK, NEW c \in Clients, NEW p \in Pcs,
         Goto(c, [task[c] EXCEPT !.pc = p]),
         UNCHANGED <<backend, cache, handle, txns, nextLoc>>,
         stored' \in {stored, task[c].entry}
  PROVE  Moves(c, [task[c] EXCEPT !.pc = p])
<1> DEFINE t == [task[c] EXCEPT !.pc = p]
<1>1. txns \in Nat /\ nextLoc \in Nat
  BY DEF TypeOK
<1>2. t.prev = task[c].prev /\ t.entry = task[c].entry /\ TaskTyped(t, txns, nextLoc, backend)
  BY NextPc
<1>3. task' = [task EXCEPT ![c] = t]
  BY DEF Goto
<1> HIDE DEF t
<1>4. txns' = txns /\ nextLoc' = nextLoc /\ backend' = backend
  OBVIOUS
<1>5. txns <= txns' /\ nextLoc <= nextLoc'
  BY <1>1, <1>4
<1>6. Moves(c, t)
  BY <1>1, <1>2, <1>3, <1>4, <1>5 DEF Moves
<1> QED
  BY <1>6 DEF t

LEMMA file_create_storageKeeps ==
  ASSUME Deployment, IInv, NEW c \in Clients, file_create_storage(c)
  PROVE  IInv'
<1> DEFINE t == [task[c] EXCEPT !.pc = "cache"]
<1>1. /\ TypeOK /\ Goto(c, t) /\ task[c].pc = "create_storage"
      /\ UNCHANGED <<backend, kind, stored, cache, handle, txns, nextLoc>>
  BY DEF IInv, file_create_storage
<1>2. "cache" \in Pcs
  BY DEF Pcs
<1>3. Moves(c, t)
  BY <1>1, <1>2, NextPcMoves
<1>4. t.pc = "cache" /\ t.entry = task[c].entry
  BY <1>1, <1>2, NextPc
<1>5. task'[c] = t
  BY <1>1, <1>3, MovesTasks
<1> HIDE DEF t
<1>6. CallKnows(t, stored, backend)
  BY <1>1, <1>4 DEF IInv, TasksOK, CallKnows
<1>7. (OwnUuid(c) /\ OwnLocation(c))'
  BY <1>4, <1>5 DEF OwnUuid, OwnLocation
<1> QED
  BY <1>1, <1>3, <1>6, <1>7, QuietKeeps

\* The task of a call that begins.
LEMMA Begun ==
  ASSUME NEW p, NEW e
  PROVE  [IdleTask EXCEPT !.pc = p, !.entry = e]
         = [pc |-> p, prev |-> 0, entry |-> e, base |-> NoMetadata]
<1> DEFINE R == [IdleTask EXCEPT !.pc = p, !.entry = e]
<1>1. R = [x \in {"pc", "prev", "entry", "base"} |-> R[x]]
  BY DEF IdleTask
<1>2. R.pc = p /\ R.prev = 0 /\ R.entry = e /\ R.base = NoMetadata
  BY DEF IdleTask
<1> HIDE DEF R
<1>3. R = [pc |-> p, prev |-> 0, entry |-> e, base |-> NoMetadata]
  BY <1>1, <1>2
<1> QED
  BY <1>3 DEF R

LEMMA load_tabularKeeps ==
  ASSUME Deployment, IInv, NEW c \in Clients, load_tabular(c)
  PROVE  IInv'
<1> DEFINE t == [IdleTask EXCEPT !.pc = "cache", !.entry = Parsed(stored)]
<1>1. /\ TypeOK /\ Goto(c, t) /\ stored # NoEntry
      /\ UNCHANGED <<backend, kind, stored, storage, cache, handle, txns, nextLoc>>
  BY DEF IInv, load_tabular
<1>2. EntryTyped(stored, txns, nextLoc, backend) /\ HeldEntry(stored, stored, backend)
  BY <1>1 DEF TypeOK, IInv, StoredOK
<1>3. Parsed(stored) = stored
  BY <1>2, ParsedIsWritten DEF EntryTyped, HeldEntry, HeldMetadata, Sound
<1>4. t = [pc |-> "cache", prev |-> 0, entry |-> stored, base |-> NoMetadata]
  BY <1>3, Begun
<1>5. t.pc = "cache" /\ t.prev = 0 /\ t.entry = stored
  BY <1>4
<1>6. txns \in Nat /\ nextLoc \in Nat \ {0}
  BY <1>1 DEF TypeOK
<1> HIDE DEF t
<1>7. TaskTyped(t, txns, nextLoc, backend)
  BY <1>2, <1>4, <1>5, <1>6 DEF TaskTyped, Pcs
<1>8. Moves(c, t)
  <2>1. txns' = txns /\ nextLoc' = nextLoc /\ backend' = backend
    BY <1>1
  <2>2. txns <= txns' /\ nextLoc <= nextLoc'
    BY <1>6, <2>1
  <2> QED
    BY <1>1, <1>5, <1>6, <1>7, <2>1, <2>2 DEF Moves, Goto
<1>9. task'[c] = t
  BY <1>1, <1>8, MovesTasks
<1>10. CallKnows(t, stored, backend)
  BY <1>2, <1>5 DEF CallKnows
<1>11. (OwnUuid(c) /\ OwnLocation(c))'
  BY <1>5, <1>9 DEF OwnUuid, OwnLocation
<1> QED
  BY <1>1, <1>8, <1>10, <1>11, QuietKeeps

\* A creation takes a uuid nobody has and, in the SQL catalog, a location
\* nobody has.
LEMMA StartCreateKeeps ==
  ASSUME Deployment, IInv, NEW c \in Clients, StartCreate(c)
  PROVE  IInv'
<1> DEFINE e == [loc |-> nextLoc, metadata |-> NewView(txns')]
           t == [IdleTask EXCEPT !.pc = "create", !.entry = e]
<1>1. /\ TypeOK /\ Goto(c, t) /\ txns' = txns + 1
      /\ nextLoc' = IF backend = "sql" THEN nextLoc + 1 ELSE nextLoc
      /\ UNCHANGED <<backend, kind, stored, storage, cache, handle>>
  BY DEF IInv, StartCreate, NewTxn
<1>2. /\ backend \in {"sql", "file"} /\ txns \in Nat /\ nextLoc \in Nat \ {0}
      /\ backend = "file" => nextLoc = 1
  BY <1>1 DEF TypeOK
<1>3. txns' \in Nat /\ txns <= txns' /\ txns' >= 1 /\ nextLoc' \in Nat /\ nextLoc <= nextLoc'
  BY <1>1, <1>2
<1>4. e.loc = nextLoc /\ e.metadata = NewView(txns') /\ e.metadata.uuid = txns'
  BY NewViewSound
<1>5. t = [pc |-> "create", prev |-> 0, entry |-> e, base |-> NoMetadata]
  BY Begun
<1>6. EntryTyped(e, txns', nextLoc', backend)
  <2>1. e = [loc |-> e.loc, metadata |-> e.metadata]
    OBVIOUS
  <2>2. backend = "sql" => e.loc < nextLoc'
    BY <1>1, <1>2, <1>4
  <2> HIDE DEF e
  <2> QED
    BY <1>2, <1>3, <1>4, <2>1, <2>2 DEF EntryTyped
<1> HIDE DEF e, t
<1>7. t.pc = "create" /\ t.prev = 0 /\ t.entry = e
  BY <1>5
<1>8. TaskTyped(t, txns', nextLoc', backend)
  <2>1. backend = "sql" => 0 < nextLoc'
    BY <1>2, <1>3
  <2> QED
    BY <1>5, <1>6, <1>7, <2>1 DEF TaskTyped, Pcs
<1>9. Moves(c, t)
  <2>1. backend' = backend /\ (backend = "file" => nextLoc' = nextLoc)
    BY <1>1
  <2> QED
    BY <1>1, <1>3, <1>4, <1>7, <1>8, <2>1 DEF Moves, Goto
<1>10. task'[c] = t /\ \A d \in Clients \ {c} : task'[d] = task[d]
  BY <1>1, <1>9, MovesTasks
<1>11. CallKnows(t, stored, backend)
  BY <1>2, <1>3, <1>4, <1>7 DEF CallKnows, CreateKnows
<1>12. OwnUuid(c)'
  <2>1. ASSUME NEW x, EntryTyped(x, txns, nextLoc, backend) PROVE x.metadata.uuid # txns'
    BY <1>1, <1>2, <2>1 DEF EntryTyped
  <2>2. /\ stored.metadata.uuid # txns'
        /\ \A i \in Instances : cache[i].metadata.uuid # txns'
        /\ \A d \in Clients : task[d].entry.metadata.uuid # txns'
    BY <1>1, <2>1 DEF TypeOK, TaskTyped
  <2>3. \A d \in Clients : handle[d].uuid # txns'
    <3>1. \A d \in Clients : handle[d].uuid \in 0 .. txns
      BY <1>1 DEF TypeOK
    <3> QED
      BY <1>1, <1>2, <3>1
  <2>4. stored' = stored /\ cache' = cache /\ handle' = handle
    BY <1>1
  <2> QED
    BY <1>4, <1>7, <1>10, <2>2, <2>3, <2>4 DEF OwnUuid
<1>13. OwnLocation(c)'
  <2> SUFFICES ASSUME backend = "sql" PROVE OwnLocation(c)'
    BY <1>1 DEF OwnLocation
  <2>1. ASSUME NEW x, EntryTyped(x, txns, nextLoc, backend) PROVE x.loc # nextLoc
    BY <1>2, <2>1 DEF EntryTyped
  <2>2. /\ stored.loc # nextLoc
        /\ \A i \in Instances : cache[i].loc # nextLoc
        /\ \A d \in Clients : task[d].entry.loc # nextLoc
    BY <1>1, <2>1 DEF TypeOK, TaskTyped
  <2>3. \A d \in Clients : task[d].prev # nextLoc
    <3>1. ASSUME NEW d \in Clients PROVE task[d].prev # nextLoc
      <4>1. task[d].prev \in Nat /\ task[d].prev < nextLoc
        BY <1>1 DEF TypeOK, TaskTyped
      <4> QED
        BY <1>2, <4>1
    <3> QED
      BY <3>1
  <2>4. stored' = stored /\ cache' = cache
    BY <1>1
  <2>5. \A d \in Clients : task'[d].prev # nextLoc
    BY <1>2, <1>7, <1>10, <2>3
  <2> QED
    BY <1>4, <1>7, <1>10, <2>2, <2>4, <2>5 DEF OwnLocation
<1> QED
  BY <1>1, <1>9, <1>11, <1>12, <1>13, QuietKeeps

\* What the transaction makes of the entry its instance cached, if it is
\* accepted.
LEMMA UpdateKnows ==
  ASSUME NEW h, NEW e, NEW s, NEW b \in {"sql", "file"}, NEW ops, Len(ops) \in Nat,
         DOMAIN ops = 1 .. Len(ops), NEW txn, NEW loc,
         HeldMetadata(h, s, b), HeldEntry(e, s, b), s # NoEntry => HeldEntry(s, s, b), e.loc \in Nat,
         check_view_requirements(ops, h, e.metadata),
         b = "sql" => e.loc < loc,
         b = "file" => loc = e.loc + 1
  PROVE  LET m == apply_view_updates(e.metadata, execute(h, ops, txn)) IN
         /\ m.uuid = e.metadata.uuid
         /\ SwapKnows([pc |-> "swap", prev |-> e.loc, base |-> h,
                       entry |-> [loc |-> loc, metadata |-> m]], s, b)
<1> DEFINE g == e.metadata
           m == apply_view_updates(g, execute(h, ops, txn))
           t == [pc |-> "swap", prev |-> e.loc, base |-> h, entry |-> [loc |-> loc, metadata |-> m]]
           Plain == \A i \in 1 .. Len(ops) : ops[i].op # "representations"
<1>1. Sound(h) /\ Sound(g) /\ HeldMetadata(g, s, b)
  BY DEF HeldEntry, HeldMetadata
<1>2. /\ m.uuid = g.uuid /\ KnowsSchemas(m, g)
      /\ KnowsSchemas(g, h) => Sound(m)
      /\ KeepsBut(g.versions, m.versions, MaxKey(h.versions) + 1)
      /\ KeepsBut(g.schemas, m.schemas, MaxKey(h.schemas) + 1)
      /\ Plain => m = g
  BY <1>1, TransactionApplied DEF NewVersion, NewSchema
<1>3. ~Plain => g.uuid = h.uuid
  BY DEF check_view_requirements
<1> HIDE DEF m, Plain
<1>4. ASSUME s # NoEntry, s.loc = e.loc PROVE Sound(m) /\ Extends(m, h, s, b)
  <2>1. e = s \/ (b = "file" /\ s.loc = 1)
    BY <1>4 DEF HeldEntry
  <2>2. b = "file" /\ s.loc = 1 => h = NewView(h.uuid) /\ g = NewView(g.uuid)
    BY <1>1 DEF HeldMetadata
  <2>3. Sound(m)
    <3>1. CASE Plain
      BY <1>1, <1>2, <3>1
    <3>2. CASE ~Plain /\ b = "file" /\ s.loc = 1
      <4>1. h = g
        BY <1>3, <2>2, <3>2
      <4> QED
        BY <1>2, <4>1 DEF KnowsSchemas
    <3>3. CASE ~Plain /\ ~(b = "file" /\ s.loc = 1)
      <4>1. e = s
        BY <2>1, <3>3
      <4>2. KnowsSchemas(g, h)
        BY <1>3, <1>4, <3>3, <4>1 DEF HeldMetadata
      <4> QED
        BY <1>2, <4>2
    <3> QED
      BY <3>1, <3>2, <3>3
  <2>4. IF b = "file" /\ s.loc = 1
        THEN 0 \in DOMAIN m.schemas
        ELSE m.uuid = s.metadata.uuid /\ KnowsSchemas(m, s.metadata)
    <3>1. CASE b = "file" /\ s.loc = 1
      <4>1. DOMAIN g.schemas = {0}
        BY <2>2, <3>1, NewViewSound
      <4> QED
        BY <1>2, <3>1, <4>1 DEF KnowsSchemas
    <3>2. CASE ~(b = "file" /\ s.loc = 1)
      BY <1>2, <2>1, <3>2
    <3> QED
      BY <3>1, <3>2
  <2>5. ASSUME m.uuid = s.metadata.uuid
        PROVE  /\ KeepsBut(s.metadata.versions, m.versions, MaxKey(h.versions) + 1)
               /\ KeepsBut(s.metadata.schemas, m.schemas, MaxKey(h.schemas) + 1)
    <3>1. g = s.metadata
      <4>1. CASE e = s
        BY <4>1
      <4>2. CASE b = "file" /\ s.loc = 1
        <5>1. s.metadata = NewView(s.metadata.uuid) /\ g = NewView(g.uuid)
          BY <1>4, <2>2, <4>2 DEF HeldEntry, HeldMetadata
        <5> QED
          BY ONLY <1>2, <2>5, <5>1
      <4> QED
        BY <2>1, <4>1, <4>2
    <3> QED
      BY <1>2, <3>1
  <2>6. ASSUME b = "sql" PROVE m.uuid = h.uuid \/ m.versions = s.metadata.versions
    <3>1. e = s
      BY <2>1, <2>6
    <3> QED
      BY <1>2, <1>3, <3>1
  <2> QED
    BY <2>3, <2>4, <2>5, <2>6 DEF Extends
<1>5. t.prev = e.loc /\ t.entry.loc = loc /\ t.entry.metadata = m /\ t.base = h
  OBVIOUS
<1>6. e.loc >= 1 /\ (b = "file" => s # NoEntry /\ e.loc <= s.loc)
  BY DEF HeldEntry, HeldMetadata
<1> HIDE DEF t
<1>7. SwapKnows(t, s, b)
  BY <1>4, <1>5, <1>6 DEF SwapKnows
<1> QED
  BY <1>2, <1>7 DEF t, m

LEMMA StartUpdateKeeps ==
  ASSUME Deployment, IInv, NEW c \in Clients, NEW ops \in Transactions, StartUpdate(c, ops)
  PROVE  IInv'
<1> DEFINE e == cache[InstanceOf[c]]
           h == handle[c]
           loc == IF backend = "sql" THEN nextLoc ELSE e.loc + 1
           m == apply_view_updates(e.metadata, execute(h, ops, txns'))
           t == [pc |-> "swap", prev |-> e.loc, base |-> h, entry |-> [loc |-> loc, metadata |-> m]]
<1>1. /\ TypeOK /\ Goto(c, t) /\ h # NoMetadata /\ e # NoEntry
      /\ check_view_requirements(ops, h, e.metadata) /\ txns' = txns + 1
      /\ nextLoc' = IF backend = "sql" THEN nextLoc + 1 ELSE nextLoc
      /\ UNCHANGED <<backend, kind, stored, storage, cache, handle>>
  BY DEF IInv, StartUpdate, NewTxn
<1>2. InstanceOf[c] \in Instances
  BY InstanceExists
<1>3. /\ EntryTyped(e, txns, nextLoc, backend)
      /\ backend \in {"sql", "file"} /\ txns \in Nat /\ nextLoc \in Nat \ {0}
  BY <1>1, <1>2 DEF TypeOK
<1>4. HeldEntry(e, stored, backend) /\ HeldMetadata(h, stored, backend)
  BY <1>1, <1>2 DEF IInv, CachesOK, HandlesOK
<1>5. txns' \in Nat /\ txns <= txns' /\ nextLoc' \in Nat /\ nextLoc <= nextLoc'
  BY <1>1, <1>3
<1>6. e.loc \in Nat /\ e.metadata.uuid \in 0 .. txns /\ (backend = "sql" => e.loc < nextLoc)
  BY <1>3 DEF EntryTyped
<1>7. Len(ops) \in Nat /\ DOMAIN ops = 1 .. Len(ops)
  BY DEF Deployment
<1> HIDE DEF e, h
<1>8. /\ loc \in Nat
      /\ backend = "sql" => e.loc < loc /\ loc < nextLoc'
      /\ backend = "file" => loc = e.loc + 1
  BY <1>1, <1>3, <1>6
<1> HIDE DEF loc
<1>9. m.uuid = e.metadata.uuid /\ SwapKnows(t, stored, backend)
  <2>1. /\ check_view_requirements(ops, h, e.metadata) /\ backend \in {"sql", "file"}
        /\ HeldMetadata(h, stored, backend) /\ HeldEntry(e, stored, backend) /\ e.loc \in Nat
        /\ stored # NoEntry => HeldEntry(stored, stored, backend)
        /\ backend = "sql" => e.loc < loc
        /\ backend = "file" => loc = e.loc + 1
    BY <1>1, <1>3, <1>4, <1>6, <1>8 DEF IInv, StoredOK
  <2> QED
    BY ONLY <1>7, <2>1, UpdateKnows, Zenon
<1> HIDE DEF m
<1>10. /\ t.pc = "swap" /\ t.prev = e.loc /\ t.base = h /\ t.entry.loc = loc /\ t.entry.metadata = m
       /\ t.entry = [loc |-> t.entry.loc, metadata |-> t.entry.metadata]
       /\ t = [pc |-> t.pc, prev |-> t.prev, entry |-> t.entry, base |-> t.base]
  OBVIOUS
<1> HIDE DEF t
<1>11. m.uuid \in 0 .. txns'
  BY <1>3, <1>5, <1>6, <1>9
<1>12. backend = "sql" => e.loc < nextLoc'
  BY <1>5, <1>6, <1>3
<1>13. TaskTyped(t, txns', nextLoc', backend)
  BY <1>6, <1>8, <1>10, <1>11, <1>12 DEF TaskTyped, EntryTyped, Pcs
<1>14. Moves(c, t)
  <2>1. backend' = backend /\ (backend = "file" => nextLoc' = nextLoc)
    BY <1>1
  <2>2. t.entry.metadata.uuid = cache[InstanceOf[c]].metadata.uuid /\ t.prev = cache[InstanceOf[c]].loc
    BY <1>9, <1>10 DEF e
  <2>3. backend = "sql" => t.entry.loc = nextLoc
    BY <1>10 DEF loc
  <2> QED
    BY <1>1, <1>5, <1>13, <2>1, <2>2, <2>3 DEF Moves, Goto
<1>15. task'[c] = t /\ \A d \in Clients \ {c} : task'[d] = task[d]
  BY <1>1, <1>14, MovesTasks
<1>16. CallKnows(t, stored, backend)
  BY <1>9, <1>10 DEF CallKnows
<1>17. OwnUuid(c)'
  BY <1>10, <1>15 DEF OwnUuid
<1>18. OwnLocation(c)'
  <2> SUFFICES ASSUME backend = "sql" PROVE OwnLocation(c)'
    BY <1>1 DEF OwnLocation
  <2>1. ASSUME NEW x, EntryTyped(x, txns, nextLoc, backend) PROVE x.loc # nextLoc
    BY <1>3, <2>1 DEF EntryTyped
  <2>2. /\ stored.loc # nextLoc
        /\ \A i \in Instances : cache[i].loc # nextLoc
        /\ \A d \in Clients : task[d].entry.loc # nextLoc
    BY <1>1, <2>1 DEF TypeOK, TaskTyped
  <2>3. ASSUME NEW d \in Clients PROVE task[d].prev # nextLoc
    <3>1. task[d].prev \in Nat /\ task[d].prev < nextLoc
      BY <1>1 DEF TypeOK, TaskTyped
    <3> QED
      BY <1>3, <3>1
  <2>4. stored' = stored /\ cache' = cache /\ t.entry.loc = nextLoc
    BY <1>1, <1>10 DEF loc
  <2>5. t.prev # nextLoc
    BY <1>3, <1>6, <1>10
  <2>6. \A d \in Clients : task'[d].prev # nextLoc
    BY <1>15, <2>3, <2>5
  <2> QED
    BY <1>15, <2>2, <2>4, <2>6 DEF OwnLocation
<1> QED
  BY <1>1, <1>14, <1>16, <1>17, <1>18, QuietKeeps

\* What a step that stores the entry of c's call leaves to show.
LEMMA StoreKeeps ==
  ASSUME Deployment, IInv, NEW c \in Clients, NEW p \in {"create_storage", "cache"},
         task[c].pc \in {"create", "swap"},
         Goto(c, [task[c] EXCEPT !.pc = p]),
         UNCHANGED <<backend, cache, handle, txns, nextLoc>>,
         stored' = task[c].entry,
         HeldEntry(stored', stored', backend),
         \A i \in Instances : HeldEntry(cache[i], stored, backend) => HeldEntry(cache[i], stored', backend),
         \A d \in Clients :
           HeldMetadata(handle[d], stored, backend) => HeldMetadata(handle[d], stored', backend),
         \A d \in Clients \ {c} :
           /\ HeldEntry(task[d].entry, stored, backend) => HeldEntry(task[d].entry, stored', backend)
           /\ SwapKnows(task[d], stored, backend) => SwapKnows(task[d], stored', backend)
  PROVE  IInv'
<1> DEFINE t == [task[c] EXCEPT !.pc = p]
<1>1. TypeOK /\ p \in Pcs
  BY DEF IInv, Pcs
<1>2. Moves(c, t)
  BY <1>1, NextPcMoves
<1>3. t.pc = p /\ t.entry = task[c].entry
  BY <1>1, NextPc
<1> HIDE DEF t
<1>4. TypeOK'
  BY <1>1, <1>2, MovesTyped
<1>5. task'[c] = t /\ \A d \in Clients \ {c} : task'[d] = task[d]
  BY <1>1, <1>2, MovesTasks
<1>6. backend' = backend /\ cache' = cache /\ handle' = handle
  OBVIOUS
<1>7. StoredOK'
  BY <1>6 DEF StoredOK
<1>8. CachesOK'
  BY <1>6 DEF IInv, CachesOK
<1>9. HandlesOK'
  BY <1>6 DEF IInv, HandlesOK
<1>10. TasksOK'
  <2>1. ASSUME NEW d \in Clients
        PROVE  CallKnows(task'[d], stored', backend) /\ (OwnUuid(d) /\ OwnLocation(d))'
    <3>1. CASE d = c
      <4>1. CallKnows(t, stored', backend)
        BY <1>3 DEF CallKnows
      <4> QED
        BY <1>3, <1>5, <3>1, <4>1 DEF OwnUuid, OwnLocation
    <3>2. CASE d # c
      <4>1. (OwnUuid(d) /\ OwnLocation(d))'
        BY <1>2, <3>2, MovesOwn
      <4>2. CallKnows(task[d], stored, backend)
        BY DEF IInv, TasksOK
      <4>3. CallKnows(task[d], stored', backend)
        BY <3>2, <4>2 DEF CallKnows
      <4> QED
        BY <1>5, <3>2, <4>1, <4>3
    <3> QED
      BY <3>1, <3>2
  <2> QED
    BY <1>6, <2>1 DEF TasksOK
<1> QED
  BY <1>4, <1>7, <1>8, <1>9, <1>10 DEF IInv

\* What nobody else has of a creation's entry.
LEMMA CreationIsOwn ==
  ASSUME IInv, NEW c \in Clients, task[c].pc = "create"
  PROVE  LET new == task[c].entry IN
         /\ new # NoEntry /\ CreateKnows(task[c], backend) /\ Sound(new.metadata) /\ new.loc \in Nat
         /\ \A i \in Instances : /\ cache[i].metadata.uuid # new.metadata.uuid
                                 /\ backend = "sql" => cache[i].loc # new.loc
                                 /\ cache[i].loc \in Nat
         /\ \A d \in Clients : handle[d].uuid # new.metadata.uuid
         /\ \A d \in Clients \ {c} : /\ task[d].entry.metadata.uuid # new.metadata.uuid
                                     /\ backend = "sql" => task[d].entry.loc # new.loc
                                     /\ backend = "sql" => task[d].prev # new.loc
                                     /\ task[d].entry.loc \in Nat /\ task[d].prev \in Nat
<1> DEFINE new == task[c].entry
<1>1. CreateKnows(task[c], backend) /\ OwnUuid(c) /\ OwnLocation(c)
  BY DEF IInv, TasksOK, CallKnows
<1>2. new # NoEntry
  BY <1>1 DEF CreateKnows, NoEntry
<1>3. Sound(new.metadata)
  BY <1>1, NewViewSound DEF CreateKnows
<1>4. /\ new.loc \in Nat /\ \A i \in Instances : cache[i].loc \in Nat
      /\ \A d \in Clients : task[d].entry.loc \in Nat /\ task[d].prev \in Nat
  BY DEF IInv, TypeOK, TaskTyped, EntryTyped
<1> QED
  BY <1>1, <1>2, <1>3, <1>4 DEF OwnUuid, OwnLocation

LEMMA CreationStores ==
  ASSUME Deployment, IInv, NEW c \in Clients, NEW p \in {"create_storage", "cache"},
         task[c].pc = "create",
         Goto(c, [task[c] EXCEPT !.pc = p]),
         UNCHANGED <<backend, cache, handle, txns, nextLoc>>,
         stored' = task[c].entry,
         Creates(task[c].entry, stored, backend)
  PROVE  IInv'
<1> DEFINE new == task[c].entry
<1>1. /\ new # NoEntry /\ CreateKnows(task[c], backend) /\ Sound(new.metadata) /\ new.loc \in Nat
      /\ \A i \in Instances : /\ cache[i].metadata.uuid # new.metadata.uuid
                              /\ backend = "sql" => cache[i].loc # new.loc
                              /\ cache[i].loc \in Nat
      /\ \A d \in Clients : handle[d].uuid # new.metadata.uuid
      /\ \A d \in Clients \ {c} : /\ task[d].entry.metadata.uuid # new.metadata.uuid
                                  /\ backend = "sql" => task[d].entry.loc # new.loc
                                  /\ backend = "sql" => task[d].prev # new.loc
                                  /\ task[d].entry.loc \in Nat /\ task[d].prev \in Nat
  BY CreationIsOwn
<1>2. (backend = "file" /\ stored # NoEntry) => stored.loc >= 1
  BY DEF IInv, StoredOK, HeldEntry
<1> HIDE DEF new
<1>3. Creates(new, stored, backend) /\ stored' = new
  BY DEF new
<1>4. HeldEntry(new, new, backend)
  <2>1. new.loc >= 1 /\ new.metadata = NewView(new.metadata.uuid)
    BY <1>1 DEF CreateKnows, new
  <2> QED
    BY <1>1, <2>1, StoredIsHeld
<1>5. ASSUME NEW i \in Instances, HeldEntry(cache[i], stored, backend)
      PROVE  HeldEntry(cache[i], new, backend)
  BY <1>1, <1>2, <1>3, <1>5, CreationLeavesEntry
<1>6. ASSUME NEW d \in Clients, HeldMetadata(handle[d], stored, backend)
      PROVE  HeldMetadata(handle[d], new, backend)
  BY <1>1, <1>2, <1>3, <1>6, CreationLeavesMetadata
<1>7. ASSUME NEW d \in Clients \ {c}, HeldEntry(task[d].entry, stored, backend)
      PROVE  HeldEntry(task[d].entry, new, backend)
  BY <1>1, <1>2, <1>3, <1>7, CreationLeavesEntry
<1>8. ASSUME NEW d \in Clients \ {c}, SwapKnows(task[d], stored, backend)
      PROVE  SwapKnows(task[d], new, backend)
  BY <1>1, <1>2, <1>3, <1>8, CreationLeavesSwap
<1> QED
  BY <1>3, <1>4, <1>5, <1>6, <1>7, <1>8, StoreKeeps

LEMMA sql_createKeeps ==
  ASSUME Deployment, IInv, NEW c \in Clients, sql_create(c)
  PROVE  IInv'
<1>1. TypeOK /\ task[c].pc = "create" /\ backend = "sql"
      /\ UNCHANGED <<backend, kind, cache, handle, txns, nextLoc>>
  BY DEF IInv, sql_create
<1>2. CASE stored = NoEntry /\ (kind = "materialized_view" => ~storage)
  <2>1. stored' = task[c].entry /\ Goto(c, [task[c] EXCEPT !.pc = "cache"])
    BY <1>2 DEF sql_create
  <2>2. Creates(task[c].entry, stored, backend)
    BY <1>1, <1>2 DEF Creates
  <2> QED
    BY <1>1, <2>1, <2>2, CreationStores
<1>3. CASE ~(stored = NoEntry /\ (kind = "materialized_view" => ~storage))
  <2>1. stored' = stored /\ Goto(c, IdleTask)
    BY <1>3 DEF sql_create
  <2>2. Moves(c, IdleTask)
    BY <1>1, <2>1, IdleMoves
  <2> QED
    BY <1>1, <2>1, <2>2, IdleKnows, QuietKeeps
<1> QED
  BY <1>2, <1>3

LEMMA file_create_viewKeeps ==
  ASSUME Deployment, IInv, NEW c \in Clients, file_create_view(c)
  PROVE  IInv'
<1> DEFINE new == task[c].entry
           p == IF kind = "view" THEN "cache" ELSE "create_storage"
           t == [task[c] EXCEPT !.pc = p]
<1>1. /\ TypeOK /\ task[c].pc = "create" /\ backend = "file" /\ Goto(c, t)
      /\ stored' = IF stored.loc > new.loc THEN stored ELSE new
      /\ UNCHANGED <<backend, kind, cache, handle, txns, nextLoc>>
  BY DEF IInv, file_create_view
<1>2. /\ new # NoEntry /\ CreateKnows(task[c], backend) /\ Sound(new.metadata) /\ new.loc \in Nat
      /\ \A i \in Instances : /\ cache[i].metadata.uuid # new.metadata.uuid
                              /\ backend = "sql" => cache[i].loc # new.loc
                              /\ cache[i].loc \in Nat
      /\ \A d \in Clients : handle[d].uuid # new.metadata.uuid
  BY <1>1, CreationIsOwn
<1>3. new.loc = 1 /\ new.metadata = NewView(new.metadata.uuid)
  BY <1>1, <1>2 DEF CreateKnows
<1>4. stored.loc \in Nat
  BY <1>1 DEF TypeOK, EntryTyped
<1>5. p \in {"create_storage", "cache"} /\ p \in Pcs
  BY DEF Pcs
<1>6. CASE ~(stored.loc > new.loc)
  <2>1. stored.loc <= 1
    BY <1>3, <1>4, <1>6
  <2>2. Creates(new, stored, backend)
    BY <1>1, <1>3, <1>4, <2>1 DEF Creates
  <2>3. stored' = new
    BY <1>1, <1>6
  <2> HIDE DEF p
  <2> QED
    BY <1>1, <1>5, <2>2, <2>3, CreationStores
<1>7. CASE stored.loc > new.loc
  <2>1. stored' = stored /\ stored # NoEntry
    BY <1>1, <1>3, <1>4, <1>7 DEF NoEntry
  <2>2. t.pc = p /\ t.entry = new
    BY <1>1, <1>5, NextPc
  <2>3. Moves(c, t)
    BY <1>1, <1>5, <2>1, NextPcMoves
  <2>4. task'[c] = t
    BY <1>1, <2>3, MovesTasks
  <2>5. stored.metadata.uuid # new.metadata.uuid
    BY <1>1 DEF IInv, TasksOK, OwnUuid
  <2> HIDE DEF t
  <2>6. HeldEntry(new, stored, backend)
    <3>1. stored.loc # 1 /\ 1 <= stored.loc
      BY <1>3, <1>4, <1>7
    <3>2. HeldMetadata(new.metadata, stored, backend)
      BY <1>1, <1>2, <2>1, <2>5, <3>1 DEF HeldMetadata
    <3> QED
      BY <1>1, <1>3, <3>1, <3>2 DEF HeldEntry
  <2>7. CallKnows(t, stored, backend)
    BY <1>5, <2>2, <2>6 DEF CallKnows
  <2>8. (OwnUuid(c) /\ OwnLocation(c))'
    BY <1>5, <2>2, <2>4 DEF OwnUuid, OwnLocation
  <2> QED
    BY <1>1, <2>1, <2>3, <2>7, <2>8, QuietKeeps
<1> QED
  BY <1>6, <1>7

\* With the row gone, what is held is of no view that is stored, and no
\* transaction would be accepted.
LEMMA sql_dropKeeps ==
  ASSUME Deployment, IInv, NEW c \in Clients, sql_drop(c)
  PROVE  IInv'
<1>1. /\ TypeOK /\ backend = "sql" /\ task[c].pc = "idle" /\ stored' = NoEntry
      /\ cache' = [cache EXCEPT ![InstanceOf[c]] = NoEntry]
      /\ UNCHANGED <<backend, kind, storage, handle, task, txns, nextLoc>>
  BY DEF IInv, sql_drop
<1>2. task[c] = IdleTask /\ task' = [task EXCEPT ![c] = IdleTask]
  <2>1. task[c] = IdleTask
    BY <1>1 DEF IInv, TasksOK, CallKnows
  <2>2. task = [x \in Clients |-> task[x]]
    BY <1>1 DEF TypeOK
  <2> QED
    BY <1>1, <2>1, <2>2
<1>3. Moves(c, IdleTask)
  BY <1>1, <1>2, IdleMoves DEF Goto
<1>4. TypeOK'
  BY <1>1, <1>3, MovesTyped
<1>5. /\ \A i \in Instances : cache'[i] # NoEntry => cache'[i] = cache[i]
      /\ backend' = "sql" /\ handle' = handle /\ task' = task
  <2>1. \A i \in Instances : cache'[i] = cache[i] \/ cache'[i] = NoEntry
    <3>1. cache = [i \in Instances |-> cache[i]]
      BY <1>1 DEF TypeOK
    <3> QED
      BY <1>1, <3>1
  <2> QED
    BY <1>1, <2>1
<1>6. ASSUME NEW m, HeldMetadata(m, stored, "sql") PROVE HeldMetadata(m, NoEntry, "sql")
  BY <1>6 DEF HeldMetadata
<1>7. ASSUME NEW e, HeldEntry(e, stored, "sql") PROVE HeldEntry(e, NoEntry, "sql")
  BY <1>6, <1>7 DEF HeldEntry
<1>8. StoredOK'
  BY <1>1 DEF StoredOK
<1>9. CachesOK'
  BY <1>1, <1>5, <1>7 DEF IInv, CachesOK
<1>10. HandlesOK'
  BY <1>1, <1>5, <1>6 DEF IInv, HandlesOK
<1>11. TasksOK'
  <2>1. ASSUME NEW d \in Clients
        PROVE  CallKnows(task[d], NoEntry, "sql") /\ (OwnUuid(d) /\ OwnLocation(d))'
    <3>1. CallKnows(task[d], stored, "sql")
      BY <1>1 DEF IInv, TasksOK
    <3>2. CallKnows(task[d], NoEntry, "sql")
      BY <1>7, <3>1 DEF CallKnows, SwapKnows
    <3>3. CASE d = c
      <4>1. (OwnUuid(c) /\ OwnLocation(c))'
        BY <1>1, <1>3, IdleKnows
      <4> QED
        BY <3>2, <3>3, <4>1
    <3>4. CASE d # c
      BY <1>3, <3>2, <3>4, MovesOwn
    <3> QED
      BY <3>3, <3>4
  <2> QED
    BY <1>1, <1>5, <2>1 DEF TasksOK
<1> QED
  BY <1>4, <1>8, <1>9, <1>10, <1>11 DEF IInv

LEMMA SwapKeeps ==
  ASSUME Deployment, IInv, NEW c \in Clients, Swap(c)
  PROVE  IInv'
<1> DEFINE new == task[c].entry
           t == [task[c] EXCEPT !.pc = "cache"]
<1>1. /\ TypeOK /\ task[c].pc = "swap"
      /\ UNCHANGED <<backend, kind, storage, cache, handle, txns, nextLoc>>
  BY DEF IInv, Swap
<1>2. CASE ~row_matches(c)
  <2>1. stored' = stored /\ Goto(c, IdleTask)
    BY <1>2 DEF Swap
  <2>2. Moves(c, IdleTask)
    BY <1>1, <2>1, IdleMoves
  <2> QED
    BY <1>1, <2>1, <2>2, IdleKnows, QuietKeeps
<1>3. CASE row_matches(c)
  <2>1. stored' = new /\ Goto(c, t)
    BY <1>3 DEF Swap
  <2>2. stored # NoEntry /\ stored.loc = task[c].prev
    BY <1>3 DEF row_matches
  <2>3. SwapKnows(task[c], stored, backend) /\ OwnLocation(c)
    BY <1>1 DEF IInv, TasksOK, CallKnows
  <2>4. /\ backend \in {"sql", "file"} /\ new.loc \in Nat /\ task[c].prev \in Nat
        /\ \A i \in Instances : cache[i].loc \in Nat
        /\ \A d \in Clients : task[d].entry.loc \in Nat /\ task[d].prev \in Nat
    BY <1>1 DEF TypeOK, TaskTyped, EntryTyped
  <2>5. /\ Sound(new.metadata) /\ Extends(new.metadata, task[c].base, stored, backend)
        /\ stored.loc >= 1 /\ (backend = "file" => new.loc = stored.loc + 1)
        /\ backend = "sql" => stored.loc < new.loc
    BY <2>2, <2>3 DEF SwapKnows
  <2>6. new.loc > 1
    BY <2>2, <2>4, <2>5
  <2>7. new # NoEntry
    BY <2>6 DEF NoEntry
  <2> DEFINE base == task[c].base
  <2>8. Replaces(new, base, stored, backend)
    BY <2>2, <2>4, <2>5, <2>7 DEF Replaces
  <2>9. HeldEntry(new, new, backend)
    <3>1. new.loc >= 1 /\ new.loc # 1
      BY <2>4, <2>6
    <3> HIDE DEF new
    <3> QED
      BY <2>4, <2>5, <2>7, <3>1, StoredIsHeld
  <2>10. backend = "sql" => /\ \A i \in Instances : cache[i].loc # new.loc
                            /\ \A d \in Clients \ {c} : task[d].entry.loc # new.loc
                            /\ \A d \in Clients : task[d].prev # new.loc
    BY <1>1, <2>3 DEF OwnLocation
  <2> HIDE DEF new, base
  <2>11. ASSUME NEW i \in Instances, HeldEntry(cache[i], stored, backend)
         PROVE  HeldEntry(cache[i], new, backend)
    BY <2>4, <2>8, <2>10, <2>11, VersionLeavesEntry
  <2>12. ASSUME NEW d \in Clients, HeldMetadata(handle[d], stored, backend)
         PROVE  HeldMetadata(handle[d], new, backend)
    BY <2>8, <2>12, VersionLeavesMetadata
  <2>13. ASSUME NEW d \in Clients \ {c}, HeldEntry(task[d].entry, stored, backend)
         PROVE  HeldEntry(task[d].entry, new, backend)
    BY <2>4, <2>8, <2>10, <2>13, VersionLeavesEntry
  <2>14. ASSUME NEW d \in Clients \ {c}, SwapKnows(task[d], stored, backend)
         PROVE  SwapKnows(task[d], new, backend)
    BY <2>4, <2>8, <2>10, <2>14, VersionLeavesSwap
  <2>15. stored' = new /\ stored' = task[c].entry
    BY <2>1 DEF new
  <2> QED
    BY <1>1, <2>1, <2>9, <2>11, <2>12, <2>13, <2>14, <2>15, StoreKeeps
<1> QED
  BY <1>2, <1>3

LEMMA NextKeeps ==
  ASSUME Deployment, IInv, [Next]_vars
  PROVE  IInv'
<1>1. CASE UNCHANGED vars
  BY <1>1 DEF vars, IInv, TypeOK, StoredOK, CachesOK, HandlesOK, TasksOK, OwnUuid, OwnLocation
<1>2. CASE Next
  <2>1. PICK c \in Clients :
          \/ StartCreate(c) \/ sql_create(c) \/ file_create_view(c) \/ file_create_storage(c)
          \/ sql_drop(c) \/ load_tabular(c)
          \/ \E ops \in Transactions : StartUpdate(c, ops)
          \/ Swap(c) \/ Finish(c) \/ Fail(c)
    BY <1>2 DEF Next
  <2> QED
    BY <2>1, StartCreateKeeps, sql_createKeeps, file_create_viewKeeps, file_create_storageKeeps,
       sql_dropKeeps, load_tabularKeeps, StartUpdateKeeps, SwapKeeps, FinishKeeps, FailKeeps
<1> QED
  BY <1>1, <1>2

-----------------------------------------------------------------------------
(* The theorems *)

\* What create_view, update_view and the catalogs' loads and swaps keep, for
\* any clients, instances, transactions and crashes.
THEOREM InvariantHolds == Deployment => (Spec => []IInv)
<1> SUFFICES ASSUME Deployment PROVE Spec => []IInv
  OBVIOUS
<1>1. Init => IInv
  BY InitEstablishes
<1>2. IInv /\ [Next]_vars => IInv'
  BY NextKeeps
<1> QED
  BY <1>1, <1>2, PTL DEF Spec

\* The stored view's current version and branches name versions that exist,
\* and its versions schemas that exist: apply_view_updates is only ever
\* committed on metadata whose schemas the transaction knew of.
THEOREM ViewResolvesAlways == Deployment => (Spec => []ViewResolves)
<1> SUFFICES ASSUME Deployment PROVE Spec => []ViewResolves
  OBVIOUS
<1>1. IInv => ViewResolves
  BY DEF IInv, StoredOK, HeldEntry, HeldMetadata, Sound, Resolves, ViewResolves
<1>2. Spec => []IInv
  BY InvariantHolds
<1> QED
  BY <1>1, <1>2, PTL

\* What the swap of a transaction does to the stored view.
LEMMA CommitKeepsHistory ==
  ASSUME IInv, Next
  PROVE  KeepsHistoryStep /\ SameViewStep
<1> SUFFICES ASSUME NEW c \in Clients, Commits(c)
             PROVE  /\ stored'.metadata.uuid = stored.metadata.uuid =>
                         /\ KeepsBut(stored.metadata.versions, stored'.metadata.versions,
                                     MaxKey(task[c].base.versions) + 1)
                         /\ KeepsBut(stored.metadata.schemas, stored'.metadata.schemas,
                                     MaxKey(task[c].base.schemas) + 1)
                    /\ backend = "sql" => \/ stored'.metadata.uuid = task[c].base.uuid
                                          \/ stored'.metadata.versions = stored.metadata.versions
  BY DEF KeepsHistoryStep, SameViewStep
<1>1. task[c].pc = "swap" /\ task'[c].pc = "cache"
  BY DEF Commits
<1>2. task = [x \in Clients |-> task[x]] /\ SwapKnows(task[c], stored, backend)
  BY <1>1 DEF IInv, TypeOK, TasksOK, CallKnows
<1>3. Swap(c)
  <2>1. PICK d \in Clients :
          \/ StartCreate(d) \/ sql_create(d) \/ file_create_view(d) \/ file_create_storage(d)
          \/ sql_drop(d) \/ load_tabular(d)
          \/ \E ops \in Transactions : StartUpdate(d, ops)
          \/ Swap(d) \/ Finish(d) \/ Fail(d)
    BY DEF Next
  <2>2. task' # task
    BY <1>1
  <2>3. PICK t : task' = [task EXCEPT ![d] = t]
    BY <2>1, <2>2 DEF StartCreate, sql_create, file_create_view, file_create_storage, sql_drop,
                      load_tabular, StartUpdate, Swap, Finish, Fail, Goto
  <2>4. d = c
    BY <1>1, <1>2, <2>3
  <2>5. IdleTask.pc = "idle"
    BY DEF IdleTask
  <2>6. ~Fail(c)
    BY <1>1, <1>2, <2>5 DEF Fail, Goto
  <2> QED
    BY <1>1, <2>1, <2>2, <2>4, <2>6
       DEF StartCreate, sql_create, file_create_view, file_create_storage, sql_drop,
           load_tabular, StartUpdate, Finish
<1>4. row_matches(c)
  <2>1. IdleTask.pc = "idle"
    BY DEF IdleTask
  <2> QED
    BY <1>1, <1>2, <1>3, <2>1 DEF Swap, Goto
<1>5. stored' = task[c].entry
  BY <1>3, <1>4 DEF Swap
<1>6. Extends(task[c].entry.metadata, task[c].base, stored, backend)
  BY <1>2, <1>4 DEF SwapKnows, row_matches
<1> QED
  BY <1>5, <1>6 DEF Extends

\* No committed transaction changes a version or a schema the view had when
\* its client held it, or lands on another view of the SQL catalog.
THEOREM ViewHistoryAlways == Deployment => (Spec => ViewHistory)
<1> SUFFICES ASSUME Deployment PROVE Spec => ViewHistory
  OBVIOUS
<1>1. IInv /\ [Next]_vars => [KeepsHistoryStep /\ SameViewStep]_vars
  BY CommitKeepsHistory
<1>2. Spec => []IInv
  BY InvariantHolds
<1> QED
  BY <1>1, <1>2, PTL DEF Spec, ViewHistory

=============================================================================
