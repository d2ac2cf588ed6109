---------------------- MODULE TableTransactionProofs -----------------------
(***************************************************************************)
(* The history of a table stays in order, for any writers, transactions    *)
(* and number of commits: sequence numbers order its snapshots, and no row *)
(* id is assigned twice.                                                   *)
(*                                                                         *)
(* A writer takes its numbers from metadata that may be stale, so nothing  *)
(* can be said of what a transaction asks for beyond the freshness of its  *)
(* snapshot ids (Fresh).  The order is kept where the updates are applied: *)
(* AddSnapshot refuses a sequence number that is not beyond the last and a *)
(* first row id below the table's next one.  Good is the history in order, *)
(* preserved by every update, by the loops of apply_table_updates and      *)
(* commit(), and by writing the metadata file and reading it again.        *)
(***************************************************************************)
EXTENDS TableTransaction, WellFoundedInduction, TLAPS

-----------------------------------------------------------------------------
(* Loops.  A for loop of the code is a recursive function on 0 .. n; that   *)
(* there is such a function, and what holds after every turn, is shown by   *)
(* induction on a set of numbers.                                           *)

\* Induction up to n, with a set in the place of a predicate.
LEMMA Induction ==
  ASSUME NEW n \in Nat, NEW T, 0 \in T,
         \A k \in 0 .. n - 1 : k \in T => k + 1 \in T
  PROVE  \A k \in 0 .. n : k \in T
<1> DEFINE Bad == {k \in 0 .. n : k \notin T}
           R == OpToRel(<, Nat)
<1> SUFFICES ASSUME Bad # {} PROVE FALSE
  OBVIOUS
<1>1. \A x, y \in Nat : x < y => <<x, y>> \in R
  BY DEF OpToRel
<1>2. IsWellFoundedOn(R, Nat)
  BY NatLessThanWellFounded
<1> HIDE DEF R
<1>3. PICK x \in Bad : \A y \in Bad : ~ (<<y, x>> \in R)
  <2>1. Bad \subseteq Nat
    OBVIOUS
  <2> HIDE DEF Bad
  <2>2. QED
    BY <2>1, <1>2, WFMin
<1>4. x \in 0 .. n /\ x # 0 /\ x - 1 \in 0 .. n - 1
  OBVIOUS
<1>5. x - 1 \notin Bad
  <2>1. x \in Nat /\ x - 1 \in Nat /\ x - 1 < x
    BY <1>4
  <2>2. <<x - 1, x>> \in R
    BY <2>1, <1>1
  <2> HIDE DEF Bad
  <2>3. QED
    BY <2>2, <1>3
<1>6. x \in T
  BY <1>4, <1>5
<1>7. QED
  BY <1>6

\* apply_table_updates is the last state of a run of apply_update over the updates.
LEMMA UpdateLoop ==
  ASSUME NEW m, NEW updates, Len(updates) \in Nat
  PROVE  \E g : /\ g[0] = LoopStart(m)
                /\ \A i \in 1 .. Len(updates) : g[i] = apply_update(g[i - 1], updates[i])
                /\ apply_table_updates(m, updates) = g[Len(updates)]
<1> DEFINE n == Len(updates)
           P(k) == \E g : g = [i \in 0 .. k |-> IF i = 0 THEN LoopStart(m)
                                                ELSE apply_update(g[i - 1], updates[i])]
           T == {k \in 0 .. n : P(k)}
           loop == CHOOSE g : g = [i \in 0 .. n |-> IF i = 0 THEN LoopStart(m)
                                                    ELSE apply_update(g[i - 1], updates[i])]
<1>1. P(0)
  <2> DEFINE g == [i \in 0 .. 0 |-> LoopStart(m)]
  <2>1. g = [i \in 0 .. 0 |-> IF i = 0 THEN LoopStart(m) ELSE apply_update(g[i - 1], updates[i])]
    OBVIOUS
  <2>2. QED
    BY <2>1
<1>2. ASSUME NEW k \in 0 .. n - 1, P(k) PROVE P(k + 1)
  <2>1. PICK g : g = [i \in 0 .. k |-> IF i = 0 THEN LoopStart(m)
                                       ELSE apply_update(g[i - 1], updates[i])]
    BY <1>2
  <2> DEFINE h == [i \in 0 .. k + 1 |-> IF i = k + 1 THEN apply_update(g[k], updates[k + 1])
                                        ELSE g[i]]
             e == [i \in 0 .. k + 1 |-> IF i = 0 THEN LoopStart(m)
                                        ELSE apply_update(h[i - 1], updates[i])]
  <2>2. ASSUME NEW i \in 0 .. k + 1 PROVE h[i] = e[i]
    <3>1. CASE i = k + 1
      <4>1. h[i] = apply_update(g[k], updates[k + 1]) /\ h[i - 1] = g[k] /\ i # 0
        BY <3>1
      <4>2. e[i] = apply_update(h[i - 1], updates[i])
        BY <4>1
      <4>3. QED
        BY <4>1, <4>2, <3>1
    <3>2. CASE i # k + 1
      <4>1. i \in 0 .. k /\ h[i] = g[i]
        BY <3>2
      <4>2. CASE i = 0
        BY <2>1, <4>1, <4>2
      <4>3. CASE i # 0
        <5>1. i - 1 \in 0 .. k /\ h[i - 1] = g[i - 1]
          BY <4>1, <4>3
        <5>2. e[i] = apply_update(g[i - 1], updates[i])
          BY <5>1, <4>3
        <5>3. g[i] = apply_update(g[i - 1], updates[i])
          BY <2>1, <4>1, <4>3
        <5>4. QED
          BY <5>2, <5>3, <4>1
      <4>4. QED
        BY <4>2, <4>3
    <3>3. QED
      BY <3>1, <3>2
  <2>3. h = e
    <3> HIDE <2>1
    <3>1. DOMAIN h = DOMAIN e
      OBVIOUS
    <3>2. QED
      BY <2>2
  <2>4. QED
    BY <2>3
<1>3. P(n)
  <2> HIDE DEF P
  <2>1. \A k \in 0 .. n - 1 : k \in T => k + 1 \in T
    BY <1>2
  <2>2. 0 \in T
    BY <1>1
  <2>3. \A k \in 0 .. n : k \in T
    BY <2>1, <2>2, Induction
  <2>4. QED
    BY <2>3
<1>4. loop = [i \in 0 .. n |-> IF i = 0 THEN LoopStart(m)
                               ELSE apply_update(loop[i - 1], updates[i])]
  BY <1>3
<1>5. apply_table_updates(m, updates) = loop[n]
  BY DEF apply_table_updates
<1> HIDE DEF loop
<1>6. loop[0] = LoopStart(m)
  BY <1>4
<1>7. ASSUME NEW i \in 1 .. n PROVE loop[i] = apply_update(loop[i - 1], updates[i])
  BY <1>4
<1>8. QED
  BY <1>5, <1>6, <1>7

\* The same for loops whose states are in a set: f[i] is what turn i does.
IsLoop(g, n, S, a, f) ==
  /\ g \in [0 .. n -> S]
  /\ g[0] = a
  /\ \A i \in 1 .. n : g[i] = f[i][g[i - 1]]

LEMMA TypedLoop ==
  ASSUME NEW n \in Nat, NEW S, NEW a \in S, NEW f \in [1 .. n -> [S -> S]]
  PROVE  \E g : IsLoop(g, n, S, a, f)
<1> DEFINE P(k) == \E g : IsLoop(g, k, S, a, f)
           T == {k \in 0 .. n : P(k)}
<1>1. P(0)
  <2> DEFINE g == [i \in 0 .. 0 |-> a]
  <2>1. IsLoop(g, 0, S, a, f)
    BY DEF IsLoop
  <2>2. QED
    BY <2>1
<1>2. ASSUME NEW k \in 0 .. n - 1, P(k) PROVE P(k + 1)
  <2>1. PICK g : IsLoop(g, k, S, a, f)
    BY <1>2
  <2> DEFINE v == f[k + 1][g[k]]
             h == [i \in 0 .. k + 1 |-> IF i = k + 1 THEN v ELSE g[i]]
  <2>2. g \in [0 .. k -> S] /\ g[0] = a /\ \A i \in 1 .. k : g[i] = f[i][g[i - 1]]
    BY <2>1 DEF IsLoop
  <2>3. v \in S
    <3>1. k + 1 \in 1 .. n /\ g[k] \in S
      BY <2>2
    <3>2. f[k + 1] \in [S -> S]
      BY <3>1
    <3>3. QED
      BY <3>1, <3>2
  <2>4. h[0] = a
    BY <2>2
  <2>5. ASSUME NEW i \in 1 .. k + 1 PROVE h[i] = f[i][h[i - 1]]
    <3>1. CASE i = k + 1
      BY <3>1
    <3>2. CASE i # k + 1
      <4>1. i \in 1 .. k /\ h[i] = g[i] /\ h[i - 1] = g[i - 1]
        BY <3>2
      <4>2. QED
        BY <4>1, <2>2
    <3>3. QED
      BY <3>1, <3>2
  <2>6. h \in [0 .. k + 1 -> S]
    <3> HIDE DEF v
    <3>1. ASSUME NEW i \in 0 .. k + 1 PROVE (IF i = k + 1 THEN v ELSE g[i]) \in S
      BY <2>2, <2>3
    <3>2. QED
      BY <3>1
  <2> HIDE DEF h
  <2>7. IsLoop(h, k + 1, S, a, f)
    BY <2>4, <2>5, <2>6 DEF IsLoop
  <2>8. QED
    BY <2>7
<1> HIDE DEF P
<1>3. \A k \in 0 .. n - 1 : k \in T => k + 1 \in T
  BY <1>2
<1>4. 0 \in T
  BY <1>1
<1>5. \A k \in 0 .. n : k \in T
  BY <1>3, <1>4, Induction
<1>6. P(n)
  BY <1>5
<1>7. QED
  BY <1>6 DEF P

\* What remove_snapshots keeps of the log: kept entries only, in their order.
LEMMA RetainKeeps ==
  ASSUME NEW log \in Seq(Nat), NEW kept
  PROVE  /\ retain(log, kept) \in Seq(Nat)
         /\ \A a \in DOMAIN retain(log, kept) : retain(log, kept)[a] \in kept
         /\ \A a, b \in DOMAIN retain(log, kept) :
              a < b => \E c, d \in DOMAIN log : /\ c < d
                                               /\ retain(log, kept)[a] = log[c]
                                               /\ retain(log, kept)[b] = log[d]
<1> DEFINE n == Len(log)
           next(i, x) == IF log[i] \in kept THEN Append(x, log[i]) ELSE x
           S == Seq(Nat)
           empty == <<>>
           f == [i \in 1 .. n |-> [x \in S |-> next(i, x)]]
           loop == CHOOSE g : g = [i \in 0 .. n |->
                                     IF i = 0 THEN <<>>
                                     ELSE IF log[i] \in kept THEN Append(g[i - 1], log[i])
                                     ELSE g[i - 1]]
<1>1. n \in Nat /\ empty \in S /\ \A i \in 1 .. n : log[i] \in Nat
  OBVIOUS
<1>2. f \in [1 .. n -> [S -> S]]
  <2>1. ASSUME NEW i \in 1 .. n, NEW x \in S PROVE next(i, x) \in S
    BY <1>1
  <2> HIDE DEF next, S, n
  <2>2. QED
    BY <2>1
<1>3. PICK g : IsLoop(g, n, S, empty, f)
  <2> HIDE DEF f, S, empty, n
  <2>1. QED
    BY ONLY <1>1, <1>2, TypedLoop
<1>4. /\ g \in [0 .. n -> S] /\ g[0] = <<>>
      /\ \A i \in 1 .. n : g[i] = next(i, g[i - 1])
  <2> HIDE DEF S, n, next
  <2>1. g \in [0 .. n -> S] /\ g[0] = <<>> /\ \A i \in 1 .. n : g[i] = f[i][g[i - 1]]
    BY <1>3 DEF IsLoop
  <2>2. ASSUME NEW i \in 1 .. n PROVE g[i - 1] \in S
    BY <2>1, <1>1
  <2>3. QED
    BY <2>1, <2>2
<1>5. g = [i \in 0 .. n |-> IF i = 0 THEN <<>>
                            ELSE IF log[i] \in kept THEN Append(g[i - 1], log[i])
                            ELSE g[i - 1]]
  <2> DEFINE e == [i \in 0 .. n |-> IF i = 0 THEN <<>>
                                    ELSE IF log[i] \in kept THEN Append(g[i - 1], log[i])
                                    ELSE g[i - 1]]
  <2>1. ASSUME NEW i \in 0 .. n PROVE g[i] = e[i]
    <3>1. CASE i = 0
      BY <3>1, <1>4
    <3>2. CASE i # 0
      <4>1. i \in 1 .. n
        BY <3>2, <1>1
      <4>2. g[i] = next(i, g[i - 1])
        BY <4>1, <1>4
      <4>3. QED
        BY <4>2, <3>2
    <3>3. QED
      BY <3>1, <3>2
  <2>2. DOMAIN g = 0 .. n /\ DOMAIN e = 0 .. n /\ g = [i \in 0 .. n |-> g[i]]
    BY <1>4
  <2> HIDE DEF n
  <2>3. QED
    BY <2>1, <2>2
<1>6. loop = [i \in 0 .. n |-> IF i = 0 THEN <<>>
                               ELSE IF log[i] \in kept THEN Append(loop[i - 1], log[i])
                               ELSE loop[i - 1]]
  BY <1>5
<1>7. retain(log, kept) = loop[n]
  BY DEF retain
<1> HIDE DEF loop, f
<1> DEFINE Good(k) == /\ loop[k] \in Seq(Nat)
                      /\ \A a \in 1 .. Len(loop[k]) :
                           loop[k][a] \in kept /\ \E c \in 1 .. k : loop[k][a] = log[c]
                      /\ \A a, b \in 1 .. Len(loop[k]) :
                           a < b => \E c, d \in 1 .. k : /\ c < d /\ loop[k][a] = log[c]
                                                         /\ loop[k][b] = log[d]
           T == {k \in 0 .. n : Good(k)}
<1>8. Good(0)
  <2>1. loop[0] = <<>>
    BY <1>1, <1>6
  <2>2. QED
    BY <2>1
<1>9. ASSUME NEW k \in 0 .. n - 1, Good(k) PROVE Good(k + 1)
  <2>1. loop[k + 1] = next(k + 1, loop[k])
    <3>1. k + 1 \in 0 .. n /\ k + 1 # 0 /\ (k + 1) - 1 = k
      BY <1>1
    <3> HIDE DEF n
    <3>2. QED
      BY <3>1, <1>6
  <2>2. CASE log[k + 1] \notin kept
    <3>1. loop[k + 1] = loop[k] /\ \A c \in 1 .. k : c \in 1 .. k + 1
      BY <2>1, <2>2, <1>1
    <3>2. QED
      BY <3>1, <1>9
  <2>3. CASE log[k + 1] \in kept
    <3> DEFINE x == loop[k]
               y == loop[k + 1]
    <3>1. x \in Seq(Nat) /\ y = Append(x, log[k + 1]) /\ log[k + 1] \in Nat
      BY <2>1, <2>3, <1>9, <1>1
    <3>2. /\ y \in Seq(Nat) /\ Len(y) = Len(x) + 1 /\ y[Len(x) + 1] = log[k + 1]
          /\ \A a \in 1 .. Len(x) : y[a] = x[a]
      BY <3>1
    <3>3. ASSUME NEW a \in 1 .. Len(y)
          PROVE  y[a] \in kept /\ \E c \in 1 .. k + 1 : y[a] = log[c]
      <4>1. CASE a = Len(x) + 1
        BY <4>1, <3>2, <2>3, <1>1
      <4>2. CASE a # Len(x) + 1
        <5>1. a \in 1 .. Len(x) /\ y[a] = x[a]
          BY <4>2, <3>1, <3>2
        <5>2. x[a] \in kept /\ \E c \in 1 .. k : x[a] = log[c]
          BY <5>1, <1>9
        <5>3. PICK c \in 1 .. k : x[a] = log[c]
          BY <5>2
        <5>4. c \in 1 .. k + 1
          BY <1>1
        <5>5. QED
          BY ONLY <5>1, <5>2, <5>3, <5>4
      <4>3. QED
        BY <4>1, <4>2
    <3>4. ASSUME NEW a \in 1 .. Len(y), NEW b \in 1 .. Len(y), a < b
          PROVE  \E c, d \in 1 .. k + 1 : c < d /\ y[a] = log[c] /\ y[b] = log[d]
      <4>1. a \in 1 .. Len(x) /\ y[a] = x[a]
        BY <3>4, <3>1, <3>2
      <4>2. CASE b = Len(x) + 1
        <5>1. PICK c \in 1 .. k : x[a] = log[c]
          BY <4>1, <1>9
        <5>2. c < k + 1 /\ y[b] = log[k + 1]
          BY <4>2, <3>2
        <5>3. QED
          BY <5>1, <5>2, <4>1
      <4>3. CASE b # Len(x) + 1
        <5>1. b \in 1 .. Len(x) /\ y[b] = x[b]
          <6>1. Len(x) \in Nat /\ b \in 1 .. Len(x) + 1
            BY <3>1, <3>2
          <6>2. b \in 1 .. Len(x)
            BY <6>1, <4>3
          <6>3. QED
            BY <6>2, <3>2
        <5>2. PICK c \in 1 .. k, d \in 1 .. k : c < d /\ x[a] = log[c] /\ x[b] = log[d]
          BY <5>1, <4>1, <3>4, <1>9
        <5>3. QED
          BY <5>1, <5>2, <4>1
      <4>4. QED
        BY <4>2, <4>3
    <3>5. QED
      BY <3>2, <3>3, <3>4
  <2>4. QED
    BY <2>2, <2>3
<1> HIDE DEF Good
<1>10. \A k \in 0 .. n - 1 : k \in T => k + 1 \in T
  BY <1>9
<1>11. 0 \in T
  BY <1>8, <1>1
<1>12. Good(n)
  <2>1. \A k \in 0 .. n : k \in T
    BY <1>1, <1>10, <1>11, Induction
  <2>2. QED
    BY <1>1, <2>1
<1> DEFINE r == loop[n]
<1>13. /\ r \in Seq(Nat)
       /\ \A a \in 1 .. Len(r) : r[a] \in kept
       /\ \A a, b \in 1 .. Len(r) :
            a < b => \E c, d \in 1 .. n : c < d /\ r[a] = log[c] /\ r[b] = log[d]
  BY <1>12 DEF Good
<1>14. DOMAIN log = 1 .. n
  OBVIOUS
<1> HIDE DEF n, r
<1>15. DOMAIN r = 1 .. Len(r)
  BY <1>13
<1>16. retain(log, kept) = r
  BY <1>7 DEF r
<1>17. /\ r \in Seq(Nat)
       /\ \A a \in DOMAIN r : r[a] \in kept
       /\ \A a, b \in DOMAIN r :
            a < b => \E c, d \in DOMAIN log : c < d /\ r[a] = log[c] /\ r[b] = log[d]
  <2>1. ASSUME NEW a \in DOMAIN r, NEW b \in DOMAIN r, a < b
        PROVE  \E c, d \in DOMAIN log : c < d /\ r[a] = log[c] /\ r[b] = log[d]
    <3>1. a \in 1 .. Len(r) /\ b \in 1 .. Len(r)
      BY <1>15
    <3>2. PICK c \in 1 .. n, d \in 1 .. n : c < d /\ r[a] = log[c] /\ r[b] = log[d]
      BY <3>1, <2>1, <1>13
    <3>3. QED
      BY <3>2, <1>14
  <2>2. \A a \in DOMAIN r : r[a] \in kept
    BY <1>13, <1>15
  <2>3. QED
    BY ONLY <2>1, <2>2, <1>13
<1>18. QED
  BY ONLY <1>16, <1>17

-----------------------------------------------------------------------------
(* The invariant *)

\* A snapshot with the id b: its parent has a smaller id.
SnapshotOK(s, id) ==
  /\ s.sequence_number \in Nat
  /\ s.parent \in {None} \cup 1 .. id - 1
  /\ s.first_row_id \in Nat \cup {None}
  /\ s.added_rows \in Nat \cup {None}

\* Metadata whose history is in order.
Good(m) ==
  /\ DOMAIN m = TableMetadataV3_fields
  /\ m.format_version \in 1 .. 3
  /\ m.last_sequence_number \in Nat
  /\ m.next_row_id \in Nat
  /\ DOMAIN m.snapshots \subseteq Nat \ {0}
  /\ \A id \in DOMAIN m.snapshots : SnapshotOK(m.snapshots[id], id)
  /\ m.snapshot_log \in Seq(Nat)
  /\ \A a \in DOMAIN m.snapshot_log : m.snapshot_log[a] \in DOMAIN m.snapshots
  /\ m.format_version # 1 => HistoryOrdered(m)
  /\ m.format_version = 3 =>
       /\ \A id \in DOMAIN m.snapshots : m.snapshots[id].first_row_id \in Nat
                                         /\ m.snapshots[id].added_rows \in Nat
       /\ RowRangesDisjoint(m)

\* The snapshots of m have ids below b.
Below(m, b) == \A id \in DOMAIN m.snapshots : id < b

IInv ==
  /\ nextId \in Nat \ {0}
  /\ Good(metadata) /\ Below(metadata, nextId)
  /\ DOMAIN handle = Writers
  /\ \A w \in Writers : Good(handle[w]) /\ Below(handle[w], nextId)

-----------------------------------------------------------------------------
(* One update *)

\* m2 is m but for fields the invariant does not read.
SameHistory(m2, m) ==
  /\ DOMAIN m2 = DOMAIN m
  /\ m2.format_version = m.format_version
  /\ m2.snapshots = m.snapshots
  /\ m2.snapshot_log = m.snapshot_log
  /\ m2.last_sequence_number = m.last_sequence_number
  /\ m2.next_row_id = m.next_row_id

LEMMA SameGood ==
  ASSUME NEW m, NEW m2, Good(m), SameHistory(m2, m)
  PROVE  Good(m2) /\ \A b : Below(m, b) => Below(m2, b)
BY DEF Good, SameHistory, HistoryOrdered, RowRangesDisjoint, Below

\* What add_snapshot makes of m.
Added(m2, m, id, s) ==
  /\ DOMAIN m2 = DOMAIN m
  /\ m2.format_version = m.format_version
  /\ m2.snapshots = Insert(m.snapshots, id, s)
  /\ m2.snapshot_log = Append(m.snapshot_log, id)
  /\ m2.last_sequence_number = s.sequence_number
  /\ m2.next_row_id = IF m.format_version = 3 THEN s.first_row_id + s.added_rows
                      ELSE m.next_row_id

\* The checks of add_snapshot keep the history in order, if the id is new.
LEMMA AddSnapshotGood ==
  ASSUME NEW m, Good(m), NEW id \in Nat \ {0}, Below(m, id), NEW s, SnapshotOK(s, id),
         ~SequenceStale(m, s), m.format_version = 3 => LineageValid(m, s),
         NEW m2, Added(m2, m, id, s)
  PROVE  Good(m2) /\ DOMAIN m2.snapshots = DOMAIN m.snapshots \cup {id}
<1> USE DEF Added
<1> DEFINE old == DOMAIN m.snapshots
           log == m.snapshot_log
<1>1. /\ DOMAIN m2.snapshots = old \cup {id} /\ m2.snapshots[id] = s /\ id \notin old
      /\ \A i \in old : m2.snapshots[i] = m.snapshots[i] /\ i # id /\ i < id /\ i \in Nat \ {0}
  <2>1. id \notin old /\ \A i \in old : i < id /\ i \in Nat \ {0}
    BY DEF Good, Below
  <2>2. DOMAIN m2.snapshots = old \cup {id}
    BY DEF Insert, Extend
  <2>3. m2.snapshots[id] = s /\ \A i \in old : m2.snapshots[i] = m.snapshots[i]
    BY <2>1 DEF Insert, Extend
  <2>4. QED
    BY <2>1, <2>2, <2>3
<1>2. /\ DOMAIN m = TableMetadataV3_fields /\ m.format_version \in 1 .. 3
      /\ m.last_sequence_number \in Nat /\ m.next_row_id \in Nat
      /\ \A i \in old : SnapshotOK(m.snapshots[i], i)
      /\ log \in Seq(Nat) /\ \A a \in DOMAIN log : log[a] \in old
  BY DEF Good
<1>3. /\ s.sequence_number \in Nat /\ s.parent \in {None} \cup 1 .. id - 1
      /\ s.first_row_id \in Nat \cup {None} /\ s.added_rows \in Nat \cup {None}
  BY DEF SnapshotOK
<1>4. /\ m2.snapshot_log \in Seq(Nat) /\ Len(m2.snapshot_log) = Len(log) + 1
      /\ DOMAIN m2.snapshot_log = 1 .. Len(log) + 1 /\ DOMAIN log = 1 .. Len(log) /\ Len(log) \in Nat
      /\ m2.snapshot_log[Len(log) + 1] = id /\ \A a \in 1 .. Len(log) : m2.snapshot_log[a] = log[a]
  BY <1>2
<1>5. m.format_version = 3 =>
        /\ s.first_row_id \in Nat /\ s.added_rows \in Nat /\ s.first_row_id >= m.next_row_id
  BY <1>3 DEF LineageValid
<1>6. m2.format_version # 1 => HistoryOrdered(m2)
  <2> SUFFICES ASSUME m.format_version # 1 PROVE HistoryOrdered(m2)
    OBVIOUS
  <2> DEFINE seq(i) == m.snapshots[i].sequence_number
             seq2(i) == m2.snapshots[i].sequence_number
  <2>1. s.sequence_number > m.last_sequence_number
    BY <1>2, <1>3 DEF SequenceStale
  <2>2. /\ \A i, j \in old : i # j => seq(i) # seq(j)
        /\ \A i \in old : seq(i) \in Nat /\ seq(i) <= m.last_sequence_number
        /\ \A i \in old : m.snapshots[i].parent \in old => seq(m.snapshots[i].parent) < seq(i)
        /\ \A a, b \in DOMAIN log : a < b => seq(log[a]) < seq(log[b])
    BY <1>2 DEF Good, HistoryOrdered, SnapshotOK
  <2>3. /\ seq2(id) = s.sequence_number
        /\ \A i \in old : seq2(i) = seq(i) /\ seq2(i) < s.sequence_number
    BY <1>1, <1>2, <1>3, <2>1, <2>2
  <2>4. ASSUME NEW i \in old \cup {id}, NEW j \in old \cup {id}, i # j PROVE seq2(i) # seq2(j)
    BY <2>2, <2>3, <2>4, <1>3
  <2>5. ASSUME NEW i \in old \cup {id} PROVE seq2(i) <= s.sequence_number
    BY <2>2, <2>3, <1>3
  <2>6. ASSUME NEW i \in old \cup {id}, m2.snapshots[i].parent \in old \cup {id}
        PROVE  seq2(m2.snapshots[i].parent) < seq2(i)
    <3>1. CASE i = id
      <4>1. m2.snapshots[i].parent = s.parent
        BY <3>1, <1>1
      <4>2. s.parent # id
        BY <1>3, RowIdAssumption
      <4>3. QED
        BY <4>1, <4>2, <2>3, <2>6, <3>1
    <3>2. CASE i \in old
      <4>1. m2.snapshots[i].parent = m.snapshots[i].parent
        BY <3>2, <1>1
      <4>2. m.snapshots[i].parent # id
        BY <3>2, <1>1, <1>2, RowIdAssumption DEF SnapshotOK
      <4>3. m.snapshots[i].parent \in old
        BY <4>1, <4>2, <2>6
      <4>4. QED
        BY <4>1, <4>3, <2>2, <2>3, <3>2
    <3>3. QED
      BY <3>1, <3>2
  <2>7. ASSUME NEW a \in DOMAIN m2.snapshot_log, NEW b \in DOMAIN m2.snapshot_log, a < b
        PROVE  seq2(m2.snapshot_log[a]) < seq2(m2.snapshot_log[b])
    <3>1. a \in 1 .. Len(log) /\ m2.snapshot_log[a] = log[a] /\ log[a] \in old
      BY <1>2, <1>4, <2>7
    <3>2. CASE b = Len(log) + 1
      BY <3>1, <3>2, <1>4, <2>3
    <3>3. CASE b # Len(log) + 1
      <4>1. b \in 1 .. Len(log) /\ m2.snapshot_log[b] = log[b] /\ log[b] \in old
        BY <1>2, <1>4, <3>3
      <4>2. seq(log[a]) < seq(log[b])
        BY <4>1, <3>1, <2>2, <2>7, <1>4
      <4>3. seq2(log[a]) = seq(log[a]) /\ seq2(log[b]) = seq(log[b])
        BY <4>1, <3>1, <2>3
      <4>4. QED
        BY <4>1, <3>1, <4>2, <4>3
    <3>4. QED
      BY <3>2, <3>3
  <2>8. QED
    BY <1>1, <2>4, <2>5, <2>6, <2>7 DEF HistoryOrdered
<1>7. ASSUME m.format_version = 3
      PROVE  /\ \A i \in old \cup {id} : m2.snapshots[i].first_row_id \in Nat
                                         /\ m2.snapshots[i].added_rows \in Nat
             /\ RowRangesDisjoint(m2)
  <2>1. \A i \in old : m.snapshots[i].first_row_id \in Nat /\ m.snapshots[i].added_rows \in Nat
    BY <1>7 DEF Good
  <2>2. RowRangesDisjoint(m)
    BY <1>7 DEF Good
  <2>3. /\ s.first_row_id \in Nat /\ s.added_rows \in Nat /\ s.first_row_id >= m.next_row_id
        /\ m2.next_row_id = s.first_row_id + s.added_rows
    BY <1>5, <1>7
  <2>4. \A i \in old \cup {id} : m2.snapshots[i].first_row_id \in Nat
                                 /\ m2.snapshots[i].added_rows \in Nat
    BY <1>1, <2>1, <2>3
  <2> DEFINE first(i) == m2.snapshots[i].first_row_id
             end(i) == first(i) + m2.snapshots[i].added_rows
  <2>5. \A i \in old : end(i) <= m.next_row_id
    BY <1>1, <2>2 DEF RowRangesDisjoint
  <2>6. \A i, j \in old : i # j => end(i) <= first(j) \/ end(j) <= first(i)
    BY <1>1, <2>2 DEF RowRangesDisjoint
  <2>7. first(id) = s.first_row_id /\ end(id) = m2.next_row_id
    BY <1>1, <2>3
  <2>8. \A i \in old : end(i) <= first(id) /\ end(i) <= m2.next_row_id
    <3>1. \A i \in old : end(i) \in Nat
      BY <1>1, <2>1
    <3>2. QED
      BY <3>1, <1>2, <2>3, <2>5, <2>7
  <2>9. \A i \in old \cup {id} : end(i) <= m2.next_row_id
    BY <2>3, <2>7, <2>8
  <2>10. \A i, j \in old \cup {id} : i # j => end(i) <= first(j) \/ end(j) <= first(i)
    BY <2>6, <2>8
  <2>11. QED
    BY <1>1, <2>4, <2>9, <2>10 DEF RowRangesDisjoint
<1>8. \A i \in DOMAIN m2.snapshots : i \in Nat \ {0} /\ SnapshotOK(m2.snapshots[i], i)
  BY <1>1, <1>2
<1>9. \A a \in DOMAIN m2.snapshot_log : m2.snapshot_log[a] \in DOMAIN m2.snapshots
  BY <1>1, <1>2, <1>4
<1>10. m2.next_row_id \in Nat
  BY <1>2, <1>5
<1>11. QED
  BY <1>1, <1>2, <1>3, <1>4, <1>6, <1>7, <1>8, <1>9, <1>10 DEF Good

\* What remove_snapshots makes of m.
Removed(m2, m, ids) ==
  /\ DOMAIN m2 = DOMAIN m
  /\ m2.format_version = m.format_version
  /\ m2.last_sequence_number = m.last_sequence_number
  /\ m2.next_row_id = m.next_row_id
  /\ m2.snapshots = Restrict(m.snapshots, DOMAIN m.snapshots \ ids)
  /\ m2.snapshot_log = retain(m.snapshot_log, DOMAIN m2.snapshots)

LEMMA RemoveSnapshotsGood ==
  ASSUME NEW m, Good(m), NEW ids, NEW m2, Removed(m2, m, ids)
  PROVE  Good(m2) /\ DOMAIN m2.snapshots \subseteq DOMAIN m.snapshots
<1> USE DEF Removed
<1> DEFINE old == DOMAIN m.snapshots
           new == DOMAIN m2.snapshots
           log == m.snapshot_log
           log2 == m2.snapshot_log
<1>1. new \subseteq old /\ \A i \in new : m2.snapshots[i] = m.snapshots[i]
  BY DEF Restrict
<1>2. log \in Seq(Nat) /\ \A a \in DOMAIN log : log[a] \in old
  BY DEF Good
<1>3. /\ log2 \in Seq(Nat)
      /\ \A a \in DOMAIN log2 : log2[a] \in new
      /\ \A a, b \in DOMAIN log2 :
           a < b => \E c, d \in DOMAIN log : c < d /\ log2[a] = log[c] /\ log2[b] = log[d]
  <2>1. log2 = retain(log, new)
    OBVIOUS
  <2> HIDE DEF log, log2, new
  <2>2. /\ retain(log, new) \in Seq(Nat)
        /\ \A a \in DOMAIN retain(log, new) : retain(log, new)[a] \in new
        /\ \A a, b \in DOMAIN retain(log, new) :
             a < b => \E c, d \in DOMAIN log : /\ c < d
                                              /\ retain(log, new)[a] = log[c]
                                              /\ retain(log, new)[b] = log[d]
    BY ONLY <1>2, RetainKeeps
  <2>3. QED
    BY ONLY <2>1, <2>2
<1>4. ASSUME m.format_version # 1 PROVE HistoryOrdered(m2)
  <2> DEFINE seq(i) == m.snapshots[i].sequence_number
  <2>1. /\ \A i, j \in old : i # j => seq(i) # seq(j)
        /\ \A i \in old : seq(i) <= m.last_sequence_number
        /\ \A i \in old : m.snapshots[i].parent \in old => seq(m.snapshots[i].parent) < seq(i)
        /\ \A a, b \in DOMAIN log : a < b => seq(log[a]) < seq(log[b])
    BY <1>4 DEF Good, HistoryOrdered
  <2>2. ASSUME NEW a \in DOMAIN log2, NEW b \in DOMAIN log2, a < b
        PROVE  m2.snapshots[log2[a]].sequence_number < m2.snapshots[log2[b]].sequence_number
    <3>1. PICK c \in DOMAIN log, d \in DOMAIN log : c < d /\ log2[a] = log[c] /\ log2[b] = log[d]
      BY <1>3, <2>2
    <3>2. seq(log2[a]) < seq(log2[b])
      BY <3>1, <2>1
    <3>3. QED
      BY <3>2, <1>1, <1>3
  <2>3. QED
    BY <1>1, <2>1, <2>2 DEF HistoryOrdered
<1>5. m.format_version = 3 => RowRangesDisjoint(m2)
  BY <1>1 DEF Good, RowRangesDisjoint
<1>6. QED
  BY <1>1, <1>3, <1>4, <1>5 DEF Good

\* What an update brings: a known type and, with a snapshot, an id.
UpdateOK(u) ==
  /\ u.type \in DOMAIN TableUpdate_fields
  /\ u.type = "AddSnapshot" => /\ u.snapshot_id \in Nat \ {0}
                               /\ SnapshotOK(u.snapshot, u.snapshot_id)

\* The state of the loop.
LoopOK(l) == DOMAIN l = {"metadata", "schema", "spec", "order", "ok"} /\ Good(l.metadata)

\* Only two kinds of update touch the history.
LEMMA OtherUpdates ==
  ASSUME NEW l, LoopOK(l), NEW u, UpdateOK(u), u.type \notin {"AddSnapshot", "RemoveSnapshots"}
  PROVE  /\ DOMAIN apply_update(l, u) = DOMAIN l
         /\ SameHistory(apply_update(l, u).metadata, l.metadata)
<1> DEFINE r == apply_update(l, u)
<1>1. DOMAIN l = {"metadata", "schema", "spec", "order", "ok"}
      /\ DOMAIN l.metadata = TableMetadataV3_fields
  BY DEF LoopOK, Good
<1>2. u.type \in {"AssignUuid", "UpgradeFormatVersion", "AddSchema", "SetCurrentSchema", "AddSpec",
                  "SetDefaultSpec", "AddSortOrder", "SetDefaultSortOrder", "SetSnapshotRef",
                  "RemoveSnapshotRef", "SetLocation", "SetProperties", "RemoveProperties"}
  BY DEF UpdateOK, TableUpdate_fields
<1>3. r.metadata = l.metadata /\ DOMAIN r = DOMAIN l => SameHistory(r.metadata, l.metadata)
  BY DEF SameHistory
<1>4. CASE ~l.ok
  BY <1>3, <1>4 DEF apply_update
<1>5. CASE l.ok
  <2> USE <1>1, <1>5 DEF apply_update, SameHistory, TableMetadataV3_fields,
                       TableMetadataV2_fields, TableMetadataV1_fields
  <2>1. CASE u.type = "UpgradeFormatVersion"
    BY <2>1 DEF Fail
  <2>2. CASE u.type = "AssignUuid"
    BY <2>2
  <2>3. CASE u.type = "AddSchema"
    BY <2>3 DEF add_schema
  <2>4. CASE u.type = "SetCurrentSchema"
    BY <2>4 DEF set_current_schema, Fail
  <2>5. CASE u.type = "AddSpec"
    BY <2>5 DEF add_spec
  <2>6. CASE u.type = "SetDefaultSpec"
    BY <2>6 DEF set_default_spec, Fail
  <2>7. CASE u.type = "AddSortOrder"
    BY <2>7 DEF add_sort_order
  <2>8. CASE u.type = "SetDefaultSortOrder"
    BY <2>8 DEF set_default_sort_order, Fail
  <2>9. CASE u.type = "SetSnapshotRef"
    BY <2>9 DEF set_snapshot_ref
  <2>10. CASE u.type = "RemoveSnapshotRef"
    BY <2>10 DEF remove_snapshot_ref
  <2>11. CASE u.type = "SetLocation"
    BY <2>11
  <2>12. CASE u.type = "SetProperties"
    BY <2>12
  <2>13. CASE u.type = "RemoveProperties"
    BY <2>13
  <2>14. QED
    BY ONLY <1>2, <2>1, <2>2, <2>3, <2>4, <2>5, <2>6, <2>7, <2>8, <2>9, <2>10, <2>11, <2>12, <2>13
<1>6. QED
  BY <1>4, <1>5

\* One turn of apply_table_updates: a snapshot it adds has a new id.
LEMMA UpdateGood ==
  ASSUME NEW l, LoopOK(l), NEW u, UpdateOK(u),
         u.type = "AddSnapshot" => Below(l.metadata, u.snapshot_id)
  PROVE  /\ LoopOK(apply_update(l, u))
         /\ \A id \in DOMAIN apply_update(l, u).metadata.snapshots :
              \/ id \in DOMAIN l.metadata.snapshots
              \/ u.type = "AddSnapshot" /\ id = u.snapshot_id
<1> DEFINE r == apply_update(l, u)
           m == l.metadata
           m2 == r.metadata
<1>1. DOMAIN l = {"metadata", "schema", "spec", "order", "ok"} /\ Good(m)
      /\ DOMAIN m = TableMetadataV3_fields
  BY DEF LoopOK, Good
<1>2. CASE ~l.ok
  <2>1. r = l
    BY <1>2 DEF apply_update
  <2>2. QED
    BY <2>1
<1>3. CASE l.ok /\ u.type = "AddSnapshot"
  <2>1. r = add_snapshot(l, u)
    BY <1>3 DEF apply_update
  <2> DEFINE s == u.snapshot
  <2>2. CASE SequenceStale(m, s) \/ (m.format_version = 3 /\ ~LineageValid(m, s))
    <3>1. r = Fail(l)
      BY <2>1, <2>2 DEF add_snapshot
    <3>2. m2 = m /\ DOMAIN r = DOMAIN l
      BY <3>1, <1>1 DEF Fail
    <3>3. QED
      BY <3>2 DEF LoopOK
  <2>3. CASE ~(SequenceStale(m, s) \/ (m.format_version = 3 /\ ~LineageValid(m, s)))
    <3>1. DOMAIN r = DOMAIN l /\ Added(m2, m, u.snapshot_id, s)
      <4>1. /\ DOMAIN r = DOMAIN l
            /\ m2 = [m EXCEPT !.next_row_id = IF m.format_version = 3
                                              THEN s.first_row_id + s.added_rows ELSE @,
                              !.snapshot_log = Append(@, u.snapshot_id),
                              !.last_sequence_number = s.sequence_number,
                              !.snapshots = Insert(@, u.snapshot_id, s)]
        BY <2>1, <2>3, <1>1 DEF add_snapshot, With
      <4> HIDE DEF r, m, m2, s
      <4>2. QED
        BY <1>1, <4>1 DEF Added, TableMetadataV3_fields, TableMetadataV2_fields,
                          TableMetadataV1_fields
    <3>2. /\ u.snapshot_id \in Nat \ {0} /\ SnapshotOK(s, u.snapshot_id)
          /\ Below(m, u.snapshot_id) /\ ~SequenceStale(m, s)
          /\ m.format_version = 3 => LineageValid(m, s)
      BY <1>3, <2>3 DEF UpdateOK
    <3>3. Good(m2) /\ DOMAIN m2.snapshots = DOMAIN m.snapshots \cup {u.snapshot_id}
      <4> HIDE DEF r, m, m2, s
      <4>1. QED
        BY ONLY <1>1, <3>1, <3>2, AddSnapshotGood
    <3>4. QED
      BY <3>1, <3>3, <1>1, <1>3 DEF LoopOK
  <2>4. QED
    BY <2>2, <2>3
<1>4. CASE l.ok /\ u.type = "RemoveSnapshots"
  <2>1. r = remove_snapshots(l, u)
    BY <1>4 DEF apply_update
  <2>2. DOMAIN r = DOMAIN l /\ Removed(m2, m, u.snapshot_ids)
    <3> DEFINE kept == Restrict(m.snapshots, DOMAIN m.snapshots \ u.snapshot_ids)
    <3>1. /\ DOMAIN r = DOMAIN l
          /\ m2 = [m EXCEPT !.snapshots = kept, !.snapshot_log = retain(@, DOMAIN kept)]
      BY <2>1, <1>1 DEF remove_snapshots
    <3> HIDE DEF r, m, m2, kept
    <3>2. /\ DOMAIN m2 = DOMAIN m /\ m2.snapshots = kept
          /\ m2.snapshot_log = retain(m.snapshot_log, DOMAIN kept)
          /\ m2.format_version = m.format_version
          /\ m2.last_sequence_number = m.last_sequence_number /\ m2.next_row_id = m.next_row_id
      BY <1>1, <3>1 DEF TableMetadataV3_fields, TableMetadataV2_fields, TableMetadataV1_fields
    <3>3. QED
      BY <3>1, <3>2 DEF Removed, kept
  <2>3. Good(m2) /\ DOMAIN m2.snapshots \subseteq DOMAIN m.snapshots
    <3> HIDE DEF r, m, m2
    <3>1. QED
      BY ONLY <1>1, <2>2, RemoveSnapshotsGood
  <2>4. QED
    BY <2>2, <2>3, <1>1 DEF LoopOK
<1>5. CASE u.type \notin {"AddSnapshot", "RemoveSnapshots"}
  <2>1. DOMAIN r = DOMAIN l /\ SameHistory(m2, m)
    BY <1>5, OtherUpdates
  <2>2. Good(m2)
    <3> HIDE DEF r, m, m2
    <3>1. QED
      BY ONLY <1>1, <2>1, SameGood
  <2>3. QED
    BY <2>1, <2>2, <1>1 DEF LoopOK, SameHistory
<1>6. QED
  BY <1>2, <1>3, <1>4, <1>5

-----------------------------------------------------------------------------
(* All the updates of a commit *)

\* A commit whose snapshots have new ids, from b to c - 1 and rising.
Fresh(us, b, c) ==
  /\ Len(us) \in Nat /\ \E S : us \in Seq(S)
  /\ \A i \in 1 .. Len(us) :
       /\ UpdateOK(us[i])
       /\ us[i].type = "AddSnapshot" => b <= us[i].snapshot_id /\ us[i].snapshot_id < c
  /\ \A i, j \in 1 .. Len(us) :
       i < j /\ us[i].type = "AddSnapshot" /\ us[j].type = "AddSnapshot"
         => us[i].snapshot_id < us[j].snapshot_id

LEMMA UpdatesGood ==
  ASSUME NEW m, Good(m), NEW b \in Nat, NEW c \in Nat, b <= c, Below(m, b),
         NEW us, Fresh(us, b, c)
  PROVE  /\ Good(apply_table_updates(m, us).metadata)
         /\ Below(apply_table_updates(m, us).metadata, c)
<1> DEFINE n == Len(us)
<1>1. PICK g : /\ g[0] = LoopStart(m)
               /\ \A i \in 1 .. n : g[i] = apply_update(g[i - 1], us[i])
               /\ apply_table_updates(m, us) = g[n]
  <2>1. n \in Nat
    BY DEF Fresh
  <2>2. QED
    BY <2>1, UpdateLoop
<1>2. /\ n \in Nat
      /\ \A i \in 1 .. n : /\ UpdateOK(us[i])
                           /\ us[i].type = "AddSnapshot" => us[i].snapshot_id \in Nat
                                                            /\ b <= us[i].snapshot_id
                                                            /\ us[i].snapshot_id < c
      /\ \A i, j \in 1 .. n :
           i < j /\ us[i].type = "AddSnapshot" /\ us[j].type = "AddSnapshot"
             => us[i].snapshot_id < us[j].snapshot_id
  BY DEF Fresh, UpdateOK
<1> DEFINE P(k) == /\ LoopOK(g[k]) /\ Below(g[k].metadata, c)
                   /\ \A j \in k + 1 .. n :
                        us[j].type = "AddSnapshot" => Below(g[k].metadata, us[j].snapshot_id)
           T == {k \in 0 .. n : P(k)}
<1> HIDE DEF n
<1>3. P(0)
  <2>1. g[0].metadata = m /\ DOMAIN g[0] = {"metadata", "schema", "spec", "order", "ok"}
    BY <1>1 DEF LoopStart
  <2>2. \A id \in DOMAIN m.snapshots : id \in Nat /\ id < b
    BY DEF Good, Below
  <2>3. \A d \in Nat : b <= d => Below(m, d)
    BY <2>2 DEF Below
  <2>4. QED
    BY <2>1, <2>3, <1>2 DEF LoopOK
<1>4. ASSUME NEW k \in 0 .. n - 1, P(k) PROVE P(k + 1)
  <2> DEFINE l == g[k]
             u == us[k + 1]
             r == apply_update(l, u)
  <2>1. k + 1 \in 1 .. n /\ g[k + 1] = r
    <3>1. k + 1 \in 1 .. n /\ (k + 1) - 1 = k
      BY <1>2
    <3>2. QED
      BY <3>1, <1>1
  <2>2. LoopOK(l) /\ UpdateOK(u) /\ (u.type = "AddSnapshot" => Below(l.metadata, u.snapshot_id))
    <3>1. k + 1 \in k + 1 .. n
      BY <1>2
    <3>2. QED
      BY <1>2, <1>4, <2>1, <3>1
  <2>3. /\ LoopOK(r)
        /\ \A id \in DOMAIN r.metadata.snapshots :
             \/ id \in DOMAIN l.metadata.snapshots
             \/ u.type = "AddSnapshot" /\ id = u.snapshot_id
    <3> HIDE DEF l, u
    <3>1. QED
      BY <2>2, UpdateGood
  <2>4. Below(r.metadata, c)
    BY <1>2, <1>4, <2>1, <2>3 DEF Below
  <2>5. ASSUME NEW j \in (k + 1) + 1 .. n, us[j].type = "AddSnapshot"
        PROVE  Below(r.metadata, us[j].snapshot_id)
    <3>1. j \in k + 1 .. n /\ j \in 1 .. n /\ k + 1 < j
      BY <1>2
    <3>2. Below(l.metadata, us[j].snapshot_id)
      BY <3>1, <1>4, <2>5
    <3>3. u.type = "AddSnapshot" => u.snapshot_id < us[j].snapshot_id
      BY <3>1, <2>1, <2>5, <1>2
    <3> HIDE DEF l, u, r
    <3>4. QED
      BY <3>2, <3>3, <2>3 DEF Below
  <2>6. QED
    BY <2>1, <2>3, <2>4, <2>5
<1> HIDE DEF P
<1>5. \A k \in 0 .. n - 1 : k \in T => k + 1 \in T
  BY <1>4, <1>2
<1>6. 0 \in T
  BY <1>3, <1>2
<1>7. P(n)
  <2>1. \A k \in 0 .. n : k \in T
    BY <1>2, <1>5, <1>6, Induction
  <2>2. QED
    BY <1>2, <2>1
<1>8. QED
  BY <1>1, <1>7 DEF P, LoopOK

-----------------------------------------------------------------------------
(* Executing operations *)

\* The counts that end up in sequence numbers and row ids.
OpOK(op) ==
  /\ op.type \in {"Append", "Overwrite"} => "n" \in DOMAIN op /\ op.n \in Nat
  /\ op.type = "AppendSequenceGroups" => "groups" \in DOMAIN op /\ op.groups \in Seq(Nat)

LEMMA TotalNat ==
  ASSUME NEW counts \in Seq(Nat)
  PROVE  Total(counts) \in Nat
<1> DEFINE n == Len(counts)
           S == Nat
           zero == 0
           f == [i \in 1 .. n |-> [x \in S |-> x + counts[i]]]
           sum == CHOOSE g : g = [i \in 0 .. n |-> IF i = 0 THEN 0 ELSE g[i - 1] + counts[i]]
<1>1. n \in Nat /\ zero \in S /\ \A i \in 1 .. n : counts[i] \in Nat
  OBVIOUS
<1>2. f \in [1 .. n -> [S -> S]]
  <2>1. ASSUME NEW i \in 1 .. n, NEW x \in S PROVE x + counts[i] \in S
    BY <1>1
  <2> HIDE DEF S, n
  <2>2. QED
    BY <2>1
<1>3. PICK g : IsLoop(g, n, S, zero, f)
  <2> HIDE DEF f, S, zero, n
  <2>1. QED
    BY ONLY <1>1, <1>2, TypedLoop
<1>4. /\ g \in [0 .. n -> S] /\ g[0] = 0
      /\ \A i \in 1 .. n : g[i] = g[i - 1] + counts[i]
  <2> HIDE DEF S, n
  <2>1. g \in [0 .. n -> S] /\ g[0] = 0 /\ \A i \in 1 .. n : g[i] = f[i][g[i - 1]]
    BY <1>3 DEF IsLoop
  <2>2. ASSUME NEW i \in 1 .. n PROVE g[i - 1] \in S
    BY <2>1, <1>1
  <2>3. QED
    BY <2>1, <2>2
<1>5. g = [i \in 0 .. n |-> IF i = 0 THEN 0 ELSE g[i - 1] + counts[i]]
  <2> DEFINE e == [i \in 0 .. n |-> IF i = 0 THEN 0 ELSE g[i - 1] + counts[i]]
  <2>1. ASSUME NEW i \in 0 .. n PROVE g[i] = e[i]
    BY <1>1, <1>4
  <2>2. DOMAIN g = 0 .. n /\ DOMAIN e = 0 .. n /\ g = [i \in 0 .. n |-> g[i]]
    BY <1>4
  <2> HIDE DEF n
  <2>3. QED
    BY <2>1, <2>2
<1>6. sum = [i \in 0 .. n |-> IF i = 0 THEN 0 ELSE sum[i - 1] + counts[i]]
  BY <1>5
<1>7. Total(counts) = sum[n]
  BY DEF Total
<1> HIDE DEF sum
<1> DEFINE T == {k \in 0 .. n : sum[k] \in Nat}
<1>8. \A k \in 0 .. n - 1 : k \in T => k + 1 \in T
  <2>1. ASSUME NEW k \in 0 .. n - 1, sum[k] \in Nat PROVE sum[k + 1] \in Nat
    <3>1. k + 1 \in 0 .. n /\ k + 1 # 0 /\ (k + 1) - 1 = k /\ counts[k + 1] \in Nat
      BY <1>1
    <3> HIDE DEF n
    <3>2. sum[k + 1] = sum[k] + counts[k + 1]
      BY <3>1, <1>6
    <3>3. QED
      BY <3>1, <3>2, <2>1
  <2>2. QED
    BY <2>1, <1>1
<1>9. 0 \in T
  <2>1. sum[0] = 0
    BY <1>1, <1>6
  <2>2. QED
    BY <2>1, <1>1
<1>10. \A k \in 0 .. n : k \in T
  BY <1>1, <1>8, <1>9, Induction
<1>11. QED
  BY <1>1, <1>7, <1>10

LEMMA PairSeq ==
  ASSUME NEW x, NEW y
  PROVE  (\E S : <<x>> \in Seq(S)) /\ (\E S : <<x, y>> \in Seq(S))
<1>1. <<x>> \in Seq({x}) /\ <<x, y>> \in Seq({x, y})
  OBVIOUS
<1>2. QED
  BY <1>1

\* The updates of an operation that commits a snapshot.
LEMMA CommitFresh ==
  ASSUME NEW branch, NEW old, NEW id \in Nat \ {0}, NEW s, SnapshotOK(s, id)
  PROVE  Fresh(CommitSnapshot(branch, old, id, s).updates, id, id + 1)
<1> DEFINE us == CommitSnapshot(branch, old, id, s).updates
<1>1. us = <<[type |-> "AddSnapshot", snapshot_id |-> id, snapshot |-> s],
             [type |-> "SetSnapshotRef", ref |-> RefName(branch), snapshot_id |-> id]>>
  BY DEF CommitSnapshot, Produces
<1>2. Len(us) = 2 /\ us[1].type = "AddSnapshot" /\ us[1].snapshot_id = id /\ us[1].snapshot = s
      /\ us[2].type = "SetSnapshotRef"
  BY <1>1
<1>3. \E S : us \in Seq(S)
  BY <1>1, PairSeq
<1> HIDE DEF us
<1>4. UpdateOK(us[1]) /\ UpdateOK(us[2])
  BY <1>2 DEF UpdateOK, TableUpdate_fields
<1>5. Fresh(us, id, id + 1)
  BY <1>2, <1>3, <1>4 DEF Fresh
<1>6. QED
  BY <1>5 DEF us

\* Snapshots built on m are typed.
LEMMA SnapshotTyped ==
  ASSUME NEW m, Good(m), NEW id \in Nat \ {0}, NEW old \in {None} \cup 1 .. id - 1,
         NEW seq \in Nat, NEW rows, m.format_version = 3 => rows \in Nat, NEW files
  PROVE  SnapshotOK(Snapshot(m, old, seq, rows, files), id)
BY DEF SnapshotOK, Snapshot, Good

\* An operation adds at most the snapshot whose id it was given.
LEMMA ExecuteFresh ==
  ASSUME NEW m, Good(m), NEW id \in Nat \ {0}, Below(m, id),
         NEW op, OpOK(op), NEW k \in 1 .. Len(Slots), op.type = Slots[k]
  PROVE  Fresh(execute(m, op, id).updates, id, id + 1)
<1> DEFINE r == execute(m, op, id)
           old == current_snapshot(m, op.branch).id
           last == m.last_sequence_number
<1>1. op.type \in {"AddSchema", "SetDefaultSpec", "Append", "AppendSequenceGroups",
                   "Replace", "Overwrite", "UpdateProperties", "SetSnapshotRef",
                   "ExpireSnapshots", "ReplaceSortOrder", "Truncate"}
  BY DEF Slots
<1>2. old \in {None} \cup 1 .. id - 1 /\ last \in Nat
  <2>1. \A x \in DOMAIN m.snapshots : x \in 1 .. id - 1
    BY DEF Good, Below
  <2>2. old = None \/ old \in DOMAIN m.snapshots
    BY DEF current_snapshot
  <2>3. QED
    BY <2>1, <2>2 DEF Good
<1>3. Fresh(<<>>, id, id + 1)
  BY DEF Fresh
<1>4. Fresh(Nothing.updates, id, id + 1) /\ Fresh(Error.updates, id, id + 1)
  BY <1>3 DEF Nothing, Error
<1>5. ASSUME NEW parent \in {old, None}, NEW seq \in Nat, NEW rows,
             m.format_version = 3 => rows \in Nat, NEW files
      PROVE  Fresh(CommitSnapshot(op.branch, old, id,
                                  Snapshot(m, parent, seq, rows, files)).updates, id, id + 1)
  <2> DEFINE s == Snapshot(m, parent, seq, rows, files)
             branch == op.branch
  <2>1. SnapshotOK(s, id)
    BY <1>2, <1>5, SnapshotTyped
  <2> HIDE DEF s, old, branch
  <2>2. Fresh(CommitSnapshot(branch, old, id, s).updates, id, id + 1)
    BY <2>1, CommitFresh
  <2>3. QED
    BY <2>2 DEF s, branch
<1>6. ASSUME NEW u, u.type \in DOMAIN TableUpdate_fields, u.type # "AddSnapshot", NEW q
      PROVE  Fresh(Produces(q, <<u>>).updates, id, id + 1)
  <2> DEFINE us == Produces(q, <<u>>).updates
  <2>1. Len(us) = 1 /\ us[1] = u
    BY DEF Produces
  <2>2. \E S : us \in Seq(S)
    BY PairSeq DEF Produces
  <2> HIDE DEF us
  <2>3. Fresh(us, id, id + 1)
    BY <2>1, <2>2, <1>6 DEF Fresh, UpdateOK
  <2>4. QED
    BY <2>3 DEF us
<1> HIDE DEF old, last
<1>7. CASE op.type = "AddSchema"
  <2>1. r = add_schema_op(op)
    BY <1>7 DEF execute
  <2>2. QED
    BY <2>1, <1>6 DEF add_schema_op, TableUpdate_fields
<1>8. CASE op.type = "SetDefaultSpec"
  <2>1. r = set_default_spec_op(op)
    BY <1>8 DEF execute
  <2>2. QED
    BY <2>1, <1>6 DEF set_default_spec_op, TableUpdate_fields
<1>9. CASE op.type = "Append"
  <2>1. r = append(m, op, id)
    BY <1>9 DEF execute
  <2>2. op.n \in Nat /\ last + 1 \in Nat
    BY <1>2, <1>9 DEF OpOK
  <2>3. QED
    BY <2>1, <2>2, <1>4, <1>5 DEF append, old, last
<1>10. CASE op.type = "AppendSequenceGroups"
  <2>1. r = append_sequence_groups(m, op, id)
    BY <1>10 DEF execute
  <2>2. op.groups \in Seq(Nat)
    BY <1>10 DEF OpOK
  <2>3. Total(op.groups) \in Nat /\ last + Len(op.groups) \in Nat
    BY <1>2, <2>2, TotalNat
  <2>4. QED
    BY <2>1, <2>3, <1>4, <1>5 DEF append_sequence_groups, old, last
<1>11. CASE op.type = "Replace"
  <2>1. r = replace(m, op, id)
    BY <1>11 DEF execute
  <2>2. 0 \in Nat /\ last + 1 \in Nat
    BY <1>2
  <2>3. QED
    BY <2>1, <2>2, <1>4, <1>5 DEF replace, old, last
<1>12. CASE op.type = "Overwrite"
  <2>1. r = overwrite(m, op, id)
    BY <1>12 DEF execute
  <2>2. op.n \in Nat /\ last + 1 \in Nat
    BY <1>2, <1>12 DEF OpOK
  <2>3. QED
    BY <2>1, <2>2, <1>4, <1>5 DEF overwrite, old, last
<1>13. CASE op.type = "UpdateProperties"
  <2>1. r = update_properties(op)
    BY <1>13 DEF execute
  <2>2. QED
    BY <2>1, <1>6 DEF update_properties, TableUpdate_fields
<1>14. CASE op.type = "SetSnapshotRef"
  <2>1. r = set_ref(m, op)
    BY <1>14 DEF execute
  <2>2. QED
    BY <2>1, <1>6 DEF set_ref, TableUpdate_fields
<1>15. CASE op.type = "ExpireSnapshots"
  <2>1. r = expire_snapshots(m, op)
    BY <1>15 DEF execute
  <2>2. QED
    BY <2>1, <1>4, <1>6 DEF expire_snapshots, TableUpdate_fields
<1>16. CASE op.type = "ReplaceSortOrder"
  <2>1. r = replace_sort_order(m, op)
    BY <1>16 DEF execute
  <2>2. CASE r = Error
    BY <2>2, <1>4
  <2>3. CASE r # Error
    <3> DEFINE us == r.updates
    <3>1. us = <<[type |-> "AddSortOrder", order_id |-> op.order_id],
                 [type |-> "SetDefaultSortOrder", order_id |-> op.order_id]>>
      BY <2>1, <2>3 DEF replace_sort_order, Produces
    <3>2. Len(us) = 2 /\ us[1].type = "AddSortOrder" /\ us[2].type = "SetDefaultSortOrder"
      BY <3>1
    <3>3. \E S : us \in Seq(S)
      <4> DEFINE add == [type |-> "AddSortOrder", order_id |-> op.order_id]
                 set_default == [type |-> "SetDefaultSortOrder", order_id |-> op.order_id]
      <4>1. us = <<add, set_default>>
        BY <3>1
      <4> HIDE DEF us, add, set_default
      <4> QED
        BY <4>1, PairSeq
    <3> HIDE DEF us
    <3>4. Fresh(us, id, id + 1)
      BY <3>2, <3>3 DEF Fresh, UpdateOK, TableUpdate_fields
    <3>5. QED
      BY <3>4 DEF us
  <2>4. QED
    BY <2>2, <2>3
<1>17. CASE op.type = "Truncate"
  <2>1. r = truncate(m, op, id)
    BY <1>17 DEF execute
  <2>2. 0 \in Nat /\ last + 1 \in Nat
    BY <1>2
  <2>3. QED
    BY <2>1, <2>2, <1>4, <1>5 DEF truncate, old, last
<1>18. QED
  BY ONLY <1>1, <1>7, <1>8, <1>9, <1>10, <1>11, <1>12, <1>13, <1>14, <1>15, <1>16, <1>17

-----------------------------------------------------------------------------
(* Staging: commit() up to update_table *)

\* Two runs of new ids, one after the other.
LEMMA FreshConcat ==
  ASSUME NEW us, NEW vs, NEW b \in Nat, NEW c \in Nat, NEW d \in Nat, b <= c, c <= d,
         Fresh(us, b, c), Fresh(vs, c, d)
  PROVE  Fresh(us \o vs, b, d)
<1> DEFINE ws == us \o vs
           n == Len(us)
<1>1. PICK S1, S2 : us \in Seq(S1) /\ vs \in Seq(S2)
  BY DEF Fresh
<1>2. us \in Seq(S1 \cup S2) /\ vs \in Seq(S1 \cup S2)
  BY <1>1
<1>3. /\ ws \in Seq(S1 \cup S2) /\ n \in Nat /\ Len(vs) \in Nat /\ Len(ws) = n + Len(vs)
      /\ \A i \in 1 .. n : ws[i] = us[i]
      /\ \A i \in n + 1 .. n + Len(vs) : i - n \in 1 .. Len(vs) /\ ws[i] = vs[i - n]
  BY <1>2
<1>4. /\ \A i \in 1 .. n :
           /\ UpdateOK(us[i])
           /\ us[i].type = "AddSnapshot" => /\ us[i].snapshot_id \in Nat
                                            /\ b <= us[i].snapshot_id /\ us[i].snapshot_id < c
      /\ \A i, j \in 1 .. n :
           i < j /\ us[i].type = "AddSnapshot" /\ us[j].type = "AddSnapshot"
             => us[i].snapshot_id < us[j].snapshot_id
  BY DEF Fresh, UpdateOK
<1>5. /\ \A i \in 1 .. Len(vs) :
           /\ UpdateOK(vs[i])
           /\ vs[i].type = "AddSnapshot" => /\ vs[i].snapshot_id \in Nat
                                            /\ c <= vs[i].snapshot_id /\ vs[i].snapshot_id < d
      /\ \A i, j \in 1 .. Len(vs) :
           i < j /\ vs[i].type = "AddSnapshot" /\ vs[j].type = "AddSnapshot"
             => vs[i].snapshot_id < vs[j].snapshot_id
  BY DEF Fresh, UpdateOK
<1> HIDE DEF ws, n
<1>6. ASSUME NEW i \in 1 .. Len(ws)
      PROVE  /\ UpdateOK(ws[i])
             /\ ws[i].type = "AddSnapshot" => b <= ws[i].snapshot_id /\ ws[i].snapshot_id < d
  <2>1. CASE i \in 1 .. n
    BY <2>1, <1>3, <1>4
  <2>2. CASE i \in n + 1 .. n + Len(vs)
    BY <2>2, <1>3, <1>5
  <2>3. QED
    BY <2>1, <2>2, <1>3
<1>7. ASSUME NEW i \in 1 .. Len(ws), NEW j \in 1 .. Len(ws), i < j,
             ws[i].type = "AddSnapshot", ws[j].type = "AddSnapshot"
      PROVE  ws[i].snapshot_id < ws[j].snapshot_id
  <2>1. CASE i \in 1 .. n /\ j \in 1 .. n
    BY <2>1, <1>3, <1>4, <1>7
  <2>2. CASE i \in 1 .. n /\ j \in n + 1 .. n + Len(vs)
    <3>1. ws[i] = us[i] /\ ws[j] = vs[j - n] /\ j - n \in 1 .. Len(vs)
      BY <2>2, <1>3
    <3>2. QED
      BY <2>2, <3>1, <1>4, <1>5, <1>7
  <2>3. CASE i \in n + 1 .. n + Len(vs) /\ j \in n + 1 .. n + Len(vs)
    <3>1. /\ ws[i] = vs[i - n] /\ i - n \in 1 .. Len(vs)
          /\ ws[j] = vs[j - n] /\ j - n \in 1 .. Len(vs) /\ i - n < j - n
      BY <2>3, <1>3, <1>7
    <3>2. QED
      BY <3>1, <1>5, <1>7
  <2>4. QED
    BY <2>1, <2>2, <2>3, <1>3, <1>7
<1>8. Fresh(ws, b, d)
  BY <1>3, <1>6, <1>7 DEF Fresh
<1>9. QED
  BY <1>8 DEF ws

\* Where the loop of commit() is: what is staged has ids below the next one,
\* and the updates so far carry the ids drawn so far.
StagedOK(acc, b) ==
  /\ acc.id \in Nat /\ b <= acc.id
  /\ Good(acc.staged) /\ Below(acc.staged, acc.id)
  /\ Fresh(acc.updates, b, acc.id)

LEMMA StepOK ==
  ASSUME NEW b \in Nat \ {0}, NEW acc, StagedOK(acc, b), NEW base, NEW staged,
         NEW op, OpOK(op), NEW k \in 1 .. Len(Slots), op.type = Slots[k]
  PROVE  StagedOK(Step(base, staged, acc, op), b)
<1> DEFINE id == acc.id
           r == execute(acc.staged, op, id)
           r2 == Step(base, staged, acc, op)
<1>1. /\ id \in Nat \ {0} /\ b <= id /\ Good(acc.staged) /\ Below(acc.staged, id)
      /\ Fresh(acc.updates, b, id)
  BY DEF StagedOK
<1>2. Fresh(r.updates, id, id + 1)
  <2> DEFINE m == acc.staged
  <2> HIDE DEF id, m
  <2>1. QED
    BY <1>1, ExecuteFresh DEF m
<1>3. r2.id = id + 1 /\ r2.updates = acc.updates \o r.updates
  BY DEF Step
<1>4. Fresh(acc.updates \o r.updates, b, id + 1)
  <2> DEFINE us == acc.updates
             vs == r.updates
             d == id + 1
  <2>1. id <= d /\ d \in Nat /\ Fresh(us, b, id) /\ Fresh(vs, id, d)
    BY <1>1, <1>2
  <2> HIDE DEF id, us, vs, d
  <2>2. Fresh(us \o vs, b, d)
    BY ONLY <1>1, <2>1, FreshConcat
  <2>3. QED
    BY <2>2 DEF us, vs, d
<1>5. Good(r2.staged) /\ Below(r2.staged, id + 1)
  <2>1. CASE staged
    <3> DEFINE m == acc.staged
               us == r.updates
               d == id + 1
    <3>1. r2.staged = apply_table_updates(m, us).metadata
      BY <2>1 DEF Step
    <3>2. id <= d /\ d \in Nat /\ Fresh(us, id, d) /\ Good(m) /\ Below(m, id)
      BY <1>1, <1>2
    <3> HIDE DEF id, m, us, d
    <3>3. Good(apply_table_updates(m, us).metadata) /\ Below(apply_table_updates(m, us).metadata, d)
      BY ONLY <1>1, <3>2, UpdatesGood
    <3>4. QED
      BY <3>1, <3>3 DEF d
  <2>2. CASE ~staged
    <3>1. r2.staged = acc.staged
      BY <2>2 DEF Step, LoopStart
    <3>2. \A i \in DOMAIN acc.staged.snapshots : i \in Nat /\ i < id
      BY <1>1 DEF Good, Below
    <3>3. QED
      BY <3>1, <3>2, <1>1 DEF Below
  <2>3. QED
    BY <2>1, <2>2
<1>6. QED
  BY <1>1, <1>3, <1>4, <1>5 DEF StagedOK

\* Turn i of the loop.
SlotTurn(base, ops, acc, i) ==
  Turn(base, Several(ops), acc, {op \in ops : op.type = Slots[i]})

LEMMA TurnOK ==
  ASSUME NEW b \in Nat \ {0}, NEW acc, StagedOK(acc, b), NEW base,
         NEW ops, \A op \in ops : OpOK(op), NEW k \in 1 .. Len(Slots)
  PROVE  StagedOK(SlotTurn(base, ops, acc, k), b)
<1> DEFINE staged == Several(ops)
           slot == {op \in ops : op.type = Slots[k]}
           x == CHOOSE op \in slot : TRUE
<1>1. CASE ~acc.ok \/ slot = {}
  BY <1>1 DEF Turn, SlotTurn
<1>2. CASE ~(~acc.ok \/ slot = {})
  <2>1. x \in slot
    BY <1>2
  <2>2. OpOK(x) /\ x.type = Slots[k]
    BY <2>1
  <2>3. SlotTurn(base, ops, acc, k) = Step(base, staged, acc, x)
    BY <1>2 DEF Turn, SlotTurn
  <2> HIDE DEF x, staged
  <2>4. StagedOK(Step(base, staged, acc, x), b)
    BY <2>2, StepOK
  <2>5. QED
    BY <2>3, <2>4
<1>3. QED
  BY <1>1, <1>2

\* What commit() starts from.
Start(base, ops, id) ==
  [ok |-> /\ ~reject_spec_change_with_file_write(ops, base)
          /\ ~reject_truncate_with_write(ops),
   staged |-> base, requirements |-> StartRequirements(base, ops),
   updates |-> <<>>, id |-> id]

LEMMA PrepareLoop ==
  ASSUME NEW base, NEW ops, NEW id
  PROVE  \E g : /\ g[0] = Start(base, ops, id)
                /\ \A i \in 1 .. Len(Slots) : g[i] = SlotTurn(base, ops, g[i - 1], i)
                /\ Prepare(base, ops, id) = g[Len(Slots)]
<1> DEFINE n == Len(Slots)
           start == Start(base, ops, id)
           P(k) == \E g : g = [i \in 0 .. k |-> IF i = 0 THEN start
                                                ELSE SlotTurn(base, ops, g[i - 1], i)]
           T == {k \in 0 .. n : P(k)}
           run == CHOOSE g : g = [i \in 0 .. n |-> IF i = 0 THEN start
                                                   ELSE SlotTurn(base, ops, g[i - 1], i)]
<1>0. n \in Nat
  BY DEF Slots
<1>5. Prepare(base, ops, id) = run[n]
  BY DEF Prepare, Start, SlotTurn
<1> HIDE DEF n, start
<1>1. P(0)
  <2> DEFINE g == [i \in 0 .. 0 |-> start]
  <2>1. g = [i \in 0 .. 0 |-> IF i = 0 THEN start ELSE SlotTurn(base, ops, g[i - 1], i)]
    OBVIOUS
  <2>2. QED
    BY <2>1
<1>2. ASSUME NEW k \in 0 .. n - 1, P(k) PROVE P(k + 1)
  <2>1. PICK g : g = [i \in 0 .. k |-> IF i = 0 THEN start
                                       ELSE SlotTurn(base, ops, g[i - 1], i)]
    BY <1>2
  <2> DEFINE h == [i \in 0 .. k + 1 |-> IF i = k + 1 THEN SlotTurn(base, ops, g[k], k + 1)
                                        ELSE g[i]]
             e == [i \in 0 .. k + 1 |-> IF i = 0 THEN start
                                        ELSE SlotTurn(base, ops, h[i - 1], i)]
  <2>2. ASSUME NEW i \in 0 .. k + 1 PROVE h[i] = e[i]
    <3>1. CASE i = k + 1
      <4>1. h[i] = SlotTurn(base, ops, g[k], k + 1) /\ h[i - 1] = g[k] /\ i # 0
        BY <3>1
      <4>2. e[i] = SlotTurn(base, ops, h[i - 1], i)
        BY <4>1
      <4>3. QED
        BY <4>1, <4>2, <3>1
    <3>2. CASE i # k + 1
      <4>1. i \in 0 .. k /\ h[i] = g[i]
        BY <3>2
      <4>2. CASE i = 0
        BY <2>1, <4>1, <4>2
      <4>3. CASE i # 0
        <5>1. i - 1 \in 0 .. k /\ h[i - 1] = g[i - 1]
          BY <4>1, <4>3
        <5>2. e[i] = SlotTurn(base, ops, g[i - 1], i)
          BY <5>1, <4>3
        <5>3. g[i] = SlotTurn(base, ops, g[i - 1], i)
          BY <2>1, <4>1, <4>3
        <5>4. QED
          BY <5>2, <5>3, <4>1
      <4>4. QED
        BY <4>2, <4>3
    <3>3. QED
      BY <3>1, <3>2
  <2>3. h = e
    <3> HIDE <2>1
    <3>1. DOMAIN h = DOMAIN e
      OBVIOUS
    <3>2. QED
      BY <2>2
  <2>4. QED
    BY <1>0, <2>3
<1>3. P(n)
  <2> HIDE DEF P
  <2>1. \A k \in 0 .. n - 1 : k \in T => k + 1 \in T
    BY <1>0, <1>2
  <2>2. 0 \in T
    BY <1>0, <1>1
  <2>3. \A k \in 0 .. n : k \in T
    BY <1>0, <2>1, <2>2, Induction
  <2>4. QED
    BY <1>0, <2>3
<1>4. run = [i \in 0 .. n |-> IF i = 0 THEN start ELSE SlotTurn(base, ops, run[i - 1], i)]
  BY <1>3
<1> HIDE DEF run
<1>6. run[0] = start
  BY <1>0, <1>4
<1>7. ASSUME NEW i \in 1 .. n PROVE run[i] = SlotTurn(base, ops, run[i - 1], i)
  BY <1>0, <1>4
<1>8. QED
  BY <1>5, <1>6, <1>7 DEF n, start

\* What commit() sends to the catalog carries new ids, below the one it leaves.
LEMMA PrepareOK ==
  ASSUME NEW base, Good(base), NEW ops, \A op \in ops : OpOK(op),
         NEW id \in Nat \ {0}, Below(base, id)
  PROVE  StagedOK(Prepare(base, ops, id), id)
<1> DEFINE n == Len(Slots)
<1>1. PICK g : /\ g[0] = Start(base, ops, id)
               /\ \A i \in 1 .. n : g[i] = SlotTurn(base, ops, g[i - 1], i)
               /\ Prepare(base, ops, id) = g[n]
  BY PrepareLoop
<1>2. n \in Nat
  BY DEF Slots
<1> DEFINE T == {k \in 0 .. n : StagedOK(g[k], id)}
<1>3. StagedOK(g[0], id)
  <2>1. Fresh(<<>>, id, id)
    <3>1. <<>> \in Seq({})
      OBVIOUS
    <3>2. QED
      BY <3>1 DEF Fresh
  <2>2. g[0].id = id /\ g[0].staged = base /\ g[0].updates = <<>>
    BY <1>1 DEF Start
  <2>3. QED
    BY <2>1, <2>2 DEF StagedOK
<1>4. ASSUME NEW k \in 0 .. n - 1, StagedOK(g[k], id) PROVE StagedOK(g[k + 1], id)
  <2> HIDE DEF n
  <2>1. k + 1 \in 1 .. n /\ (k + 1) - 1 = k
    BY <1>2
  <2>2. g[k + 1] = SlotTurn(base, ops, g[k], k + 1)
    BY <2>1, <1>1
  <2> DEFINE acc == g[k]
             i == k + 1
  <2>3. StagedOK(acc, id) /\ i \in 1 .. Len(Slots)
    BY <1>4, <2>1 DEF n
  <2>4. StagedOK(SlotTurn(base, ops, acc, i), id)
    <3> HIDE DEF acc, i
    <3>1. QED
      BY <2>3, TurnOK
  <2>5. QED
    BY <2>2, <2>4
<1> HIDE DEF n
<1>5. \A k \in 0 .. n - 1 : k \in T => k + 1 \in T
  BY <1>2, <1>4
<1>6. 0 \in T
  BY <1>2, <1>3
<1>7. \A k \in 0 .. n : k \in T
  BY <1>2, <1>5, <1>6, Induction
<1>8. QED
  BY <1>1, <1>2, <1>7

-----------------------------------------------------------------------------
(* The metadata file *)

\* What each version of the file gives back of a snapshot.
LEMMA SnapshotReread ==
  ASSUME NEW s
  PROVE  /\ LET r == FromSnapshotV1(SnapshotV1(s))
            IN  /\ r.parent = s.parent /\ r.sequence_number = 0
                /\ r.first_row_id = None /\ r.added_rows = None
         /\ LET r == FromSnapshotV2(SnapshotV2(s))
            IN  /\ r.parent = s.parent /\ r.sequence_number = s.sequence_number
                /\ r.first_row_id = None /\ r.added_rows = None
         /\ LET r == FromSnapshotV3(SnapshotV3(s))
            IN  /\ r.parent = s.parent /\ r.sequence_number = s.sequence_number
                /\ r.first_row_id = s.first_row_id /\ r.added_rows = s.added_rows
<1> USE DEF SnapshotV1_fields, SnapshotV2_fields, SnapshotV3_fields, Restrict, Extend
<1>1. LET r == FromSnapshotV1(SnapshotV1(s))
      IN  /\ r.parent = s.parent /\ r.sequence_number = 0
          /\ r.first_row_id = None /\ r.added_rows = None
  BY DEF FromSnapshotV1, SnapshotV1
<1>2. LET r == FromSnapshotV2(SnapshotV2(s))
      IN  /\ r.parent = s.parent /\ r.sequence_number = s.sequence_number
          /\ r.first_row_id = None /\ r.added_rows = None
  BY DEF FromSnapshotV2, SnapshotV2
<1>3. LET r == FromSnapshotV3(SnapshotV3(s))
      IN  /\ r.parent = s.parent /\ r.sequence_number = s.sequence_number
          /\ r.first_row_id = s.first_row_id /\ r.added_rows = s.added_rows
  BY DEF FromSnapshotV3, SnapshotV3
<1>4. QED
  BY <1>1, <1>2, <1>3

\* What of the history survives in the file: all but the sequence numbers and
\* the row lineage that the version has no field for.
Survives(m2, m) ==
  /\ DOMAIN m2 = DOMAIN m
  /\ m2.format_version = m.format_version
  /\ DOMAIN m2.snapshots = DOMAIN m.snapshots
  /\ m2.snapshot_log = m.snapshot_log
  /\ m2.last_sequence_number = IF m.format_version = 1 THEN 0 ELSE m.last_sequence_number
  /\ m2.next_row_id = IF m.format_version = 3 THEN m.next_row_id ELSE 0
  /\ \A id \in DOMAIN m.snapshots :
       /\ m2.snapshots[id].parent = m.snapshots[id].parent
       /\ m2.snapshots[id].sequence_number =
            IF m.format_version = 1 THEN 0 ELSE m.snapshots[id].sequence_number
       /\ m2.snapshots[id].first_row_id =
            IF m.format_version = 3 THEN m.snapshots[id].first_row_id ELSE None
       /\ m2.snapshots[id].added_rows =
            IF m.format_version = 3 THEN m.snapshots[id].added_rows ELSE None

LEMMA RereadSurvives ==
  ASSUME NEW m, DOMAIN m = TableMetadataV3_fields, m.format_version \in 1 .. 3
  PROVE  Survives(Reread(m), m)
<1> USE DEF TableMetadataV1_fields, TableMetadataV2_fields, TableMetadataV3_fields
<1> DEFINE r == TableMetadataEnum(m)
           m2 == Reread(m)
           from == DOMAIN m.snapshots
<1>1. CASE m.format_version = 1
  <2>1. r = TableMetadataV1(m)
    BY <1>1 DEF TableMetadataEnum
  <2>2. /\ DOMAIN r = TableMetadataV1_fields /\ r.format_version = 1
        /\ r.snapshot_log = m.snapshot_log
        /\ r.snapshots = [id \in from |-> SnapshotV1(m.snapshots[id])]
    BY <2>1, <1>1 DEF TableMetadataV1, Written, Restrict
  <2> HIDE DEF r
  <2> DEFINE w == ReadWith(r, FromSnapshotV1)
             x == [last_sequence_number |-> 0, refs |-> MainOf(Current(r)), next_row_id |-> 0]
  <2>3. m2 = Extend(w, x)
    BY <2>2 DEF try_from, Reread, r, try_from_v1
  <2>4. /\ DOMAIN w = TableMetadataV1_fields /\ w.format_version = 1
        /\ w.snapshot_log = m.snapshot_log
        /\ DOMAIN w.snapshots = from
        /\ \A id \in from : w.snapshots[id] = FromSnapshotV1(SnapshotV1(m.snapshots[id]))
    BY <2>2 DEF ReadWith
  <2> HIDE DEF w, m2
  <2>5. /\ DOMAIN m2 = DOMAIN m /\ m2.format_version = 1 /\ m2.snapshot_log = m.snapshot_log
        /\ m2.last_sequence_number = 0 /\ m2.next_row_id = 0
        /\ DOMAIN m2.snapshots = from
        /\ \A id \in from : m2.snapshots[id] = FromSnapshotV1(SnapshotV1(m.snapshots[id]))
    BY <2>3, <2>4 DEF Extend
  <2>6. QED
    BY <1>1, <2>5, SnapshotReread DEF Survives, m2
<1>2. CASE m.format_version = 2
  <2>1. r = TableMetadataV2(m)
    BY <1>2 DEF TableMetadataEnum
  <2>2. /\ DOMAIN r = TableMetadataV2_fields /\ r.format_version = 2
        /\ r.snapshot_log = m.snapshot_log /\ r.last_sequence_number = m.last_sequence_number
        /\ r.snapshots = [id \in from |-> SnapshotV2(m.snapshots[id])]
    BY <2>1, <1>2 DEF TableMetadataV2, Written, Restrict
  <2> HIDE DEF r
  <2> DEFINE w == ReadWith(r, FromSnapshotV2)
             x == [refs |-> ReadRefs(r), next_row_id |-> 0]
  <2>3. m2 = Extend(w, x)
    BY <2>2 DEF try_from, Reread, r, try_from_v2
  <2>4. /\ DOMAIN w = TableMetadataV2_fields /\ w.format_version = 2
        /\ w.snapshot_log = m.snapshot_log /\ w.last_sequence_number = m.last_sequence_number
        /\ DOMAIN w.snapshots = from
        /\ \A id \in from : w.snapshots[id] = FromSnapshotV2(SnapshotV2(m.snapshots[id]))
    BY <2>2 DEF ReadWith
  <2> HIDE DEF w, m2
  <2>5. /\ DOMAIN m2 = DOMAIN m /\ m2.format_version = 2 /\ m2.snapshot_log = m.snapshot_log
        /\ m2.last_sequence_number = m.last_sequence_number /\ m2.next_row_id = 0
        /\ DOMAIN m2.snapshots = from
        /\ \A id \in from : m2.snapshots[id] = FromSnapshotV2(SnapshotV2(m.snapshots[id]))
    BY <2>3, <2>4 DEF Extend
  <2>6. QED
    BY <1>2, <2>5, SnapshotReread DEF Survives, m2
<1>3. CASE m.format_version = 3
  <2>1. r = TableMetadataV3(m)
    BY <1>3 DEF TableMetadataEnum
  <2>2. /\ DOMAIN r = TableMetadataV3_fields /\ r.format_version = 3
        /\ r.snapshot_log = m.snapshot_log /\ r.last_sequence_number = m.last_sequence_number
        /\ r.next_row_id = m.next_row_id
        /\ r.snapshots = [id \in from |-> SnapshotV3(m.snapshots[id])]
    BY <2>1, <1>3 DEF TableMetadataV3, Written, Restrict
  <2> HIDE DEF r
  <2> DEFINE w == ReadWith(r, FromSnapshotV3)
             x == [refs |-> ReadRefs(r)]
  <2>3. m2 = Extend(w, x)
    BY <2>2 DEF try_from, Reread, r, try_from_v3
  <2>4. /\ DOMAIN w = TableMetadataV3_fields /\ w.format_version = 3
        /\ w.snapshot_log = m.snapshot_log /\ w.last_sequence_number = m.last_sequence_number
        /\ w.next_row_id = m.next_row_id
        /\ DOMAIN w.snapshots = from
        /\ \A id \in from : w.snapshots[id] = FromSnapshotV3(SnapshotV3(m.snapshots[id]))
    BY <2>2 DEF ReadWith
  <2> HIDE DEF w, m2
  <2>5. /\ DOMAIN m2 = DOMAIN m /\ m2.format_version = 3 /\ m2.snapshot_log = m.snapshot_log
        /\ m2.last_sequence_number = m.last_sequence_number /\ m2.next_row_id = m.next_row_id
        /\ DOMAIN m2.snapshots = from
        /\ \A id \in from : m2.snapshots[id] = FromSnapshotV3(SnapshotV3(m.snapshots[id]))
    BY <2>3, <2>4 DEF Extend
  <2>6. QED
    BY <1>3, <2>5, SnapshotReread DEF Survives, m2
<1>4. QED
  BY <1>1, <1>2, <1>3

\* Writing the file and reading it keeps the history in order.
LEMMA RereadGood ==
  ASSUME NEW m, Good(m)
  PROVE  Good(Reread(m)) /\ \A b : Below(m, b) => Below(Reread(m), b)
<1> DEFINE m2 == Reread(m)
<1>1. Survives(m2, m)
  BY RereadSurvives DEF Good
<1> HIDE DEF m2
<1>2. \A id \in DOMAIN m2.snapshots : SnapshotOK(m2.snapshots[id], id)
  BY <1>1 DEF Survives, Good, SnapshotOK
<1>3. ASSUME m2.format_version # 1 PROVE HistoryOrdered(m2)
  <2>1. m.format_version # 1 /\ m2.snapshot_log = m.snapshot_log
        /\ DOMAIN m2.snapshots = DOMAIN m.snapshots
        /\ m2.last_sequence_number = m.last_sequence_number
    BY <1>1, <1>3 DEF Survives
  <2>2. \A id \in DOMAIN m.snapshots :
          /\ m2.snapshots[id].parent = m.snapshots[id].parent
          /\ m2.snapshots[id].sequence_number = m.snapshots[id].sequence_number
    BY <1>1, <2>1 DEF Survives
  <2>3. HistoryOrdered(m) /\ \A a \in DOMAIN m.snapshot_log : m.snapshot_log[a] \in DOMAIN m.snapshots
    BY <2>1 DEF Good
  <2>4. QED
    BY <2>1, <2>2, <2>3 DEF HistoryOrdered
<1>4. m2.format_version = 3 => RowRangesDisjoint(m2)
  BY <1>1 DEF Survives, Good, RowRangesDisjoint
<1>5. Good(m2)
  BY <1>1, <1>2, <1>3, <1>4 DEF Survives, Good
<1>6. QED
  BY <1>1, <1>5 DEF m2, Survives, Below

LEMMA NewTableGood ==
  ASSUME NEW uuid, NEW v \in 1 .. 3
  PROVE  Good(NewTable(uuid, v)) /\ \A b : Below(NewTable(uuid, v), b)
<1> DEFINE m == NewTable(uuid, v)
<1>1. /\ DOMAIN m = TableMetadataV3_fields /\ m.format_version = v
      /\ m.last_sequence_number = 0 /\ m.next_row_id = 0
      /\ DOMAIN m.snapshots = {} /\ m.snapshot_log = <<>>
  BY DEF NewTable, TableMetadataV3_fields, TableMetadataV2_fields, TableMetadataV1_fields
<1> HIDE DEF m
<1>2. HistoryOrdered(m) /\ RowRangesDisjoint(m)
  BY <1>1 DEF HistoryOrdered, RowRangesDisjoint
<1>3. Good(m) /\ \A b : Below(m, b)
  BY <1>1, <1>2 DEF Good, Below
<1>4. QED
  BY <1>3 DEF m

-----------------------------------------------------------------------------
(* Building a transaction *)

BuilderOK(b) ==
  /\ DOMAIN b = {"branch", "slots", "panicked"}
  /\ \A t \in DOMAIN b.slots :
       "type" \in DOMAIN b.slots[t] /\ b.slots[t].type = t /\ OpOK(b.slots[t])

\* An operation put into an empty slot, or in the place of another.
LEMMA PutOK ==
  ASSUME NEW b, BuilderOK(b), NEW op, OpOK(op), "type" \in DOMAIN op
  PROVE  BuilderOK(Builder!Put(b, op))
<1> DEFINE r == Builder!Put(b, op)
<1>1. DOMAIN r = DOMAIN b /\ r.slots = Builder!Join(b.slots, [t \in {op.type} |-> op])
  BY DEF Builder!Put, BuilderOK
<1> HIDE DEF r
<1>2. DOMAIN r.slots = DOMAIN b.slots \cup {op.type}
  BY <1>1 DEF Builder!Join
<1>3. r.slots[op.type] = op /\ \A t \in DOMAIN b.slots : t # op.type => r.slots[t] = b.slots[t]
  BY <1>1 DEF Builder!Join
<1>4. BuilderOK(r)
  BY <1>1, <1>2, <1>3 DEF BuilderOK
<1>5. QED
  BY <1>4 DEF r

\* An operation changed in its slot.
LEMMA ChangeOK ==
  ASSUME NEW b, BuilderOK(b), NEW t \in DOMAIN b.slots, NEW op, OpOK(op),
         "type" \in DOMAIN op, op.type = t
  PROVE  BuilderOK([b EXCEPT !.slots = [b.slots EXCEPT ![t] = op]])
BY DEF BuilderOK

LEMMA CallKeepsOK ==
  ASSUME NEW b, BuilderOK(b), NEW c, Builder!CallOK(c)
  PROVE  BuilderOK(Builder!Call(b, c))
<1> DEFINE r == Builder!Call(b, c)
<1>1. c.call \in {"add_schema", "set_default_spec", "replace_sort_order", "append_data",
                  "append_delete", "append_sequence_group", "overwrite", "truncate", "replace",
                  "replace_with_lineage", "update_properties", "set_snapshot_ref",
                  "expire_snapshots"}
  BY DEF Builder!CallOK
<1>2. CASE b.panicked
  BY <1>2 DEF Builder!Call
<1>3. CASE ~b.panicked
  <2>0. BuilderOK(Builder!Panic(b))
    BY DEF BuilderOK, Builder!Panic
  <2>1. CASE c.call = "add_schema"
    <3> DEFINE op == [type |-> "AddSchema", schema_id |-> c.schema_id, fields |-> c.fields]
    <3>1. r = Builder!Put(b, op)
      BY <1>3, <2>1 DEF Builder!Call, Builder!add_schema
    <3>2. OpOK(op) /\ "type" \in DOMAIN op
      BY DEF OpOK
    <3> HIDE DEF op
    <3>3. QED
      BY <3>1, <3>2, PutOK
  <2>2. CASE c.call = "set_default_spec"
    <3> DEFINE op == [type |-> "SetDefaultSpec", spec_id |-> c.spec_id]
    <3>1. r = Builder!Put(b, op)
      BY <1>3, <2>2 DEF Builder!Call, Builder!set_default_spec
    <3>2. OpOK(op) /\ "type" \in DOMAIN op
      BY DEF OpOK
    <3> HIDE DEF op
    <3>3. QED
      BY <3>1, <3>2, PutOK
  <2>3. CASE c.call = "replace_sort_order"
    <3> DEFINE op == [type |-> "ReplaceSortOrder", order_id |-> c.order_id, fields |-> c.fields]
    <3>1. r = Builder!Put(b, op)
      BY <1>3, <2>3 DEF Builder!Call, Builder!replace_sort_order
    <3>2. OpOK(op) /\ "type" \in DOMAIN op
      BY DEF OpOK
    <3> HIDE DEF op
    <3>3. QED
      BY <3>1, <3>2, PutOK
  <2>4. CASE c.call = "append_data"
    <3>1. r = Builder!append_data(b, c) /\ c.n \in Nat
      BY <1>3, <2>4 DEF Builder!Call, Builder!CallOK
    <3>4. CASE "AppendSequenceGroups" \in DOMAIN b.slots
      BY <3>1, <3>4, <2>0 DEF Builder!append_data, Builder!Has
    <3>2. CASE "AppendSequenceGroups" \notin DOMAIN b.slots /\ "Append" \in DOMAIN b.slots
      <4> DEFINE op == [b.slots["Append"] EXCEPT !.n = @ + c.n]
      <4>1. r = [b EXCEPT !.slots = [b.slots EXCEPT !["Append"] = op]]
        BY <3>1, <3>2 DEF Builder!append_data, Builder!Has
      <4>2. OpOK(op) /\ "type" \in DOMAIN op /\ op.type = "Append"
        BY <3>1, <3>2 DEF BuilderOK, OpOK
      <4> HIDE DEF op
      <4>3. QED
        BY <4>1, <4>2, <3>2, ChangeOK
    <3>3. CASE "AppendSequenceGroups" \notin DOMAIN b.slots /\ "Append" \notin DOMAIN b.slots
      <4> DEFINE op == [type |-> "Append", branch |-> b.branch, n |-> c.n, deletes |-> 0]
      <4>1. r = Builder!Put(b, op)
        BY <3>1, <3>3 DEF Builder!append_data, Builder!Has
      <4>2. OpOK(op) /\ "type" \in DOMAIN op
        BY <3>1 DEF OpOK
      <4> HIDE DEF op
      <4>3. QED
        BY <4>1, <4>2, PutOK
    <3>5. QED
      BY <3>2, <3>3, <3>4
  <2>5. CASE c.call = "append_delete"
    <3>1. r = Builder!append_delete(b, c) /\ c.n \in Nat
      BY <1>3, <2>5 DEF Builder!Call, Builder!CallOK
    <3>4. CASE "AppendSequenceGroups" \in DOMAIN b.slots
      BY <3>1, <3>4, <2>0 DEF Builder!append_delete, Builder!Has
    <3>2. CASE "AppendSequenceGroups" \notin DOMAIN b.slots /\ "Append" \in DOMAIN b.slots
      <4> DEFINE op == [b.slots["Append"] EXCEPT !.deletes = @ + c.n]
      <4>1. r = [b EXCEPT !.slots = [b.slots EXCEPT !["Append"] = op]]
        BY <3>1, <3>2 DEF Builder!append_delete, Builder!Has
      <4>2. OpOK(op) /\ "type" \in DOMAIN op /\ op.type = "Append"
        BY <3>1, <3>2 DEF BuilderOK, OpOK
      <4> HIDE DEF op
      <4>3. QED
        BY <4>1, <4>2, <3>2, ChangeOK
    <3>3. CASE "AppendSequenceGroups" \notin DOMAIN b.slots /\ "Append" \notin DOMAIN b.slots
      <4> DEFINE op == [type |-> "Append", branch |-> b.branch, n |-> 0, deletes |-> c.n]
      <4>1. r = Builder!Put(b, op)
        BY <3>1, <3>3 DEF Builder!append_delete, Builder!Has
      <4>2. OpOK(op) /\ "type" \in DOMAIN op
        BY <3>1 DEF OpOK
      <4> HIDE DEF op
      <4>3. QED
        BY <4>1, <4>2, PutOK
    <3>5. QED
      BY <3>2, <3>3, <3>4
  <2>6. CASE c.call = "append_sequence_group"
    <3>1. r = Builder!append_sequence_group(b, c) /\ c.n \in Nat
      BY <1>3, <2>6 DEF Builder!Call, Builder!CallOK
    <3>4. CASE "Append" \in DOMAIN b.slots
      BY <3>1, <3>4, <2>0 DEF Builder!append_sequence_group, Builder!Has
    <3>2. CASE "Append" \notin DOMAIN b.slots /\ "AppendSequenceGroups" \in DOMAIN b.slots
      <4> DEFINE op == [b.slots["AppendSequenceGroups"] EXCEPT !.groups = Append(@, c.n)]
      <4>1. r = [b EXCEPT !.slots = [b.slots EXCEPT !["AppendSequenceGroups"] = op]]
        BY <3>1, <3>2 DEF Builder!append_sequence_group, Builder!Has
      <4>2. OpOK(op) /\ "type" \in DOMAIN op /\ op.type = "AppendSequenceGroups"
        BY <3>1, <3>2 DEF BuilderOK, OpOK
      <4> HIDE DEF op
      <4>3. QED
        BY <4>1, <4>2, <3>2, ChangeOK
    <3>3. CASE "Append" \notin DOMAIN b.slots /\ "AppendSequenceGroups" \notin DOMAIN b.slots
      <4> DEFINE op == [type |-> "AppendSequenceGroups", branch |-> b.branch, groups |-> <<c.n>>]
      <4>1. r = Builder!Put(b, op)
        BY <3>1, <3>3 DEF Builder!append_sequence_group, Builder!Has
      <4>2. OpOK(op) /\ "type" \in DOMAIN op
        BY <3>1 DEF OpOK
      <4> HIDE DEF op
      <4>3. QED
        BY <4>1, <4>2, PutOK
    <3>5. QED
      BY <3>2, <3>3, <3>4
  <2>7. CASE c.call = "overwrite"
    <3>1. r = Builder!overwrite(b, c) /\ c.n \in Nat
      BY <1>3, <2>7 DEF Builder!Call, Builder!CallOK
    <3>2. CASE "Overwrite" \in DOMAIN b.slots
      <4> DEFINE op == [b.slots["Overwrite"] EXCEPT !.n = @ + c.n,
                                              !.remove = Builder!Join(@, c.remove)]
      <4>1. r = [b EXCEPT !.slots = [b.slots EXCEPT !["Overwrite"] = op]]
        BY <3>1, <3>2 DEF Builder!overwrite, Builder!Has
      <4>2. OpOK(op) /\ "type" \in DOMAIN op /\ op.type = "Overwrite"
        BY <3>1, <3>2 DEF BuilderOK, OpOK
      <4> HIDE DEF op
      <4>3. QED
        BY <4>1, <4>2, <3>2, ChangeOK
    <3>3. CASE "Overwrite" \notin DOMAIN b.slots
      <4> DEFINE op == [type |-> "Overwrite", branch |-> b.branch, n |-> c.n, remove |-> c.remove]
      <4>1. r = Builder!Put(b, op)
        BY <3>1, <3>3 DEF Builder!overwrite, Builder!Has
      <4>2. OpOK(op) /\ "type" \in DOMAIN op
        BY <3>1 DEF OpOK
      <4> HIDE DEF op
      <4>3. QED
        BY <4>1, <4>2, PutOK
    <3>5. QED
      BY <3>2, <3>3
  <2>8. CASE c.call = "truncate"
    <3> DEFINE op == [type |-> "Truncate", branch |-> b.branch]
    <3>1. r = Builder!Put(b, op)
      BY <1>3, <2>8 DEF Builder!Call, Builder!truncate
    <3>2. OpOK(op) /\ "type" \in DOMAIN op
      BY DEF OpOK
    <3> HIDE DEF op
    <3>3. QED
      BY <3>1, <3>2, PutOK
  <2>9. CASE c.call = "replace"
    <3>1. r = Builder!replace(b, c) /\ c.n \in Nat
      BY <1>3, <2>9 DEF Builder!Call, Builder!CallOK
    <3>2. CASE "Replace" \in DOMAIN b.slots
      <4> DEFINE op == [b.slots["Replace"] EXCEPT !.n = @ + c.n]
      <4>0. CASE b.slots["Replace"].lineage
        BY <3>1, <3>2, <4>0 DEF Builder!replace, Builder!Has
      <4>1. CASE ~b.slots["Replace"].lineage
        <5>1. r = [b EXCEPT !.slots = [b.slots EXCEPT !["Replace"] = op]]
          BY <3>1, <3>2, <4>1 DEF Builder!replace, Builder!Has
        <5>2. OpOK(op) /\ "type" \in DOMAIN op /\ op.type = "Replace"
          BY <3>1, <3>2 DEF BuilderOK, OpOK
        <5> HIDE DEF op
        <5>3. QED
          BY <5>1, <5>2, <3>2, ChangeOK
      <4>2. QED
        BY <4>0, <4>1
    <3>3. CASE "Replace" \notin DOMAIN b.slots
      <4> DEFINE op == [type |-> "Replace", branch |-> b.branch, n |-> c.n, lineage |-> FALSE]
      <4>1. r = Builder!Put(b, op)
        BY <3>1, <3>3 DEF Builder!replace, Builder!Has
      <4>2. OpOK(op) /\ "type" \in DOMAIN op
        BY <3>1 DEF OpOK
      <4> HIDE DEF op
      <4>3. QED
        BY <4>1, <4>2, PutOK
    <3>5. QED
      BY <3>2, <3>3
  <2>10. CASE c.call = "replace_with_lineage"
    <3>1. r = Builder!replace_with_lineage(b, c) /\ c.n \in Nat
      BY <1>3, <2>10 DEF Builder!Call, Builder!CallOK
    <3>2. CASE "Replace" \in DOMAIN b.slots
      <4> DEFINE op == [b.slots["Replace"] EXCEPT !.n = @ + c.n, !.lineage = TRUE]
      <4>1. r = [b EXCEPT !.slots = [b.slots EXCEPT !["Replace"] = op]]
        BY <3>1, <3>2 DEF Builder!replace_with_lineage, Builder!Has
      <4>2. OpOK(op) /\ "type" \in DOMAIN op /\ op.type = "Replace"
        BY <3>1, <3>2 DEF BuilderOK, OpOK
      <4> HIDE DEF op
      <4>3. QED
        BY <4>1, <4>2, <3>2, ChangeOK
    <3>3. CASE "Replace" \notin DOMAIN b.slots
      <4> DEFINE op == [type |-> "Replace", branch |-> b.branch, n |-> c.n, lineage |-> TRUE]
      <4>1. r = Builder!Put(b, op)
        BY <3>1, <3>3 DEF Builder!replace_with_lineage, Builder!Has
      <4>2. OpOK(op) /\ "type" \in DOMAIN op
        BY <3>1 DEF OpOK
      <4> HIDE DEF op
      <4>3. QED
        BY <4>1, <4>2, PutOK
    <3>5. QED
      BY <3>2, <3>3
  <2>11. CASE c.call = "update_properties"
    <3>1. r = Builder!update_properties(b, c)
      BY <1>3, <2>11 DEF Builder!Call
    <3>2. CASE "UpdateProperties" \in DOMAIN b.slots
      <4> DEFINE op == [b.slots["UpdateProperties"] EXCEPT !.entries = Builder!Join(@, c.entries)]
      <4>1. r = [b EXCEPT !.slots = [b.slots EXCEPT !["UpdateProperties"] = op]]
        BY <3>1, <3>2 DEF Builder!update_properties, Builder!Has
      <4>2. OpOK(op) /\ "type" \in DOMAIN op /\ op.type = "UpdateProperties"
        BY <3>1, <3>2 DEF BuilderOK, OpOK
      <4> HIDE DEF op
      <4>3. QED
        BY <4>1, <4>2, <3>2, ChangeOK
    <3>3. CASE "UpdateProperties" \notin DOMAIN b.slots
      <4> DEFINE op == [type |-> "UpdateProperties", entries |-> c.entries]
      <4>1. r = Builder!Put(b, op)
        BY <3>1, <3>3 DEF Builder!update_properties, Builder!Has
      <4>2. OpOK(op) /\ "type" \in DOMAIN op
        BY <3>1 DEF OpOK
      <4> HIDE DEF op
      <4>3. QED
        BY <4>1, <4>2, PutOK
    <3>5. QED
      BY <3>2, <3>3
  <2>12. CASE c.call = "set_snapshot_ref"
    <3> DEFINE op == [type |-> "SetSnapshotRef", ref |-> c.ref, snapshot_id |-> c.snapshot_id]
    <3>1. r = Builder!Put(b, op)
      BY <1>3, <2>12 DEF Builder!Call, Builder!set_snapshot_ref
    <3>2. OpOK(op) /\ "type" \in DOMAIN op
      BY DEF OpOK
    <3> HIDE DEF op
    <3>3. QED
      BY <3>1, <3>2, PutOK
  <2>13. CASE c.call = "expire_snapshots"
    <3> DEFINE op == [type |-> "ExpireSnapshots", older_than |-> c.older_than,
                      retain_last |-> c.retain_last, retain_refs |-> c.retain_refs,
                      dry_run |-> c.dry_run]
    <3>1. r = Builder!Put(b, op)
      BY <1>3, <2>13 DEF Builder!Call, Builder!expire_snapshots
    <3>2. OpOK(op) /\ "type" \in DOMAIN op
      BY DEF OpOK
    <3> HIDE DEF op
    <3>3. QED
      BY <3>1, <3>2, PutOK
  <2>14. QED
    BY ONLY <1>1, <2>1, <2>2, <2>3, <2>4, <2>5, <2>6, <2>7, <2>8, <2>9, <2>10, <2>11, <2>12, <2>13
<1>4. QED
  BY <1>2, <1>3

LEMMA BuilderLoop ==
  ASSUME NEW t, Len(t.calls) \in Nat
  PROVE  \E g : /\ g[0] = Builder!New(t.branch)
                /\ \A i \in 1 .. Len(t.calls) : g[i] = Builder!Call(g[i - 1], t.calls[i])
                /\ Builder!Built(t) = g[Len(t.calls)]
<1> DEFINE n == Len(t.calls)
           new == Builder!New(t.branch)
           P(k) == \E g : g = [i \in 0 .. k |-> IF i = 0 THEN new
                                                ELSE Builder!Call(g[i - 1], t.calls[i])]
           T == {k \in 0 .. n : P(k)}
           after == CHOOSE g : g = [i \in 0 .. n |-> IF i = 0 THEN new
                                                     ELSE Builder!Call(g[i - 1], t.calls[i])]
<1>1. P(0)
  <2> DEFINE g == [i \in 0 .. 0 |-> new]
  <2>1. g = [i \in 0 .. 0 |-> IF i = 0 THEN new ELSE Builder!Call(g[i - 1], t.calls[i])]
    OBVIOUS
  <2>2. QED
    BY <2>1
<1>2. ASSUME NEW k \in 0 .. n - 1, P(k) PROVE P(k + 1)
  <2>1. PICK g : g = [i \in 0 .. k |-> IF i = 0 THEN new
                                       ELSE Builder!Call(g[i - 1], t.calls[i])]
    BY <1>2
  <2> DEFINE h == [i \in 0 .. k + 1 |-> IF i = k + 1 THEN Builder!Call(g[k], t.calls[k + 1])
                                        ELSE g[i]]
             e == [i \in 0 .. k + 1 |-> IF i = 0 THEN new
                                        ELSE Builder!Call(h[i - 1], t.calls[i])]
  <2>2. ASSUME NEW i \in 0 .. k + 1 PROVE h[i] = e[i]
    <3>1. CASE i = k + 1
      <4>1. h[i] = Builder!Call(g[k], t.calls[k + 1]) /\ h[i - 1] = g[k] /\ i # 0
        BY <3>1
      <4>2. e[i] = Builder!Call(h[i - 1], t.calls[i])
        BY <4>1
      <4>3. QED
        BY <4>1, <4>2, <3>1
    <3>2. CASE i # k + 1
      <4>1. i \in 0 .. k /\ h[i] = g[i]
        BY <3>2
      <4>2. CASE i = 0
        BY <2>1, <4>1, <4>2
      <4>3. CASE i # 0
        <5>1. i - 1 \in 0 .. k /\ h[i - 1] = g[i - 1]
          BY <4>1, <4>3
        <5>2. e[i] = Builder!Call(g[i - 1], t.calls[i])
          BY <5>1, <4>3
        <5>3. g[i] = Builder!Call(g[i - 1], t.calls[i])
          BY <2>1, <4>1, <4>3
        <5>4. QED
          BY <5>2, <5>3, <4>1
      <4>4. QED
        BY <4>2, <4>3
    <3>3. QED
      BY <3>1, <3>2
  <2>3. h = e
    <3> HIDE <2>1
    <3>1. DOMAIN h = DOMAIN e
      OBVIOUS
    <3>2. QED
      BY <2>2
  <2>4. QED
    BY <2>3
<1>3. P(n)
  <2> HIDE DEF P
  <2>1. \A k \in 0 .. n - 1 : k \in T => k + 1 \in T
    BY <1>2
  <2>2. 0 \in T
    BY <1>1
  <2>3. \A k \in 0 .. n : k \in T
    BY <2>1, <2>2, Induction
  <2>4. QED
    BY <2>3
<1>4. after = [i \in 0 .. n |-> IF i = 0 THEN new ELSE Builder!Call(after[i - 1], t.calls[i])]
  BY <1>3
<1>5. Builder!Built(t) = after[n]
  BY DEF Builder!Built
<1> HIDE DEF after
<1>6. after[0] = new
  BY <1>4
<1>7. ASSUME NEW i \in 1 .. n PROVE after[i] = Builder!Call(after[i - 1], t.calls[i])
  BY <1>4
<1>8. QED
  BY <1>5, <1>6, <1>7

\* Every operation of every transaction has typed counts.
LEMMA BuiltOK == \A ops \in Built : \A op \in ops : OpOK(op)
<1>1. ASSUME NEW t \in Transactions PROVE BuilderOK(Builder!Built(t))
  <2> DEFINE n == Len(t.calls)
  <2>1. n \in Nat /\ \A i \in 1 .. n : Builder!CallOK(t.calls[i])
    BY CallAssumption
  <2>2. PICK g : /\ g[0] = Builder!New(t.branch)
                 /\ \A i \in 1 .. n : g[i] = Builder!Call(g[i - 1], t.calls[i])
                 /\ Builder!Built(t) = g[n]
    BY <2>1, BuilderLoop
  <2> DEFINE T == {k \in 0 .. n : BuilderOK(g[k])}
  <2> HIDE DEF n
  <2>3. BuilderOK(g[0])
    BY <2>2 DEF Builder!New, BuilderOK
  <2>4. ASSUME NEW k \in 0 .. n - 1, BuilderOK(g[k]) PROVE BuilderOK(g[k + 1])
    <3>1. k + 1 \in 1 .. n /\ (k + 1) - 1 = k
      BY <2>1
    <3>2. g[k + 1] = Builder!Call(g[k], t.calls[k + 1]) /\ Builder!CallOK(t.calls[k + 1])
      BY <3>1, <2>1, <2>2
    <3> DEFINE b == g[k]
               c == t.calls[k + 1]
    <3>3. BuilderOK(b) /\ Builder!CallOK(c)
      BY <3>2, <2>4
    <3> HIDE DEF b, c
    <3>4. BuilderOK(Builder!Call(b, c))
      BY <3>3, CallKeepsOK
    <3>5. QED
      BY <3>2, <3>4 DEF b, c
  <2>5. \A k \in 0 .. n - 1 : k \in T => k + 1 \in T
    BY <2>1, <2>4
  <2>6. 0 \in T
    BY <2>1, <2>3
  <2>7. \A k \in 0 .. n : k \in T
    BY <2>1, <2>5, <2>6, Induction
  <2>8. QED
    BY <2>1, <2>2, <2>7
<1>2. QED
  BY <1>1 DEF Built, Builder!Operations, BuilderOK

-----------------------------------------------------------------------------
(* The theorems *)

LEMMA InitInv == Init => IInv
<1> SUFFICES ASSUME Init PROVE IInv
  OBVIOUS
<1>1. PICK v \in FormatVersions : metadata = Reread(NewTable(1, v))
  BY DEF Init
<1>2. Good(NewTable(1, v)) /\ Below(NewTable(1, v), 1)
  BY TransactionAssumption, NewTableGood
<1>3. Good(metadata) /\ Below(metadata, 1)
  BY <1>1, <1>2, RereadGood
<1>4. QED
  BY <1>3 DEF Init, IInv

\* A commit: the catalog applies updates with new ids to metadata in order.
LEMMA CommitInv ==
  ASSUME IInv, NEW w \in Writers, NEW ops \in Built, Commit(w, ops)
  PROVE  IInv'
<1> DEFINE commit == Prepare(handle[w], ops, nextId)
           m2 == apply_table_updates(metadata, commit.updates).metadata
           b == nextId
           d == commit.id
<1>1. /\ Good(metadata) /\ Below(metadata, b) /\ b \in Nat \ {0}
      /\ Good(handle[w]) /\ Below(handle[w], b)
  BY DEF IInv
<1>2. StagedOK(commit, b)
  <2> DEFINE base == handle[w]
  <2>1. \A op \in ops : OpOK(op)
    BY BuiltOK
  <2>2. Good(base) /\ Below(base, nextId) /\ nextId \in Nat \ {0}
    BY <1>1
  <2> HIDE DEF base
  <2>3. StagedOK(Prepare(base, ops, nextId), nextId)
    BY ONLY <2>1, <2>2, PrepareOK
  <2>4. QED
    BY <2>3 DEF base
<1>3. d \in Nat /\ b <= d /\ Fresh(commit.updates, b, d)
  BY <1>2 DEF StagedOK
<1>4. Good(m2) /\ Below(m2, d)
  <2> DEFINE us == commit.updates
             m == metadata
  <2>1. Good(m) /\ Below(m, b) /\ b \in Nat /\ Fresh(us, b, d)
    BY <1>1, <1>3
  <2> HIDE DEF us, b, d, m
  <2>2. Good(apply_table_updates(m, us).metadata) /\ Below(apply_table_updates(m, us).metadata, d)
    BY ONLY <1>3, <2>1, UpdatesGood
  <2>3. QED
    BY <2>2 DEF us, m
<1>5. /\ metadata' = Reread(m2) /\ handle' = [handle EXCEPT ![w] = m2] /\ nextId' = d
  BY DEF Commit, update_table
<1>6. Good(Reread(m2)) /\ Below(Reread(m2), d)
  <2> HIDE DEF m2, d
  <2>1. QED
    BY <1>4, RereadGood
<1>7. ASSUME NEW x \in Writers PROVE Good(handle[x]) /\ Below(handle[x], d)
  <2>1. Good(handle[x]) /\ Below(handle[x], b)
    BY DEF IInv
  <2> HIDE DEF b, d
  <2>2. QED
    BY <2>1, <1>1, <1>3 DEF Below, Good
<1> HIDE DEF m2, d, b
<1>8. Good(metadata') /\ Below(metadata', nextId')
  BY <1>5, <1>6
<1>9. DOMAIN handle' = Writers
  BY <1>5 DEF IInv
<1>10. ASSUME NEW x \in Writers PROVE Good(handle'[x]) /\ Below(handle'[x], nextId')
  <2>1. handle'[x] = IF x = w THEN m2 ELSE handle[x]
    BY <1>5 DEF IInv
  <2>2. QED
    BY <2>1, <1>4, <1>5, <1>7
<1>11. nextId' \in Nat \ {0}
  BY <1>1, <1>3, <1>5
<1>12. QED
  BY <1>8, <1>9, <1>10, <1>11 DEF IInv

LEMMA NextInv == IInv /\ [Next]_vars => IInv'
<1> SUFFICES ASSUME IInv, [Next]_vars PROVE IInv'
  OBVIOUS
<1>1. ASSUME NEW w \in Writers, Load(w) PROVE IInv'
  <2>1. metadata' = metadata /\ nextId' = nextId /\ handle' = [handle EXCEPT ![w] = metadata]
    BY <1>1 DEF Load
  <2>2. DOMAIN handle' = Writers /\ \A x \in Writers : handle'[x] \in {handle[x], metadata}
    BY <2>1 DEF IInv
  <2>3. QED
    BY <2>1, <2>2 DEF IInv
<1>2. ASSUME NEW w \in Writers, NEW ops \in Built, Commit(w, ops) PROVE IInv'
  BY <1>2, CommitInv
<1>3. CASE Recreate
  <2> DEFINE m == NewTable(metadata.table_uuid + 1, metadata.format_version)
  <2>1. metadata' = Reread(m) /\ handle' = handle /\ nextId' = nextId
    BY <1>3 DEF Recreate
  <2>2. Good(m) /\ Below(m, nextId)
    BY NewTableGood DEF IInv, Good
  <2> HIDE DEF m
  <2>3. Good(metadata') /\ Below(metadata', nextId)
    BY <2>1, <2>2, RereadGood
  <2>4. QED
    BY <2>1, <2>3 DEF IInv
<1>4. CASE UNCHANGED vars
  BY <1>4 DEF vars, IInv
<1>5. QED
  BY <1>1, <1>2, <1>3, <1>4 DEF Next

\* Sequence numbers order the snapshots of every table of version 2 or 3, for any
\* writers, transactions and number of commits.
THEOREM HistoryStaysOrdered == Spec => []SequenceNumbersOrdered
<1>1. IInv => SequenceNumbersOrdered
  BY DEF IInv, Good, SequenceNumbersOrdered
<1>2. QED
  BY InitInv, NextInv, <1>1, PTL DEF Spec

\* No two snapshots of a version 3 table are given the same row ids.
THEOREM RowRangesStayDisjoint == Spec => []RowIdsDisjoint
<1>1. IInv => RowIdsDisjoint
  BY DEF IInv, Good, RowIdsDisjoint
<1>2. QED
  BY InitInv, NextInv, <1>1, PTL DEF Spec

-----------------------------------------------------------------------------
(* Refs resolve in a table whose writers expire snapshots and move refs
   forward, whatever stale metadata each of them works from.

   ExpireSnapshots sends no requirement: the snapshots it removes were
   chosen on the writer's own metadata.  What keeps that safe is that the
   table follows every writer's metadata: a ref of the table names either
   a snapshot that the writer does not have, and so cannot remove, or the
   snapshot the same ref names in the writer's metadata, which is
   retained.  The relation is carried through the loop of commit(), where
   the staged metadata and the table receive the same updates. *)

\* The hypothesis: no transaction points a ref at a snapshot of old
\* (set_snapshot_ref, a rollback), and expiry is asked to keep refs.  After a
\* rollback a ref names a snapshot that a stale writer may have expired.
ForwardOnly ==
  \A ops \in Built : \A op \in ops :
    /\ op.type # "SetSnapshotRef"
    /\ op.type = "ExpireSnapshots" => op.retain_refs

\* Every ref names a snapshot of m, and main is the current snapshot.
Resolved(m) ==
  /\ \A r \in DOMAIN m.refs : m.refs[r] \in DOMAIN m.snapshots
  /\ m.current_snapshot_id = Get(m.refs, "main")

\* A ref of m that names a snapshot h has is the same in h.
Follows(h, m) ==
  \A r \in DOMAIN m.refs :
    m.refs[r] \in DOMAIN h.snapshots => r \in DOMAIN h.refs /\ h.refs[r] = m.refs[r]

\* The inductive invariant, beside the one above.
RInv ==
  /\ Resolved(metadata)
  /\ \A w \in Writers : Follows(handle[w], metadata)

-----------------------------------------------------------------------------
(* Updates and refs *)

\* m2 has the refs and the snapshots of m.
SameRefs(m2, m) ==
  /\ m2.refs = m.refs
  /\ m2.snapshots = m.snapshots
  /\ m2.current_snapshot_id = m.current_snapshot_id

RefUpdates == {"AddSnapshot", "RemoveSnapshots", "SetSnapshotRef", "RemoveSnapshotRef"}

\* A failed loop stays failed.
LEMMA FailedStays ==
  ASSUME NEW l, NEW u, ~l.ok
  PROVE  apply_update(l, u) = l
BY DEF apply_update

\* The updates that leave refs and snapshots alone.
LEMMA OtherRefs ==
  ASSUME NEW l, LoopOK(l), NEW u, UpdateOK(u), u.type \notin RefUpdates
  PROVE  SameRefs(apply_update(l, u).metadata, l.metadata)
<1> DEFINE r == apply_update(l, u)
<1>1. DOMAIN l = {"metadata", "schema", "spec", "order", "ok"}
      /\ DOMAIN l.metadata = TableMetadataV3_fields
  BY DEF LoopOK, Good
<1>2. u.type \in {"AssignUuid", "UpgradeFormatVersion", "AddSchema", "SetCurrentSchema", "AddSpec",
                  "SetDefaultSpec", "AddSortOrder", "SetDefaultSortOrder",
                  "SetLocation", "SetProperties", "RemoveProperties"}
  BY DEF UpdateOK, TableUpdate_fields, RefUpdates
<1>3. CASE ~l.ok
  BY <1>3 DEF apply_update, SameRefs
<1>4. CASE l.ok
  <2> USE <1>1, <1>4 DEF apply_update, SameRefs, TableMetadataV3_fields,
                       TableMetadataV2_fields, TableMetadataV1_fields
  <2>1. CASE u.type = "UpgradeFormatVersion"
    BY <2>1 DEF Fail
  <2>2. CASE u.type = "AssignUuid"
    BY <2>2
  <2>3. CASE u.type = "AddSchema"
    BY <2>3 DEF add_schema
  <2>4. CASE u.type = "SetCurrentSchema"
    BY <2>4 DEF set_current_schema, Fail
  <2>5. CASE u.type = "AddSpec"
    BY <2>5 DEF add_spec
  <2>6. CASE u.type = "SetDefaultSpec"
    BY <2>6 DEF set_default_spec, Fail
  <2>7. CASE u.type = "AddSortOrder"
    BY <2>7 DEF add_sort_order
  <2>8. CASE u.type = "SetDefaultSortOrder"
    BY <2>8 DEF set_default_sort_order, Fail
  <2>9. CASE u.type = "SetLocation"
    BY <2>9
  <2>10. CASE u.type = "SetProperties"
    BY <2>10
  <2>11. CASE u.type = "RemoveProperties"
    BY <2>11
  <2>12. QED
    BY ONLY <1>2, <2>1, <2>2, <2>3, <2>4, <2>5, <2>6, <2>7, <2>8, <2>9, <2>10, <2>11
<1>5. QED
  BY <1>3, <1>4

\* What the other three do, if they do not fail.
LEMMA AddSnapshotRefs ==
  ASSUME NEW l, LoopOK(l), NEW u, u.type = "AddSnapshot", apply_update(l, u).ok
  PROVE  LET m2 == apply_update(l, u).metadata
         IN  /\ m2.refs = l.metadata.refs
             /\ m2.current_snapshot_id = l.metadata.current_snapshot_id
             /\ DOMAIN m2.snapshots = DOMAIN l.metadata.snapshots \cup {u.snapshot_id}
<1> DEFINE r == apply_update(l, u)
           m == l.metadata
           s == u.snapshot
<1>1. DOMAIN l = {"metadata", "schema", "spec", "order", "ok"} /\ DOMAIN m = TableMetadataV3_fields
  BY DEF LoopOK, Good
<1>2. l.ok
  BY FailedStays
<1>3. r = add_snapshot(l, u)
  BY <1>2 DEF apply_update
<1>4. ~(SequenceStale(m, s) \/ (m.format_version = 3 /\ ~LineageValid(m, s)))
  <2>1. ~Fail(l).ok
    BY <1>1 DEF Fail
  <2>2. QED
    BY <1>3, <2>1 DEF add_snapshot
<1>5. r.metadata = [m EXCEPT !.next_row_id = IF m.format_version = 3
                                              THEN s.first_row_id + s.added_rows ELSE @,
                              !.snapshot_log = Append(@, u.snapshot_id),
                              !.last_sequence_number = s.sequence_number,
                              !.snapshots = Insert(@, u.snapshot_id, s)]
  BY <1>1, <1>3, <1>4 DEF add_snapshot, With
<1> DEFINE m2 == r.metadata
<1> HIDE DEF r, m2, m, s
<1>6. m2.refs = m.refs /\ m2.current_snapshot_id = m.current_snapshot_id
      /\ m2.snapshots = Insert(m.snapshots, u.snapshot_id, s)
  BY <1>1, <1>5 DEF m2, TableMetadataV3_fields, TableMetadataV2_fields, TableMetadataV1_fields
<1>7. DOMAIN m2.snapshots = DOMAIN m.snapshots \cup {u.snapshot_id}
  BY <1>6 DEF Insert, Extend
<1>8. QED
  BY <1>6, <1>7 DEF m2, m, r

LEMMA SetSnapshotRefRefs ==
  ASSUME NEW l, LoopOK(l), NEW u, u.type = "SetSnapshotRef", l.ok
  PROVE  LET m2 == apply_update(l, u).metadata
         IN  /\ m2.refs = Insert(l.metadata.refs, u.ref, u.snapshot_id)
             /\ m2.current_snapshot_id = IF u.ref = "main" THEN u.snapshot_id
                                         ELSE l.metadata.current_snapshot_id
             /\ m2.snapshots = l.metadata.snapshots
<1>1. DOMAIN l = {"metadata", "schema", "spec", "order", "ok"}
      /\ DOMAIN l.metadata = TableMetadataV3_fields
  BY DEF LoopOK, Good
<1>2. QED
  BY <1>1 DEF apply_update, set_snapshot_ref, TableMetadataV3_fields, TableMetadataV2_fields,
              TableMetadataV1_fields

LEMMA RemoveSnapshotsRefs ==
  ASSUME NEW l, LoopOK(l), NEW u, u.type = "RemoveSnapshots", l.ok
  PROVE  LET m2 == apply_update(l, u).metadata
         IN  /\ m2.refs = l.metadata.refs
             /\ m2.current_snapshot_id = l.metadata.current_snapshot_id
             /\ DOMAIN m2.snapshots = DOMAIN l.metadata.snapshots \ u.snapshot_ids
<1> DEFINE kept == Restrict(l.metadata.snapshots, DOMAIN l.metadata.snapshots \ u.snapshot_ids)
           m2 == apply_update(l, u).metadata
<1>1. DOMAIN l = {"metadata", "schema", "spec", "order", "ok"}
      /\ DOMAIN l.metadata = TableMetadataV3_fields
  BY DEF LoopOK, Good
<1>2. m2 = [l.metadata EXCEPT !.snapshots = kept, !.snapshot_log = retain(@, DOMAIN kept)]
  BY <1>1 DEF apply_update, remove_snapshots
<1>3. DOMAIN kept = DOMAIN l.metadata.snapshots \ u.snapshot_ids
  BY DEF Restrict
<1> HIDE DEF kept, m2
<1>4. m2.refs = l.metadata.refs /\ m2.current_snapshot_id = l.metadata.current_snapshot_id
      /\ m2.snapshots = kept
  BY <1>1, <1>2 DEF TableMetadataV3_fields, TableMetadataV2_fields, TableMetadataV1_fields
<1>5. QED
  BY <1>3, <1>4 DEF m2

-----------------------------------------------------------------------------
(* What operations do to refs *)

\* No snapshot and no ref is touched.
Quiet(us) == Len(us) \in 0 .. 2 /\ \A i \in 1 .. Len(us) : us[i].type \notin RefUpdates

\* A new snapshot, and a ref moved to it.
Adds(us, id) ==
  /\ Len(us) = 2
  /\ us[1].type = "AddSnapshot" /\ us[1].snapshot_id = id
  /\ us[2].type = "SetSnapshotRef" /\ us[2].snapshot_id = id

\* Snapshots of m removed that no ref of m names.
Expires(us, m) ==
  /\ Len(us) = 1
  /\ us[1].type = "RemoveSnapshots"
  /\ us[1].snapshot_ids \subseteq DOMAIN m.snapshots
  /\ \A r \in DOMAIN m.refs : m.refs[r] \notin us[1].snapshot_ids

LEMMA ExecuteMoves ==
  ASSUME NEW m, NEW id, NEW op, NEW k \in 1 .. Len(Slots), op.type = Slots[k],
         op.type # "SetSnapshotRef", op.type = "ExpireSnapshots" => op.retain_refs
  PROVE  LET us == execute(m, op, id).updates IN Quiet(us) \/ Adds(us, id) \/ Expires(us, m)
<1> DEFINE r == execute(m, op, id)
           us == r.updates
           old == current_snapshot(m, op.branch).id
<1>1. op.type \in {"AddSchema", "SetDefaultSpec", "Append", "AppendSequenceGroups",
                   "Replace", "Overwrite", "UpdateProperties",
                   "ExpireSnapshots", "ReplaceSortOrder", "Truncate"}
  BY DEF Slots
<1>2. Quiet(Nothing.updates) /\ Quiet(Error.updates)
  BY DEF Nothing, Error, Quiet
<1>3. ASSUME NEW s PROVE Adds(CommitSnapshot(op.branch, old, id, s).updates, id)
  BY DEF CommitSnapshot, Produces, Adds
<1>4. ASSUME NEW u, u.type \notin RefUpdates, NEW q PROVE Quiet(Produces(q, <<u>>).updates)
  BY <1>4 DEF Produces, Quiet
<1> HIDE DEF old
<1>5. CASE op.type = "AddSchema"
  <2>1. r = add_schema_op(op)
    BY <1>5 DEF execute
  <2>2. QED
    BY <2>1, <1>4 DEF add_schema_op, RefUpdates
<1>6. CASE op.type = "SetDefaultSpec"
  <2>1. r = set_default_spec_op(op)
    BY <1>6 DEF execute
  <2>2. QED
    BY <2>1, <1>4 DEF set_default_spec_op, RefUpdates
<1>7. CASE op.type = "Append"
  <2>1. r = append(m, op, id)
    BY <1>7 DEF execute
  <2>2. QED
    BY <2>1, <1>2, <1>3 DEF append, old
<1>8. CASE op.type = "AppendSequenceGroups"
  <2>1. r = append_sequence_groups(m, op, id)
    BY <1>8 DEF execute
  <2>2. QED
    BY <2>1, <1>2, <1>3 DEF append_sequence_groups, old
<1>9. CASE op.type = "Replace"
  <2>1. r = replace(m, op, id)
    BY <1>9 DEF execute
  <2>2. QED
    BY <2>1, <1>2, <1>3 DEF replace, old
<1>10. CASE op.type = "Overwrite"
  <2>1. r = overwrite(m, op, id)
    BY <1>10 DEF execute
  <2>2. QED
    BY <2>1, <1>2, <1>3 DEF overwrite, old
<1>11. CASE op.type = "UpdateProperties"
  <2>1. r = update_properties(op)
    BY <1>11 DEF execute
  <2>2. QED
    BY <2>1, <1>4 DEF update_properties, RefUpdates
<1>12. CASE op.type = "ExpireSnapshots"
  <2> DEFINE expired == {x \in DOMAIN m.snapshots : ~Retained(m, op, x)}
  <2>1. r = expire_snapshots(m, op)
    BY <1>12 DEF execute
  <2>2. \A x \in DOMAIN m.refs : m.refs[x] \notin expired
    BY <1>12 DEF Retained
  <2>3. expired \subseteq DOMAIN m.snapshots
    OBVIOUS
  <2>4. r \in {Nothing, Error} \/ r = Produces({}, <<[type |-> "RemoveSnapshots", snapshot_ids |-> expired]>>)
    BY <2>1 DEF expire_snapshots
  <2> HIDE DEF expired
  <2>5. CASE r = Produces({}, <<[type |-> "RemoveSnapshots", snapshot_ids |-> expired]>>)
    <3>1. Len(us) = 1 /\ us[1].type = "RemoveSnapshots" /\ us[1].snapshot_ids = expired
      BY <2>5 DEF Produces
    <3> HIDE DEF us
    <3>2. Expires(us, m)
      BY <3>1, <2>2, <2>3 DEF Expires
    <3>3. QED
      BY <3>2 DEF us
  <2>6. QED
    BY <2>4, <2>5, <1>2
<1>13. CASE op.type = "ReplaceSortOrder"
  <2>1. r = replace_sort_order(m, op)
    BY <1>13 DEF execute
  <2>2. r = Error \/ us = <<[type |-> "AddSortOrder", order_id |-> op.order_id],
                            [type |-> "SetDefaultSortOrder", order_id |-> op.order_id]>>
    BY <2>1 DEF replace_sort_order, Produces
  <2>3. CASE r = Error
    BY <2>3, <1>2
  <2>4. CASE us = <<[type |-> "AddSortOrder", order_id |-> op.order_id],
                    [type |-> "SetDefaultSortOrder", order_id |-> op.order_id]>>
    <3>1. Len(us) = 2 /\ us[1].type = "AddSortOrder" /\ us[2].type = "SetDefaultSortOrder"
      BY <2>4
    <3> HIDE DEF us
    <3>2. Quiet(us)
      BY <3>1 DEF Quiet, RefUpdates
    <3>3. QED
      BY <3>2 DEF us
  <2>5. QED
    BY <2>2, <2>3, <2>4
<1>14. CASE op.type = "Truncate"
  <2>1. r = truncate(m, op, id)
    BY <1>14 DEF execute
  <2>2. QED
    BY <2>1, <1>2, <1>3 DEF truncate, old
<1>15. QED
  BY ONLY <1>1, <1>5, <1>6, <1>7, <1>8, <1>9, <1>10, <1>11, <1>12, <1>13, <1>14

-----------------------------------------------------------------------------
(* Updates applied one list after the other *)

\* A run of apply_update over us.
IsRun(g, us) == \A i \in 1 .. Len(us) : g[i] = apply_update(g[i - 1], us[i])

LEMMA ApplyConcat ==
  ASSUME NEW m, NEW us, NEW vs, NEW S, us \in Seq(S), vs \in Seq(S)
  PROVE  \E g : /\ g[0] = apply_table_updates(m, us)
                /\ IsRun(g, vs)
                /\ apply_table_updates(m, us \o vs) = g[Len(vs)]
<1> DEFINE ws == us \o vs
           n == Len(us)
<1>1. /\ n \in Nat /\ Len(vs) \in Nat /\ Len(ws) = n + Len(vs)
      /\ \A i \in 1 .. n : ws[i] = us[i]
      /\ \A i \in 1 .. Len(vs) : ws[n + i] = vs[i]
  OBVIOUS
<1>2. PICK G : /\ G[0] = LoopStart(m)
               /\ \A i \in 1 .. Len(ws) : G[i] = apply_update(G[i - 1], ws[i])
               /\ apply_table_updates(m, ws) = G[Len(ws)]
  <2> HIDE DEF ws
  <2>1. Len(ws) \in Nat
    BY <1>1
  <2>2. QED
    BY <2>1, UpdateLoop
<1>3. PICK H : /\ H[0] = LoopStart(m)
               /\ \A i \in 1 .. n : H[i] = apply_update(H[i - 1], us[i])
               /\ apply_table_updates(m, us) = H[n]
  BY <1>1, UpdateLoop
<1> HIDE DEF ws, n
<1> DEFINE T == {k \in 0 .. n : G[k] = H[k]}
<1>4. \A k \in 0 .. n - 1 : k \in T => k + 1 \in T
  <2> SUFFICES ASSUME NEW k \in 0 .. n - 1, G[k] = H[k] PROVE k + 1 \in T
    OBVIOUS
  <2>1. k + 1 \in 1 .. n /\ k + 1 \in 1 .. Len(ws) /\ (k + 1) - 1 = k /\ k + 1 \in 0 .. n
    BY <1>1
  <2>2. G[k + 1] = apply_update(G[k], ws[k + 1]) /\ H[k + 1] = apply_update(H[k], us[k + 1])
    BY <2>1, <1>2, <1>3
  <2>3. ws[k + 1] = us[k + 1]
    BY <2>1, <1>1
  <2>4. QED
    BY <2>1, <2>2, <2>3
<1>5. 0 \in T
  BY <1>1, <1>2, <1>3
<1>6. G[n] = H[n]
  <2>1. \A k \in 0 .. n : k \in T
    BY <1>1, <1>4, <1>5, Induction
  <2>2. QED
    BY <1>1, <2>1
<1> DEFINE g == [i \in 0 .. Len(vs) |-> G[n + i]]
<1>7. ASSUME NEW i \in 1 .. Len(vs) PROVE g[i] = apply_update(g[i - 1], vs[i])
  <2>1. /\ n + i \in 1 .. Len(ws) /\ (n + i) - 1 = n + (i - 1)
        /\ i \in 0 .. Len(vs) /\ i - 1 \in 0 .. Len(vs)
    BY <1>1
  <2>2. G[n + i] = apply_update(G[n + (i - 1)], ws[n + i])
    BY <2>1, <1>2
  <2>3. g[i] = G[n + i] /\ g[i - 1] = G[n + (i - 1)]
    BY <2>1
  <2>4. QED
    BY <2>2, <2>3, <1>1
<1>8. g[0] = G[n] /\ g[Len(vs)] = G[Len(ws)]
  BY <1>1
<1> HIDE DEF g
<1>9. QED
  BY <1>2, <1>3, <1>6, <1>7, <1>8 DEF IsRun, ws

-----------------------------------------------------------------------------
(* The effect of one operation's updates on refs and snapshots *)

Effect(m2, m, us, id) ==
  \/ Quiet(us) /\ SameRefs(m2, m)
  \/ /\ Adds(us, id)
     /\ DOMAIN m2.snapshots = DOMAIN m.snapshots \cup {id}
     /\ m2.refs = Insert(m.refs, us[2].ref, id)
     /\ m2.current_snapshot_id = IF us[2].ref = "main" THEN id ELSE m.current_snapshot_id
  \/ /\ Len(us) = 1 /\ us[1].type = "RemoveSnapshots"
     /\ DOMAIN m2.snapshots = DOMAIN m.snapshots \ us[1].snapshot_ids
     /\ m2.refs = m.refs
     /\ m2.current_snapshot_id = m.current_snapshot_id

LEMMA RunEffect ==
  ASSUME NEW us, NEW id \in Nat \ {0}, \A i \in 1 .. Len(us) : UpdateOK(us[i]),
         \/ Quiet(us) \/ Adds(us, id)
         \/ Len(us) = 1 /\ us[1].type = "RemoveSnapshots",
         NEW g, LoopOK(g[0]), Below(g[0].metadata, id), IsRun(g, us), g[Len(us)].ok
  PROVE  /\ g[0].ok
         /\ LoopOK(g[Len(us)]) /\ Below(g[Len(us)].metadata, id + 1)
         /\ Effect(g[Len(us)].metadata, g[0].metadata, us, id)
<1> DEFINE l == g[0]
           m == l.metadata
<1>1. \A x : (\A i \in DOMAIN x.snapshots : i \in DOMAIN m.snapshots \/ i = id)
              => Below(x, id + 1)
  <2>1. DOMAIN m.snapshots \subseteq Nat /\ \A i \in DOMAIN m.snapshots : i < id
    BY DEF Below, LoopOK, Good
  <2>2. \A i : i \in DOMAIN m.snapshots \/ i = id => i < id + 1
    BY <2>1
  <2> QED
    BY ONLY <2>2 DEF Below
<1>2. ASSUME NEW u, UpdateOK(u), u.type # "AddSnapshot", NEW k, LoopOK(k)
      PROVE  /\ LoopOK(apply_update(k, u))
             /\ DOMAIN apply_update(k, u).metadata.snapshots \subseteq DOMAIN k.metadata.snapshots
  BY <1>2, UpdateGood
<1>3. CASE Quiet(us)
  <2>1. CASE Len(us) = 0
    <3>1. SameRefs(m, m)
      BY DEF SameRefs
    <3>2. QED
      BY <2>1, <3>1, <1>1, <1>3 DEF Effect
  <2>2. CASE Len(us) = 1
    <3> DEFINE u == us[1]
    <3>1. g[1] = apply_update(l, u) /\ UpdateOK(u) /\ u.type \notin RefUpdates
      BY <2>2, <1>3 DEF IsRun, Quiet
    <3>2. SameRefs(g[1].metadata, m)
      BY <3>1, OtherRefs
    <3>3. l.ok
      BY <3>1, <2>2, FailedStays
    <3>4. LoopOK(g[1])
      BY <3>1, <1>2 DEF RefUpdates
    <3>5. QED
      BY <2>2, <3>2, <3>3, <3>4, <1>1, <1>3 DEF Effect, SameRefs
  <2>3. CASE Len(us) = 2
    <3> DEFINE u == us[1]
               v == us[2]
    <3>1. /\ g[1] = apply_update(l, u) /\ UpdateOK(u) /\ u.type \notin RefUpdates
          /\ g[2] = apply_update(g[1], v) /\ UpdateOK(v) /\ v.type \notin RefUpdates
      BY <2>3, <1>3 DEF IsRun, Quiet
    <3>2. LoopOK(g[1])
      BY <3>1, <1>2 DEF RefUpdates
    <3>3. LoopOK(g[2])
      BY <3>1, <3>2, <1>2 DEF RefUpdates
    <3>4. SameRefs(g[1].metadata, m) /\ SameRefs(g[2].metadata, g[1].metadata)
      BY <3>1, <3>2, OtherRefs
    <3>5. SameRefs(g[2].metadata, m)
      BY <3>4 DEF SameRefs
    <3>6. g[1].ok
      BY <3>1, <2>3, FailedStays
    <3>7. l.ok
      BY <3>1, <3>6, FailedStays
    <3>8. QED
      BY <2>3, <3>3, <3>5, <3>7, <1>1, <1>3 DEF Effect, SameRefs
  <2>4. QED
    BY <1>3, <2>1, <2>2, <2>3 DEF Quiet
<1>4. CASE Adds(us, id)
  <2> DEFINE u == us[1]
             v == us[2]
  <2>1. /\ Len(us) = 2 /\ u.type = "AddSnapshot" /\ u.snapshot_id = id
        /\ v.type = "SetSnapshotRef" /\ v.snapshot_id = id
        /\ UpdateOK(u) /\ UpdateOK(v)
        /\ g[1] = apply_update(l, u) /\ g[2] = apply_update(g[1], v) /\ g[2].ok
    BY <1>4 DEF Adds, IsRun
  <2>2. g[1].ok
    BY <2>1, FailedStays
  <2>3. l.ok
    BY <2>1, <2>2, FailedStays
  <2>4. LoopOK(g[1])
    BY <2>1, UpdateGood
  <2>5. LoopOK(g[2])
    BY <2>1, <2>4, <1>2
  <2>6. /\ g[1].metadata.refs = m.refs
        /\ g[1].metadata.current_snapshot_id = m.current_snapshot_id
        /\ DOMAIN g[1].metadata.snapshots = DOMAIN m.snapshots \cup {id}
    BY <2>1, <2>2, AddSnapshotRefs
  <2>7. /\ g[2].metadata.refs = Insert(g[1].metadata.refs, v.ref, id)
        /\ g[2].metadata.current_snapshot_id =
             IF v.ref = "main" THEN id ELSE g[1].metadata.current_snapshot_id
        /\ g[2].metadata.snapshots = g[1].metadata.snapshots
    BY <2>1, <2>2, <2>4, SetSnapshotRefRefs
  <2>8. Effect(g[2].metadata, m, us, id)
    BY <1>4, <2>6, <2>7 DEF Effect
  <2>9. Below(g[2].metadata, id + 1)
    BY <2>6, <2>7, <1>1
  <2>10. QED
    BY <2>1, <2>3, <2>5, <2>8, <2>9
<1>5. CASE Len(us) = 1 /\ us[1].type = "RemoveSnapshots"
  <2> DEFINE u == us[1]
  <2>1. UpdateOK(u) /\ u.type = "RemoveSnapshots" /\ g[1] = apply_update(l, u) /\ g[1].ok
    BY <1>5 DEF IsRun
  <2>2. l.ok
    BY <2>1, FailedStays
  <2>3. LoopOK(g[1])
    BY <2>1, <1>2
  <2>4. /\ g[1].metadata.refs = m.refs
        /\ g[1].metadata.current_snapshot_id = m.current_snapshot_id
        /\ DOMAIN g[1].metadata.snapshots = DOMAIN m.snapshots \ u.snapshot_ids
    BY <2>1, <2>2, RemoveSnapshotsRefs
  <2>5. Effect(g[1].metadata, m, us, id)
    BY <1>5, <2>4 DEF Effect
  <2>6. Below(g[1].metadata, id + 1)
    BY <2>4, <1>1
  <2>7. QED
    BY <1>5, <2>2, <2>3, <2>5, <2>6
<1>6. QED
  BY <1>3, <1>4, <1>5

\* The refs of m that are not those of m0 name snapshots from b on.
Moved(m, m0, b) ==
  \A r \in DOMAIN m.refs : m.refs[r] >= b \/ (r \in DOMAIN m0.refs /\ m.refs[r] = m0.refs[r])

\* Refs still resolve in the table after updates computed on metadata s that the
\* table follows, and only move to the new snapshot.
LEMMA EffectResolved ==
  ASSUME NEW m, NEW m2, NEW us, NEW id \in Nat \ {0}, NEW b \in Nat, b <= id, NEW m0,
         NEW s, Quiet(us) \/ Adds(us, id) \/ Expires(us, s),
         Effect(m2, m, us, id), Resolved(m), Follows(s, m), Moved(m, m0, b)
  PROVE  Resolved(m2) /\ Moved(m2, m0, b)
<1>1. CASE Quiet(us)
  <2>1. SameRefs(m2, m)
    BY <1>1 DEF Effect, Quiet, Adds, RefUpdates
  <2>2. QED
    BY <2>1 DEF SameRefs, Resolved, Moved
<1>2. CASE Adds(us, id)
  <2> DEFINE ref == us[2].ref
  <2>1. /\ DOMAIN m2.snapshots = DOMAIN m.snapshots \cup {id}
        /\ m2.refs = Insert(m.refs, ref, id)
        /\ m2.current_snapshot_id = IF ref = "main" THEN id ELSE m.current_snapshot_id
    BY <1>2 DEF Effect, Quiet, Adds, RefUpdates
  <2> HIDE DEF ref
  <2>2. /\ DOMAIN m2.refs = DOMAIN m.refs \cup {ref} /\ m2.refs[ref] = id
        /\ \A r \in DOMAIN m.refs : r # ref => m2.refs[r] = m.refs[r]
    BY <2>1 DEF Insert, Extend
  <2>3. m2.current_snapshot_id = Get(m2.refs, "main")
    BY <2>1, <2>2 DEF Resolved, Get
  <2>4. \A r \in DOMAIN m2.refs : m2.refs[r] \in DOMAIN m2.snapshots
    BY <2>1, <2>2 DEF Resolved
  <2>5. Moved(m2, m0, b)
    BY <2>2 DEF Moved
  <2>6. QED
    BY <2>3, <2>4, <2>5 DEF Resolved
<1>3. CASE Expires(us, s)
  <2> DEFINE ids == us[1].snapshot_ids
  <2>1. /\ DOMAIN m2.snapshots = DOMAIN m.snapshots \ ids
        /\ m2.refs = m.refs /\ m2.current_snapshot_id = m.current_snapshot_id
    BY <1>3 DEF Effect, Expires, Quiet, Adds, RefUpdates
  <2>2. ids \subseteq DOMAIN s.snapshots /\ \A r \in DOMAIN s.refs : s.refs[r] \notin ids
    BY <1>3 DEF Expires
  <2> HIDE DEF ids
  <2>3. \A r \in DOMAIN m.refs : m.refs[r] \notin ids
    BY <2>2 DEF Follows
  <2>4. QED
    BY <2>1, <2>3 DEF Resolved, Moved
<1>4. QED
  BY <1>1, <1>2, <1>3

\* The table still follows the staged metadata after both were updated.
LEMMA EffectFollows ==
  ASSUME NEW m, NEW m2, NEW s, NEW s2, NEW us, NEW id \in Nat \ {0},
         Quiet(us) \/ Adds(us, id) \/ Expires(us, s),
         Effect(m2, m, us, id), Effect(s2, s, us, id),
         Resolved(m), Below(m, id), Follows(s, m)
  PROVE  Follows(s2, m2)
<1>1. CASE Quiet(us)
  <2>1. SameRefs(m2, m) /\ SameRefs(s2, s)
    BY <1>1 DEF Effect, Quiet, Adds, RefUpdates
  <2>2. QED
    BY <2>1 DEF SameRefs, Follows
<1>2. CASE Adds(us, id)
  <2> DEFINE ref == us[2].ref
  <2>1. /\ DOMAIN s2.snapshots = DOMAIN s.snapshots \cup {id}
        /\ m2.refs = Insert(m.refs, ref, id) /\ s2.refs = Insert(s.refs, ref, id)
    BY <1>2 DEF Effect, Quiet, Adds, RefUpdates
  <2> HIDE DEF ref
  <2>2. /\ DOMAIN m2.refs = DOMAIN m.refs \cup {ref} /\ m2.refs[ref] = id
        /\ \A r \in DOMAIN m.refs : r # ref => m2.refs[r] = m.refs[r]
        /\ DOMAIN s2.refs = DOMAIN s.refs \cup {ref} /\ s2.refs[ref] = id
        /\ \A r \in DOMAIN s.refs : r # ref => s2.refs[r] = s.refs[r]
    BY <2>1 DEF Insert, Extend
  <2>3. \A r \in DOMAIN m.refs : m.refs[r] # id
    BY DEF Resolved, Below
  <2>4. QED
    BY <2>1, <2>2, <2>3 DEF Follows
<1>3. CASE Expires(us, s)
  <2> DEFINE ids == us[1].snapshot_ids
  <2>1. /\ DOMAIN s2.snapshots = DOMAIN s.snapshots \ ids
        /\ m2.refs = m.refs /\ s2.refs = s.refs
    BY <1>3 DEF Effect, Expires, Quiet, Adds, RefUpdates
  <2>2. QED
    BY <2>1 DEF Follows
<1>4. QED
  BY <1>1, <1>2, <1>3

-----------------------------------------------------------------------------
(* The loop of commit() beside the table it is committed to *)

\* The table m0 after the updates that commit() has collected.
Table(m0, acc) == apply_table_updates(m0, acc.updates)

\* If nothing failed, refs resolve there and moved to new snapshots only.
Carried(acc, m0, b) ==
  acc.ok /\ Table(m0, acc).ok =>
    /\ LoopOK(Table(m0, acc)) /\ Below(Table(m0, acc).metadata, acc.id)
    /\ Resolved(Table(m0, acc).metadata)
    /\ Moved(Table(m0, acc).metadata, m0, b)

InStep(acc, m0) ==
  acc.ok /\ Table(m0, acc).ok => Follows(acc.staged, Table(m0, acc).metadata)

LEMMA RunFailed ==
  ASSUME NEW us, Len(us) \in 0 .. 2, NEW g, IsRun(g, us), g[Len(us)].ok
  PROVE  g[0].ok
<1>1. CASE Len(us) = 0
  BY <1>1
<1>2. CASE Len(us) = 1
  BY <1>2, FailedStays DEF IsRun
<1>3. CASE Len(us) = 2
  <2>1. g[1] = apply_update(g[0], us[1]) /\ g[2] = apply_update(g[1], us[2])
    BY <1>3 DEF IsRun
  <2>2. g[1].ok
    BY <1>3, <2>1, FailedStays
  <2>3. QED
    BY <2>1, <2>2, FailedStays
<1>4. QED
  BY <1>1, <1>2, <1>3

LEMMA StepRefs ==
  ASSUME NEW m0, NEW b \in Nat \ {0}, NEW acc, StagedOK(acc, b), acc.ok,
         Carried(acc, m0, b), InStep(acc, m0), NEW base, NEW staged,
         NEW op, OpOK(op), NEW k \in 1 .. Len(Slots), op.type = Slots[k],
         op.type # "SetSnapshotRef", op.type = "ExpireSnapshots" => op.retain_refs
  PROVE  /\ Carried(Step(base, staged, acc, op), m0, b)
         /\ staged => InStep(Step(base, staged, acc, op), m0)
<1> DEFINE acc2 == Step(base, staged, acc, op)
           id == acc.id
           s == acc.staged
           r == execute(s, op, id)
           us == acc.updates
           vs == r.updates
           l == Table(m0, acc)
           l2 == Table(m0, acc2)
<1> SUFFICES ASSUME acc2.ok, l2.ok
             PROVE  /\ LoopOK(l2) /\ Below(l2.metadata, acc2.id)
                    /\ Resolved(l2.metadata) /\ Moved(l2.metadata, m0, b)
                    /\ staged => Follows(acc2.staged, l2.metadata)
  BY DEF Carried, InStep
<1>1. /\ id \in Nat \ {0} /\ b \in Nat /\ b <= id /\ Good(s) /\ Below(s, id) /\ Fresh(us, b, id)
  BY DEF StagedOK
<1>2. acc2.id = id + 1 /\ acc2.updates = us \o vs
  BY DEF Step
<1>3. staged => acc2.staged = apply_table_updates(s, vs).metadata /\ apply_table_updates(s, vs).ok
  BY DEF Step
<1> HIDE DEF id, s, us
<1>4. Fresh(vs, id, id + 1)
  BY <1>1, ExecuteFresh
<1>5. Quiet(vs) \/ Adds(vs, id) \/ Expires(vs, s)
  BY ExecuteMoves
<1> HIDE DEF vs
<1>6. PICK g : g[0] = l /\ IsRun(g, vs) /\ l2 = g[Len(vs)]
  <2>1. PICK S1, S2 : us \in Seq(S1) /\ vs \in Seq(S2)
    BY <1>1, <1>4 DEF Fresh
  <2>2. us \in Seq(S1 \cup S2) /\ vs \in Seq(S1 \cup S2)
    BY <2>1
  <2>3. PICK g : /\ g[0] = apply_table_updates(m0, us) /\ IsRun(g, vs)
                 /\ apply_table_updates(m0, us \o vs) = g[Len(vs)]
    BY <2>2, ApplyConcat
  <2>4. l = apply_table_updates(m0, us) /\ l2 = apply_table_updates(m0, us \o vs)
    BY <1>2 DEF Table, us
  <2>5. QED
    BY <2>3, <2>4
<1> HIDE DEF l, l2, acc2
<1>7. /\ Len(vs) \in 0 .. 2 /\ \A i \in 1 .. Len(vs) : UpdateOK(vs[i])
      /\ Quiet(vs) \/ Adds(vs, id) \/ (Len(vs) = 1 /\ vs[1].type = "RemoveSnapshots")
  BY <1>4, <1>5 DEF Fresh, Quiet, Adds, Expires
<1>8. l.ok
  BY <1>6, <1>7, RunFailed
<1>9. /\ LoopOK(l) /\ Below(l.metadata, id) /\ Resolved(l.metadata) /\ Moved(l.metadata, m0, b)
      /\ Follows(s, l.metadata)
  BY <1>8 DEF Carried, InStep, l, id, s
<1>10. LoopOK(l2) /\ Below(l2.metadata, id + 1) /\ Effect(l2.metadata, l.metadata, vs, id)
  <2>1. LoopOK(g[0]) /\ Below(g[0].metadata, id) /\ g[Len(vs)].ok
    BY <1>6, <1>9
  <2>2. LoopOK(g[Len(vs)]) /\ Below(g[Len(vs)].metadata, id + 1)
        /\ Effect(g[Len(vs)].metadata, g[0].metadata, vs, id)
    BY ONLY <1>1, <1>6, <1>7, <2>1, RunEffect
  <2>3. QED
    BY <2>2, <1>6
<1>11. Resolved(l2.metadata) /\ Moved(l2.metadata, m0, b)
  <2> DEFINE m == l.metadata
             m2 == l2.metadata
  <2>1. Effect(m2, m, vs, id) /\ Resolved(m) /\ Follows(s, m) /\ Moved(m, m0, b)
    BY <1>9, <1>10
  <2> HIDE DEF m, m2
  <2>2. Resolved(m2) /\ Moved(m2, m0, b)
    BY ONLY <1>1, <1>5, <2>1, EffectResolved
  <2>3. QED
    BY <2>2 DEF m2
<1>12. ASSUME staged PROVE Follows(acc2.staged, l2.metadata)
  <2>1. PICK h : /\ h[0] = LoopStart(s)
                 /\ \A i \in 1 .. Len(vs) : h[i] = apply_update(h[i - 1], vs[i])
                 /\ apply_table_updates(s, vs) = h[Len(vs)]
    <3>1. Len(vs) \in Nat
      BY <1>7
    <3>2. QED
      BY <3>1, UpdateLoop
  <2>2. IsRun(h, vs) /\ h[Len(vs)].ok /\ acc2.staged = h[Len(vs)].metadata
    BY <2>1, <1>3, <1>12 DEF IsRun
  <2>3. h[0].metadata = s /\ LoopOK(h[0]) /\ Below(h[0].metadata, id)
    <3>1. h[0].metadata = s /\ DOMAIN h[0] = {"metadata", "schema", "spec", "order", "ok"}
      BY <2>1 DEF LoopStart
    <3>2. QED
      BY <3>1, <1>1 DEF LoopOK
  <2>4. Effect(h[Len(vs)].metadata, h[0].metadata, vs, id)
    BY ONLY <1>1, <1>7, <2>2, <2>3, RunEffect
  <2> DEFINE m == l.metadata
             m2 == l2.metadata
             s2 == acc2.staged
  <2>5. /\ Effect(s2, s, vs, id) /\ Effect(m2, m, vs, id)
        /\ Resolved(m) /\ Below(m, id) /\ Follows(s, m)
    BY <2>2, <2>3, <2>4, <1>9, <1>10
  <2> HIDE DEF m, m2, s2
  <2>6. Follows(s2, m2)
    BY ONLY <1>1, <1>5, <2>5, EffectFollows
  <2>7. QED
    BY <2>6 DEF s2, m2
<1>13. QED
  BY <1>2, <1>10, <1>11, <1>12

\* Slots are distinct.
LEMMA SlotsDistinct == \A i, j \in 1 .. Len(Slots) : Slots[i] = Slots[j] => i = j
BY DEF Slots

\* What commit() makes of metadata base that the table m0 follows.
LEMMA PrepareRefs ==
  ASSUME ForwardOnly, NEW base, Good(base), NEW ops \in Built,
         NEW b \in Nat \ {0}, Below(base, b),
         NEW m0, Good(m0), Below(m0, b), Resolved(m0), Follows(base, m0)
  PROVE  Carried(Prepare(base, ops, b), m0, b)
<1> DEFINE n == Len(Slots)
           slot(j) == {op \in ops : op.type = Slots[j]}
<1>1. PICK g : /\ g[0] = Start(base, ops, b)
               /\ \A i \in 1 .. n : g[i] = SlotTurn(base, ops, g[i - 1], i)
               /\ Prepare(base, ops, b) = g[n]
  BY PrepareLoop
<1>2. n \in Nat
  BY DEF Slots
<1>3. \A op \in ops : OpOK(op)
  BY BuiltOK
<1> DEFINE P(k) == /\ StagedOK(g[k], b)
                   /\ Carried(g[k], m0, b)
                   /\ (Several(ops) \/ \A j \in 1 .. k : slot(j) = {}) => InStep(g[k], m0)
           T == {k \in 0 .. n : P(k)}
<1>4. P(0)
  <2>1. g[0].id = b /\ g[0].staged = base /\ g[0].updates = <<>>
    BY <1>1 DEF Start
  <2>2. Fresh(<<>>, b, b)
    <3>1. <<>> \in Seq({})
      OBVIOUS
    <3>2. QED
      BY <3>1 DEF Fresh
  <2>3. StagedOK(g[0], b)
    BY <2>1, <2>2 DEF StagedOK
  <2>4. Table(m0, g[0]) = LoopStart(m0)
    <3> DEFINE us == <<>>
    <3>1. Len(us) \in Nat /\ Len(us) = 0
      OBVIOUS
    <3> HIDE DEF us
    <3>2. apply_table_updates(m0, us) = LoopStart(m0)
      BY <3>1, UpdateLoop
    <3>3. QED
      BY <2>1, <3>2 DEF Table, us
  <2>5. Table(m0, g[0]).metadata = m0 /\ LoopOK(Table(m0, g[0]))
    BY <2>4 DEF LoopStart, LoopOK
  <2>6. Moved(m0, m0, b)
    BY DEF Moved
  <2>7. QED
    BY <2>1, <2>3, <2>5, <2>6 DEF Carried, InStep
<1>5. ASSUME NEW k \in 0 .. n - 1, P(k) PROVE P(k + 1)
  <2> HIDE DEF n
  <2> DEFINE acc == g[k]
             i == k + 1
             staged == Several(ops)
             x == CHOOSE op \in slot(i) : TRUE
  <2>1. i \in 1 .. n /\ i - 1 = k /\ k \in Nat
    BY <1>2
  <2>2. g[i] = SlotTurn(base, ops, acc, i) /\ i \in 1 .. Len(Slots)
    BY <2>1, <1>1 DEF n
  <2>3. StagedOK(g[i], b)
    <3>1. StagedOK(acc, b)
      BY <1>5
    <3> HIDE DEF acc, i
    <3>2. QED
      BY <2>2, <3>1, <1>3, TurnOK
  <2>4. \A j \in 1 .. k : j \in 1 .. i
    BY <2>1
  <2>5. CASE ~acc.ok \/ slot(i) = {}
    <3>1. g[i] = acc
      BY <2>2, <2>5 DEF SlotTurn, Turn
    <3>2. (staged \/ \A j \in 1 .. i : slot(j) = {}) => (staged \/ \A j \in 1 .. k : slot(j) = {})
      BY <2>4
    <3> HIDE DEF slot
    <3>3. QED
      BY <3>1, <3>2, <2>3, <1>5
  <2>6. CASE ~(~acc.ok \/ slot(i) = {})
    <3>1. x \in slot(i)
      BY <2>6
    <3>2. x \in ops /\ x.type = Slots[i] /\ OpOK(x)
      BY <3>1, <1>3
    <3>3. x.type # "SetSnapshotRef" /\ (x.type = "ExpireSnapshots" => x.retain_refs)
      BY <3>2 DEF ForwardOnly
    <3>4. g[i] = Step(base, staged, acc, x)
      BY <2>2, <2>6 DEF SlotTurn, Turn
    <3>5. staged \/ \A j \in 1 .. k : slot(j) = {}
      <4> SUFFICES ASSUME ~staged, NEW j \in 1 .. k, NEW y \in slot(j) PROVE FALSE
        OBVIOUS
      <4>1. y \in ops /\ y.type = Slots[j] /\ y = x
        BY <3>2 DEF Several
      <4>2. j \in 1 .. Len(Slots) /\ j # i /\ Slots[j] = Slots[i]
        BY <4>1, <3>2, <2>1 DEF n
      <4>3. QED
        BY <4>2, <2>2, SlotsDistinct
    <3>6. StagedOK(acc, b) /\ acc.ok /\ Carried(acc, m0, b) /\ InStep(acc, m0)
      BY <1>5, <2>6, <3>5
    <3>7. ~ \A j \in 1 .. i : slot(j) = {}
      BY <3>1, <2>1
    <3> HIDE DEF acc, x, i, staged, slot
    <3>8. /\ Carried(Step(base, staged, acc, x), m0, b)
          /\ staged => InStep(Step(base, staged, acc, x), m0)
      BY ONLY <3>2, <3>3, <3>6, <2>2, StepRefs
    <3>9. QED
      BY <3>4, <3>7, <3>8, <2>3 DEF staged, i
  <2>7. QED
    BY <2>5, <2>6
<1> HIDE DEF P, n
<1>6. \A k \in 0 .. n - 1 : k \in T => k + 1 \in T
  BY <1>2, <1>5
<1>7. 0 \in T
  BY <1>2, <1>4
<1>8. \A k \in 0 .. n : k \in T
  BY <1>2, <1>6, <1>7, Induction
<1>9. QED
  BY <1>1, <1>2, <1>8 DEF P

-----------------------------------------------------------------------------
(* The metadata file *)

\* Writing a file whose refs resolve and reading it again: refs that are
\* read were written (a version 1 file keeps main only), and they resolve.
LEMMA RereadRefs ==
  ASSUME NEW m, Good(m), Resolved(m)
  PROVE  /\ DOMAIN Reread(m).snapshots = DOMAIN m.snapshots
         /\ \A r \in DOMAIN Reread(m).refs :
              r \in DOMAIN m.refs /\ Reread(m).refs[r] = m.refs[r]
         /\ Resolved(Reread(m))
<1> USE DEF TableMetadataV1_fields, TableMetadataV2_fields, TableMetadataV3_fields
<1> DEFINE r == TableMetadataEnum(m)
           m2 == Reread(m)
           c == m.current_snapshot_id
           from == DOMAIN m.snapshots
<1>1. DOMAIN m = TableMetadataV3_fields /\ m.format_version \in 1 .. 3
  BY DEF Good
<1>2. DOMAIN m2.snapshots = from
  BY <1>1, RereadSurvives DEF Survives
<1>3. c # -1
  BY RowIdAssumption DEF Resolved, Get, Good
<1>4. c # None => "main" \in DOMAIN m.refs /\ m.refs["main"] = c
  BY DEF Resolved, Get
<1>5. r.current_snapshot_id = (IF c = None THEN -1 ELSE c) /\ r.format_version = m.format_version
      /\ (m.format_version # 1 => r.refs = m.refs)
  <2>1. CASE m.format_version = 1
    <3>1. r = TableMetadataV1(m)
      BY <2>1 DEF TableMetadataEnum
    <3>2. QED
      BY <1>1, <2>1, <3>1 DEF TableMetadataV1, Written, Restrict
  <2>2. CASE m.format_version = 2
    <3>1. r = TableMetadataV2(m)
      BY <2>2 DEF TableMetadataEnum
    <3>2. QED
      BY <1>1, <2>2, <3>1 DEF TableMetadataV2, Written, Restrict
  <2>3. CASE m.format_version = 3
    <3>1. r = TableMetadataV3(m)
      BY <2>3 DEF TableMetadataEnum
    <3>2. QED
      BY <1>1, <2>3, <3>1 DEF TableMetadataV3, Written, Restrict
  <2>4. QED
    BY <1>1, <2>1, <2>2, <2>3
<1>6. Current(r) = c
  BY <1>3, <1>5 DEF Current
<1>7. DOMAIN r = IF m.format_version = 1 THEN TableMetadataV1_fields
                 ELSE IF m.format_version = 2 THEN TableMetadataV2_fields
                 ELSE TableMetadataV3_fields
  <2>1. m.format_version = 1 => r = TableMetadataV1(m)
    BY DEF TableMetadataEnum
  <2>2. m.format_version = 2 => r = TableMetadataV2(m)
    BY DEF TableMetadataEnum
  <2>3. m.format_version = 3 => r = TableMetadataV3(m)
    BY DEF TableMetadataEnum
  <2>4. QED
    BY <1>1, <2>1, <2>2, <2>3
       DEF TableMetadataV1, TableMetadataV2, TableMetadataV3, Written, Restrict
<1> HIDE DEF r
<1>8. /\ m2.current_snapshot_id = c
      /\ m2.refs = IF m.format_version = 1 THEN MainOf(c) ELSE Extend(MainOf(c), m.refs)
  <2>1. CASE m.format_version = 1
    <3> DEFINE w == ReadWith(r, FromSnapshotV1)
               x == [last_sequence_number |-> 0, refs |-> MainOf(Current(r)), next_row_id |-> 0]
    <3>1. m2 = Extend(w, x)
      BY <2>1, <1>5 DEF try_from, Reread, r, try_from_v1
    <3>2. w.current_snapshot_id = c /\ DOMAIN w = TableMetadataV1_fields
      BY <1>6, <1>7, <2>1 DEF ReadWith
    <3> HIDE DEF w, m2
    <3>3. QED
      BY <2>1, <3>1, <3>2, <1>6 DEF Extend
  <2>2. CASE m.format_version = 2
    <3> DEFINE w == ReadWith(r, FromSnapshotV2)
               x == [refs |-> ReadRefs(r), next_row_id |-> 0]
    <3>1. m2 = Extend(w, x)
      BY <2>2, <1>5 DEF try_from, Reread, r, try_from_v2
    <3>2. w.current_snapshot_id = c /\ DOMAIN w = TableMetadataV2_fields
      BY <1>6, <1>7, <2>2 DEF ReadWith
    <3>3. ReadRefs(r) = Extend(MainOf(c), m.refs)
      BY <1>5, <1>6, <2>2 DEF ReadRefs
    <3> HIDE DEF w, m2
    <3>4. m2.current_snapshot_id = c /\ m2.refs = ReadRefs(r)
      BY <3>1, <3>2 DEF Extend
    <3>5. QED
      BY <2>2, <3>3, <3>4
  <2>3. CASE m.format_version = 3
    <3> DEFINE w == ReadWith(r, FromSnapshotV3)
               x == [refs |-> ReadRefs(r)]
    <3>1. m2 = Extend(w, x)
      BY <2>3, <1>5 DEF try_from, Reread, r, try_from_v3
    <3>2. w.current_snapshot_id = c /\ DOMAIN w = TableMetadataV3_fields
      BY <1>6, <1>7, <2>3 DEF ReadWith
    <3>3. ReadRefs(r) = Extend(MainOf(c), m.refs)
      BY <1>5, <1>6, <2>3 DEF ReadRefs
    <3> HIDE DEF w, m2
    <3>4. m2.current_snapshot_id = c /\ m2.refs = ReadRefs(r)
      BY <3>1, <3>2 DEF Extend
    <3>5. QED
      BY <2>3, <3>3, <3>4
  <2>4. QED
    BY <1>1, <2>1, <2>2, <2>3
<1> HIDE DEF m2
<1>9. ASSUME NEW x \in DOMAIN m2.refs PROVE x \in DOMAIN m.refs /\ m2.refs[x] = m.refs[x]
  BY <1>4, <1>8, <1>9 DEF MainOf, Extend
<1>10. m2.current_snapshot_id = Get(m2.refs, "main")
  <2>1. CASE c = None
    <3>1. MainOf(c) = [x \in {} |-> c]
      BY <2>1 DEF MainOf
    <3>2. m.format_version # 1 => DOMAIN m2.refs = DOMAIN m.refs
      BY <3>1, <1>8 DEF Extend
    <3>3. m.format_version = 1 => DOMAIN m2.refs = {}
      BY <3>1, <1>8
    <3>4. QED
      BY <2>1, <3>2, <3>3, <1>8, <1>9 DEF Get, Resolved
  <2>2. CASE c # None
    <3>1. "main" \in DOMAIN m2.refs
      BY <2>2, <1>8 DEF MainOf, Extend
    <3>2. QED
      BY <3>1, <1>4, <1>8, <1>9, <2>2 DEF Get
  <2>3. QED
    BY <2>1, <2>2
<1>11. QED
  BY <1>2, <1>9, <1>10 DEF Resolved, m2

LEMMA NewTableRefs ==
  ASSUME NEW uuid, NEW v \in 1 .. 3
  PROVE  LET m == Reread(NewTable(uuid, v)) IN Resolved(m) /\ \A h : Follows(h, m)
<1> DEFINE m == NewTable(uuid, v)
<1>1. Good(m)
  BY NewTableGood
<1>2. DOMAIN m.refs = {} /\ m.current_snapshot_id = None
  BY DEF NewTable
<1> HIDE DEF m
<1>3. Resolved(m)
  BY <1>2 DEF Resolved, Get
<1>4. Resolved(Reread(m)) /\ DOMAIN Reread(m).refs = {}
  BY <1>1, <1>2, <1>3, RereadRefs
<1>5. QED
  BY <1>4 DEF Follows, m

-----------------------------------------------------------------------------
(* The theorem *)

LEMMA InitRefs == Init => RInv
<1> SUFFICES ASSUME Init PROVE RInv
  OBVIOUS
<1>1. PICK v \in FormatVersions : metadata = Reread(NewTable(1, v))
  BY DEF Init
<1>2. Resolved(metadata) /\ \A h : Follows(h, metadata)
  BY <1>1, TransactionAssumption, NewTableRefs
<1>3. QED
  BY <1>2 DEF RInv

\* A commit: what is removed is named by no ref, and refs that moved name
\* snapshots no other writer has.
LEMMA CommitRefs ==
  ASSUME ForwardOnly, IInv, RInv, NEW w \in Writers, NEW ops \in Built, Commit(w, ops)
  PROVE  RInv'
<1> DEFINE base == handle[w]
           commit == Prepare(handle[w], ops, nextId)
           t == Table(metadata, commit)
           m2 == t.metadata
<1>1. /\ Good(base) /\ Below(base, nextId) /\ nextId \in Nat \ {0}
      /\ Good(metadata) /\ Below(metadata, nextId)
      /\ Resolved(metadata) /\ Follows(base, metadata)
  BY DEF IInv, RInv
<1>2. Carried(commit, metadata, nextId)
  <2> DEFINE m0 == metadata
             b == nextId
  <2>1. Good(base) /\ Below(base, b) /\ b \in Nat \ {0} /\ Good(m0) /\ Below(m0, b)
        /\ Resolved(m0) /\ Follows(base, m0)
    BY <1>1
  <2> HIDE DEF base, m0, b
  <2>2. Carried(Prepare(base, ops, b), m0, b)
    BY ONLY <2>1, ForwardOnly, ops \in Built, PrepareRefs
  <2>3. QED
    BY <2>2 DEF base, m0, b
<1>3. /\ commit.ok /\ t.ok
      /\ metadata' = Reread(m2) /\ handle' = [handle EXCEPT ![w] = m2]
  BY DEF Commit, update_table, Table
<1>4. LoopOK(t) /\ Resolved(m2) /\ Moved(m2, metadata, nextId)
  <2> HIDE DEF commit
  <2>1. QED
    BY <1>2, <1>3 DEF Carried
<1>5. Good(m2)
  BY <1>4 DEF LoopOK
<1> HIDE DEF m2, base, commit, t
<1>6. /\ \A r \in DOMAIN metadata'.refs : r \in DOMAIN m2.refs /\ metadata'.refs[r] = m2.refs[r]
      /\ Resolved(metadata')
  BY <1>3, <1>4, <1>5, RereadRefs
<1>7. ASSUME NEW x \in Writers PROVE Follows(handle'[x], metadata')
  <2>1. CASE x = w
    <3>1. handle'[x] = m2
      BY <1>3, <2>1 DEF IInv
    <3>2. QED
      BY <3>1, <1>6 DEF Follows
  <2>2. CASE x # w
    <3>1. handle'[x] = handle[x]
      BY <1>3, <2>2 DEF IInv
    <3>2. Follows(handle[x], metadata) /\ Below(handle[x], nextId) /\ Good(handle[x])
      BY DEF RInv, IInv
    <3> DEFINE h == handle[x]
    <3> HIDE DEF h
    <3>3. ASSUME NEW r \in DOMAIN metadata'.refs, metadata'.refs[r] \in DOMAIN h.snapshots
          PROVE  r \in DOMAIN h.refs /\ h.refs[r] = metadata'.refs[r]
      <4>1. r \in DOMAIN m2.refs /\ metadata'.refs[r] = m2.refs[r]
        BY <1>6, <3>3
      <4>2. m2.refs[r] < nextId /\ m2.refs[r] \in Nat
        BY <4>1, <3>3, <3>2 DEF h, Below, Good
      <4>3. r \in DOMAIN metadata.refs /\ m2.refs[r] = metadata.refs[r]
        BY <4>1, <4>2, <1>1, <1>4 DEF Moved
      <4>4. QED
        BY <4>1, <4>3, <3>2, <3>3 DEF h, Follows
    <3>4. QED
      BY <3>1, <3>3 DEF Follows, h
  <2>3. QED
    BY <2>1, <2>2
<1>8. QED
  BY <1>6, <1>7 DEF RInv

LEMMA NextRefs == ForwardOnly /\ IInv /\ RInv /\ [Next]_vars => RInv'
<1> SUFFICES ASSUME ForwardOnly, IInv, RInv, [Next]_vars PROVE RInv'
  OBVIOUS
<1>1. ASSUME NEW w \in Writers, Load(w) PROVE RInv'
  <2>1. metadata' = metadata /\ \A x \in Writers : handle'[x] \in {handle[x], metadata}
    BY <1>1 DEF Load, IInv
  <2>2. Follows(metadata, metadata)
    BY DEF Follows
  <2>3. QED
    BY <2>1, <2>2 DEF RInv
<1>2. ASSUME NEW w \in Writers, NEW ops \in Built, Commit(w, ops) PROVE RInv'
  BY <1>2, CommitRefs
<1>3. CASE Recreate
  <2>1. metadata' = Reread(NewTable(metadata.table_uuid + 1, metadata.format_version))
    BY <1>3 DEF Recreate
  <2>2. metadata.format_version \in 1 .. 3
    BY DEF IInv, Good
  <2>3. Resolved(metadata') /\ \A h : Follows(h, metadata')
    BY <2>1, <2>2, NewTableRefs
  <2>4. QED
    BY <2>3 DEF RInv
<1>4. CASE UNCHANGED vars
  BY <1>4 DEF vars, RInv
<1>5. QED
  BY <1>1, <1>2, <1>3, <1>4 DEF Next

\* Refs and the current snapshot are snapshots the table has, for any writers
\* whose transactions move refs forward only and whose expiry keeps the refs it
\* sees: expiry computed on metadata however stale removes nothing a ref names.
THEOREM RefsStayResolved == ForwardOnly => (Spec => []RefsResolve)
<1> SUFFICES ASSUME ForwardOnly PROVE Spec => []RefsResolve
  OBVIOUS
<1>1. IInv /\ RInv => RefsResolve
  BY DEF RInv, Resolved, Get, RefsResolve
<1>2. IInv /\ RInv /\ [Next]_vars => RInv'
  BY NextRefs
<1>3. QED
  BY InitInv, NextInv, InitRefs, <1>1, <1>2, PTL DEF Spec

=============================================================================
