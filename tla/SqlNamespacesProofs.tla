------------------------- MODULE SqlNamespacesProofs -------------------------
(***************************************************************************)
(* What SqlNamespaces promises, for any clients, keys, updates and bounds: *)
(* on SQLite the namespace is what the committed calls, one after another, *)
(* make it, and on both databases only drop_namespace takes away a         *)
(* namespace that is there.                                                *)
(*                                                                         *)
(* First what the loops that make statements and the rows in sight yield:  *)
(* both are sequences put together from parts, by induction over their     *)
(* number.  Then the steps of IInv, which says what every call keeps on    *)
(* either database.  Then those of SInv, one lemma for each action: what   *)
(* the holder of SQLite's writer lock knows of the rows goes on from one   *)
(* of its statements to the next, and a commit makes it true of the        *)
(* database.                                                               *)
(***************************************************************************)
EXTENDS SqlNamespacesInv, SequenceTheorems, WellFoundedInduction, TLAPS

-----------------------------------------------------------------------------
(* Concatenated sequences *)

\* Induction up to n, with a set in the place of a predicate.
LEMMA Induction ==
  ASSUME NEW n \in Nat, NEW T, 0 \in T,
         \A k \in 0 .. n - 1 : k \in T => k + 1 \in T
  PROVE  \A k \in 0 .. n : k \in T
<1> DEFINE Bad == {k \in 0 .. n : k \notin T}
           R == OpToRel(<, Nat)
<1> SUFFICES ASSUME Bad # {} PROVE FALSE
  OBVIOUS
<1>1. \A x, y \in Nat : x < y => <<x, y>> \in R
  BY DEF OpToRel
<1>2. IsWellFoundedOn(R, Nat)
  BY NatLessThanWellFounded
<1> HIDE DEF R
<1>3. PICK x \in Bad : \A y \in Bad : ~ (<<y, x>> \in R)
  <2>1. Bad \subseteq Nat
    OBVIOUS
  <2> HIDE DEF Bad
  <2>2. QED
    BY <2>1, <1>2, WFMin
<1>4. x \in 0 .. n /\ x # 0 /\ x - 1 \in 0 .. n - 1
  OBVIOUS
<1>5. x - 1 \notin Bad
  <2>1. x \in Nat /\ x - 1 \in Nat /\ x - 1 < x
    BY <1>4
  <2>2. <<x - 1, x>> \in R
    BY <2>1, <1>1
  <2> HIDE DEF Bad
  <2>3. QED
    BY <2>2, <1>3
<1>6. x \in T
  BY <1>4, <1>5
<1>7. QED
  BY <1>6

\* FlattenSeq appends the sequences one after another.
LEMMA FlattenRun ==
  ASSUME NEW ss, NEW n \in Nat \ {0}, Len(ss) = n
  PROVE  \E g : /\ g[1] = ss[1]
                /\ \A i \in 2 .. n : g[i] = g[i - 1] \o ss[i]
                /\ FlattenSeq(ss) = g[n]
<1> DEFINE P(k) == \E g : g = [i \in 1 .. k |-> IF i = 1 THEN ss[i] ELSE g[i - 1] \o ss[i]]
           T == {k \in 0 .. n : P(k)}
           loop == CHOOSE g : g = [i \in 1 .. n |-> IF i = 1 THEN ss[i] ELSE g[i - 1] \o ss[i]]
<1>1. P(0)
  <2> DEFINE g == [i \in 1 .. 0 |-> ss[1]]
  <2>1. g = [i \in 1 .. 0 |-> IF i = 1 THEN ss[i] ELSE g[i - 1] \o ss[i]]
    OBVIOUS
  <2> QED
    BY <2>1
<1>2. ASSUME NEW k \in 0 .. n - 1, P(k) PROVE P(k + 1)
  <2>1. PICK g : g = [i \in 1 .. k |-> IF i = 1 THEN ss[i] ELSE g[i - 1] \o ss[i]]
    BY <1>2
  <2> DEFINE h == [i \in 1 .. k + 1 |-> IF i <= k THEN g[i]
                                        ELSE IF i = 1 THEN ss[i] ELSE g[i - 1] \o ss[i]]
             e == [i \in 1 .. k + 1 |-> IF i = 1 THEN ss[i] ELSE h[i - 1] \o ss[i]]
  <2>2. ASSUME NEW i \in 1 .. k + 1 PROVE h[i] = e[i]
    <3>1. CASE i <= k
      <4>1. i \in 1 .. k /\ h[i] = g[i]
        BY <3>1
      <4>2. g[i] = IF i = 1 THEN ss[i] ELSE g[i - 1] \o ss[i]
        BY <2>1, <4>1
      <4>3. i # 1 => i - 1 \in 1 .. k /\ h[i - 1] = g[i - 1]
        BY <4>1
      <4> QED
        BY <4>1, <4>2, <4>3
    <3>2. CASE ~(i <= k)
      <4>1. i # 1 => i - 1 \in 1 .. k /\ h[i - 1] = g[i - 1]
        BY <3>2
      <4> QED
        BY <4>1, <3>2
    <3> QED
      BY <3>1, <3>2
  <2>3. h = e
    <3> HIDE <2>1
    <3>1. DOMAIN h = DOMAIN e
      OBVIOUS
    <3> QED
      BY <2>2
  <2> QED
    BY <2>3
<1>3. P(n)
  <2> HIDE DEF P
  <2>1. \A k \in 0 .. n - 1 : k \in T => k + 1 \in T
    BY <1>2
  <2>2. 0 \in T
    BY <1>1
  <2>3. \A k \in 0 .. n : k \in T
    BY <2>1, <2>2, Induction
  <2> QED
    BY <2>3
<1>4. loop = [i \in 1 .. n |-> IF i = 1 THEN ss[i] ELSE loop[i - 1] \o ss[i]]
  BY <1>3
<1>5. FlattenSeq(ss) = loop[n]
  BY DEF FlattenSeq
<1> HIDE DEF loop
<1>6. loop[1] = ss[1]
  BY <1>4
<1>7. ASSUME NEW i \in 2 .. n PROVE loop[i] = loop[i - 1] \o ss[i]
  <2>1. i \in 1 .. n /\ i # 1
    OBVIOUS
  <2> QED
    BY <2>1, <1>4, Zenon
<1> QED
  BY <1>5, <1>6, <1>7

\* What holds of the sequences and of a concatenation when it holds of its two
\* parts holds of all of them in a row.
LEMMA FlattenIn ==
  ASSUME NEW Q, NEW ss, Len(ss) \in Nat, DOMAIN ss = 1 .. Len(ss), <<>> \in Q,
         \A s, t \in Q : s \o t \in Q,
         \A i \in DOMAIN ss : ss[i] \in Q,
         Len(ss) = 0 => ss = <<>>
  PROVE  FlattenSeq(ss) \in Q
<1> DEFINE n == Len(ss)
<1>1. CASE n = 0
  BY <1>1 DEF FlattenSeq
<1>2. CASE n # 0
  <2>0. n \in Nat \ {0} /\ Len(ss) = n
    BY <1>2
  <2>1. PICK g : /\ g[1] = ss[1]
                 /\ \A i \in 2 .. n : g[i] = g[i - 1] \o ss[i]
                 /\ FlattenSeq(ss) = g[n]
    <3> HIDE DEF n
    <3> QED
      BY ONLY <2>0, FlattenRun
  <2> DEFINE T == {k \in 0 .. n - 1 : g[k + 1] \in Q}
  <2>2. 0 \in T
    BY <2>1, <1>2
  <2>3. ASSUME NEW k \in 0 .. (n - 1) - 1, k \in T PROVE k + 1 \in T
    <3>1. k + 2 \in 2 .. n /\ k + 2 \in DOMAIN ss /\ (k + 2) - 1 = k + 1 /\ k + 1 \in 0 .. n - 1 /\ (k + 1) + 1 = k + 2
      BY <1>2
    <3>2. g[k + 2] = g[(k + 2) - 1] \o ss[k + 2]
      BY <2>1, <3>1
    <3>3. ss[k + 2] \in Q /\ g[k + 1] \in Q
      BY <3>1, <2>3
    <3> QED
      BY <3>1, <3>2, <3>3
  <2>4. n - 1 \in Nat
    BY <1>2
  <2>5. \A k \in 0 .. n - 1 : k \in T
    <3> HIDE DEF T
    <3> QED
      BY <2>2, <2>3, <2>4, Induction
  <2>6. n - 1 \in T /\ (n - 1) + 1 = n
    BY <2>4, <2>5
  <2> QED
    BY <2>1, <2>6
<1> QED
  BY <1>1, <1>2

\* What is in one of the sequences is in them in a row.
LEMMA FlattenHas ==
  ASSUME NEW A, NEW ss \in Seq(Seq(A)), NEW i \in DOMAIN ss, NEW j \in DOMAIN ss[i]
  PROVE  \E k \in DOMAIN FlattenSeq(ss) : FlattenSeq(ss)[k] = ss[i][j]
<1> DEFINE n == Len(ss)
           x == ss[i][j]
<1>0. n \in Nat \ {0} /\ i \in 1 .. n
  OBVIOUS
<1>1. PICK g : /\ g[1] = ss[1]
               /\ \A m \in 2 .. n : g[m] = g[m - 1] \o ss[m]
               /\ FlattenSeq(ss) = g[n]
  BY <1>0, FlattenRun
<1> DEFINE T == {k \in 0 .. n - 1 : /\ g[k + 1] \in Seq(A)
                                    /\ i <= k + 1 => \E m \in DOMAIN g[k + 1] : g[k + 1][m] = x}
<1>2. 0 \in T
  <2>1. ss[1] \in Seq(A) /\ (i <= 1 => i = 1)
    BY <1>0
  <2> QED
    BY <1>0, <1>1, <2>1
<1>3. ASSUME NEW k \in 0 .. (n - 1) - 1, k \in T PROVE k + 1 \in T
  <2>1. /\ k + 2 \in 2 .. n /\ k + 2 \in DOMAIN ss /\ (k + 2) - 1 = k + 1
        /\ k + 1 \in 0 .. n - 1 /\ (k + 1) + 1 = k + 2
    BY <1>0
  <2> DEFINE s == g[k + 1]
             t == ss[k + 2]
  <2>2. g[k + 2] = s \o t
    BY <1>1, <2>1
  <2>3. s \in Seq(A) /\ t \in Seq(A)
    BY <2>1, <1>3
  <2> HIDE DEF s, t
  <2>4. s \o t \in Seq(A)
    BY <2>3
  <2>5. ASSUME i <= k + 2 PROVE \E m \in DOMAIN (s \o t) : (s \o t)[m] = x
    <3>1. CASE i <= k + 1
      <4>1. PICK m \in DOMAIN s : s[m] = x
        BY <3>1, <1>3 DEF s
      <4>2. m \in DOMAIN (s \o t) /\ (s \o t)[m] = s[m]
        BY <4>1, <2>3
      <4> QED
        BY <4>1, <4>2
    <3>2. CASE i = k + 2
      <4>1. j \in DOMAIN t /\ t[j] = x
        BY <3>2 DEF t
      <4>2. Len(s) + j \in DOMAIN (s \o t) /\ (s \o t)[Len(s) + j] = t[j]
        BY <4>1, <2>3
      <4> QED
        BY <4>1, <4>2
    <3> QED
      BY <2>1, <2>5, <3>1, <3>2, <1>0
  <2> QED
    BY <2>1, <2>2, <2>4, <2>5
<1>4. n - 1 \in Nat
  BY <1>0
<1>5. \A k \in 0 .. n - 1 : k \in T
  <2> HIDE DEF T
  <2> QED
    BY <1>2, <1>3, <1>4, Induction
<1>6. n - 1 \in T
  <2> HIDE DEF T
  <2> QED
    BY <1>4, <1>5
<1>7. (n - 1) + 1 = n
  BY <1>0
<1> QED
  BY <1>0, <1>1, <1>6, <1>7

\* The elements behind the first.
LEMMA TailFacts ==
  ASSUME NEW A, NEW s \in Seq(A), s # <<>>
  PROVE  /\ Tail(s) \in Seq(A) /\ Head(s) \in A /\ 1 \in DOMAIN s /\ s[1] = Head(s)
         /\ \A i \in DOMAIN Tail(s) : i + 1 \in DOMAIN s /\ Tail(s)[i] = s[i + 1]
         /\ \A i \in DOMAIN s : i # 1 => i - 1 \in DOMAIN Tail(s) /\ Tail(s)[i - 1] = s[i]
         /\ Len(s) # 1 => Tail(s) # <<>>
<1>1. Len(s) \in Nat \ {0} /\ Tail(s) \in Seq(A) /\ Len(Tail(s)) = Len(s) - 1
  OBVIOUS
<1>2. Len(s) # 1 => Len(Tail(s)) # 0
  BY <1>1
<1>3. Len(s) # 1 => Tail(s) # <<>>
  BY <1>2
<1> QED
  BY <1>3

\* The elements of a sequence behind another.
LEMMA ConcatFacts ==
  ASSUME NEW A, NEW p \in Seq(A), NEW q \in Seq(A)
  PROVE  /\ p \o q \in Seq(A) /\ Len(p \o q) = Len(p) + Len(q)
         /\ \A i \in DOMAIN p : i \in DOMAIN (p \o q) /\ (p \o q)[i] = p[i]
         /\ \A i \in DOMAIN q : Len(p) + i \in DOMAIN (p \o q) /\ (p \o q)[Len(p) + i] = q[i]
         /\ \A i \in DOMAIN (p \o q) :
              i \in DOMAIN p \/ (i - Len(p) \in DOMAIN q /\ Len(p) + (i - Len(p)) = i)
<1>1. /\ p \o q \in Seq(A) /\ Len(p \o q) = Len(p) + Len(q)
      /\ \A i \in 1 .. Len(p) + Len(q) : (p \o q)[i] = IF i <= Len(p) THEN p[i] ELSE q[i - Len(p)]
  BY ConcatProperties
<1>2. /\ Len(p) \in Nat /\ DOMAIN p = 1 .. Len(p)
      /\ Len(q) \in Nat /\ DOMAIN q = 1 .. Len(q)
      /\ DOMAIN (p \o q) = 1 .. Len(p) + Len(q)
  BY <1>1
<1> DEFINE s == p \o q
<1> HIDE DEF s
<1>3. \A i \in DOMAIN p : i \in DOMAIN s /\ s[i] = p[i]
  BY <1>1, <1>2 DEF s
<1>4. ASSUME NEW i \in DOMAIN q PROVE Len(p) + i \in DOMAIN s /\ s[Len(p) + i] = q[i]
  <2>1. Len(p) + i \in 1 .. Len(p) + Len(q) /\ ~(Len(p) + i <= Len(p)) /\ (Len(p) + i) - Len(p) = i
    BY <1>2
  <2> QED
    BY <1>1, <1>2, <2>1 DEF s
<1>5. ASSUME NEW i \in DOMAIN s
      PROVE  i \in DOMAIN p \/ (i - Len(p) \in DOMAIN q /\ Len(p) + (i - Len(p)) = i)
  BY <1>2 DEF s
<1> QED
  BY <1>1, <1>3, <1>4, <1>5 DEF s

\* A sequence with one element in front.
LEMMA PrependFacts ==
  ASSUME NEW A, NEW p \in Seq(A), Len(p) = 1, NEW u \in Seq(A)
  PROVE  /\ p \o u \in Seq(A) /\ Len(p \o u) = 1 + Len(u) /\ p \o u # <<>>
         /\ Head(p \o u) = p[1] /\ (p \o u)[1] = p[1] /\ 1 \in DOMAIN (p \o u)
         /\ \A i \in DOMAIN (p \o u) : i # 1 => i - 1 \in DOMAIN u /\ (p \o u)[i] = u[i - 1]
         /\ \A i \in DOMAIN u : i + 1 \in DOMAIN (p \o u) /\ (p \o u)[i + 1] = u[i]
<1>0. Len(p) = 1 /\ Len(u) \in Nat
  OBVIOUS
<1>1. /\ p \o u \in Seq(A) /\ Len(p \o u) = Len(p) + Len(u)
      /\ \A i \in 1 .. Len(p) + Len(u) : (p \o u)[i] = IF i <= Len(p) THEN p[i] ELSE u[i - Len(p)]
  BY ConcatProperties
<1>2. /\ p \o u \in Seq(A) /\ Len(p \o u) = 1 + Len(u)
      /\ Len(u) \in Nat /\ DOMAIN u = 1 .. Len(u)
      /\ \A i \in 1 .. 1 + Len(u) : (p \o u)[i] = IF i <= 1 THEN p[i] ELSE u[i - 1]
  BY <1>0, <1>1
<1> DEFINE s == p \o u
<1> HIDE DEF s
<1>3. DOMAIN s = 1 .. 1 + Len(u)
  BY <1>2 DEF s
<1>4. 1 \in DOMAIN s /\ s[1] = p[1] /\ Head(s) = p[1] /\ s # <<>>
  BY <1>1, <1>2, <1>3 DEF s
<1>5. \A i \in DOMAIN s : i # 1 => i - 1 \in DOMAIN u /\ s[i] = u[i - 1]
  BY <1>1, <1>2, <1>3 DEF s
<1>6. ASSUME NEW i \in DOMAIN u PROVE i + 1 \in DOMAIN s /\ s[i + 1] = u[i]
  <2>1. i + 1 \in DOMAIN s /\ i + 1 # 1 /\ (i + 1) - 1 = i
    BY <1>1, <1>3
  <2> QED
    BY <2>1, <1>5
<1> QED
  BY <1>1, <1>4, <1>5, <1>6 DEF s

-----------------------------------------------------------------------------
(* What a statement sees, and the statements for a set of keys *)

RowOK(x) == x \in Present \cup {NoRow}

LEMMA RowFacts ==
  /\ NoRow \notin Present /\ Same \notin Present /\ Same # NoRow
  /\ \A x : RowOK(x) /\ x # NoRow => x \in Present /\ x.id \in Nat \ {0}
  /\ \A x : RowOK(x) /\ x.id # 0 => x \in Present
BY DEF RowOK, Present, NoRow, Same

\* A statement sees every row there is among those it is about, and no others.
LEMMA VisibleRows ==
  ASSUME Deployment, NEW c, NEW rs, \A r \in Rows : RowOK(View(c, r))
  PROVE  /\ Visible(c, rs) \in Seq(SeenRow)
         /\ \A i \in DOMAIN Visible(c, rs) :
              LET e == Visible(c, rs)[i]
              IN  e.row \in rs /\ View(c, e.row) # NoRow /\ e.id = View(c, e.row).id
         /\ \A r \in rs \cap Rows : View(c, r) # NoRow =>
              \E i \in DOMAIN Visible(c, rs) :
                Visible(c, rs)[i].row = r /\ Visible(c, rs)[i].id = View(c, r).id
<1> DEFINE order == <<Identity>> \o KeyOrder
           entry(r) == [row |-> r, id |-> View(c, r).id]
           seen(r) == IF r \in rs /\ View(c, r) # NoRow THEN <<entry(r)>> ELSE <<>>
           ss == [i \in DOMAIN order |-> seen(order[i])]
           Fits(e) == e.row \in rs /\ View(c, e.row) # NoRow /\ e.id = View(c, e.row).id
           Q == {s \in Seq(SeenRow) : \A i \in DOMAIN s : Fits(s[i])}
<1>1. /\ order \in Seq(Rows)
      /\ \A r \in Rows : \E i \in DOMAIN order : order[i] = r
  <2>1. <<Identity>> \in Seq(Rows) /\ KeyOrder \in Seq(Rows) /\ DOMAIN KeyOrder = 1 .. Len(KeyOrder)
    <3>1. KeyOrder \in Seq(Keys) /\ \A i \in DOMAIN KeyOrder : KeyOrder[i] \in Rows
      BY DEF Rows, Keys, Range, Deployment
    <3> QED
      BY <3>1 DEF Rows
  <2>2. ASSUME NEW r \in Rows PROVE \E i \in DOMAIN order : order[i] = r
    <3>1. CASE r = Identity
      <4>1. 1 \in DOMAIN order /\ order[1] = r
        BY <2>1, <3>1
      <4> QED
        BY <4>1
    <3>2. CASE r \in Keys
      <4>1. PICK i \in DOMAIN KeyOrder : KeyOrder[i] = r
        BY <3>2 DEF Keys, Range
      <4>2. i + 1 \in DOMAIN order /\ order[i + 1] = r
        BY <2>1, <4>1
      <4> QED
        BY <4>2
    <3> QED
      BY <3>1, <3>2 DEF Rows
  <2> QED
    BY <2>1, <2>2
<1>2. Visible(c, rs) = FlattenSeq(ss)
  BY DEF Visible
<1>3. ASSUME NEW r \in Rows
      PROVE  /\ r \in rs /\ View(c, r) # NoRow => entry(r) \in SeenRow /\ Fits(entry(r))
             /\ seen(r) \in Q
  <2>1. r \in rs /\ View(c, r) # NoRow => entry(r) \in SeenRow
    BY RowFacts DEF SeenRow
  <2> QED
    BY <2>1
<1>4. \A i \in DOMAIN ss : ss[i] \in Q
  BY <1>1, <1>3
<1> HIDE DEF order, seen
<1>5. Len(ss) \in Nat /\ DOMAIN ss = 1 .. Len(ss) /\ (Len(ss) = 0 => ss = <<>>) /\ DOMAIN ss = DOMAIN order
  BY <1>1
<1>6. \A s, t \in Q : s \o t \in Q
  <2>1. SUFFICES ASSUME NEW s \in Q, NEW t \in Q PROVE s \o t \in Q
    OBVIOUS
  <2> HIDE DEF Fits
  <2>2. s \o t \in Seq(SeenRow)
    OBVIOUS
  <2>3. ASSUME NEW i \in DOMAIN (s \o t) PROVE Fits((s \o t)[i])
    <3>1. s \in Seq(SeenRow) /\ t \in Seq(SeenRow)
      OBVIOUS
    <3>2. CASE i <= Len(s)
      <4>1. i \in DOMAIN s /\ (s \o t)[i] = s[i]
        BY <3>1, <3>2
      <4> QED
        BY <4>1
    <3>3. CASE ~(i <= Len(s))
      <4>1. i - Len(s) \in DOMAIN t /\ (s \o t)[i] = t[i - Len(s)]
        BY <3>1, <3>3
      <4> QED
        BY <4>1
    <3> QED
      BY <3>2, <3>3
  <2> QED
    BY <2>2, <2>3
<1>7. <<>> \in Q
  OBVIOUS
<1>8. FlattenSeq(ss) \in Q
  <2> HIDE DEF ss, Q
  <2> QED
    BY <1>4, <1>5, <1>6, <1>7, FlattenIn
<1>9. ASSUME NEW r \in rs \cap Rows, View(c, r) # NoRow
      PROVE  \E k \in DOMAIN FlattenSeq(ss) : FlattenSeq(ss)[k] = entry(r)
  <2>1. PICK i \in DOMAIN ss : order[i] = r
    BY <1>1, <1>5
  <2>2. ss[i] = <<entry(r)>> /\ 1 \in DOMAIN ss[i] /\ ss[i][1] = entry(r)
    BY <2>1, <1>9, <1>5 DEF seen
  <2>3. ss \in Seq(Seq(SeenRow))
    BY <1>4, <1>5
  <2> HIDE DEF ss
  <2> HIDE DEF entry
  <2>4. \E k \in DOMAIN FlattenSeq(ss) : FlattenSeq(ss)[k] = ss[i][1]
    BY <2>2, <2>3, FlattenHas
  <2> QED
    BY <2>2, <2>4
<1> QED
  <2>1. \A r \in Rows : entry(r).row = r /\ entry(r).id = View(c, r).id
    OBVIOUS
  <2> HIDE DEF ss, entry
  <2> QED
    BY <1>2, <1>8, <1>9, <2>1

\* The statements that replace a set of keys: each deletion has its insertion
\* behind it, and every key is inserted.
LEMMA ReplacementFacts ==
  ASSUME Deployment, NEW ks, ks \subseteq Keys
  PROVE  /\ Replacements(ks) \in Seq(Statement)
         /\ \A i \in DOMAIN Replacements(ks) : \E x \in ks :
              \/ Replacements(ks)[i] = Insert(x, "new")
              \/ /\ Replacements(ks)[i] = Delete({x})
                 /\ \E j \in DOMAIN Replacements(ks) : j > i /\ Replacements(ks)[j] = Insert(x, "new")
         /\ \A x \in ks : Has(Replacements(ks), Insert(x, "new"))
<1> DEFINE pair(k) == <<Delete({k}), Insert(k, "new")>>
           part(k) == IF k \in ks THEN pair(k) ELSE <<>>
           ss == [i \in DOMAIN KeyOrder |-> part(KeyOrder[i])]
           Fits(s, i) == \E x \in ks :
             \/ s[i] = Insert(x, "new")
             \/ s[i] = Delete({x}) /\ \E j \in DOMAIN s : j > i /\ s[j] = Insert(x, "new")
           Q == {s \in Seq(Statement) : \A i \in DOMAIN s : Fits(s, i)}
<1>1. Replacements(ks) = FlattenSeq(ss)
  BY DEF Replacements, ForEach
<1>2. /\ KeyOrder \in Seq(Keys)
      /\ \A x \in Keys : \E i \in DOMAIN KeyOrder : KeyOrder[i] = x
  BY DEF Keys, Range, Deployment
<1>3. ASSUME NEW k \in ks
      PROVE  /\ Delete({k}) \in Statement /\ Insert(k, "new") \in Statement
             /\ pair(k) \in Seq(Statement) /\ Len(pair(k)) = 2 /\ 2 \in DOMAIN pair(k)
             /\ pair(k)[1] = Delete({k}) /\ pair(k)[2] = Insert(k, "new")
  <2>1. Delete({k}) \in Statement /\ Insert(k, "new") \in Statement
    BY DEF Statement, Values, Delete, Insert, Rows
  <2> QED
    BY <2>1
<1>4. ASSUME NEW k \in ks PROVE pair(k) \in Q
  <2>1. ASSUME NEW i \in DOMAIN pair(k) PROVE Fits(pair(k), i)
    <3>1. DOMAIN pair(k) = {1, 2}
      BY <1>3
    <3>2. Fits(pair(k), 1)
      <4>1. 2 \in DOMAIN pair(k) /\ 2 > 1
        BY <3>1
      <4> QED
        BY <4>1, <1>3
    <3>3. Fits(pair(k), 2)
      BY <1>3
    <3> HIDE DEF Fits
    <3> QED
      BY <3>1, <3>2, <3>3
  <2> QED
    BY <1>3, <2>1
<1>5. <<>> \in Q
  OBVIOUS
<1> HIDE DEF pair
<1>6. \A i \in DOMAIN ss : ss[i] \in Q
  BY <1>4, <1>5
<1>7. \A s, t \in Q : s \o t \in Q
  <2>1. SUFFICES ASSUME NEW s \in Q, NEW t \in Q PROVE s \o t \in Q
    OBVIOUS
  <2>2. /\ s \in Seq(Statement) /\ t \in Seq(Statement)
        /\ \A i \in DOMAIN s : Fits(s, i)
        /\ \A i \in DOMAIN t : Fits(t, i)
    OBVIOUS
  <2> HIDE DEF Q
  <2>3. /\ s \o t \in Seq(Statement)
        /\ \A i \in DOMAIN s : i \in DOMAIN (s \o t) /\ (s \o t)[i] = s[i]
        /\ \A i \in DOMAIN t : Len(s) + i \in DOMAIN (s \o t) /\ (s \o t)[Len(s) + i] = t[i]
    BY <2>2
  <2>4. ASSUME NEW i \in DOMAIN (s \o t) PROVE Fits(s \o t, i)
    <3>1. CASE i <= Len(s)
      <4>1. i \in DOMAIN s
        BY <2>2, <3>1
      <4> QED
        BY <4>1, <2>2, <2>3
    <3>2. CASE ~(i <= Len(s))
      <4>1. i - Len(s) \in DOMAIN t /\ Len(s) + (i - Len(s)) = i /\ i \in Nat /\ Len(s) \in Nat
        BY <2>2, <3>2
      <4>2. Fits(t, i - Len(s))
        BY <4>1, <2>2
      <4>3. \A j \in DOMAIN t : j > i - Len(s) => Len(s) + j > i
        BY <4>1, <2>2
      <4> QED
        BY <4>1, <4>2, <4>3, <2>3
    <3> QED
      BY <3>1, <3>2
  <2> QED
    BY <2>3, <2>4 DEF Q
<1>8. DOMAIN ss = DOMAIN KeyOrder /\ Len(ss) \in Nat /\ DOMAIN ss = 1 .. Len(ss) /\ (Len(ss) = 0 => ss = <<>>)
  BY <1>2
<1>9. FlattenSeq(ss) \in Q
  <2> HIDE DEF ss, Q
  <2> QED
    BY <1>5, <1>6, <1>7, <1>8, FlattenIn
<1>10. ASSUME NEW x \in ks PROVE Has(FlattenSeq(ss), Insert(x, "new"))
  <2>1. PICK i \in DOMAIN ss : KeyOrder[i] = x
    BY <1>2, <1>8
  <2>2. ss[i] = pair(x)
    BY <2>1
  <2>3. 2 \in DOMAIN pair(x) /\ pair(x)[2] = Insert(x, "new")
    BY <1>3
  <2>4. ss \in Seq(Seq(Statement))
    <3>1. \A k \in DOMAIN ss : ss[k] \in Seq(Statement)
      BY <1>6
    <3> HIDE DEF part
    <3>2. ss \in [1 .. Len(ss) -> Seq(Statement)]
      BY <3>1, <1>8
    <3> HIDE DEF ss
    <3> QED
      BY <3>2, <1>8
  <2> HIDE DEF ss
  <2> QED
    BY <2>2, <2>3, <2>4, FlattenHas DEF Has
<1> QED
  BY <1>1, <1>9, <1>10

\* The statements that create a set of keys.
LEMMA CreationFacts ==
  ASSUME Deployment, NEW ks, ks \subseteq Keys
  PROVE  /\ Creations(ks) \in Seq(Statement)
         /\ \A i \in DOMAIN Creations(ks) : \E x \in ks : Creations(ks)[i] = Insert(x, "new")
         /\ \A x \in ks : Has(Creations(ks), Insert(x, "new"))
<1> DEFINE part(k) == IF k \in ks THEN <<Insert(k, "new")>> ELSE <<>>
           ss == [i \in DOMAIN KeyOrder |-> part(KeyOrder[i])]
           Fits(e) == \E x \in ks : e = Insert(x, "new")
           Q == {q \in Seq(Statement) : \A i \in DOMAIN q : Fits(q[i])}
<1>1. Creations(ks) = FlattenSeq(ss)
  BY DEF Creations, ForEach
<1>2. /\ KeyOrder \in Seq(Keys)
      /\ \A x \in Keys : \E i \in DOMAIN KeyOrder : KeyOrder[i] = x
  BY DEF Keys, Range, Deployment
<1>3. \A k \in ks : Insert(k, "new") \in Statement
  BY DEF Statement, Values, Insert, Rows
<1>4. \A i \in DOMAIN ss : ss[i] \in Q
  BY <1>3
<1>5. <<>> \in Q
  OBVIOUS
<1>6. \A q, t \in Q : q \o t \in Q
  <2>1. SUFFICES ASSUME NEW q \in Q, NEW t \in Q PROVE q \o t \in Q
    OBVIOUS
  <2> HIDE DEF Fits
  <2>2. q \in Seq(Statement) /\ t \in Seq(Statement) /\ q \o t \in Seq(Statement)
    OBVIOUS
  <2>3. ASSUME NEW i \in DOMAIN (q \o t) PROVE Fits((q \o t)[i])
    <3>1. CASE i <= Len(q)
      <4>1. i \in DOMAIN q /\ (q \o t)[i] = q[i]
        BY <2>2, <3>1
      <4> QED
        BY <4>1
    <3>2. CASE ~(i <= Len(q))
      <4>1. i - Len(q) \in DOMAIN t /\ (q \o t)[i] = t[i - Len(q)]
        BY <2>2, <3>2
      <4> QED
        BY <4>1
    <3> QED
      BY <3>1, <3>2
  <2> QED
    BY <2>2, <2>3
<1>7. DOMAIN ss = DOMAIN KeyOrder /\ Len(ss) \in Nat /\ DOMAIN ss = 1 .. Len(ss) /\ (Len(ss) = 0 => ss = <<>>)
  BY <1>2
<1>8. FlattenSeq(ss) \in Q
  <2> HIDE DEF ss, Q
  <2> QED
    BY <1>4, <1>5, <1>6, <1>7, FlattenIn
<1>9. ASSUME NEW x \in ks PROVE Has(FlattenSeq(ss), Insert(x, "new"))
  <2>1. PICK i \in DOMAIN ss : KeyOrder[i] = x
    BY <1>2, <1>7
  <2>2. ss[i] = <<Insert(x, "new")>> /\ 1 \in DOMAIN ss[i] /\ ss[i][1] = Insert(x, "new")
    BY <2>1
  <2>3. ss \in Seq(Seq(Statement))
    <3>1. \A k \in DOMAIN ss : ss[k] \in Seq(Statement)
      BY <1>4
    <3> HIDE DEF part
    <3>2. ss \in [1 .. Len(ss) -> Seq(Statement)]
      BY <3>1, <1>7
    <3> HIDE DEF ss
    <3> QED
      BY <3>2, <1>7
  <2> HIDE DEF ss
  <2> QED
    <3>1. i \in DOMAIN ss /\ 1 \in DOMAIN ss[i]
      BY <2>2
    <3>2. \E k \in DOMAIN FlattenSeq(ss) : FlattenSeq(ss)[k] = ss[i][1]
      BY ONLY <3>1, <2>3, FlattenHas
    <3> QED
      BY <2>2, <3>2 DEF Has
<1> QED
  BY <1>1, <1>8, <1>9

\* The statements of an update: those on a key that is set end with its insertion,
\* a key that is only removed is deleted, others are left alone, and the marker
\* is set when the key "exists" is among them.
LEMMA UpdateFacts ==
  ASSUME Deployment, NEW c, call[c].set \subseteq Keys, call[c].remove \in Seq(Keys)
  PROVE  LET s == update_statements(c)
             set == call[c].set
             touched == Touched(call[c])
         IN  /\ s \in Seq(Statement)
             /\ \A i \in DOMAIN s :
                  \/ \E x \in set : s[i] = Insert(x, "new")
                  \/ \E x \in touched : s[i] = Delete({x})
                  \/ s[i] = SetMarker /\ "exists" \in touched
             /\ \A x \in set :
                  /\ Has(s, Insert(x, "new"))
                  /\ \A i \in DOMAIN s : s[i] = Delete({x}) =>
                       \E j \in DOMAIN s : j > i /\ s[j] = Insert(x, "new")
             /\ \A x \in touched \ set : Has(s, Delete({x}))
             /\ "exists" \in touched => Has(s, SetMarker)
<1> DEFINE set == call[c].set
           remove == call[c].remove
           touched == Touched(call[c])
           d == [i \in DOMAIN remove |-> Delete({remove[i]})]
           r == Replacements(set)
           m == IF "exists" \in set \cup Range(remove) THEN <<SetMarker>> ELSE <<>>
           s == (d \o r) \o m
<1>1. update_statements(c) = s
  BY DEF update_statements, Mutations
<1>2. /\ d \in Seq(Statement) /\ DOMAIN d = DOMAIN remove
      /\ \A i \in DOMAIN d : d[i] = Delete({remove[i]}) /\ remove[i] \in Range(remove)
      /\ \A x \in Range(remove) : \E i \in DOMAIN d : d[i] = Delete({x})
  <2>1. \A x \in Keys : Delete({x}) \in Statement
    BY DEF Statement, Values, Delete, Rows
  <2>2. \A i \in DOMAIN remove : remove[i] \in Keys /\ remove[i] \in Range(remove)
    BY DEF Range
  <2>3. d \in Seq(Statement) /\ DOMAIN d = DOMAIN remove
    <3>1. DOMAIN remove = 1 .. Len(remove) /\ Len(remove) \in Nat
      OBVIOUS
    <3>2. \A i \in 1 .. Len(remove) : Delete({remove[i]}) \in Statement
      BY <2>1, <2>2, <3>1
    <3> QED
      BY <3>1, <3>2
  <2>4. ASSUME NEW x \in Range(remove) PROVE \E i \in DOMAIN d : d[i] = Delete({x})
    <3>1. PICK i \in DOMAIN remove : remove[i] = x
      BY DEF Range
    <3> QED
      BY <3>1
  <2> QED
    BY <2>2, <2>3, <2>4
<1>3. /\ r \in Seq(Statement)
      /\ \A i \in DOMAIN r : \E x \in set :
              \/ r[i] = Insert(x, "new")
              \/ /\ r[i] = Delete({x})
                 /\ \E j \in DOMAIN r : j > i /\ r[j] = Insert(x, "new")
      /\ \A x \in set : Has(r, Insert(x, "new"))
  BY ReplacementFacts
<1>4. /\ m \in Seq(Statement)
      /\ \A i \in DOMAIN m : m[i] = SetMarker /\ "exists" \in touched
      /\ "exists" \in touched => 1 \in DOMAIN m /\ m[1] = SetMarker
  <2>1. SetMarker \in Statement
    BY DEF SetMarker, Statement, Values, Rows
  <2>2. touched = set \cup Range(remove)
    BY DEF Touched
  <2>3. CASE "exists" \in set \cup Range(remove)
    BY <2>1, <2>2, <2>3
  <2>4. CASE "exists" \notin set \cup Range(remove)
    BY <2>2, <2>4
  <2> QED
    BY <2>3, <2>4
<1> HIDE DEF d, r, m
<1>5. /\ s \in Seq(Statement)
      /\ \A i \in DOMAIN d : i \in DOMAIN s /\ s[i] = d[i]
      /\ \A i \in DOMAIN r : Len(d) + i \in DOMAIN s /\ s[Len(d) + i] = r[i]
      /\ \A i \in DOMAIN m : Len(d) + Len(r) + i \in DOMAIN s /\ s[Len(d) + Len(r) + i] = m[i]
      /\ \A i \in DOMAIN s :
           \/ i \in DOMAIN d
           \/ i - Len(d) \in DOMAIN r /\ Len(d) + (i - Len(d)) = i
           \/ /\ i - (Len(d) + Len(r)) \in DOMAIN m
              /\ Len(d) + Len(r) + (i - (Len(d) + Len(r))) = i
      /\ Len(d) \in Nat /\ Len(r) \in Nat /\ DOMAIN d = 1 .. Len(d) /\ DOMAIN r = 1 .. Len(r)
  <2> DEFINE t == d \o r
  <2>1. /\ t \in Seq(Statement) /\ Len(t) = Len(d) + Len(r)
        /\ \A i \in DOMAIN d : i \in DOMAIN t /\ t[i] = d[i]
        /\ \A i \in DOMAIN r : Len(d) + i \in DOMAIN t /\ t[Len(d) + i] = r[i]
        /\ \A i \in DOMAIN t : i \in DOMAIN d \/ (i - Len(d) \in DOMAIN r /\ Len(d) + (i - Len(d)) = i)
    BY <1>2, <1>3, ConcatFacts
  <2>2. /\ t \o m \in Seq(Statement)
        /\ \A i \in DOMAIN t : i \in DOMAIN (t \o m) /\ (t \o m)[i] = t[i]
        /\ \A i \in DOMAIN m : Len(t) + i \in DOMAIN (t \o m) /\ (t \o m)[Len(t) + i] = m[i]
        /\ \A i \in DOMAIN (t \o m) :
             i \in DOMAIN t \/ (i - Len(t) \in DOMAIN m /\ Len(t) + (i - Len(t)) = i)
    BY <1>4, <2>1, ConcatFacts
  <2>3. s = t \o m
    OBVIOUS
  <2>4. Len(d) \in Nat /\ Len(r) \in Nat /\ DOMAIN d = 1 .. Len(d) /\ DOMAIN r = 1 .. Len(r)
    BY <1>2, <1>3
  <2> HIDE DEF s, t
  <2> QED
    BY <2>1, <2>2, <2>3, <2>4
<1> HIDE DEF s
<1>6. set \subseteq touched /\ Range(remove) \subseteq touched /\ touched \ set \subseteq Range(remove)
  BY DEF Touched
<1>7. \A x, y \in Keys :
        /\ Delete({x}) = Delete({y}) => x = y
        /\ Delete({x}) # Insert(y, "new") /\ Delete({x}) # SetMarker
  <2>1. \A x, y : {x} = {y} => x = y
    OBVIOUS
  <2> QED
    BY <2>1 DEF Delete, Insert, SetMarker
<1>8. ASSUME NEW i \in DOMAIN s
      PROVE  \/ \E x \in set : s[i] = Insert(x, "new")
             \/ \E x \in touched : s[i] = Delete({x})
             \/ s[i] = SetMarker /\ "exists" \in touched
  <2>1. CASE i \in DOMAIN d
    BY <2>1, <1>2, <1>5, <1>6
  <2>2. CASE i - Len(d) \in DOMAIN r /\ Len(d) + (i - Len(d)) = i
    <3>1. s[i] = r[i - Len(d)]
      BY <2>2, <1>5
    <3>2. PICK x \in set : r[i - Len(d)] = Insert(x, "new") \/ r[i - Len(d)] = Delete({x})
      BY <2>2, <1>3
    <3>3. x \in touched
      BY <1>6
    <3> QED
      BY ONLY <3>1, <3>2, <3>3
  <2>3. CASE i - (Len(d) + Len(r)) \in DOMAIN m /\ Len(d) + Len(r) + (i - (Len(d) + Len(r))) = i
    <3>1. s[i] = m[i - (Len(d) + Len(r))]
      BY <2>3, <1>5
    <3> QED
      BY <3>1, <2>3, <1>4
  <2> QED
    BY <2>1, <2>2, <2>3, <1>5
<1>9. ASSUME NEW x \in set PROVE Has(s, Insert(x, "new"))
  <2>1. PICK j \in DOMAIN r : r[j] = Insert(x, "new")
    BY <1>3 DEF Has
  <2> QED
    BY <2>1, <1>5 DEF Has
<1>10. ASSUME NEW x \in set, NEW i \in DOMAIN s, s[i] = Delete({x})
       PROVE  \E j \in DOMAIN s : j > i /\ s[j] = Insert(x, "new")
  <2>1. CASE i \in DOMAIN d
    <3>1. PICK j \in DOMAIN r : r[j] = Insert(x, "new")
      BY <1>3 DEF Has
    <3>2. Len(d) + j > i
      BY <2>1, <1>5
    <3> QED
      BY <3>1, <3>2, <1>5
  <2>2. CASE i - Len(d) \in DOMAIN r /\ Len(d) + (i - Len(d)) = i
    <3>1. r[i - Len(d)] = Delete({x})
      BY <2>2, <1>5, <1>10
    <3>2. PICK y \in set :
             \/ r[i - Len(d)] = Insert(y, "new")
             \/ /\ r[i - Len(d)] = Delete({y})
                /\ \E j \in DOMAIN r : j > i - Len(d) /\ r[j] = Insert(y, "new")
      BY <2>2, <1>3
    <3>3. y = x
      BY <3>1, <3>2, <1>7
    <3>4. PICK j \in DOMAIN r : j > i - Len(d) /\ r[j] = Insert(x, "new")
      BY <3>1, <3>2, <3>3, <1>7
    <3>5. Len(d) + j > i
      BY <3>4, <2>2, <1>5
    <3> QED
      BY <3>4, <3>5, <1>5
  <2>3. CASE i - (Len(d) + Len(r)) \in DOMAIN m /\ Len(d) + Len(r) + (i - (Len(d) + Len(r))) = i
    <3>1. s[i] = SetMarker
      BY <2>3, <1>4, <1>5
    <3> QED
      BY <3>1, <1>10, <1>7
  <2> QED
    BY <2>1, <2>2, <2>3, <1>5
<1>11. ASSUME NEW x \in touched \ set PROVE Has(s, Delete({x}))
  BY <1>2, <1>5, <1>6 DEF Has
<1>12. ASSUME "exists" \in touched PROVE Has(s, SetMarker)
  BY <1>4, <1>5, <1>12 DEF Has
<1> HIDE DEF touched
<1> QED
  BY <1>1, <1>5, <1>8, <1>9, <1>10, <1>11, <1>12 DEF touched

-----------------------------------------------------------------------------
(* Steps of one call *)

\* A step moves the call of one client, and leaves what an update of a namespace
\* without an identity row is about to do.
Moves(c) ==
  /\ DOMAIN call' = Clients
  /\ \A d \in Clients \ {c} : call'[d] = call[d]
  /\ CallInv(call'[c])
  /\ db[Identity] = NoRow /\ Promotes(call[c]) => Promotes(call'[c])

LEMMA UntouchedOK ==
  /\ Untouched \in [Rows -> Present \cup {NoRow, Same}]
  /\ Identity \in Rows /\ Untouched[Identity] = Same
BY DEF Untouched, Rows

LEMMA IdleOK == CallInv(IdleCall)
<1>1. <<>> \in Seq(Keys) /\ <<>> \in Seq(Statement)
  OBVIOUS
<1> QED
  BY <1>1, UntouchedOK DEF CallInv, Typed, Visits, KeepsIdentity, IdleCall

\* The rows a call sees are rows.
LEMMA ViewOK ==
  ASSUME IInv, NEW c \in Clients
  PROVE  /\ \A r \in Rows : RowOK(View(c, r))
         /\ call[c].pc # "run" => \A r \in Rows : View(c, r) = db[r]
<1>1. call[c].own \in [Rows -> Present \cup {NoRow, Same}] /\ db \in [Rows -> Present \cup {NoRow}]
  BY DEF IInv, CallInv, Typed
<1>2. call[c].pc # "run" => call[c].own = Untouched
  BY DEF IInv, CallInv, Typed
<1> QED
  BY <1>1, <1>2 DEF RowOK, View, Untouched

LEMMA StatementsTyped ==
  /\ \A ks \in SUBSET Keys : ks # {} => Delete(ks) \in Statement
  /\ Delete({Identity}) \in Statement
  /\ \A v \in {"0", "1"} : Insert(Identity, v) \in Statement /\ InsertIgnore(Identity, v) \in Statement
BY DEF Delete, Insert, InsertIgnore, Statement, Values, Rows

LEMMA ReturnMoves ==
  ASSUME IInv, NEW c \in Clients, Return(c)
  PROVE  Moves(c) /\ call'[c] = IdleCall
<1>1. call' = [call EXCEPT ![c] = IdleCall] /\ DOMAIN call = Clients
  BY DEF Return, IInv
<1>2. Promotes(IdleCall)
  BY DEF Promotes, IdleCall
<1> QED
  BY <1>1, <1>2, IdleOK DEF Moves

\* A call that does not run statements yet changes pc and what it saw.
LEMMA GotoMoves ==
  ASSUME IInv, NEW c \in Clients, call[c].pc \notin {"idle", "precheck", "run"},
         NEW pc \in {"lock_identity", "lock_property", "recheck"},
         NEW seen \in Seq(SeenRow) \cup {NotStarted},
         call' = [call EXCEPT ![c].pc = pc, ![c].seen = seen]
  PROVE  Moves(c) /\ call'[c] = [call[c] EXCEPT !.pc = pc, !.seen = seen]
<1> DEFINE k == call[c]
           k2 == [k EXCEPT !.pc = pc, !.seen = seen]
<1>1. call'[c] = k2 /\ DOMAIN call' = Clients /\ \A d \in Clients \ {c} : call'[d] = call[d]
  BY DEF IInv
<1>2. Typed(k)
  BY DEF IInv, CallInv
<1> HIDE DEF k
<1>3. Typed(k2)
  BY <1>2 DEF Typed, k
<1>4. k2.pc # "run"
  BY <1>2 DEF Typed
<1>5. Visits(k2) /\ KeepsIdentity(k2) /\ Promotes(k2)
  BY <1>4 DEF Visits, KeepsIdentity, Promotes
<1> QED
  BY <1>1, <1>3, <1>5 DEF Moves, CallInv, k

\* A call starts its statements.
LEMMA RunMoves ==
  ASSUME IInv, NEW c \in Clients, call[c].pc \notin {"idle", "run"},
         NEW script \in Seq(Statement), Run(c, script)
  PROVE  /\ DOMAIN call' = Clients
         /\ \A d \in Clients \ {c} : call'[d] = call[d]
         /\ call'[c] = [call[c] EXCEPT !.pc = "run", !.script = script, !.seen = NotStarted]
         /\ Typed(call'[c]) /\ Visits(call'[c])
         /\ call'[c].pc = "run" /\ call'[c].op = call[c].op /\ call'[c].own = Untouched
         /\ call'[c].script = script /\ call'[c].set = call[c].set
         /\ call'[c].remove = call[c].remove /\ call'[c].seen = NotStarted
<1> DEFINE k == call[c]
           k2 == [k EXCEPT !.pc = "run", !.script = script, !.seen = NotStarted]
<1>1. call'[c] = k2 /\ DOMAIN call' = Clients /\ \A d \in Clients \ {c} : call'[d] = call[d]
  BY DEF IInv, Run
<1>2. Typed(k) /\ k.pc \notin {"idle", "run"}
  BY DEF IInv, CallInv
<1> HIDE DEF k
<1>3. /\ Typed(k2) /\ k2.pc = "run" /\ k2.op = k.op /\ k2.own = Untouched
      /\ k2.script = script /\ k2.set = k.set /\ k2.remove = k.remove /\ k2.seen = NotStarted
  BY <1>2 DEF Typed
<1>4. Visits(k2)
  BY <1>3 DEF Visits
<1> QED
  BY <1>1, <1>3, <1>4 DEF k

\* The statements of a drop and of an update.
LEMMA BodyFacts ==
  ASSUME Deployment, NEW c, call[c].set \subseteq Keys, call[c].remove \in Seq(Keys)
  PROVE  /\ drop_statements \in Seq(Statement)
         /\ update_statements(c) \in Seq(Statement)
         /\ \A i \in DOMAIN update_statements(c) :
              update_statements(c)[i].kind = "delete" => Identity \notin update_statements(c)[i].rows
<1>1. drop_statements \in Seq(Statement)
  BY StatementsTyped DEF drop_statements, Deployment
<1>2. ASSUME NEW i \in DOMAIN update_statements(c), update_statements(c)[i].kind = "delete"
      PROVE  Identity \notin update_statements(c)[i].rows
  <2>1. \A x : Insert(x, "new").kind # "delete" /\ SetMarker.kind # "delete" /\ Delete({x}).rows = {x}
    BY DEF Insert, SetMarker, Delete
  <2>2. Touched(call[c]) \subseteq Keys
    BY DEF Touched, Range
  <2> DEFINE e == update_statements(c)[i]
  <2>3. \/ \E x \in call[c].set : e = Insert(x, "new")
        \/ \E x \in Touched(call[c]) : e = Delete({x})
        \/ e = SetMarker
    BY UpdateFacts
  <2>4. e.kind = "delete"
    BY <1>2
  <2> HIDE DEF e
  <2>5. PICK x \in Touched(call[c]) : e = Delete({x})
    BY <2>1, <2>3, <2>4
  <2>6. e.rows = {x} /\ x # Identity
    BY <2>1, <2>2, <2>5 DEF Deployment
  <2> QED
    BY <2>6 DEF e
<1> QED
  BY <1>1, <1>2, UpdateFacts

LEMMA CallFacts ==
  ASSUME IInv, NEW c \in Clients
  PROVE  /\ DOMAIN call = Clients /\ Typed(call[c]) /\ Visits(call[c]) /\ KeepsIdentity(call[c])
         /\ call[c].pc \notin {"idle", "precheck", "run"} => call[c].op \in {"drop", "update"}
         /\ call[c].pc # "run" => call[c].own = Untouched
         /\ call[c].set \subseteq Keys /\ call[c].remove \in Seq(Keys)
         /\ call[c].script \in Seq(Statement)
         /\ call[c].seen \in Seq(SeenRow) \cup {NotStarted}
         /\ call[c].pc \in {"idle", "precheck", "probe", "lock_identity", "lock_property", "recheck", "run"}
         /\ call[c].op \in {"none", "create", "drop", "update"}
BY DEF IInv, CallInv, Typed

LEMMA PrecheckMoves ==
  ASSUME Deployment, IInv, NEW c \in Clients, Precheck(c)
  PROVE  Moves(c)
<1>1. CASE Return(c)
  BY <1>1, ReturnMoves
<1>2. CASE Run(c, create_statements(c))
  <2> DEFINE k2 == call'[c]
             script == create_statements(c)
  <2>1. /\ script \in Seq(Statement) /\ script # <<>> /\ Head(script) = Insert(Identity, "0")
        /\ \A i \in DOMAIN script : script[i].kind # "delete"
    <3> DEFINE first == <<Insert(Identity, "0")>>
               rest == Creations(call[c].set)
    <3>1. first \in Seq(Statement) /\ Len(first) = 1 /\ first[1] = Insert(Identity, "0")
      BY StatementsTyped
    <3>2. /\ rest \in Seq(Statement)
          /\ \A i \in DOMAIN rest : \E x \in call[c].set : rest[i] = Insert(x, "new")
      BY CallFacts, CreationFacts
    <3>x. \A x, v : Insert(x, v).kind # "delete"
      BY DEF Insert
    <3>3. \A i \in DOMAIN rest : rest[i].kind # "delete"
      <4> SUFFICES ASSUME NEW i \in DOMAIN rest PROVE rest[i].kind # "delete"
        OBVIOUS
      <4>1. PICK x \in call[c].set : rest[i] = Insert(x, "new")
        BY <3>2
      <4> QED
        BY <4>1, <3>x
    <3>4. first[1].kind # "delete"
      BY <3>1, <3>x
    <3> HIDE DEF first, rest
    <3>5. /\ first \o rest \in Seq(Statement) /\ Len(first \o rest) = 1 + Len(rest)
          /\ (first \o rest)[1] = first[1]
          /\ \A i \in DOMAIN (first \o rest) : i # 1 => i - 1 \in DOMAIN rest /\ (first \o rest)[i] = rest[i - 1]
      BY <3>1, <3>2, PrependFacts
    <3> QED
      BY <3>1, <3>3, <3>4, <3>5 DEF create_statements, first, rest
  <2> HIDE DEF script
  <2>2. call[c].op = "create" /\ call[c].pc = "precheck"
    BY CallFacts DEF Precheck, Typed
  <2>3. /\ DOMAIN call' = Clients
        /\ \A d \in Clients \ {c} : call'[d] = call[d]
        /\ Typed(k2) /\ Visits(k2)
        /\ k2.op = call[c].op /\ k2.own = Untouched /\ k2.script = script
    BY <1>2, <2>1, <2>2, RunMoves DEF script
  <2> HIDE DEF k2
  <2>4. KeepsIdentity(k2)
    <3>1. Insert(Identity, "0").kind = "insert" /\ Insert(Identity, "0").rows = {Identity}
      BY DEF Insert
    <3> QED
      BY <2>1, <2>3, <3>1, UntouchedOK, RowFacts DEF KeepsIdentity
  <2>5. Promotes(k2)
    BY <2>2, <2>3 DEF Promotes
  <2> QED
    BY <2>3, <2>4, <2>5 DEF Moves, CallInv, k2
<1> QED
  BY <1>1, <1>2 DEF Precheck

LEMMA ProbeMoves ==
  ASSUME IInv, NEW c \in Clients, Probe(c)
  PROVE  Moves(c)
<1>1. NotStarted \in Seq(SeenRow) \cup {NotStarted}
  OBVIOUS
<1> QED
  BY <1>1, GotoMoves DEF Probe, Goto

\* A namespace whose identity row is held.
LEMMA CurrentMoves ==
  ASSUME Deployment, IInv, NEW c \in Clients, call[c].pc \notin {"idle", "precheck", "run"},
         db[Identity] # NoRow, Current(c)
  PROVE  Moves(c)
<1> DEFINE k2 == call'[c]
           script == IF call[c].op = "drop" THEN drop_statements ELSE update_statements(c)
<1>1. script \in Seq(Statement)
  BY CallFacts, BodyFacts
<1>2. Run(c, script)
  BY DEF Current
<1>3. /\ DOMAIN call' = Clients
      /\ \A d \in Clients \ {c} : call'[d] = call[d]
      /\ Typed(k2) /\ Visits(k2)
      /\ k2.op = call[c].op /\ k2.own = Untouched /\ k2.script = script
  <2> HIDE DEF script
  <2> QED
    BY <1>1, <1>2, RunMoves
<1>4. call[c].op = "update" =>
        \A i \in DOMAIN script : script[i].kind = "delete" => Identity \notin script[i].rows
  BY CallFacts, BodyFacts
<1> HIDE DEF k2, script
<1>5. KeepsIdentity(k2)
  BY <1>3, <1>4, CallFacts, UntouchedOK, RowFacts DEF KeepsIdentity
<1> QED
  BY <1>3, <1>5 DEF Moves, CallInv, k2

LEMMA LegacyMoves ==
  ASSUME Deployment, IInv, NEW c \in Clients, call[c].pc \notin {"idle", "precheck", "run"}, Legacy(c)
  PROVE  Moves(c)
<1> DEFINE k2 == call'[c]
           p == promotion(c)
           u == update_statements(c)
           script == IF call[c].op = "drop" THEN drop_statements ELSE p \o u
<1>1. /\ p \in Seq(Statement) /\ Len(p) = 1
      /\ p[1].kind = "insert_ignore" /\ p[1].rows = {Identity}
  <2>1. PICK v \in {"0", "1"} : p = <<InsertIgnore(Identity, v)>>
    BY DEF promotion
  <2>2. InsertIgnore(Identity, v).kind = "insert_ignore" /\ InsertIgnore(Identity, v).rows = {Identity}
    BY DEF InsertIgnore
  <2> QED
    BY <2>1, <2>2, StatementsTyped
<1>2. /\ drop_statements \in Seq(Statement) /\ u \in Seq(Statement)
      /\ \A i \in DOMAIN u : u[i].kind = "delete" => Identity \notin u[i].rows
  BY CallFacts, BodyFacts
<1>3. Run(c, script)
  BY DEF Legacy
<1> HIDE DEF p, u
<1>4. /\ p \o u \in Seq(Statement) /\ Len(p \o u) = 1 + Len(u) /\ p \o u # <<>>
      /\ Head(p \o u) = p[1] /\ (p \o u)[1] = p[1]
      /\ \A i \in DOMAIN (p \o u) : i # 1 => i - 1 \in DOMAIN u /\ (p \o u)[i] = u[i - 1]
  BY <1>1, <1>2, PrependFacts
<1>5. /\ DOMAIN call' = Clients
      /\ \A d \in Clients \ {c} : call'[d] = call[d]
      /\ Typed(k2) /\ Visits(k2)
      /\ k2.op = call[c].op /\ k2.own = Untouched /\ k2.script = script
  <2>1. script \in Seq(Statement)
    BY <1>2, <1>4
  <2> HIDE DEF script
  <2> QED
    BY <2>1, <1>3, RunMoves
<1>6. call[c].op = "update" =>
        \A i \in DOMAIN script : script[i].kind = "delete" => Identity \notin script[i].rows
  BY <1>1, <1>2, <1>4
<1>7. call[c].op = "update" => PromotesFirst(k2)
  BY <1>1, <1>4, <1>5 DEF PromotesFirst
<1> HIDE DEF k2, script
<1>8. KeepsIdentity(k2)
  BY <1>5, <1>6, CallFacts, UntouchedOK, RowFacts DEF KeepsIdentity
<1>9. Promotes(k2)
  BY <1>5, <1>7 DEF Promotes
<1> QED
  BY <1>5, <1>8, <1>9 DEF Moves, CallInv, k2

LEMMA LockIdentityMoves ==
  ASSUME Deployment, IInv, NEW c \in Clients, LockIdentity(c)
  PROVE  Moves(c)
<1>1. /\ Visible(c, {Identity}) \in Seq(SeenRow)
      /\ \A r \in Rows : RowOK(View(c, r))
      /\ View(c, Identity) = db[Identity] /\ RowOK(db[Identity])
  <2>1. call[c].pc # "run"
    BY DEF LockIdentity
  <2> QED
    BY <2>1, ViewOK, VisibleRows, UntouchedOK
<1>2. CASE See(c, {Identity})
  <2>1. call' = [call EXCEPT ![c].pc = call[c].pc, ![c].seen = Visible(c, {Identity})]
    BY <1>2, CallFacts DEF See, Typed
  <2>2. call[c].pc \notin {"idle", "precheck", "run"}
    BY DEF LockIdentity
  <2>3. call[c].pc \in {"lock_identity", "lock_property", "recheck"}
    BY DEF LockIdentity
  <2> QED
    BY <1>1, <2>1, <2>2, <2>3, GotoMoves
<1>3. CASE Missing(c)
  BY <1>3, ReturnMoves DEF Missing
<1>4. CASE Goto(c, "lock_property")
  BY <1>4, GotoMoves DEF Goto, LockIdentity
<1>5. ASSUME Current(c), NEW s \in Seq(SeenRow), s # <<>>, View(c, Identity).id = s[1].id
      PROVE  Moves(c)
  <2>1. s[1].id # 0
    <3>1. s[1] \in SeenRow
      BY <1>5
    <3> QED
      BY <3>1 DEF SeenRow
  <2>2. db[Identity] # NoRow
    BY <1>1, <1>5, <2>1 DEF NoRow
  <2> QED
    BY <2>2, <1>5, CurrentMoves DEF LockIdentity
<1>6. CASE ~See(c, {Identity}) /\ ~Missing(c) /\ ~Goto(c, "lock_property")
  <2> DEFINE s == IF call[c].seen = NotStarted THEN Visible(c, {Identity}) ELSE call[c].seen
  <2>1. s \in Seq(SeenRow)
    BY <1>1, CallFacts
  <2>2. s # <<>> /\ View(c, Identity).id = s[1].id /\ Current(c)
    BY <1>6 DEF LockIdentity
  <2> HIDE DEF s
  <2> QED
    BY <2>1, <2>2, <1>5
<1> QED
  BY <1>2, <1>3, <1>4, <1>6

LEMMA LockPropertyMoves ==
  ASSUME Deployment, IInv, NEW c \in Clients, LockProperty(c)
  PROVE  Moves(c)
<1>1. call[c].pc = "lock_property"
  BY DEF LockProperty
<1>2. CASE See(c, Keys)
  <2>1. call' = [call EXCEPT ![c].pc = call[c].pc, ![c].seen = Visible(c, Keys)]
    BY <1>2, CallFacts DEF See, Typed
  <2>2. Visible(c, Keys) \in Seq(SeenRow)
    BY ViewOK, VisibleRows
  <2> QED
    BY <1>1, <2>1, <2>2, GotoMoves
<1>3. CASE Goto(c, "recheck")
  BY <1>1, <1>3, GotoMoves DEF Goto
<1>4. CASE Legacy(c)
  BY <1>1, <1>4, LegacyMoves
<1>5. CASE call' = [call EXCEPT ![c].seen = Tail(@)] /\ call[c].seen \notin {NotStarted, <<>>}
  <2>1. call' = [call EXCEPT ![c].pc = call[c].pc, ![c].seen = Tail(call[c].seen)]
    BY <1>5, CallFacts DEF Typed
  <2>2. Tail(call[c].seen) \in Seq(SeenRow)
    BY <1>5, CallFacts
  <2> QED
    BY <1>1, <2>1, <2>2, GotoMoves
<1> QED
  BY <1>2, <1>3, <1>4, <1>5 DEF LockProperty

\* What a step of a deletion or an update of rows leaves: with no row in sight
\* or after the last one, the statement is done.
Effect(c, own2, script2, seen2) ==
  LET k == call[c]
      stmt == Head(k.script)
      r == Target(c).row
      last == Len(k.seen) = 1
  IN  \/ /\ k.seen = NotStarted /\ Visible(c, stmt.rows) = <<>>
         /\ own2 = k.own /\ script2 = Tail(k.script) /\ seen2 = NotStarted
      \/ /\ k.seen = NotStarted /\ Visible(c, stmt.rows) # <<>>
         /\ own2 = k.own /\ script2 = k.script /\ seen2 = Visible(c, stmt.rows)
      \/ /\ k.seen # NotStarted
         /\ own2 = IF StillThere(c) THEN [k.own EXCEPT ![r] = Written(stmt, c, r)] ELSE k.own
         /\ script2 = IF last THEN Tail(k.script) ELSE k.script
         /\ seen2 = IF last THEN NotStarted ELSE Tail(k.seen)

LEMMA ChangeEffect ==
  ASSUME IInv, NEW c \in Clients, Change(c)
  PROVE  /\ call[c].pc = "run" /\ call[c].script # <<>>
         /\ Head(call[c].script).kind \in {"delete", "update"}
         /\ \E own2, script2, seen2 :
              /\ Effect(c, own2, script2, seen2)
              /\ call' = [call EXCEPT ![c] = [call[c] EXCEPT !.own = own2, !.script = script2, !.seen = seen2]]
<1> DEFINE k == call[c]
           stmt == Head(k.script)
           r == Target(c).row
           last == Len(k.seen) = 1
           script3 == IF last THEN Tail(k.script) ELSE k.script
           seen3 == IF last THEN NotStarted ELSE Tail(k.seen)
           own3 == [k.own EXCEPT ![r] = Written(stmt, c, r)]
           Result(o, s, n) == [k EXCEPT !.own = o, !.script = s, !.seen = n]
<1>1. /\ DOMAIN call = Clients /\ Typed(k)
  BY CallFacts
<1>2. k = Result(k.own, k.script, k.seen)
  BY <1>1 DEF Typed
<1>3. ASSUME k.seen = NotStarted
      PROVE  \E own2, script2, seen2 :
               /\ Effect(c, own2, script2, seen2)
               /\ call' = [call EXCEPT ![c] = [call[c] EXCEPT !.own = own2, !.script = script2, !.seen = seen2]]
  <2>1. CASE Visible(c, stmt.rows) = <<>>
    <3>1. call' = [call EXCEPT ![c] = Result(k.own, Tail(k.script), NotStarted)]
      BY <1>1, <1>3, <2>1 DEF Change, Typed
    <3>2. Effect(c, k.own, Tail(k.script), NotStarted)
      BY <1>3, <2>1 DEF Effect
    <3> QED
      BY <3>1, <3>2
  <2>2. CASE Visible(c, stmt.rows) # <<>>
    <3>1. call' = [call EXCEPT ![c] = Result(k.own, k.script, Visible(c, stmt.rows))]
      BY <1>1, <1>3, <2>2 DEF Change, See, Typed
    <3>2. Effect(c, k.own, k.script, Visible(c, stmt.rows))
      BY <1>3, <2>2 DEF Effect
    <3> QED
      BY <3>1, <3>2
  <2> QED
    BY <2>1, <2>2
<1>4. ASSUME k.seen # NotStarted
      PROVE  \E own2, script2, seen2 :
               /\ Effect(c, own2, script2, seen2)
               /\ call' = [call EXCEPT ![c] = [call[c] EXCEPT !.own = own2, !.script = script2, !.seen = seen2]]
  <2>1. CASE StillThere(c)
    <3>1. call' = [call EXCEPT ![c] = [[k EXCEPT !.seen = seen3, !.script = script3] EXCEPT !.own[r] = Written(stmt, c, r)]]
      BY <1>4, <2>1 DEF Change
    <3>2. [[k EXCEPT !.seen = seen3, !.script = script3] EXCEPT !.own[r] = Written(stmt, c, r)]
            = Result(own3, script3, seen3)
      BY <1>1 DEF Typed
    <3>3. Effect(c, own3, script3, seen3)
      BY <1>4, <2>1 DEF Effect
    <3> HIDE DEF own3, script3, seen3
    <3>4. call' = [call EXCEPT ![c] = Result(own3, script3, seen3)]
      BY <3>1, <3>2
    <3> QED
      BY <3>3, <3>4
  <2>2. CASE ~StillThere(c)
    <3>1. call' = [call EXCEPT ![c] = [k EXCEPT !.seen = seen3, !.script = script3]]
      BY <1>4, <2>2 DEF Change
    <3>2. [k EXCEPT !.seen = seen3, !.script = script3] = Result(k.own, script3, seen3)
      BY <1>1 DEF Typed
    <3>3. Effect(c, k.own, script3, seen3)
      BY <1>4, <2>2 DEF Effect
    <3> HIDE DEF own3, script3, seen3
    <3>4. call' = [call EXCEPT ![c] = Result(k.own, script3, seen3)]
      BY <3>1, <3>2
    <3> QED
      BY <3>3, <3>4
  <2> QED
    BY <2>1, <2>2
<1>5. k.pc = "run" /\ k.script # <<>> /\ stmt.kind \in {"delete", "update"}
  BY DEF Change
<1> QED
  BY <1>3, <1>4, <1>5

\* The rows a running statement changes.
LEMMA EffectRows ==
  ASSUME Deployment, IInv, NEW c \in Clients, call[c].pc = "run", call[c].script # <<>>,
         Head(call[c].script).kind \in {"delete", "update"},
         NEW own2, NEW script2, NEW seen2, Effect(c, own2, script2, seen2)
  PROVE  /\ \/ own2 = call[c].own
            \/ \E r \in Head(call[c].script).rows :
                 /\ r \in Rows /\ View(c, r) \in Present
                 /\ call[c].seen # NotStarted /\ r = Target(c).row /\ StillThere(c)
                 /\ own2 = [call[c].own EXCEPT ![r] = Written(Head(call[c].script), c, r)]
                 /\ Written(Head(call[c].script), c, r) \in Present \cup {NoRow}
                 /\ Head(call[c].script).kind = "delete" => Written(Head(call[c].script), c, r) = NoRow
                 /\ Head(call[c].script).kind = "update" => Written(Head(call[c].script), c, r) \in Present
         /\ own2 \in [Rows -> Present \cup {NoRow, Same}]
         /\ script2 \in Seq(Statement)
         /\ seen2 \in Seq(SeenRow) \cup {NotStarted}
         /\ \/ script2 = Tail(call[c].script) /\ seen2 = NotStarted
            \/ /\ script2 = call[c].script /\ seen2 # NotStarted /\ seen2 # <<>>
               /\ \A i \in DOMAIN seen2 : seen2[i].row \in Head(script2).rows
<1> DEFINE k == call[c]
           stmt == Head(k.script)
           r == Target(c).row
<1>1. /\ Typed(k) /\ Visits(k) /\ k.script \in Seq(Statement)
      /\ k.seen \in Seq(SeenRow) \cup {NotStarted}
      /\ k.own \in [Rows -> Present \cup {NoRow, Same}]
  BY CallFacts DEF Typed
<1>2. stmt \in Statement /\ stmt.rows \subseteq Rows /\ stmt.val \in Values /\ Tail(k.script) \in Seq(Statement)
  <2>1. stmt \in Statement /\ Tail(k.script) \in Seq(Statement)
    BY <1>1
  <2> HIDE DEF stmt
  <2> QED
    BY <2>1 DEF Statement
<1>3. /\ \A x \in Rows : RowOK(View(c, x))
      /\ Visible(c, stmt.rows) \in Seq(SeenRow)
      /\ \A i \in DOMAIN Visible(c, stmt.rows) : Visible(c, stmt.rows)[i].row \in stmt.rows
  BY ViewOK, VisibleRows
<1>4. NotStarted \notin Seq(SeenRow) /\ NotStarted # <<>>
  <2>1. 1 \in DOMAIN NotStarted /\ NotStarted[1].id = 0
    BY DEF NotStarted
  <2>2. \A e \in SeenRow : e.id # 0
    BY DEF SeenRow
  <2>3. \A s \in Seq(SeenRow) : \A i \in DOMAIN s : s[i] \in SeenRow
    OBVIOUS
  <2> QED
    BY <2>1, <2>2, <2>3
<1>5. ASSUME k.seen # NotStarted
      PROVE  /\ k.seen \in Seq(SeenRow) /\ k.seen # <<>> /\ r \in stmt.rows /\ r \in Rows
             /\ Target(c).id \in Nat \ {0}
             /\ Tail(k.seen) \in Seq(SeenRow)
             /\ Len(k.seen) # 1 => Tail(k.seen) # <<>>
             /\ \A i \in DOMAIN Tail(k.seen) : Tail(k.seen)[i].row \in stmt.rows
  <2>1. /\ k.seen \in Seq(SeenRow) /\ k.seen # <<>>
        /\ \A i \in DOMAIN k.seen : k.seen[i].row \in stmt.rows
    BY <1>1, <1>5 DEF Visits
  <2>2. Head(k.seen) \in SeenRow /\ Head(k.seen) = k.seen[1] /\ 1 \in DOMAIN k.seen
    BY <2>1
  <2>3. r \in stmt.rows /\ r \in Rows /\ Target(c).id \in Nat \ {0}
    BY <2>1, <2>2 DEF Target, SeenRow
  <2>4. /\ Tail(k.seen) \in Seq(SeenRow)
        /\ \A i \in DOMAIN Tail(k.seen) : i + 1 \in DOMAIN k.seen /\ Tail(k.seen)[i] = k.seen[i + 1]
    BY <2>1, TailFacts
  <2>5. Len(k.seen) # 1 => Tail(k.seen) # <<>>
    BY <2>1, TailFacts
  <2> QED
    BY <2>1, <2>3, <2>4, <2>5
<1>6. ASSUME k.seen # NotStarted, StillThere(c)
      PROVE  /\ View(c, r) \in Present
             /\ Written(stmt, c, r) \in Present \cup {NoRow}
             /\ stmt.kind = "delete" => Written(stmt, c, r) = NoRow
             /\ stmt.kind = "update" => Written(stmt, c, r) \in Present
  <2>1. View(c, r) \in Present
    BY <1>3, <1>5, <1>6, RowFacts DEF StillThere
  <2>2. [View(c, r) EXCEPT !.val = stmt.val] \in Present
    BY <2>1, <1>2 DEF Present
  <2> QED
    BY <2>1, <2>2 DEF Written
<1> HIDE DEF stmt, r
<1>7. CASE k.seen = NotStarted
  BY <1>1, <1>2, <1>3, <1>4, <1>7 DEF Effect, stmt
<1>8. CASE k.seen # NotStarted
  <2>1. /\ own2 = IF StillThere(c) THEN [k.own EXCEPT ![r] = Written(stmt, c, r)] ELSE k.own
        /\ script2 = IF Len(k.seen) = 1 THEN Tail(k.script) ELSE k.script
        /\ seen2 = IF Len(k.seen) = 1 THEN NotStarted ELSE Tail(k.seen)
    BY <1>8 DEF Effect, stmt, r
  <2>2. own2 \in [Rows -> Present \cup {NoRow, Same}]
    <3>1. CASE StillThere(c)
      BY <1>1, <1>5, <1>6, <1>8, <2>1, <3>1
    <3> QED
      BY <1>1, <2>1, <3>1
  <2>3. \/ script2 = Tail(k.script) /\ seen2 = NotStarted
        \/ /\ script2 = k.script /\ seen2 # NotStarted /\ seen2 # <<>> /\ seen2 \in Seq(SeenRow)
           /\ \A i \in DOMAIN seen2 : seen2[i].row \in stmt.rows
    BY <1>4, <1>5, <1>8, <2>1
  <2> QED
    BY <1>1, <1>2, <1>5, <1>6, <1>8, <2>1, <2>2, <2>3 DEF stmt, r
<1> QED
  BY <1>7, <1>8

LEMMA ChangeMoves ==
  ASSUME Deployment, IInv, NEW c \in Clients, Change(c)
  PROVE  Moves(c)
<1> DEFINE k == call[c]
           stmt == Head(k.script)
<1>1. /\ DOMAIN call = Clients /\ Typed(k) /\ KeepsIdentity(k) /\ k.script \in Seq(Statement)
  BY CallFacts
<1>2. k.pc = "run" /\ k.script # <<>> /\ stmt.kind \in {"delete", "update"}
  BY ChangeEffect
<1>3. PICK own2, script2, seen2 :
        /\ Effect(c, own2, script2, seen2)
        /\ call' = [call EXCEPT ![c] = [call[c] EXCEPT !.own = own2, !.script = script2, !.seen = seen2]]
  BY ChangeEffect
<1> DEFINE k2 == [k EXCEPT !.own = own2, !.script = script2, !.seen = seen2]
<1>4. call'[c] = k2 /\ DOMAIN call' = Clients /\ \A d \in Clients \ {c} : call'[d] = call[d]
  BY <1>1, <1>3
<1>5. /\ own2 \in [Rows -> Present \cup {NoRow, Same}] /\ script2 \in Seq(Statement)
      /\ seen2 \in Seq(SeenRow) \cup {NotStarted}
      /\ \/ script2 = Tail(k.script) /\ seen2 = NotStarted
         \/ /\ script2 = k.script /\ seen2 # NotStarted /\ seen2 # <<>>
            /\ \A i \in DOMAIN seen2 : seen2[i].row \in Head(script2).rows
  BY <1>2, <1>3, EffectRows
<1>6. /\ k2.pc = "run" /\ k2.op = k.op /\ k2.own = own2 /\ k2.script = script2 /\ k2.seen = seen2
      /\ Typed(k2)
  BY <1>1, <1>2, <1>5 DEF Typed
<1>7. Visits(k2)
  BY <1>2, <1>5, <1>6 DEF Visits
<1>8. /\ k.op \in {"create", "update"} => own2[Identity] # NoRow
      /\ k.op \in {"create", "update"} /\ k.own[Identity] \in Present => own2[Identity] \in Present
  <2> SUFFICES ASSUME k.op \in {"create", "update"}
               PROVE  /\ own2[Identity] # NoRow
                      /\ k.own[Identity] \in Present => own2[Identity] \in Present
    OBVIOUS
  <2>1. k.own[Identity] # NoRow /\ (stmt.kind = "delete" => Identity \notin stmt.rows)
    BY <1>1, <1>2, TailFacts DEF KeepsIdentity
  <2>2. CASE own2 = k.own
    BY <2>1, <2>2
  <2>3. ASSUME NEW r \in stmt.rows, r \in Rows, own2 = [k.own EXCEPT ![r] = Written(stmt, c, r)],
               stmt.kind = "update" => Written(stmt, c, r) \in Present
        PROVE  own2[Identity] # NoRow /\ (k.own[Identity] \in Present => own2[Identity] \in Present)
    <3>1. k.own \in [Rows -> Present \cup {NoRow, Same}]
      BY <1>1 DEF Typed
    <3>2. CASE r = Identity
      BY <1>2, <2>1, <2>3, <3>1, <3>2, RowFacts
    <3>3. CASE r # Identity
      <4> HIDE DEF stmt, k
      <4>1. own2[Identity] = k.own[Identity]
        BY <2>3, <3>1, <3>3, UntouchedOK
      <4> QED
        BY <4>1, <2>1
    <3> QED
      BY <3>2, <3>3
  <2>4. \/ own2 = k.own
        \/ \E r \in stmt.rows :
             /\ r \in Rows /\ own2 = [k.own EXCEPT ![r] = Written(stmt, c, r)]
             /\ stmt.kind = "update" => Written(stmt, c, r) \in Present
    BY <1>2, <1>3, EffectRows
  <2> HIDE DEF stmt
  <2> QED
    BY <2>2, <2>3, <2>4
<1>9. \A i \in DOMAIN script2 : \E j \in DOMAIN k.script : script2[i] = k.script[j]
  <2>1. CASE script2 = Tail(k.script)
    BY <1>1, <1>2, <2>1, TailFacts
  <2> QED
    BY <1>5, <2>1
<1>10. /\ k.op = "create" => k.own[Identity] \in Present
       /\ ~PromotesFirst(k)
  BY <1>1, <1>2 DEF KeepsIdentity, PromotesFirst
<1> HIDE DEF k, k2
<1>11. KeepsIdentity(k2)
  BY <1>1, <1>2, <1>6, <1>8, <1>9, <1>10 DEF KeepsIdentity
<1>12. Promotes(k) => Promotes(k2)
  BY <1>2, <1>6, <1>8, <1>10 DEF Promotes
<1> QED
  BY <1>4, <1>6, <1>7, <1>11, <1>12 DEF Moves, CallInv, k

LEMMA InsertMoves ==
  ASSUME IInv, NEW c \in Clients, InsertRow(c)
  PROVE  Moves(c)
<1> DEFINE k == call[c]
           stmt == Head(k.script)
           r == CHOOSE x \in stmt.rows : TRUE
           own2 == [k.own EXCEPT ![r] = Written(stmt, c, r)]
<1>1. /\ DOMAIN call = Clients /\ Typed(k) /\ Visits(k) /\ KeepsIdentity(k)
      /\ k.script \in Seq(Statement) /\ k.own \in [Rows -> Present \cup {NoRow, Same}]
  BY CallFacts DEF Typed
<1>2. k.pc = "run" /\ k.script # <<>> /\ stmt.kind \in {"insert", "insert_ignore"}
  BY DEF InsertRow
<1>3. /\ stmt \in Statement /\ stmt.rows = {r} /\ r \in Rows /\ stmt.val \in Values
      /\ Tail(k.script) \in Seq(Statement)
      /\ \A i \in DOMAIN Tail(k.script) : \E j \in DOMAIN k.script : Tail(k.script)[i] = k.script[j]
  <2>1. /\ stmt \in Statement /\ Tail(k.script) \in Seq(Statement)
        /\ \A i \in DOMAIN Tail(k.script) : \E j \in DOMAIN k.script : Tail(k.script)[i] = k.script[j]
    BY <1>1, <1>2, TailFacts
  <2>2. stmt.kind \in {"insert", "insert_ignore"}
    BY <1>2
  <2> HIDE DEF stmt, k
  <2>3. stmt.val \in Values /\ \E x \in Rows : stmt.rows = {x}
    BY <2>1, <2>2 DEF Statement
  <2> QED
    BY <2>1, <2>3
<1>4. k.seen = NotStarted
  BY <1>1, <1>2 DEF Visits
<1>5. Written(stmt, c, r) \in Present /\ Written(stmt, c, r) = [id |-> k.id, val |-> stmt.val]
  <2>1. k.id \in Nat \ {0}
    BY <1>1, <1>2 DEF Typed
  <2> QED
    BY <1>2, <1>3, <2>1 DEF Written, Present
<1> HIDE DEF r
<1>6. CASE View(c, r) = NoRow
  <2> DEFINE k2 == [k EXCEPT !.own = own2, !.script = Tail(k.script)]
  <2>1. call'[c] = k2 /\ DOMAIN call' = Clients /\ \A d \in Clients \ {c} : call'[d] = call[d]
    <3>1. call' = [call EXCEPT ![c].own[r] = Written(stmt, c, r), ![c].script = Tail(@)]
      BY <1>6 DEF InsertRow, r
    <3> QED
      BY <1>1, <3>1 DEF Typed
  <2>2. own2 \in [Rows -> Present \cup {NoRow, Same}] /\ own2[r] \in Present
        /\ \A x \in Rows \ {r} : own2[x] = k.own[x]
    BY <1>1, <1>3, <1>5
  <2> HIDE DEF own2
  <2>3. /\ k2.pc = "run" /\ k2.op = k.op /\ k2.own = own2 /\ k2.script = Tail(k.script)
        /\ k2.seen = NotStarted /\ Typed(k2)
    BY <1>1, <1>2, <1>3, <1>4, <2>2 DEF Typed
  <2>4. /\ k.op \in {"create", "update"} => own2[Identity] # NoRow
        /\ k.op = "create" => own2[Identity] \in Present
    <3>1. CASE r = Identity
      BY <2>2, <3>1, RowFacts
    <3>2. CASE r # Identity
      <4>1. own2[Identity] = k.own[Identity]
        BY <2>2, <3>2, UntouchedOK
      <4>2. stmt.rows # {Identity}
        BY <1>3, <3>2
      <4> QED
        BY <1>1, <1>2, <4>1, <4>2 DEF KeepsIdentity
    <3> QED
      BY <3>1, <3>2
  <2>5. k.own[Identity] \in Present \/ PromotesFirst(k) => own2[Identity] \in Present
    <3>1. CASE r = Identity
      BY <2>2, <3>1
    <3>2. CASE r # Identity
      BY <1>3, <2>2, <3>2, UntouchedOK DEF PromotesFirst
    <3> QED
      BY <3>1, <3>2
  <2> HIDE DEF k2, k
  <2>6. Visits(k2) /\ KeepsIdentity(k2)
    BY <1>1, <1>2, <1>3, <2>3, <2>4 DEF Visits, KeepsIdentity
  <2>7. Promotes(k) => Promotes(k2)
    BY <1>2, <2>3, <2>5 DEF Promotes
  <2> QED
    BY <2>1, <2>3, <2>6, <2>7 DEF Moves, CallInv, k
<1>7. CASE View(c, r) # NoRow /\ stmt.kind = "insert_ignore"
  <2> DEFINE k2 == [k EXCEPT !.script = Tail(k.script)]
  <2>1. call'[c] = k2 /\ DOMAIN call' = Clients /\ \A d \in Clients \ {c} : call'[d] = call[d]
    <3>1. call' = [call EXCEPT ![c].script = Tail(@)]
      BY <1>7 DEF InsertRow, r
    <3> QED
      BY <1>1, <3>1 DEF Typed
  <2>2. /\ k2.pc = "run" /\ k2.op = k.op /\ k2.own = k.own /\ k2.script = Tail(k.script)
        /\ k2.seen = NotStarted /\ Typed(k2)
    BY <1>1, <1>2, <1>3, <1>4 DEF Typed
  <2>3. k.op = "create" => k.own[Identity] \in Present
    BY <1>1, <1>2, <1>7 DEF KeepsIdentity
  <2>4. db[Identity] = NoRow /\ PromotesFirst(k) /\ k.op = "update" => k.own[Identity] \in Present
    <3>1. SUFFICES ASSUME db[Identity] = NoRow, PromotesFirst(k), k.op = "update"
                   PROVE  k.own[Identity] \in Present
      OBVIOUS
    <3>2. r = Identity
      BY <1>3, <3>1 DEF PromotesFirst
    <3>3. k.own[Identity] # NoRow
      BY <1>1, <1>2, <3>1 DEF KeepsIdentity
    <3> QED
      BY <1>1, <1>7, <3>1, <3>2, <3>3, UntouchedOK DEF View
  <2> HIDE DEF k2, k
  <2>5. Visits(k2) /\ KeepsIdentity(k2)
    BY <1>1, <1>2, <1>3, <2>2, <2>3 DEF Visits, KeepsIdentity
  <2>6. db[Identity] = NoRow /\ Promotes(k) => Promotes(k2)
    BY <1>2, <2>2, <2>4 DEF Promotes
  <2> QED
    BY <2>1, <2>2, <2>5, <2>6 DEF Moves, CallInv, k
<1>8. CASE View(c, r) # NoRow /\ stmt.kind = "insert"
  <2>1. Return(c)
    BY <1>8 DEF InsertRow, r
  <2> QED
    BY <2>1, ReturnMoves
<1> QED
  BY <1>2, <1>6, <1>7, <1>8

LEMMA RollbackMoves ==
  ASSUME IInv, NEW c \in Clients, call[c].pc # "idle", Rollback(c)
  PROVE  Moves(c)
<1> DEFINE k == call[c]
           k2 == [k EXCEPT !.pc = "probe", !.retries = @ + 1, !.own = Untouched,
                           !.script = <<>>, !.seen = NotStarted]
<1>1. CASE Return(c)
  BY <1>1, ReturnMoves
<1>2. CASE /\ k.op # "create"
           /\ call' = [call EXCEPT ![c].pc = "probe", ![c].retries = @ + 1, ![c].own = Untouched,
                                   ![c].script = <<>>, ![c].seen = NotStarted]
  <2>1. DOMAIN call = Clients /\ Typed(k)
    BY CallFacts
  <2>2. call'[c] = k2 /\ DOMAIN call' = Clients /\ \A d \in Clients \ {c} : call'[d] = call[d]
    BY <1>2, <2>1
  <2>3. Typed(k2) /\ k2.pc = "probe"
    <3>1. <<>> \in Seq(Statement) /\ k.retries + 1 \in Nat
      BY <2>1 DEF Typed
    <3> QED
      BY <1>2, <2>1, <3>1, UntouchedOK DEF Typed
  <2> HIDE DEF k2
  <2>4. Visits(k2) /\ KeepsIdentity(k2) /\ Promotes(k2)
    BY <2>3 DEF Visits, KeepsIdentity, Promotes
  <2> QED
    BY <2>2, <2>3, <2>4 DEF Moves, CallInv
<1> QED
  BY <1>1, <1>2 DEF Rollback

LEMMA BeginMoves ==
  ASSUME IInv, NEW c \in Clients,
         NEW op \in {"create", "drop", "update"}, NEW set, set \subseteq Keys, NEW remove \in Seq(Keys),
         Begin(c, op, IF op = "create" THEN "precheck" ELSE "probe", set, remove)
  PROVE  Moves(c) /\ calls' \in Nat \ {0}
<1> DEFINE pc == IF op = "create" THEN "precheck" ELSE "probe"
           k2 == [IdleCall EXCEPT !.pc = pc, !.op = op, !.id = calls + 1,
                                  !.set = set, !.remove = remove]
<1>1. DOMAIN call = Clients /\ calls \in Nat \ {0}
  BY DEF IInv
<1>2. call'[c] = k2 /\ DOMAIN call' = Clients /\ \A d \in Clients \ {c} : call'[d] = call[d]
  BY <1>1 DEF Begin
<1>3. Typed(k2) /\ k2.pc = pc
  <2>1. <<>> \in Seq(Statement) /\ calls + 1 \in Nat \ {0}
    BY <1>1
  <2> QED
    BY <2>1, UntouchedOK DEF Typed, IdleCall
<1> HIDE DEF k2
<1>4. Visits(k2) /\ KeepsIdentity(k2) /\ Promotes(k2)
  BY <1>3 DEF Visits, KeepsIdentity, Promotes
<1> QED
  BY <1>1, <1>2, <1>3, <1>4 DEF Moves, CallInv, Begin

LEMMA StartMoves ==
  ASSUME Deployment, IInv, NEW c \in Clients, Start(c)
  PROVE  Moves(c) /\ calls' \in Nat \ {0}
<1>1. KeyOrder[1] \in Keys /\ <<>> \in Seq(Keys) /\ {} \subseteq Keys
  <2>1. KeyOrder \in Seq(Keys) /\ KeyOrder # <<>>
    BY DEF Keys, Range, Deployment
  <2> QED
    BY <2>1
<1>2. CASE create_namespace(c)
  <2>1. PICK ks \in {{}, {KeyOrder[1]}, {"exists"}} : Begin(c, "create", "precheck", ks, <<>>)
    BY <1>2 DEF create_namespace
  <2>2. ks \subseteq Keys
    BY <1>1, <2>1 DEF Deployment
  <2> QED
    BY <1>1, <2>1, <2>2, BeginMoves
<1>3. CASE drop_namespace(c)
  <2>1. Begin(c, "drop", "probe", {}, <<>>)
    BY <1>3 DEF drop_namespace
  <2> QED
    BY <1>1, <2>1, BeginMoves
<1>4. CASE update_namespace(c)
  <2>1. PICK u \in Updates : Begin(c, "update", "probe", u.set, u.remove)
    BY <1>4 DEF update_namespace
  <2>2. u.set \subseteq Keys /\ u.remove \in Seq(Keys)
    BY <2>1 DEF Deployment
  <2> QED
    BY <2>1, <2>2, BeginMoves
<1> QED
  BY <1>2, <1>3, <1>4 DEF Start

\* Every step is a step of one call that leaves the rows alone, or a commit.
LEMMA NextMoves ==
  ASSUME Deployment, IInv, Next
  PROVE  \E c \in Clients :
           \/ Commit(c)
           \/ Moves(c) /\ db' = db /\ serial' = serial /\ calls' \in Nat \ {0}
<1>1. PICK c \in Clients : Start(c) \/ Proceed(c) \/ Fail(c)
  BY DEF Next
<1>2. calls \in Nat \ {0}
  BY DEF IInv
<1>3. CASE Start(c)
  BY <1>3, StartMoves DEF Start, create_namespace, drop_namespace, update_namespace, Begin
<1>4. CASE Precheck(c)
  BY <1>2, <1>4, PrecheckMoves DEF Precheck
<1>5. CASE Probe(c)
  BY <1>2, <1>5, ProbeMoves DEF Probe
<1>6. CASE LockIdentity(c)
  BY <1>2, <1>6, LockIdentityMoves DEF LockIdentity
<1>7. CASE LockProperty(c)
  BY <1>2, <1>7, LockPropertyMoves DEF LockProperty
<1>8. CASE Change(c)
  BY <1>2, <1>8, ChangeMoves DEF Change
<1>9. CASE InsertRow(c)
  BY <1>2, <1>9, InsertMoves DEF InsertRow
<1>10. CASE Deadlock(c)
  BY <1>2, <1>10, RollbackMoves DEF Deadlock
<1>11. CASE Fail(c)
  BY <1>2, <1>11, ReturnMoves DEF Fail
<1> QED
  BY <1>1, <1>3, <1>4, <1>5, <1>6, <1>7, <1>8, <1>9, <1>10, <1>11 DEF Proceed

LEMMA CommitIInv ==
  ASSUME IInv, NEW c \in Clients, Commit(c)
  PROVE  /\ IInv'
         /\ serial.exists /\ call[c].op # "drop" => namespace_exists(db')
<1> DEFINE k == call[c]
<1>1. /\ DOMAIN call = Clients /\ Typed(k) /\ KeepsIdentity(k)
      /\ k.op \in {"create", "drop", "update"}
      /\ k.set \subseteq Keys
  BY CallFacts DEF Commit, Typed
<1>2. k.pc = "run" /\ k.script = <<>>
  BY DEF Commit
<1>3. db' = [r \in Rows |-> View(c, r)] /\ serial' = SerialEffect(c)
  BY DEF Commit
<1>4. /\ DOMAIN call' = Clients /\ call'[c] = IdleCall
      /\ \A d \in Clients \ {c} : call'[d] = call[d]
  BY <1>1 DEF Commit, Return
<1>5. db' \in [Rows -> Present \cup {NoRow}]
  BY <1>3, ViewOK DEF RowOK
<1>6. /\ serial' \in [exists : BOOLEAN, keys : SUBSET Keys]
      /\ k.op = "drop" => ~serial'.exists
      /\ k.op = "update" => serial'.exists = serial.exists
  <2>1. serial \in [exists : BOOLEAN, keys : SUBSET Keys]
    BY DEF IInv
  <2>2. CASE k.op = "create"
    BY <1>1, <1>3, <2>2 DEF SerialEffect
  <2>3. CASE k.op = "drop"
    BY <1>3, <2>3 DEF SerialEffect
  <2>4. CASE k.op = "update"
    <3>1. serial' = [serial EXCEPT !.keys = (@ \ Range(k.remove)) \cup k.set]
      BY <1>3, <2>4 DEF SerialEffect
    <3> QED
      BY <1>1, <2>1, <2>4, <3>1
  <2> QED
    BY <1>1, <2>2, <2>3, <2>4
<1>7. ASSUME \/ k.op = "create"
             \/ k.op = "update" /\ serial.exists
      PROVE  db'[Identity] # NoRow
  <2>1. db'[Identity] = View(c, Identity) /\ k.own[Identity] # NoRow
    BY <1>1, <1>2, <1>3, <1>7, UntouchedOK DEF KeepsIdentity
  <2>2. k.op = "create" => k.own[Identity] \in Present
    BY <1>1, <1>2 DEF KeepsIdentity
  <2>3. k.op = "update" /\ serial.exists => db[Identity] # NoRow \/ k.own[Identity] \in Present
    <3>1. ~PromotesFirst(k)
      BY <1>2 DEF PromotesFirst
    <3> QED
      BY <1>2, <3>1 DEF IInv, Promotes
  <2> QED
    BY <1>7, <2>1, <2>2, <2>3, RowFacts DEF View
<1>8. serial'.exists => db'[Identity] # NoRow
  BY <1>1, <1>6, <1>7
<1>9. \A d \in Clients : CallInv(call'[d])
  BY <1>4, IdleOK DEF IInv
<1>10. calls' \in Nat \ {0}
  BY DEF Commit, IInv
<1>11. serial.exists /\ k.op # "drop" => namespace_exists(db')
  BY <1>1, <1>7, UntouchedOK DEF namespace_exists
<1> QED
  BY <1>4, <1>5, <1>6, <1>8, <1>9, <1>10, <1>11 DEF IInv

LEMMA IInvInit == Init => IInv
<1> SUFFICES ASSUME Init PROVE IInv
  OBVIOUS
<1>1. db \in LegacyRows \cup {CurrentRows}
  BY DEF Init
<1>2. db \in [Rows -> Present \cup {NoRow}]
  BY <1>1 DEF LegacyRows, CurrentRows, Present, Values
<1>3. /\ call = [c \in Clients |-> IdleCall] /\ calls = 1
      /\ serial = [exists |-> namespace_exists(db), keys |-> load_namespace(db)]
  BY DEF Init
<1>4. \A c \in Clients : call[c] = IdleCall /\ CallInv(call[c]) /\ Promotes(call[c])
  BY <1>3, IdleOK DEF Promotes, IdleCall
<1>5. namespace_exists(db) \in BOOLEAN /\ load_namespace(db) \in SUBSET Keys
  BY DEF namespace_exists, load_namespace
<1> QED
  BY <1>2, <1>3, <1>4, <1>5 DEF IInv

LEMMA IInvStep ==
  ASSUME Deployment, IInv, [Next]_vars
  PROVE  IInv' /\ NamespaceSurvivesStep
<1>1. CASE UNCHANGED vars
  BY <1>1 DEF vars, IInv, NamespaceSurvivesStep, CallInv
<1>2. CASE Next
  <2>1. PICK c \in Clients : \/ Commit(c)
                             \/ Moves(c) /\ db' = db /\ serial' = serial /\ calls' \in Nat \ {0}
    BY <1>2, NextMoves
  <2>2. CASE Commit(c)
    <3>1. call'[c].pc = "idle"
      BY <2>2, CallFacts DEF Commit, Return, IdleCall
    <3> QED
      BY <2>2, <3>1, CommitIInv DEF NamespaceSurvivesStep
  <2>3. CASE Moves(c) /\ db' = db /\ serial' = serial /\ calls' \in Nat \ {0}
    <3>1. \A d \in Clients : CallInv(call'[d])
      BY <2>3 DEF Moves, IInv
    <3>2. ASSUME db[Identity] = NoRow, \A d \in Clients : Promotes(call[d])
          PROVE  \A d \in Clients : Promotes(call'[d])
      BY <2>3, <3>2 DEF Moves
    <3>3. namespace_exists(db') = namespace_exists(db)
      BY <2>3
    <3> QED
      BY <2>3, <3>1, <3>2, <3>3 DEF IInv, Moves, NamespaceSurvivesStep
  <2> QED
    BY <2>1, <2>2, <2>3
<1> QED
  BY <1>1, <1>2

-----------------------------------------------------------------------------
(* SQLite: one writer at a time *)

Role(c, k, w, rows) == IF c = w THEN Knows(k, rows) ELSE Waits(k, rows)

\* A step of one call that leaves the rows alone, by what it leaves that call.
LEMMA SqlQuiet ==
  ASSUME Deployment, SInv, dialect = "sqlite", NEW c \in Clients,
         dialect' = dialect, db' = db, serial' = serial,
         \A d \in Clients \ {c} : call'[d] = call[d],
         writer' = writer \/ (writer \in {Nobody, c} /\ writer' \in {Nobody, c}),
         Role(c, call'[c], writer', db)
  PROVE  SInv'
<1>1. \A d \in Clients : Role(d, call[d], writer, db)
  BY DEF SInv, Role
<1>2. ASSUME NEW d \in Clients PROVE Role(d, call'[d], writer', db')
  <2>1. CASE d = c
    BY <2>1
  <2>2. CASE d # c
    <3>1. d = writer' <=> d = writer
      BY <2>2 DEF Deployment
    <3>2. call'[d] = call[d]
      BY <2>2
    <3> QED
      BY <1>1, <3>1, <3>2 DEF Role
  <2> QED
    BY <2>1, <2>2
<1>3. serial' = [exists |-> namespace_exists(db'), keys |-> load_namespace(db')]
  BY DEF SInv
<1> QED
  BY <1>2, <1>3 DEF SInv, Role

LEMMA IdleWaits ==
  ASSUME NEW rows
  PROVE  Waits(IdleCall, rows)
BY DEF Waits, IdleCall

\* The writer lock is released with the transaction.
LEMMA ReleasedRole ==
  ASSUME Deployment, NEW c \in Clients, Release(c), NEW k, NEW rows, Waits(k, rows)
  PROVE  /\ Role(c, k, writer', rows)
         /\ writer' = writer \/ (writer \in {Nobody, c} /\ writer' \in {Nobody, c})
BY DEF Release, Role, Deployment

\* Who has the writer lock.
LEMMA WriterFacts ==
  ASSUME IInv, SInv, dialect = "sqlite", NEW c \in Clients
  PROVE  /\ c = writer => Knows(call[c], db)
         /\ c # writer => Waits(call[c], db)
         /\ call[c].pc \in {"lock_identity", "lock_property", "recheck"} => c = writer
         /\ call[c].pc \in {"idle", "precheck", "probe"} => c # writer
         /\ call[c].pc = "run" /\ call[c].op # "create" => c = writer
BY DEF SInv, Knows, Waits

LEMMA StatementFields ==
  ASSUME NEW x, NEW v
  PROVE  /\ Delete({x}).kind = "delete" /\ Delete({x}).rows = {x}
         /\ Insert(x, v).kind = "insert" /\ Insert(x, v).rows = {x} /\ Insert(x, v).val = v
         /\ InsertIgnore(x, v).kind = "insert_ignore" /\ InsertIgnore(x, v).rows = {x}
         /\ InsertIgnore(x, v).val = v
         /\ SetMarker.kind = "update" /\ SetMarker.rows = {Identity} /\ SetMarker.val = "0"
BY DEF Delete, Insert, InsertIgnore, SetMarker

\* The statements, told apart.
LEMMA StatementsDiffer ==
  ASSUME NEW x, NEW y, NEW v
  PROVE  /\ Delete({x}) = Delete({y}) => x = y
         /\ Insert(x, "new") = Insert(y, "new") => x = y
         /\ Delete({x}) # Insert(y, "new")
         /\ Delete({x}) # SetMarker
         /\ Insert(x, "new") # SetMarker
         /\ InsertIgnore(y, v) # Delete({x})
         /\ InsertIgnore(y, v) # Insert(x, "new")
         /\ InsertIgnore(y, v) # SetMarker
<1>1. {x} = {y} => x = y
  OBVIOUS
<1>2. /\ Delete({x}).kind = "delete" /\ Delete({x}).rows = {x} /\ Delete({y}).rows = {y}
      /\ Insert(x, "new").kind = "insert" /\ Insert(x, "new").rows = {x}
      /\ Insert(y, "new").kind = "insert" /\ Insert(y, "new").rows = {y}
      /\ InsertIgnore(y, v).kind = "insert_ignore" /\ SetMarker.kind = "update"
  BY DEF Delete, Insert, InsertIgnore, SetMarker
<1> QED
  BY <1>1, <1>2

\* A drop has every row before it.
LEMMA StartsDrop ==
  ASSUME NEW k, NEW rows, k.script = drop_statements
  PROVE  Dropping(k, rows)
<1>1. /\ drop_statements[1] = Delete(Keys) /\ drop_statements[2] = Delete({Identity})
      /\ DOMAIN drop_statements = {1, 2}
  BY DEF drop_statements
<1>2. Delete(Keys).kind = "delete" /\ Delete(Keys).rows = Keys
      /\ Delete({Identity}).kind = "delete" /\ Delete({Identity}).rows = {Identity}
  BY DEF Delete
<1>3. Rows = Keys \cup {Identity}
  BY DEF Rows
<1> HIDE DEF drop_statements
<1> QED
  BY <1>1, <1>2, <1>3 DEF Dropping

\* An update begins with the statements for its keys, behind the promotion where
\* there is no identity row.
LEMMA StartsUpdate ==
  ASSUME Deployment, NEW c, call[c].set \subseteq Keys, call[c].remove \in Seq(Keys),
         NEW k, k.own = Untouched, k.set = call[c].set, k.remove = call[c].remove,
         NEW rows, namespace_exists(rows),
         NEW p \in Seq(Statement), k.script = p \o update_statements(c),
         IF rows[Identity] = NoRow THEN p = <<InsertIgnore(Identity, Marker(rows))>> ELSE p = <<>>
  PROVE  Updating(k, rows)
<1> DEFINE u == update_statements(c)
           s == k.script
           set == k.set
           touched == Touched(k)
           q == InsertIgnore(Identity, Marker(rows))
<1>1. /\ u \in Seq(Statement)
      /\ \A i \in DOMAIN u :
           \/ \E x \in set : u[i] = Insert(x, "new")
           \/ \E x \in touched : u[i] = Delete({x})
           \/ u[i] = SetMarker /\ "exists" \in touched
      /\ \A x \in set :
           /\ Has(u, Insert(x, "new"))
           /\ \A i \in DOMAIN u : u[i] = Delete({x}) =>
                \E j \in DOMAIN u : j > i /\ u[j] = Insert(x, "new")
      /\ \A x \in touched \ set : Has(u, Delete({x}))
      /\ "exists" \in touched => Has(u, SetMarker)
  BY UpdateFacts DEF Touched
<1> HIDE DEF u
<1>2. ASSUME rows[Identity] = NoRow
      PROVE  /\ 1 \in DOMAIN s /\ s[1] = q /\ s # <<>> /\ Head(s) = q
             /\ \A i \in DOMAIN s : i # 1 => i - 1 \in DOMAIN u /\ s[i] = u[i - 1]
             /\ \A i \in DOMAIN u : i + 1 \in DOMAIN s /\ s[i + 1] = u[i]
  <2>1. p = <<q>> /\ Len(p) = 1 /\ p[1] = q
    BY <1>2
  <2> HIDE DEF q
  <2> QED
    BY <1>1, <2>1, PrependFacts DEF u
<1>3. ASSUME rows[Identity] # NoRow
      PROVE  s = u
  BY <1>1, <1>3 DEF u
<1>4. /\ DOMAIN u \subseteq Nat
      /\ set \subseteq touched /\ touched \subseteq Keys /\ Range(k.remove) \subseteq touched
  <2>1. DOMAIN u = 1 .. Len(u)
    BY <1>1
  <2> QED
    BY <2>1 DEF Touched, Range
<1> HIDE DEF s, q
<1>5. /\ \A i \in DOMAIN s :
           \/ \E x \in set : s[i] = Insert(x, "new")
           \/ \E x \in touched : s[i] = Delete({x})
           \/ s[i] = SetMarker /\ "exists" \in touched
           \/ i = 1 /\ s[i] = q /\ rows[Identity] = NoRow
      /\ \A e : Has(u, e) => Has(s, e)
  <2>1. CASE rows[Identity] = NoRow
    <3>1. ASSUME NEW i \in DOMAIN s, i # 1
          PROVE  \/ \E x \in set : s[i] = Insert(x, "new")
                 \/ \E x \in touched : s[i] = Delete({x})
                 \/ s[i] = SetMarker /\ "exists" \in touched
      <4>1. i - 1 \in DOMAIN u /\ s[i] = u[i - 1]
        BY <1>2, <2>1, <3>1
      <4> QED
        BY <1>1, <4>1
    <3>2. ASSUME NEW e, Has(u, e) PROVE Has(s, e)
      <4>1. PICK i \in DOMAIN u : u[i] = e
        BY <3>2 DEF Has
      <4> QED
        BY <1>2, <2>1, <4>1 DEF Has
    <3> QED
      BY <1>2, <2>1, <3>1, <3>2
  <2>2. CASE rows[Identity] # NoRow
    <3>1. s = u
      BY <1>3, <2>2
    <3> QED
      BY <1>1, <3>1
  <2> QED
    BY <2>1, <2>2
<1>6. ASSUME NEW x \in set, NEW i \in DOMAIN s, s[i] = Delete({x})
      PROVE  \E j \in DOMAIN s : j > i /\ s[j] = Insert(x, "new")
  <2>1. CASE rows[Identity] = NoRow
    <3>1. i # 1
      <4>1. q # Delete({x})
        BY StatementsDiffer DEF q
      <4> QED
        BY <1>2, <1>6, <2>1, <4>1
    <3>2. i - 1 \in DOMAIN u /\ u[i - 1] = Delete({x})
      BY <1>2, <1>6, <2>1, <3>1
    <3>3. PICK j \in DOMAIN u : j > i - 1 /\ u[j] = Insert(x, "new")
      BY <1>1, <3>2
    <3>4. j + 1 \in DOMAIN s /\ s[j + 1] = Insert(x, "new")
      BY <1>2, <2>1, <3>3
    <3>5. j + 1 > i
      <4>1. s \in Seq(Statement)
        BY <1>1 DEF s, u
      <4>2. i \in Nat /\ j \in Nat
        BY <1>4, <4>1
      <4> QED
        BY <3>3, <4>2
    <3> QED
      BY <3>4, <3>5
  <2>2. CASE rows[Identity] # NoRow
    BY <1>1, <1>3, <1>6, <2>2
  <2> QED
    BY <2>1, <2>2
<1>7. ASSUME NEW x \in Keys, x \notin set PROVE ~Has(s, Insert(x, "new"))
  <2>1. ASSUME NEW i \in DOMAIN s, s[i] = Insert(x, "new") PROVE FALSE
    <3>1. \A y \in set : s[i] # Insert(y, "new")
      BY <2>1, <1>7, StatementsDiffer
    <3>2. \A y \in touched : s[i] # Delete({y})
      BY <2>1, <1>7, StatementsDiffer
    <3>3. s[i] # q
      BY <2>1, StatementsDiffer DEF q
    <3>4. s[i] = SetMarker => "exists" \notin touched
      BY <2>1, <1>7, StatementsDiffer
    <3> QED
      BY <1>5, <3>1, <3>2, <3>3, <3>4
  <2> QED
    BY <2>1 DEF Has
<1>8. ASSUME NEW x \in Keys, x \notin touched PROVE ~Has(s, Delete({x}))
  <2>1. ASSUME NEW i \in DOMAIN s, s[i] = Delete({x}) PROVE FALSE
    <3>1. \A y \in set : s[i] # Insert(y, "new")
      BY <2>1, <1>8, StatementsDiffer
    <3>2. \A y \in touched : s[i] # Delete({y})
      BY <2>1, <1>8, StatementsDiffer
    <3>3. s[i] # q
      BY <2>1, StatementsDiffer DEF q
    <3>4. s[i] = SetMarker => "exists" \notin touched
      BY <2>1, <1>8, StatementsDiffer
    <3> QED
      BY <1>5, <3>1, <3>2, <3>3, <3>4
  <2> QED
    BY <2>1 DEF Has
<1>9. ASSUME "exists" \notin touched PROVE ~Has(s, SetMarker)
  <2>1. ASSUME NEW i \in DOMAIN s, s[i] = SetMarker PROVE FALSE
    <3>1. \A y \in set : s[i] # Insert(y, "new")
      BY <2>1, <1>9, StatementsDiffer
    <3>2. \A y \in touched : s[i] # Delete({y})
      BY <2>1, <1>9, StatementsDiffer
    <3>3. s[i] # q
      BY <2>1, StatementsDiffer DEF q
    <3>4. s[i] = SetMarker => "exists" \notin touched
      BY <2>1, <1>9, StatementsDiffer
    <3> QED
      BY <1>5, <3>1, <3>2, <3>3, <3>4
  <2> QED
    BY <2>1 DEF Has
<1>10. rows[Identity] = NoRow => PromotesFirst(k)
  <2>1. q.kind = "insert_ignore" /\ q.rows = {Identity}
    BY DEF q, InsertIgnore
  <2> QED
    BY <1>2, <2>1 DEF PromotesFirst, s
<1>11. \A r \in Rows : k.own[r] = Same
  BY DEF Untouched
<1>12. \A i \in DOMAIN s : s[i] \in UpdateStatements \/ (i = 1 /\ s[i] = q)
  BY <1>4, <1>5 DEF UpdateStatements
<1>13. Identity \in Rows /\ Keys \subseteq Rows
  BY DEF Rows
<1> HIDE DEF touched, set
<1>a. \A i \in DOMAIN k.script :
         \/ k.script[i] \in UpdateStatements
         \/ i = 1 /\ k.script[i] = InsertIgnore(Identity, Marker(rows))
  BY <1>12 DEF s, q
<1>b. \A x \in k.set :
       /\ Through(k, rows, x) # NoRow \/ Has(k.script, Insert(x, "new"))
       /\ \A i \in DOMAIN k.script : k.script[i] = Delete({x}) =>
            \E j \in DOMAIN k.script : j > i /\ k.script[j] = Insert(x, "new")
  BY <1>1, <1>5, <1>6 DEF s, set
<1>c. \A x \in Range(k.remove) \ k.set :
       /\ ~Has(k.script, Insert(x, "new"))
       /\ Through(k, rows, x) = NoRow \/ Has(k.script, Delete({x}))
  BY <1>1, <1>4, <1>5, <1>7 DEF s, set
<1>d. \A x \in Keys \ Touched(k) :
       /\ ~Has(k.script, Insert(x, "new")) /\ ~Has(k.script, Delete({x}))
       /\ k.own[x] = Same
  BY <1>4, <1>7, <1>8, <1>11, <1>13 DEF s, set, touched
<1>e. "exists" \in Touched(k) => Has(k.script, SetMarker)
  BY <1>1, <1>5 DEF s, touched
<1>f. "exists" \notin Touched(k) => ~Has(k.script, SetMarker)
  BY <1>9 DEF s, touched
<1> QED
  <2>1. UpdatesOnly(k, rows)
    BY <1>a DEF UpdatesOnly
  <2>2. UpdatesKeys(k, rows)
    BY <1>b, <1>c, <1>d DEF UpdatesKeys
  <2>3. UpdatesIdentity(k, rows)
    BY <1>10, <1>11, <1>13, <1>e, <1>f DEF UpdatesIdentity
  <2> QED
    BY <2>1, <2>2, <2>3 DEF Updating

\* What c sees of a row is what its transaction left of it.
LEMMA ViewIsThrough ==
  ASSUME NEW c, NEW r
  PROVE  View(c, r) = Through(call[c], db, r)
BY DEF View, Through

\* The rows in sight stay in sight, and when the statement is done there is
\* none left that it has not changed.
LEMMA EffectSight ==
  ASSUME Deployment, IInv, NEW c \in Clients, call[c].pc = "run", call[c].script # <<>>,
         Head(call[c].script).kind \in {"delete", "update"},
         InSight(call[c], db),
         NEW own2, NEW script2, NEW seen2, Effect(c, own2, script2, seen2),
         NEW k2, k2.own = own2, k2.script = script2, k2.seen = seen2
  PROVE  LET k == call[c]
             stmt == Head(k.script)
         IN  /\ \A r \in Rows : r \notin stmt.rows => own2[r] = k.own[r]
             /\ \A r \in Rows : Through(k, db, r) = NoRow => Through(k2, db, r) = NoRow
             /\ \A r \in Rows : own2[r] = k.own[r] \/ stmt.kind = "delete" \/ own2[r] \in Present
             /\ script2 = k.script => InSight(k2, db)
             /\ script2 = Tail(k.script) /\ seen2 = NotStarted =>
                  \A r \in stmt.rows \cap Rows :
                    \/ Through(k2, db, r) = NoRow
                    \/ stmt.kind = "update" /\ Through(k2, db, r).val = stmt.val
<1> DEFINE k == call[c]
           stmt == Head(k.script)
           V(r) == Through(k, db, r)
           W(r) == Through(k2, db, r)
           r0 == Target(c).row
           v0 == Written(stmt, c, r0)
<1>1. /\ Typed(k) /\ Visits(k) /\ k.own \in [Rows -> Present \cup {NoRow, Same}]
      /\ k.script \in Seq(Statement) /\ k.seen \in Seq(SeenRow) \cup {NotStarted}
  BY CallFacts DEF Typed
<1>2. stmt \in Statement /\ stmt.rows \subseteq Rows /\ Tail(k.script) # k.script
  <2>1. stmt \in Statement
    BY <1>1
  <2>2. Tail(k.script) # k.script
    <3>1. k.script \in Seq(Statement) /\ k.script # <<>>
      BY <1>1
    <3>2. Len(Tail(k.script)) # Len(k.script)
      BY <3>1
    <3> QED
      BY <3>2
  <2> HIDE DEF stmt
  <2> QED
    BY <2>1, <2>2 DEF Statement
<1>3. /\ \A r \in Rows : V(r) = View(c, r) /\ RowOK(V(r))
  BY ViewOK, ViewIsThrough
<1>4. ASSUME k.seen # NotStarted
      PROVE  /\ k.seen \in Seq(SeenRow) /\ k.seen # <<>>
             /\ r0 = k.seen[1].row /\ r0 \in Rows /\ r0 \in stmt.rows
             /\ StillThere(c) <=> V(r0).id = k.seen[1].id
             /\ \A i \in DOMAIN k.seen : i # 1 =>
                  i - 1 \in DOMAIN Tail(k.seen) /\ Tail(k.seen)[i - 1] = k.seen[i]
             /\ Len(k.seen) = 1 => \A i \in DOMAIN k.seen : i = 1
  <2>1. /\ k.seen \in Seq(SeenRow) /\ k.seen # <<>>
        /\ \A i \in DOMAIN k.seen : k.seen[i].row \in stmt.rows
    BY <1>1, <1>4 DEF Visits
  <2>2. /\ Head(k.seen) = k.seen[1] /\ 1 \in DOMAIN k.seen
        /\ \A i \in DOMAIN k.seen : i # 1 =>
             i - 1 \in DOMAIN Tail(k.seen) /\ Tail(k.seen)[i - 1] = k.seen[i]
    BY <2>1, TailFacts
  <2>3. r0 = k.seen[1].row /\ r0 \in stmt.rows /\ r0 \in Rows
    BY <1>2, <2>1, <2>2 DEF Target
  <2>4. StillThere(c) <=> V(r0).id = k.seen[1].id
    BY <1>3, <2>2, <2>3 DEF StillThere, Target
  <2>5. Len(k.seen) = 1 => \A i \in DOMAIN k.seen : i = 1
    BY <2>1
  <2> QED
    BY <2>1, <2>2, <2>3, <2>4, <2>5
<1>5. ASSUME k.seen # NotStarted, StillThere(c)
      PROVE  /\ V(r0) \in Present
             /\ stmt.kind = "delete" => v0 = NoRow
             /\ stmt.kind = "update" => v0 \in Present /\ v0.val = stmt.val /\ v0.id = V(r0).id
  <2>1. k.seen[1] \in SeenRow
    BY <1>4, <1>5
  <2>2. V(r0).id # 0
    BY <1>4, <1>5, <2>1 DEF SeenRow
  <2>3. V(r0) \in Present /\ View(c, r0) = V(r0)
    BY <1>3, <1>4, <1>5, <2>2, RowFacts
  <2>4. stmt.val \in Values
    <3> HIDE DEF stmt
    <3> QED
      BY <1>2 DEF Statement
  <2>5. stmt.kind = "update" => v0 = [V(r0) EXCEPT !.val = stmt.val]
    BY <2>3 DEF Written
  <2>6. stmt.kind = "delete" => v0 = NoRow
    BY DEF Written
  <2> HIDE DEF v0, V, stmt
  <2> QED
    BY <2>3, <2>4, <2>5, <2>6 DEF Present
<1> HIDE DEF v0, r0
<1>6. own2 = IF k.seen # NotStarted /\ StillThere(c) THEN [k.own EXCEPT ![r0] = v0] ELSE k.own
  BY DEF Effect, r0, v0
<1>7. /\ k.seen # NotStarted /\ StillThere(c) =>
           /\ own2[r0] = v0 /\ W(r0) = v0
           /\ \A r \in Rows \ {r0} : own2[r] = k.own[r] /\ W(r) = V(r)
      /\ ~(k.seen # NotStarted /\ StillThere(c)) =>
           \A r \in Rows : own2[r] = k.own[r] /\ W(r) = V(r)
  <2>1. CASE k.seen # NotStarted /\ StillThere(c)
    <3>1. own2[r0] = v0 /\ \A r \in Rows \ {r0} : own2[r] = k.own[r]
      BY <1>1, <1>4, <1>6, <2>1
    <3>2. v0 # Same
      BY <1>5, <2>1, RowFacts
    <3> QED
      BY <2>1, <3>1, <3>2 DEF Through
  <2>2. CASE ~(k.seen # NotStarted /\ StillThere(c))
    BY <1>6, <2>2 DEF Through
  <2> QED
    BY <2>1, <2>2
<1> HIDE DEF V, W, k, stmt
<1>8. \A r \in Rows : r \notin stmt.rows => own2[r] = k.own[r]
  BY <1>4, <1>7
<1>9. \A r \in Rows : V(r) = NoRow => W(r) = NoRow
  <2>1. k.seen # NotStarted /\ StillThere(c) => V(r0) # NoRow
    BY <1>5, RowFacts
  <2> QED
    BY <1>7, <2>1
<1>10. \A r \in Rows : own2[r] = k.own[r] \/ stmt.kind = "delete" \/ own2[r] \in Present
  <2>1. stmt.kind \in {"delete", "update"}
    BY DEF stmt, k
  <2> QED
    BY <1>5, <1>7, <2>1
<1>11. \A r \in stmt.rows :
         \/ k.seen = NotStarted
         \/ V(r) = NoRow
         \/ \E i \in DOMAIN k.seen : k.seen[i].row = r /\ k.seen[i].id = V(r).id
         \/ stmt.kind = "update" /\ V(r).val = stmt.val
  BY DEF InSight, stmt, k, V
<1>12. ASSUME k.seen # NotStarted, NEW r \in stmt.rows
       PROVE  \/ W(r) = NoRow
              \/ stmt.kind = "update" /\ W(r).val = stmt.val
              \/ \E i \in DOMAIN k.seen : i # 1 /\ k.seen[i].row = r /\ k.seen[i].id = W(r).id
  <2>1. CASE r = r0 /\ StillThere(c)
    <3>1. W(r) = v0
      BY <1>7, <1>12, <2>1
    <3>2. stmt.kind \in {"delete", "update"}
      BY DEF stmt, k
    <3> QED
      BY <1>5, <1>12, <2>1, <3>1, <3>2
  <2>2. CASE ~(r = r0 /\ StillThere(c))
    <3>1. W(r) = V(r)
      BY <1>2, <1>7, <2>2
    <3>2. ASSUME NEW i \in DOMAIN k.seen, k.seen[i].row = r, k.seen[i].id = V(r).id PROVE i # 1
      BY <1>4, <1>12, <2>2, <3>2
    <3> QED
      BY <1>11, <1>12, <3>1, <3>2
  <2> QED
    BY <2>1, <2>2
<1>13. ASSUME script2 = k.script PROVE InSight(k2, db)
  <2> SUFFICES ASSUME seen2 # NotStarted, NEW r \in stmt.rows
               PROVE  \/ W(r) = NoRow
                      \/ \E i \in DOMAIN seen2 : seen2[i].row = r /\ seen2[i].id = W(r).id
                      \/ stmt.kind = "update" /\ W(r).val = stmt.val
    BY <1>13 DEF InSight, W, stmt
  <2>1. CASE k.seen = NotStarted
    <3>1. seen2 = Visible(c, stmt.rows)
      BY <1>2, <1>13, <2>1 DEF Effect, k, stmt
    <3>2. W(r) = V(r) /\ r \in Rows /\ V(r) = View(c, r)
      BY <1>2, <1>3, <1>7, <2>1
    <3>3. View(c, r) # NoRow => \E i \in DOMAIN seen2 : seen2[i].row = r /\ seen2[i].id = View(c, r).id
      BY <3>1, <3>2, ViewOK, VisibleRows
    <3> QED
      BY <3>2, <3>3
  <2>2. CASE k.seen # NotStarted
    <3>1. seen2 = Tail(k.seen)
      BY <1>2, <1>13, <2>2 DEF Effect, k, stmt
    <3>2. \A i \in DOMAIN k.seen : i # 1 => i - 1 \in DOMAIN seen2 /\ seen2[i - 1] = k.seen[i]
      BY <1>4, <2>2, <3>1
    <3> QED
      BY <1>12, <2>2, <3>2
  <2> QED
    BY <2>1, <2>2
<1>14. ASSUME script2 = Tail(k.script), seen2 = NotStarted, NEW r \in stmt.rows \cap Rows
       PROVE  W(r) = NoRow \/ (stmt.kind = "update" /\ W(r).val = stmt.val)
  <2>1. CASE k.seen = NotStarted
    <3>1. Visible(c, stmt.rows) = <<>>
      BY <1>2, <1>14, <2>1 DEF Effect, k, stmt
    <3>2. View(c, r) = NoRow
      BY <3>1, ViewOK, VisibleRows
    <3> QED
      BY <1>3, <1>7, <2>1, <3>2
  <2>2. CASE k.seen # NotStarted
    <3>1. Len(k.seen) = 1
      BY <1>2, <1>14, <2>2 DEF Effect, k, stmt
    <3> QED
      BY <1>4, <1>12, <2>2, <3>1
  <2> QED
    BY <2>1, <2>2
<1> QED
  BY <1>8, <1>9, <1>10, <1>13, <1>14 DEF k, stmt, V, W

\* A running drop removes what is left of the namespace.
LEMMA DroppingGoesOn ==
  ASSUME Deployment, IInv, NEW c \in Clients, Change(c), InSight(call[c], db), Dropping(call[c], db)
  PROVE  InSight(call'[c], db) /\ Dropping(call'[c], db)
<1> DEFINE k == call[c]
           stmt == Head(k.script)
           V(r) == Through(k, db, r)
<1>1. /\ k.pc = "run" /\ k.script # <<>> /\ stmt.kind \in {"delete", "update"}
      /\ DOMAIN call = Clients /\ Typed(k) /\ k.script \in Seq(Statement)
  BY CallFacts, ChangeEffect
<1>2. PICK own2, script2, seen2 :
        /\ Effect(c, own2, script2, seen2)
        /\ call' = [call EXCEPT ![c] = [call[c] EXCEPT !.own = own2, !.script = script2, !.seen = seen2]]
  BY ChangeEffect
<1> DEFINE k2 == call'[c]
           W(r) == Through(k2, db, r)
<1>3. k2.own = own2 /\ k2.script = script2 /\ k2.seen = seen2
  BY <1>1, <1>2 DEF Typed
<1>4. \/ script2 = Tail(k.script) /\ seen2 = NotStarted
      \/ script2 = k.script /\ seen2 # NotStarted
  BY <1>1, <1>2, EffectRows
<1> HIDE DEF k2
<1>5. /\ \A r \in Rows : V(r) = NoRow => W(r) = NoRow
      /\ script2 = k.script => InSight(k2, db)
      /\ script2 = Tail(k.script) /\ seen2 = NotStarted =>
           \A r \in stmt.rows \cap Rows : W(r) = NoRow \/ (stmt.kind = "update" /\ W(r).val = stmt.val)
  BY <1>1, <1>2, <1>3, EffectSight
<1>6. /\ 1 \in DOMAIN k.script /\ k.script[1] = stmt
      /\ \A i \in DOMAIN Tail(k.script) : i + 1 \in DOMAIN k.script /\ Tail(k.script)[i] = k.script[i + 1]
      /\ \A i \in DOMAIN k.script : i # 1 => i - 1 \in DOMAIN Tail(k.script) /\ Tail(k.script)[i - 1] = k.script[i]
  BY <1>1, TailFacts
<1>7. /\ \A i \in DOMAIN k.script : k.script[i].kind = "delete"
      /\ \A r \in Rows : V(r) = NoRow \/ \E i \in DOMAIN k.script : r \in k.script[i].rows
  BY DEF Dropping
<1>8. InSight(k2, db)
  BY <1>3, <1>4, <1>5 DEF InSight
<1> HIDE DEF V, W, k, stmt
<1>9. CASE script2 = k.script
  BY <1>3, <1>5, <1>7, <1>8, <1>9 DEF Dropping, W, k2
<1>10. CASE script2 = Tail(k.script) /\ seen2 = NotStarted
  <2>1. \A i \in DOMAIN script2 : script2[i].kind = "delete"
    BY <1>6, <1>7, <1>10
  <2>2. stmt.kind = "delete"
    BY <1>6, <1>7
  <2>3. ASSUME NEW r \in Rows PROVE W(r) = NoRow \/ \E i \in DOMAIN script2 : r \in script2[i].rows
    <3>1. CASE V(r) = NoRow
      BY <1>5, <3>1
    <3>2. ASSUME NEW i \in DOMAIN k.script, r \in k.script[i].rows
          PROVE  W(r) = NoRow \/ \E j \in DOMAIN script2 : r \in script2[j].rows
      <4>1. CASE i = 1
        BY <1>5, <1>6, <1>10, <2>2, <3>2, <4>1
      <4>2. CASE i # 1
        BY <1>6, <1>10, <3>2, <4>2
      <4> QED
        BY <4>1, <4>2
    <3> QED
      BY <1>7, <3>1, <3>2
  <2> QED
    BY <1>3, <1>8, <2>1, <2>3 DEF Dropping, W, k2
<1> QED
  BY <1>4, <1>9, <1>10

\* Only an update or a drop removes rows one by one.
LEMMA CreatingInserts ==
  ASSUME IInv, NEW c \in Clients, Change(c), Creating(call[c], db)
  PROVE  FALSE
<1> DEFINE k == call[c]
<1>1. /\ k.script # <<>> /\ Head(k.script).kind \in {"delete", "update"} /\ k.script \in Seq(Statement)
  BY CallFacts, ChangeEffect
<1>2. 1 \in DOMAIN k.script /\ k.script[1] = Head(k.script)
  BY <1>1, TailFacts
<1>3. PICK x \in k.set : Head(k.script) = Insert(x, "new")
  BY <1>2 DEF Creating
<1> QED
  BY <1>1, <1>3 DEF Insert

\* What leaves a script by its head stays in it otherwise.
LEMMA HasTail ==
  ASSUME NEW s \in Seq(Statement), s # <<>>
  PROVE  /\ \A e : Has(s, e) /\ e # Head(s) => Has(Tail(s), e)
         /\ \A e : Has(Tail(s), e) => Has(s, e)
         /\ Has(s, Head(s))
         /\ \A x, y : /\ x # y
                      /\ \A i \in DOMAIN s : s[i] = x => \E j \in DOMAIN s : j > i /\ s[j] = y
                      => /\ \A i \in DOMAIN Tail(s) : Tail(s)[i] = x =>
                              \E j \in DOMAIN Tail(s) : j > i /\ Tail(s)[j] = y
                         /\ Head(s) = x => Has(Tail(s), y)
<1>1. /\ 1 \in DOMAIN s /\ s[1] = Head(s)
      /\ \A i \in DOMAIN Tail(s) : i + 1 \in DOMAIN s /\ Tail(s)[i] = s[i + 1]
      /\ \A i \in DOMAIN s : i # 1 => i - 1 \in DOMAIN Tail(s) /\ Tail(s)[i - 1] = s[i]
      /\ DOMAIN s \subseteq Nat \ {0} /\ DOMAIN Tail(s) \subseteq Nat \ {0}
  <2>1. Tail(s) \in Seq(Statement) /\ DOMAIN s = 1 .. Len(s) /\ Len(s) \in Nat
    BY TailFacts
  <2>2. DOMAIN Tail(s) = 1 .. Len(Tail(s)) /\ Len(Tail(s)) \in Nat
    BY <2>1
  <2> QED
    BY <2>1, <2>2, TailFacts
<1> DEFINE t == Tail(s)
           h == Head(s)
<1> HIDE DEF t, h
<1>2. ASSUME NEW e, Has(s, e), e # h PROVE Has(t, e)
  <2>1. PICK i \in DOMAIN s : s[i] = e
    BY <1>2 DEF Has
  <2>2. i # 1
    BY <1>1, <1>2, <2>1 DEF h
  <2>3. i - 1 \in DOMAIN t /\ t[i - 1] = e
    BY <1>1, <2>1, <2>2 DEF t
  <2> QED
    BY <2>3 DEF Has
<1>3. \A e : Has(t, e) => Has(s, e)
  BY <1>1 DEF Has, t
<1>4. Has(s, h)
  BY <1>1 DEF Has, h
<1>5. ASSUME NEW x, NEW y, x # y,
             \A i \in DOMAIN s : s[i] = x => \E j \in DOMAIN s : j > i /\ s[j] = y
      PROVE  /\ \A i \in DOMAIN t : t[i] = x => \E j \in DOMAIN t : j > i /\ t[j] = y
             /\ h = x => Has(t, y)
  <2>1. ASSUME NEW i \in DOMAIN t, t[i] = x PROVE \E j \in DOMAIN t : j > i /\ t[j] = y
    <3>1. i + 1 \in DOMAIN s /\ s[i + 1] = x
      BY <1>1, <2>1 DEF t
    <3>2. PICK j \in DOMAIN s : j > i + 1 /\ s[j] = y
      BY <1>5, <3>1
    <3>3. i \in Nat \ {0} /\ j \in Nat \ {0}
      BY <1>1 DEF t
    <3>4. j # 1 /\ j - 1 > i
      BY <3>2, <3>3
    <3>5. j - 1 \in DOMAIN t /\ t[j - 1] = y
      BY <1>1, <3>2, <3>4 DEF t
    <3> QED
      BY <3>4, <3>5
  <2>2. ASSUME h = x PROVE Has(t, y)
    <3>1. PICK j \in DOMAIN s : j > 1 /\ s[j] = y
      BY <1>1, <1>5, <2>2 DEF h
    <3>2. j - 1 \in DOMAIN t /\ t[j - 1] = y
      BY <1>1, <3>1 DEF t
    <3> QED
      BY <3>2 DEF Has
  <2> QED
    BY <2>1, <2>2
<1> QED
  BY <1>2, <1>3, <1>4, <1>5 DEF t, h

\* A step of an update that changes at most the row of its statement.
LEMMA KeysGoOn ==
  ASSUME NEW k, NEW k2, NEW rows, UpdatesKeys(k, rows),
         k.set \subseteq Keys, k.remove \in Seq(Keys),
         k.script \in Seq(Statement), k.script # <<>>,
         k2.set = k.set, k2.remove = k.remove,
         k2.script = k.script \/ k2.script = Tail(k.script),
         \A x \in Keys : \/ k2.own[x] = k.own[x]
                         \/ Head(k.script) = Delete({x}) /\ Through(k2, rows, x) = NoRow
                         \/ Head(k.script) = Insert(x, "new") /\ k2.script = Tail(k.script),
         k2.script = Tail(k.script) =>
           \A x \in Keys : /\ Head(k.script) = Delete({x}) => Through(k2, rows, x) = NoRow
                           /\ Head(k.script) = Insert(x, "new") => Through(k2, rows, x) # NoRow
  PROVE  UpdatesKeys(k2, rows)
<1> DEFINE s == k.script
           s2 == k2.script
           h == Head(s)
           D(x) == Delete({x})
           I(x) == Insert(x, "new")
           Before(t, x) == \A i \in DOMAIN t : t[i] = D(x) => \E j \in DOMAIN t : j > i /\ t[j] = I(x)
           V(x) == Through(k, rows, x)
           W(x) == Through(k2, rows, x)
<1>1. /\ \A e : Has(s2, e) => Has(s, e)
      /\ \A e : Has(s, e) /\ e # h => Has(s2, e)
      /\ Has(s, h)
      /\ s2 = s => Has(s2, h)
  BY HasTail
<1>2. ASSUME NEW x, Before(s, x)
      PROVE  Before(s2, x) /\ (h = D(x) => Has(s2, I(x)))
  <2>1. D(x) # I(x)
    BY StatementsDiffer
  <2> HIDE DEF D, I
  <2>2. Before(Tail(s), x) /\ (h = D(x) => Has(Tail(s), I(x)))
    BY <1>2, <2>1, HasTail
  <2>3. h = D(x) => Has(s, I(x))
    BY <2>2, HasTail
  <2> QED
    BY <1>2, <2>2, <2>3
<1>3. /\ \A x \in k.set : (V(x) # NoRow \/ Has(s, I(x))) /\ Before(s, x)
      /\ \A x \in Range(k.remove) \ k.set : ~Has(s, I(x)) /\ (V(x) = NoRow \/ Has(s, D(x)))
      /\ \A x \in Keys \ Touched(k) : ~Has(s, I(x)) /\ ~Has(s, D(x)) /\ k.own[x] = Same
  BY DEF UpdatesKeys
<1>4. /\ k.set \subseteq Keys /\ Range(k.remove) \subseteq Keys /\ Touched(k2) = Touched(k)
  BY DEF Range, Touched
<1>5. \A x \in Keys : \/ k2.own[x] = k.own[x] /\ W(x) = V(x)
                      \/ h = D(x) /\ W(x) = NoRow
                      \/ h = I(x) /\ s2 = Tail(s)
  BY DEF Through
<1>6. s2 = Tail(s) => \A x \in Keys : (h = D(x) => W(x) = NoRow) /\ (h = I(x) => W(x) # NoRow)
  OBVIOUS
<1>7. s2 = s \/ s2 = Tail(s)
  OBVIOUS
<1>8. \A x : D(x) # I(x)
  BY StatementsDiffer
<1> HIDE DEF s, s2, h, D, I, Before, V, W
<1>9. ASSUME NEW x \in k.set PROVE (W(x) # NoRow \/ Has(s2, I(x))) /\ Before(s2, x)
  <2>1. x \in Keys /\ Before(s, x) /\ (V(x) # NoRow \/ Has(s, I(x)))
    BY <1>3, <1>4
  <2>2. Before(s2, x) /\ (h = D(x) => Has(s2, I(x)))
    BY <1>2, <2>1
  <2> QED
    BY <1>1, <1>5, <1>6, <1>7, <2>1, <2>2
<1>10. ASSUME NEW x \in Range(k.remove) \ k.set
       PROVE  ~Has(s2, I(x)) /\ (W(x) = NoRow \/ Has(s2, D(x)))
  <2>1. x \in Keys /\ ~Has(s, I(x)) /\ (V(x) = NoRow \/ Has(s, D(x)))
    BY <1>3, <1>4
  <2> QED
    BY <1>1, <1>5, <1>6, <1>7, <2>1
<1>11. ASSUME NEW x \in Keys \ Touched(k)
       PROVE  ~Has(s2, I(x)) /\ ~Has(s2, D(x)) /\ k2.own[x] = Same
  BY <1>1, <1>3, <1>5
<1> QED
  BY <1>4, <1>9, <1>10, <1>11 DEF UpdatesKeys, s2, D, I, Before, W

LEMMA IdentityGoesOn ==
  ASSUME NEW k, NEW k2, NEW rows, UpdatesIdentity(k, rows),
         k.script \in Seq(Statement), k.script # <<>>,
         k2.set = k.set, k2.remove = k.remove,
         \/ k2.script = k.script
         \/ /\ k2.script = Tail(k.script)
            /\ ~PromotesFirst(k) \/ Through(k, rows, Identity) # NoRow,
         \/ k2.own[Identity] = k.own[Identity]
         \/ Head(k.script) = SetMarker /\ k2.own[Identity] \in Present,
         k2.script = Tail(k.script) /\ Head(k.script) = SetMarker => Through(k2, rows, Identity).val = "0"
  PROVE  UpdatesIdentity(k2, rows)
<1>1. /\ \A e : Has(k2.script, e) => Has(k.script, e)
      /\ \A e : Has(k.script, e) /\ e # Head(k.script) => Has(k2.script, e)
      /\ Has(k.script, Head(k.script))
      /\ k2.script = k.script => Has(k2.script, Head(k.script))
  BY HasTail
<1>2. Touched(k2) = Touched(k)
  BY DEF Touched
<1>3. k2.own[Identity] = k.own[Identity] => Through(k2, rows, Identity) = Through(k, rows, Identity)
  BY DEF Through
<1>4. rows[Identity] = NoRow /\ k.own[Identity] = Same => Through(k, rows, Identity) = NoRow
  BY DEF Through
<1>5. k2.script = k.script => (PromotesFirst(k2) <=> PromotesFirst(k))
  BY DEF PromotesFirst
<1>6. rows[Identity] = NoRow =>
        \/ k2.own[Identity] = Same /\ PromotesFirst(k2)
        \/ k2.own[Identity] \in Present
  BY <1>4, <1>5, RowFacts DEF UpdatesIdentity
<1>7. rows[Identity] # NoRow => k2.own[Identity] \in Present \cup {Same}
  BY DEF UpdatesIdentity
<1>8. "exists" \in Touched(k) => Has(k2.script, SetMarker) \/ Through(k2, rows, Identity).val = "0"
  BY <1>1, <1>3 DEF UpdatesIdentity
<1>9. ASSUME "exists" \notin Touched(k)
      PROVE  ~Has(k2.script, SetMarker) /\ k2.own[Identity] = k.own[Identity]
  BY <1>1, <1>9 DEF UpdatesIdentity
<1> QED
  BY <1>2, <1>6, <1>7, <1>8, <1>9 DEF UpdatesIdentity

LEMMA StatementsGoOn ==
  ASSUME NEW k, NEW k2, NEW rows, UpdatesOnly(k, rows),
         k.script \in Seq(Statement), k.script # <<>>,
         k2.script = k.script \/ k2.script = Tail(k.script)
  PROVE  UpdatesOnly(k2, rows)
<1>1. /\ Tail(k.script) \in Seq(Statement)
      /\ \A i \in DOMAIN Tail(k.script) : i + 1 \in DOMAIN k.script /\ Tail(k.script)[i] = k.script[i + 1]
  BY TailFacts
<1>2. \A i \in DOMAIN Tail(k.script) : i + 1 # 1
  BY <1>1
<1> QED
  BY <1>1, <1>2 DEF UpdatesOnly

\* A running update keeps to what it has to do.
LEMMA UpdatingGoesOn ==
  ASSUME Deployment, IInv, NEW c \in Clients, Change(c), InSight(call[c], db), Updating(call[c], db)
  PROVE  InSight(call'[c], db) /\ Updating(call'[c], db)
<1> DEFINE k == call[c]
           h == Head(k.script)
           V(r) == Through(k, db, r)
<1>1. /\ k.pc = "run" /\ k.script # <<>> /\ h.kind \in {"delete", "update"}
      /\ DOMAIN call = Clients /\ Typed(k) /\ k.script \in Seq(Statement)
      /\ k.set \subseteq Keys /\ k.remove \in Seq(Keys)
  BY CallFacts, ChangeEffect
<1>2. PICK own2, script2, seen2 :
        /\ Effect(c, own2, script2, seen2)
        /\ call' = [call EXCEPT ![c] = [call[c] EXCEPT !.own = own2, !.script = script2, !.seen = seen2]]
  BY ChangeEffect
<1> DEFINE k2 == call'[c]
           W(r) == Through(k2, db, r)
<1>3. k2.own = own2 /\ k2.script = script2 /\ k2.seen = seen2 /\ k2.set = k.set /\ k2.remove = k.remove
  BY <1>1, <1>2 DEF Typed
<1>4. \/ script2 = Tail(k.script) /\ seen2 = NotStarted
      \/ script2 = k.script /\ seen2 # NotStarted
  BY <1>1, <1>2, EffectRows
<1> HIDE DEF k2
<1>5. /\ \A r \in Rows : r \notin h.rows => own2[r] = k.own[r]
      /\ \A r \in Rows : own2[r] = k.own[r] \/ h.kind = "delete" \/ own2[r] \in Present
      /\ script2 = k.script => InSight(k2, db)
      /\ script2 = Tail(k.script) /\ seen2 = NotStarted =>
           \A r \in h.rows \cap Rows : W(r) = NoRow \/ (h.kind = "update" /\ W(r).val = h.val)
  BY <1>1, <1>2, <1>3, EffectSight
<1>6. /\ 1 \in DOMAIN k.script /\ k.script[1] = h /\ Tail(k.script) # k.script
  <2>1. 1 \in DOMAIN k.script /\ k.script[1] = h
    BY <1>1, TailFacts
  <2>2. Len(Tail(k.script)) # Len(k.script)
    BY <1>1
  <2> QED
    BY <2>1, <2>2
<1>7. UpdatesOnly(k, db) /\ UpdatesKeys(k, db) /\ UpdatesIdentity(k, db) /\ namespace_exists(db)
  BY DEF Updating
<1>a. \A x : /\ Delete({x}).kind = "delete" /\ Delete({x}).rows = {x} /\ Delete({x}) # SetMarker
           /\ Insert(x, "new").kind = "insert" /\ InsertIgnore(x, Marker(db)).kind = "insert_ignore"
  BY DEF Delete, Insert, InsertIgnore, SetMarker
<1>8. (\E x \in Keys : h = Delete({x})) \/ h = SetMarker
  <2>1. h \in UpdateStatements \/ h = InsertIgnore(Identity, Marker(db))
    BY <1>6, <1>7 DEF UpdatesOnly
  <2> HIDE DEF h
  <2> QED
    BY <1>1, <1>a, <2>1 DEF UpdateStatements
<1>9. InSight(k2, db)
  BY <1>3, <1>4, <1>5 DEF InSight
<1> HIDE DEF V, W
<1>10. /\ \A x \in Keys : k2.own[x] = k.own[x] \/ (h = Delete({x}) /\ own2[x] # k.own[x])
       /\ \A x \in Keys : x \in Rows /\ x # Identity
       /\ Identity \in Rows
  <2>1. \A x : Delete({x}).rows = {x} /\ SetMarker.rows = {Identity}
    BY StatementFields
  <2>2. /\ \A x \in Keys : x \in Rows /\ x # Identity
        /\ Identity \in Rows
    BY DEF Rows, Deployment
  <2>3. ASSUME NEW x \in Keys, k2.own[x] # k.own[x] PROVE h = Delete({x})
    <3>1. x \in h.rows
      BY <1>3, <1>5, <2>2, <2>3
    <3> HIDE DEF h
    <3> QED
      BY <1>8, <2>1, <2>2, <3>1
  <2> HIDE DEF h
  <2> QED
    BY <1>3, <2>2, <2>3
<1>11. ASSUME NEW x \in Keys, h = Delete({x})
       PROVE  /\ h.kind = "delete" /\ h.rows = {x}
              /\ h # SetMarker
              /\ k2.own[x] = k.own[x] \/ W(x) = NoRow
              /\ script2 = Tail(k.script) => W(x) = NoRow
  <2>1. h.kind = "delete" /\ h.rows = {x} /\ h # SetMarker
    <3> HIDE DEF h
    <3> QED
      BY <1>11, <1>a
  <2>2. k2.own[x] = k.own[x] \/ W(x) = NoRow
    <3>1. \/ own2 = k.own
          \/ \E r \in h.rows :
               /\ r \in Rows
               /\ own2 = [k.own EXCEPT ![r] = Written(h, c, r)]
               /\ h.kind = "delete" => Written(h, c, r) = NoRow
      BY <1>1, <1>2, EffectRows
    <3>2. k.own \in [Rows -> Present \cup {NoRow, Same}]
      BY <1>1 DEF Typed
    <3>3. own2[x] = k.own[x] \/ own2[x] = NoRow
      <4> HIDE DEF h
      <4> QED
        BY <2>1, <3>1, <3>2
    <3>4. NoRow # Same
      BY DEF NoRow, Same
    <3> QED
      BY <1>3, <3>3, <3>4 DEF Through, W
  <2>3. script2 = Tail(k.script) => W(x) = NoRow
    BY <1>4, <1>5, <1>6, <1>10, <2>1
  <2> QED
    BY <2>1, <2>2, <2>3
<1>12. ASSUME h = SetMarker
       PROVE  /\ \A x : h # Delete({x}) /\ h # Insert(x, "new")
              /\ k2.own[Identity] = k.own[Identity] \/ k2.own[Identity] \in Present
              /\ script2 = Tail(k.script) => W(Identity) = NoRow \/ W(Identity).val = "0"
  <2>1. h.kind = "update" /\ h.rows = {Identity} /\ h.val = "0"
    BY <1>12, StatementFields
  <2>2. \A x : h # Delete({x}) /\ h # Insert(x, "new")
    BY <1>12, StatementsDiffer
  <2> HIDE DEF h
  <2> QED
    BY <1>3, <1>4, <1>5, <1>6, <1>10, <2>1, <2>2
<1>13. ~PromotesFirst(k) /\ \A x : h # Insert(x, "new")
  <2>1. ~PromotesFirst(k)
    BY <1>1 DEF PromotesFirst
  <2> HIDE DEF h
  <2> QED
    BY <1>1, <1>a, <2>1
<1>14. h = SetMarker \/ k2.own[Identity] = k.own[Identity]
  <2> HIDE DEF h, k
  <2>1. ASSUME NEW x \in Keys, h = Delete({x}) PROVE Identity \notin h.rows
    <3>1. h.rows = {x} /\ x # Identity
      BY <1>10, <1>11, <2>1
    <3> QED
      BY <3>1
  <2>2. Identity \notin h.rows => own2[Identity] = k.own[Identity]
    BY <1>5, <1>10
  <2> QED
    BY <1>3, <1>8, <2>1, <2>2
<1>15. k2.script = k.script \/ k2.script = Tail(k.script)
  BY <1>3, <1>4
<1>16. W(Identity) # NoRow
  <2>1. \/ k2.own[Identity] \in Present
        \/ k2.own[Identity] = Same /\ db[Identity] # NoRow
    BY <1>7, <1>12, <1>13, <1>14 DEF UpdatesIdentity
  <2> QED
    BY <2>1, RowFacts DEF W, Through
<1> HIDE DEF k, h
<1>17. UpdatesOnly(k2, db)
  BY <1>1, <1>7, <1>15, StatementsGoOn
<1>18. UpdatesKeys(k2, db)
  <2>1. \A x \in Keys : \/ k2.own[x] = k.own[x]
                        \/ Head(k.script) = Delete({x}) /\ Through(k2, db, x) = NoRow
                        \/ Head(k.script) = Insert(x, "new") /\ k2.script = Tail(k.script)
    BY <1>10, <1>11 DEF W, h
  <2>2. k2.script = Tail(k.script) =>
          \A x \in Keys : /\ Head(k.script) = Delete({x}) => Through(k2, db, x) = NoRow
                          /\ Head(k.script) = Insert(x, "new") => Through(k2, db, x) # NoRow
    BY <1>3, <1>11, <1>13 DEF W, h
  <2> QED
    BY ONLY <1>1, <1>3, <1>7, <1>15, <2>1, <2>2, KeysGoOn
<1>19. UpdatesIdentity(k2, db)
  <2>1. \/ k2.own[Identity] = k.own[Identity]
        \/ Head(k.script) = SetMarker /\ k2.own[Identity] \in Present
    BY <1>12, <1>14 DEF h
  <2>2. k2.script = Tail(k.script) /\ Head(k.script) = SetMarker => Through(k2, db, Identity).val = "0"
    BY <1>3, <1>12, <1>16 DEF W, h
  <2> QED
    BY ONLY <1>1, <1>3, <1>7, <1>13, <1>15, <2>1, <2>2, IdentityGoesOn
<1> QED
  BY <1>7, <1>9, <1>17, <1>18, <1>19 DEF Updating, k2

\* What an insertion leaves: the call has ended, or the row is there and the next
\* statement follows.
LEMMA InsertEffect ==
  ASSUME IInv, NEW c \in Clients, InsertRow(c), ~(Return(c) /\ Release(c))
  PROVE  LET k == call[c]
             h == Head(k.script)
             k2 == call'[c]
         IN  /\ k.pc = "run" /\ k.script # <<>> /\ h.kind \in {"insert", "insert_ignore"}
             /\ k.seen = NotStarted /\ h \in Statement /\ k.script \in Seq(Statement)
             /\ k2.pc = "run" /\ k2.op = k.op /\ k2.set = k.set /\ k2.remove = k.remove
             /\ k2.script = Tail(k.script) /\ k2.seen = NotStarted
             /\ \E r \in Rows :
                  /\ h.rows = {r}
                  /\ \A x \in Rows \ {r} : k2.own[x] = k.own[x]
                  /\ \/ /\ Through(k, db, r) = NoRow /\ TakeWriter(c)
                        /\ k2.own[r] \in Present /\ k2.own[r].val = h.val
                     \/ /\ Through(k, db, r) # NoRow /\ h.kind = "insert_ignore" /\ writer' = writer
                        /\ k2.own[r] = k.own[r]
<1> DEFINE k == call[c]
           h == Head(k.script)
           r == CHOOSE x \in h.rows : TRUE
           v == Written(h, c, r)
           own2 == [k.own EXCEPT ![r] = v]
<1>1. /\ DOMAIN call = Clients /\ Typed(k) /\ Visits(k)
      /\ k.script \in Seq(Statement) /\ k.own \in [Rows -> Present \cup {NoRow, Same}]
  BY CallFacts DEF Typed
<1>2. k.pc = "run" /\ k.script # <<>> /\ h.kind \in {"insert", "insert_ignore"}
  BY DEF InsertRow
<1>3. h \in Statement /\ h.rows = {r} /\ r \in Rows /\ h.val \in Values
  <2>1. h \in Statement
    BY <1>1, <1>2, TailFacts
  <2>2. h.kind \in {"insert", "insert_ignore"}
    BY <1>2
  <2> HIDE DEF h, k
  <2>3. h.val \in Values /\ \E x \in Rows : h.rows = {x}
    BY <2>1, <2>2 DEF Statement
  <2> QED
    BY <2>1, <2>3
<1>4. k.seen = NotStarted
  BY <1>1, <1>2 DEF Visits
<1>5. v \in Present /\ v.val = h.val
  <2>1. k.id \in Nat \ {0}
    BY <1>1, <1>2 DEF Typed
  <2> QED
    BY <1>2, <1>3, <2>1 DEF Written, Present
<1>6. View(c, r) = Through(k, db, r)
  BY ViewIsThrough
<1> DEFINE k2 == call'[c]
<1>7. CASE View(c, r) = NoRow
  <2>1. TakeWriter(c) /\ call' = [call EXCEPT ![c].own[r] = v, ![c].script = Tail(@)]
    BY <1>7 DEF InsertRow
  <2> HIDE DEF r, v
  <2>2. k2 = [k EXCEPT !.own = own2, !.script = Tail(k.script)]
    BY <1>1, <2>1 DEF Typed
  <2>3. own2[r] = v /\ \A x \in Rows \ {r} : own2[x] = k.own[x]
    BY <1>1, <1>3
  <2> HIDE DEF own2
  <2>4. /\ k2.pc = k.pc /\ k2.op = k.op /\ k2.set = k.set /\ k2.remove = k.remove /\ k2.own = own2
        /\ k2.script = Tail(k.script) /\ k2.seen = k.seen
    BY <1>1, <2>2 DEF Typed
  <2> HIDE DEF k2, h, k
  <2>5. /\ \A x \in Rows \ {r} : k2.own[x] = k.own[x]
        /\ k2.own[r] \in Present /\ k2.own[r].val = h.val
    BY <1>5, <2>3, <2>4
  <2>6. Through(k, db, r) = NoRow
    BY <1>6, <1>7
  <2> QED
    BY <1>1, <1>2, <1>3, <1>4, <2>1, <2>4, <2>5, <2>6 DEF k2, h, k
<1>8. CASE View(c, r) # NoRow
  <2>1. h.kind = "insert_ignore" /\ writer' = writer /\ call' = [call EXCEPT ![c].script = Tail(@)]
    BY <1>8 DEF InsertRow
  <2> HIDE DEF r, v
  <2>2. k2 = [k EXCEPT !.script = Tail(k.script)]
    BY <1>1, <2>1 DEF Typed
  <2>4. /\ k2.pc = k.pc /\ k2.op = k.op /\ k2.set = k.set /\ k2.remove = k.remove /\ k2.own = k.own
        /\ k2.script = Tail(k.script) /\ k2.seen = k.seen
    BY <1>1, <2>2 DEF Typed
  <2> HIDE DEF k2, h, k
  <2> QED
    BY <1>1, <1>2, <1>3, <1>4, <1>6, <1>8, <2>1, <2>4 DEF k2, h, k
<1> QED
  BY <1>7, <1>8

\* An insertion of a running update, by what it leaves.
LEMMA UpdatingInserts ==
  ASSUME Deployment, NEW k, NEW k2, NEW rows, Updating(k, rows), NEW r \in Rows,
         k.set \subseteq Keys, k.remove \in Seq(Keys),
         k.script \in Seq(Statement), k.script # <<>>,
         Head(k.script).kind \in {"insert", "insert_ignore"}, Head(k.script).rows = {r},
         k2.set = k.set, k2.remove = k.remove, k2.script = Tail(k.script),
         \A x \in Rows \ {r} : k2.own[x] = k.own[x],
         \/ Through(k, rows, r) = NoRow /\ k2.own[r] \in Present /\ k2.own[r].val = Head(k.script).val
         \/ Through(k, rows, r) # NoRow /\ Head(k.script).kind = "insert_ignore" /\ k2.own[r] = k.own[r]
  PROVE  Updating(k2, rows)
<1> DEFINE h == Head(k.script)
<1>1. UpdatesOnly(k, rows) /\ UpdatesKeys(k, rows) /\ UpdatesIdentity(k, rows) /\ namespace_exists(rows)
  BY DEF Updating
<1>2. 1 \in DOMAIN k.script /\ k.script[1] = h
  BY TailFacts
<1>3. \/ \E x \in Keys : h = Insert(x, "new")
      \/ h = InsertIgnore(Identity, Marker(rows))
  <2>1. h \in UpdateStatements \/ h = InsertIgnore(Identity, Marker(rows))
    BY <1>1, <1>2 DEF UpdatesOnly
  <2>2. \A x : Delete({x}).kind = "delete" /\ SetMarker.kind = "update"
    BY DEF Delete, SetMarker
  <2> HIDE DEF h
  <2> QED
    BY <2>1, <2>2 DEF UpdateStatements, h
<1>4. UpdatesOnly(k2, rows)
  BY ONLY <1>1, StatementsGoOn, k.script \in Seq(Statement), k.script # <<>>, k2.script = Tail(k.script)
<1>5. /\ \A x \in Keys : x \in Rows /\ x # Identity
      /\ Identity \in Rows
  BY DEF Rows, Deployment
<1>6. ASSUME NEW x \in Keys, h = Insert(x, "new")
      PROVE  UpdatesKeys(k2, rows) /\ UpdatesIdentity(k2, rows)
  <2>1. h.kind = "insert" /\ h.rows = {x} /\ x = r
    <3>1. Insert(x, "new").kind = "insert" /\ Insert(x, "new").rows = {x}
      BY DEF Insert
    <3>2. h.kind = "insert" /\ h.rows = {x}
      BY <1>6, <3>1
    <3> QED
      BY <3>2
  <2>2. Through(k2, rows, x) # NoRow
    BY <2>1, RowFacts DEF Through
  <2>3. /\ \A y \in Keys : h # Delete({y})
        /\ \A y \in Keys : h = Insert(y, "new") => y = x
        /\ h # SetMarker
        /\ ~PromotesFirst(k)
    <3>1. h # SetMarker /\ \A y \in Keys : h # Delete({y}) /\ (h = Insert(y, "new") => y = x)
      BY <1>6, StatementsDiffer
    <3> QED
      BY <2>1, <3>1 DEF PromotesFirst
  <2>4. k2.own[Identity] = k.own[Identity] /\ \A y \in Keys : y # x => k2.own[y] = k.own[y]
    BY <1>5, <2>1
  <2> HIDE DEF h
  <2>5. UpdatesKeys(k2, rows)
    <3>1. \A y \in Keys : \/ k2.own[y] = k.own[y]
                          \/ Head(k.script) = Delete({y}) /\ Through(k2, rows, y) = NoRow
                          \/ Head(k.script) = Insert(y, "new") /\ k2.script = Tail(k.script)
      BY <1>6, <2>4 DEF h
    <3>2. k2.script = Tail(k.script) =>
            \A y \in Keys : /\ Head(k.script) = Delete({y}) => Through(k2, rows, y) = NoRow
                            /\ Head(k.script) = Insert(y, "new") => Through(k2, rows, y) # NoRow
      BY <2>2, <2>3 DEF h
    <3> QED
      BY ONLY <1>1, <3>1, <3>2, KeysGoOn, k.set \subseteq Keys, k.remove \in Seq(Keys),
              k.script \in Seq(Statement), k.script # <<>>, k2.set = k.set, k2.remove = k.remove,
              k2.script = Tail(k.script)
  <2>6. UpdatesIdentity(k2, rows)
    <3>1. ~(k2.script = Tail(k.script) /\ Head(k.script) = SetMarker)
      BY <2>3 DEF h
    <3> QED
      BY ONLY <1>1, <2>3, <2>4, <3>1, IdentityGoesOn,
              k.script \in Seq(Statement), k.script # <<>>, k2.set = k.set, k2.remove = k.remove,
              k2.script = Tail(k.script)
  <2> QED
    BY <2>5, <2>6
<1>7. ASSUME h = InsertIgnore(Identity, Marker(rows))
      PROVE  UpdatesKeys(k2, rows) /\ UpdatesIdentity(k2, rows)
  <2>1. h.kind = "insert_ignore" /\ h.val = Marker(rows) /\ r = Identity
    <3>1. InsertIgnore(Identity, Marker(rows)).kind = "insert_ignore"
          /\ InsertIgnore(Identity, Marker(rows)).rows = {Identity}
          /\ InsertIgnore(Identity, Marker(rows)).val = Marker(rows)
      BY DEF InsertIgnore
    <3>2. h.kind = "insert_ignore" /\ h.val = Marker(rows) /\ h.rows = {Identity}
      BY <1>7, <3>1
    <3> QED
      BY <3>2
  <2>2. h # SetMarker /\ \A y \in Keys : h # Delete({y}) /\ h # Insert(y, "new")
    <3>1. SetMarker.kind = "update" /\ \A y : Delete({y}).kind = "delete" /\ Insert(y, "new").kind = "insert"
      BY DEF SetMarker, Delete, Insert
    <3> HIDE DEF h
    <3> QED
      BY <2>1, <3>1
  <2>3. \A y \in Keys : k2.own[y] = k.own[y]
    BY <1>5, <2>1
  <2> HIDE DEF h
  <2>4. UpdatesKeys(k2, rows)
    <3>1. /\ \A y \in Keys : \/ k2.own[y] = k.own[y]
                             \/ Head(k.script) = Delete({y}) /\ Through(k2, rows, y) = NoRow
                             \/ Head(k.script) = Insert(y, "new") /\ k2.script = Tail(k.script)
          /\ k2.script = Tail(k.script) =>
               \A y \in Keys : /\ Head(k.script) = Delete({y}) => Through(k2, rows, y) = NoRow
                               /\ Head(k.script) = Insert(y, "new") => Through(k2, rows, y) # NoRow
      BY <2>2, <2>3 DEF h
    <3> QED
      BY ONLY <1>1, <3>1, KeysGoOn, k.set \subseteq Keys, k.remove \in Seq(Keys),
              k.script \in Seq(Statement), k.script # <<>>, k2.set = k.set, k2.remove = k.remove,
              k2.script = Tail(k.script)
  <2>5. CASE Through(k, rows, Identity) # NoRow
    <3>1. k2.own[Identity] = k.own[Identity]
      BY <2>1, <2>5
    <3>2. ~(k2.script = Tail(k.script) /\ Head(k.script) = SetMarker)
      BY <2>2 DEF h
    <3>3. UpdatesIdentity(k2, rows)
      BY ONLY <1>1, <2>5, <3>1, <3>2, IdentityGoesOn,
              k.script \in Seq(Statement), k.script # <<>>, k2.set = k.set, k2.remove = k.remove,
              k2.script = Tail(k.script)
    <3> QED
      BY <2>4, <3>3
  <2>6. CASE Through(k, rows, Identity) = NoRow
    <3>1. k2.own[Identity] \in Present /\ k2.own[Identity].val = Marker(rows)
      BY <2>1, <2>6 DEF h
    <3>2. rows[Identity] = NoRow
      BY <1>1, <2>6, RowFacts DEF Through, UpdatesIdentity
    <3>3. /\ \A e : Has(k.script, e) /\ e # h => Has(k2.script, e)
          /\ \A e : Has(k2.script, e) => Has(k.script, e)
      BY HasTail DEF h
    <3>4. Touched(k2) = Touched(k)
      BY DEF Touched
    <3>5. "exists" \in Touched(k) => Has(k2.script, SetMarker)
      <4>1. NoRow.val # "0"
        BY DEF NoRow
      <4> QED
        BY <1>1, <2>2, <2>6, <3>3, <4>1 DEF UpdatesIdentity
    <3>6. "exists" \notin Touched(k) => ~Has(k2.script, SetMarker)
      BY <1>1, <3>3 DEF UpdatesIdentity
    <3>7. UpdatesIdentity(k2, rows)
      BY <3>1, <3>2, <3>4, <3>5, <3>6 DEF UpdatesIdentity
    <3> QED
      BY <2>4, <3>7
  <2> QED
    BY <2>5, <2>6
<1> QED
  BY <1>1, <1>3, <1>4, <1>6, <1>7 DEF Updating

\* An insertion of a running creation, of a key.
LEMMA CreatingGoesOn ==
  ASSUME Deployment, NEW k, NEW k2, NEW rows, Creating(k, rows), NEW r \in Rows,
         k.script \in Seq(Statement), k.script # <<>>,
         Head(k.script).kind \in {"insert", "insert_ignore"}, Head(k.script).rows = {r},
         k2.set = k.set, k2.script = Tail(k.script), k.set \subseteq Keys,
         \A x \in Rows \ {r} : k2.own[x] = k.own[x],
         \/ Through(k, rows, r) = NoRow /\ k2.own[r] \in Present
         \/ Head(k.script).kind = "insert_ignore"
  PROVE  Creating(k2, rows)
<1> DEFINE h == Head(k.script)
           I(x) == Insert(x, "new")
<1>1. 1 \in DOMAIN k.script /\ k.script[1] = h
  BY TailFacts
<1>2. PICK x \in k.set : h = I(x)
  BY <1>1 DEF Creating
<1>3. h.kind = "insert" /\ x = r
  <2>1. I(x).kind = "insert" /\ I(x).rows = {x}
    BY DEF Insert
  <2>2. h.kind = "insert" /\ h.rows = {x}
    BY <1>2, <2>1
  <2> QED
    BY <2>2
<1>4. k2.own[x] \in Present
  BY <1>3
<1>5. /\ \A y \in Keys : y \in Rows /\ y # Identity
      /\ Identity \in Rows
  BY DEF Rows, Deployment
<1>6. k2.own[Identity] = k.own[Identity] /\ \A y \in Keys : y # x => k2.own[y] = k.own[y]
  BY <1>3, <1>5
<1>7. /\ \A i \in DOMAIN Tail(k.script) : i + 1 \in DOMAIN k.script /\ Tail(k.script)[i] = k.script[i + 1]
      /\ \A e : Has(k.script, e) /\ e # h => Has(Tail(k.script), e)
  BY TailFacts, HasTail
<1>8. \A y : I(y) = h => y = x
  <2> SUFFICES ASSUME NEW y, I(y) = h PROVE y = x
    OBVIOUS
  <2>1. I(y).rows = {y}
    BY DEF Insert
  <2>2. {y} = {x}
    BY <1>3, <2>1
  <2> QED
    BY <2>2
<1> HIDE DEF h
<1>9. \A i \in DOMAIN k2.script : \E y \in k.set : k2.script[i] = I(y)
  BY <1>7 DEF Creating
<1>10. ASSUME NEW y \in Keys
       PROVE  IF y \in k.set THEN k2.own[y] \in Present \/ Has(k2.script, I(y)) ELSE k2.own[y] = Same
  <2>1. IF y \in k.set THEN k.own[y] \in Present \/ Has(k.script, I(y)) ELSE k.own[y] = Same
    BY DEF Creating, Has
  <2> HIDE DEF I
  <2> QED
    BY <1>2, <1>4, <1>6, <1>7, <1>8, <2>1
<1> QED
  BY <1>6, <1>9, <1>10 DEF Creating, Has

\* A creation has written its first row: there was none before.
LEMMA StartsCreation ==
  ASSUME Deployment, NEW k, NEW rows, \A r \in Rows : rows[r] = NoRow, k.set \subseteq Keys,
         k.own[Identity] \in Present, k.own[Identity].val = "0",
         \A x \in Keys : k.own[x] = Same, k.script = Creations(k.set)
  PROVE  Creating(k, rows)
<1>1. /\ \A i \in DOMAIN k.script : \E x \in k.set : k.script[i] = Insert(x, "new")
      /\ \A x \in k.set : Has(k.script, Insert(x, "new"))
  BY CreationFacts
<1> QED
  BY <1>1 DEF Creating, Has

LEMMA InsertSql ==
  ASSUME Deployment, IInv, SInv, dialect = "sqlite", NEW c \in Clients, InsertRow(c)
  PROVE  SInv'
<1> DEFINE k == call[c]
           h == Head(k.script)
           k2 == call'[c]
<1>1. /\ dialect' = dialect /\ db' = db /\ serial' = serial
      /\ \A d \in Clients \ {c} : call'[d] = call[d]
  BY InsertMoves DEF InsertRow, Moves
<1>2. CASE Return(c) /\ Release(c)
  <2>1. Waits(k2, db)
    BY <1>2, ReturnMoves, IdleWaits
  <2>2. Role(c, k2, writer', db) /\ (writer' = writer \/ (writer \in {Nobody, c} /\ writer' \in {Nobody, c}))
    BY <1>2, <2>1, ReleasedRole
  <2> QED
    BY <1>1, <2>2, SqlQuiet
<1>3. CASE ~(Return(c) /\ Release(c))
  <2>1. /\ k.pc = "run" /\ k.script # <<>> /\ h.kind \in {"insert", "insert_ignore"}
        /\ k.seen = NotStarted /\ h \in Statement /\ k.script \in Seq(Statement)
        /\ k2.pc = "run" /\ k2.op = k.op /\ k2.set = k.set /\ k2.remove = k.remove
        /\ k2.script = Tail(k.script) /\ k2.seen = NotStarted
    BY <1>3, InsertEffect
  <2>2. PICK r \in Rows :
          /\ h.rows = {r}
          /\ \A x \in Rows \ {r} : k2.own[x] = k.own[x]
          /\ \/ /\ Through(k, db, r) = NoRow /\ TakeWriter(c)
                /\ k2.own[r] \in Present /\ k2.own[r].val = h.val
             \/ /\ Through(k, db, r) # NoRow /\ h.kind = "insert_ignore" /\ writer' = writer
                /\ k2.own[r] = k.own[r]
    BY <1>3, InsertEffect
  <2>3. /\ k.set \subseteq Keys /\ k.remove \in Seq(Keys)
        /\ k.op \in {"create", "drop", "update"}
    BY <2>1, CallFacts DEF Typed
  <2>4. /\ c = writer => Knows(k, db)
        /\ c # writer => Waits(k, db)
    BY WriterFacts
  <2> HIDE DEF k, k2, h
  <2>5. CASE c = writer
    <3>1. writer' = c
      BY <2>2, <2>5 DEF TakeWriter
    <3>2. Knows(k, db)
      BY <2>4, <2>5
    <3>3. InSight(k2, db)
      BY <2>1 DEF InSight
    <3>4. k.op # "drop"
      <4>1. 1 \in DOMAIN k.script /\ k.script[1] = h
        BY <2>1, TailFacts DEF h
      <4> QED
        BY <2>1, <3>2, <4>1 DEF Knows, Dropping
    <3>5. CASE k.op = "create"
      <4>1. Creating(k, db)
        BY <2>1, <3>2, <3>5 DEF Knows
      <4>2. Creating(k2, db)
        BY <2>1, <2>2, <2>3, <4>1, CreatingGoesOn DEF h
      <4>3. Knows(k2, db)
        BY <2>1, <3>3, <3>5, <4>2 DEF Knows
      <4> QED
        BY <1>1, <2>5, <3>1, <4>3, SqlQuiet DEF Role, k2
    <3>6. CASE k.op = "update"
      <4>1. Updating(k, db)
        BY <2>1, <3>2, <3>6 DEF Knows
      <4>2. \/ Through(k, db, r) = NoRow /\ k2.own[r] \in Present /\ k2.own[r].val = h.val
            \/ Through(k, db, r) # NoRow /\ h.kind = "insert_ignore" /\ k2.own[r] = k.own[r]
        BY <2>2
      <4>3. Updating(k2, db)
        BY ONLY Deployment, <2>1, <2>2, <2>3, <4>1, <4>2, UpdatingInserts DEF h
      <4>4. Knows(k2, db)
        BY <2>1, <3>3, <3>6, <4>3 DEF Knows
      <4> QED
        BY <1>1, <2>5, <3>1, <4>4, SqlQuiet DEF Role, k2
    <3> QED
      BY <2>3, <3>4, <3>5, <3>6
  <2>6. CASE c # writer
    <3>1. /\ k.op = "create" /\ k.own = Untouched /\ k.script = CreateScript(k)
          /\ db[Identity] # NoRow \/ \A x \in Rows : db[x] = NoRow
      BY <2>1, <2>4, <2>6 DEF Waits
    <3>2. h = Insert(Identity, "0") /\ Tail(k.script) = Creations(k.set)
      <4> DEFINE first == <<Insert(Identity, "0")>>
                 rest == Creations(k.set)
      <4>1. first \in Seq(Statement) /\ Len(first) = 1 /\ first[1] = Insert(Identity, "0")
        BY StatementsTyped
      <4>2. rest \in Seq(Statement)
        BY <2>3, CreationFacts
      <4>3. Tail(first \o rest) = rest /\ Head(first \o rest) = first[1]
        <5> HIDE DEF first, rest
        <5>1. Head(first \o rest) = first[1] /\ first \o rest \in Seq(Statement) /\ Len(first \o rest) = 1 + Len(rest)
          BY <4>1, <4>2, PrependFacts
        <5>2. Len(rest) \in Nat /\ Len(Tail(first \o rest)) = Len(rest) /\ Tail(first \o rest) \in Seq(Statement)
          BY <4>2, <5>1
        <5>3. \A i \in DOMAIN rest : i + 1 \in DOMAIN (first \o rest) /\ (first \o rest)[i + 1] = rest[i]
          BY <4>1, <4>2, PrependFacts
        <5>4. \A i \in 1 .. Len(rest) : Tail(first \o rest)[i] = rest[i]
          BY <4>2, <5>1, <5>2, <5>3
        <5> QED
          BY <4>2, <5>2, <5>4
      <4> QED
        BY <3>1, <4>1, <4>3 DEF CreateScript, h
    <3>3. h.kind = "insert" /\ h.val = "0" /\ r = Identity
      <4>1. h.kind = "insert" /\ h.val = "0" /\ h.rows = {Identity}
        BY <3>2 DEF Insert
      <4> QED
        BY <2>2, <4>1
    <3>4. Through(k, db, Identity) = NoRow /\ TakeWriter(c) /\ k2.own[Identity] \in Present /\ k2.own[Identity].val = "0"
      BY <2>2, <3>3
    <3>5. \A x \in Rows : db[x] = NoRow
      BY <3>1, <3>4, UntouchedOK DEF Through
    <3>6. \A x \in Keys : k2.own[x] = Same
      <4>1. \A x \in Keys : x \in Rows /\ x # Identity
        BY DEF Rows, Deployment
      <4> QED
        BY <2>2, <3>1, <3>3, <4>1 DEF Untouched
    <3>7. Creating(k2, db)
      BY <2>1, <2>3, <3>2, <3>4, <3>5, <3>6, StartsCreation
    <3>8. Knows(k2, db)
      BY <2>1, <3>1, <3>7 DEF Knows, InSight
    <3>9. writer' = c /\ writer \in {Nobody, c}
      BY <3>4 DEF TakeWriter
    <3> QED
      BY <1>1, <3>8, <3>9, SqlQuiet DEF Role, k2
  <2> QED
    BY <2>5, <2>6
<1> QED
  BY <1>2, <1>3

\* What the rows are when a call of the holder of the writer lock has run all its
\* statements.
LEMMA Outcome ==
  ASSUME Deployment, IInv, SInv, dialect = "sqlite", NEW c \in Clients, Commit(c)
  PROVE  /\ c = writer
         /\ serial' = [exists |-> namespace_exists(db'), keys |-> load_namespace(db')]
         /\ db'[Identity] # NoRow \/ \A r \in Rows : db'[r] = NoRow
<1> DEFINE k == call[c]
<1>1. /\ Typed(k) /\ k.op \in {"create", "drop", "update"} /\ k.set \subseteq Keys
      /\ k.pc = "run" /\ k.script = <<>>
  BY CallFacts DEF Commit, Typed
<1>2. c = writer
  <2> SUFFICES ASSUME c # writer PROVE FALSE
    OBVIOUS
  <2>1. k.script = CreateScript(k)
    BY <1>1, WriterFacts DEF Waits
  <2> DEFINE first == <<Insert(Identity, "0")>>
             rest == Creations(k.set)
  <2>2. first \in Seq(Statement) /\ Len(first) = 1 /\ rest \in Seq(Statement)
    BY <1>1, StatementsTyped, CreationFacts
  <2> HIDE DEF first, rest
  <2>3. first \o rest # <<>>
    BY <2>2, PrependFacts
  <2> QED
    BY <1>1, <2>1, <2>3 DEF CreateScript, first, rest
<1>3. Knows(k, db)
  BY <1>2, WriterFacts
<1>4. /\ \A r \in Rows : db'[r] = Through(k, db, r)
      /\ serial' = SerialEffect(c)
  BY ViewIsThrough DEF Commit
<1>5. serial = [exists |-> namespace_exists(db), keys |-> load_namespace(db)]
  BY DEF SInv
<1>6. /\ \A x \in Keys : x \in Rows
      /\ Identity \in Rows /\ "exists" \in Keys
  BY DEF Rows, Deployment
<1> DEFINE Loaded == {x \in Keys : db'[x] # NoRow /\ (x = "exists" => db'[Identity].val = "0")}
<1>7. load_namespace(db') = Loaded
  BY DEF load_namespace
<1>8. CASE k.op = "drop"
  <2>1. \A r \in Rows : db'[r] = NoRow
    BY <1>1, <1>3, <1>4, <1>8 DEF Knows, Dropping
  <2>2. namespace_exists(db') = FALSE /\ Loaded = {}
    BY <1>6, <2>1 DEF namespace_exists
  <2>3. serial' = [exists |-> FALSE, keys |-> {}]
    BY <1>4, <1>8 DEF SerialEffect
  <2> QED
    BY <1>2, <1>7, <2>1, <2>2, <2>3
<1>9. CASE k.op = "create"
  <2>1. Creating(k, db)
    BY <1>1, <1>3, <1>9 DEF Knows
  <2>2. db'[Identity] # NoRow /\ db'[Identity].val = "0"
    BY <1>4, <1>6, <2>1, RowFacts DEF Creating, Through
  <2>3. \A x \in Keys : IF x \in k.set THEN k.own[x] \in Present ELSE k.own[x] = Same
    BY <1>1, <2>1 DEF Creating
  <2>4. \A x \in Keys : db'[x] # NoRow <=> x \in k.set
    BY <1>4, <1>6, <2>1, <2>3, RowFacts DEF Creating, Through
  <2>5. Loaded = k.set /\ namespace_exists(db')
    BY <1>1, <1>6, <2>2, <2>4 DEF namespace_exists
  <2>6. serial' = [exists |-> TRUE, keys |-> k.set]
    BY <1>4, <1>9 DEF SerialEffect
  <2> QED
    BY <1>2, <1>7, <2>2, <2>5, <2>6
<1>10. CASE k.op = "update"
  <2>1. Updating(k, db)
    BY <1>1, <1>3, <1>10 DEF Knows
  <2>2. \A e : ~Has(k.script, e)
    BY <1>1 DEF Has
  <2>3. ~PromotesFirst(k)
    BY <1>1 DEF PromotesFirst
  <2>4. namespace_exists(db) /\ UpdatesKeys(k, db) /\ UpdatesIdentity(k, db)
    BY <2>1 DEF Updating
  <2>5. /\ db[Identity] = NoRow => k.own[Identity] \in Present
        /\ db[Identity] # NoRow => k.own[Identity] \in Present \cup {Same}
        /\ "exists" \in Touched(k) => db'[Identity].val = "0"
        /\ "exists" \notin Touched(k) =>
             /\ db[Identity] # NoRow => k.own[Identity] = Same
             /\ db[Identity] = NoRow => k.own[Identity] = Same \/ k.own[Identity].val = Marker(db)
    BY <1>4, <1>6, <2>2, <2>3, <2>4 DEF UpdatesIdentity
  <2>6. db'[Identity] # NoRow
    BY <1>4, <1>6, <2>5, RowFacts DEF Through
  <2>7. ASSUME "exists" \notin Touched(k), db["exists"] # NoRow
        PROVE  db'[Identity].val = "0" <=> db[Identity].val = "0"
    <3>1. CASE db[Identity] # NoRow
      BY <1>4, <1>6, <2>5, <2>7, <3>1 DEF Through
    <3>2. CASE db[Identity] = NoRow
      <4>1. db'[Identity].val = "1"
        BY <1>4, <1>6, <2>5, <2>7, <3>2, RowFacts DEF Through, Marker
      <4> QED
        BY <3>2, <4>1 DEF NoRow
    <3> QED
      BY <3>1, <3>2
  <2>8. /\ \A x \in k.set : db'[x] # NoRow
        /\ \A x \in Range(k.remove) \ k.set : x \in Keys => db'[x] = NoRow
        /\ \A x \in Keys \ Touched(k) : db'[x] = db[x]
    BY <1>1, <1>4, <1>6, <2>2, <2>4 DEF UpdatesKeys, Through
  <2> DEFINE before == load_namespace(db)
             after == (before \ Range(k.remove)) \cup k.set
  <2>9. \A x \in Keys : x \in before <=> (db[x] # NoRow /\ (x = "exists" => db[Identity].val = "0"))
    BY DEF load_namespace
  <2>10. ASSUME NEW x \in Keys PROVE x \in Loaded <=> x \in after
    <3>1. Touched(k) = k.set \cup Range(k.remove)
      BY DEF Touched
    <3> HIDE DEF before
    <3>2. CASE x \in k.set
      BY <2>5, <2>8, <3>1, <3>2
    <3>3. CASE x \in Range(k.remove) \ k.set
      BY <2>8, <3>3
    <3>4. CASE x \notin Touched(k)
      BY <2>7, <2>8, <2>9, <3>1, <3>4
    <3> QED
      BY <3>1, <3>2, <3>3, <3>4
  <2>11. Loaded = after
    <3>1. before \subseteq Keys
      BY DEF load_namespace
    <3> HIDE DEF before
    <3> QED
      BY <1>1, <2>10, <3>1
  <2>12. namespace_exists(db')
    BY <1>6, <2>6 DEF namespace_exists
  <2>13. serial' = [serial EXCEPT !.keys = (@ \ Range(k.remove)) \cup k.set]
    BY <1>4, <1>10 DEF SerialEffect
  <2>14. serial' = [exists |-> TRUE, keys |-> after]
    BY <1>5, <2>4, <2>13
  <2> HIDE DEF Loaded, after
  <2> QED
    BY <1>2, <1>7, <2>6, <2>11, <2>12, <2>14
<1> QED
  BY <1>1, <1>8, <1>9, <1>10

LEMMA CommitSql ==
  ASSUME Deployment, IInv, SInv, dialect = "sqlite", NEW c \in Clients, Commit(c)
  PROVE  SInv'
<1>1. /\ serial' = [exists |-> namespace_exists(db'), keys |-> load_namespace(db')]
      /\ db'[Identity] # NoRow \/ \A r \in Rows : db'[r] = NoRow
  BY Outcome
<1>2. ASSUME NEW d \in Clients
      PROVE  IF d = writer' THEN Knows(call'[d], db') ELSE Waits(call'[d], db')
  <2>1. d # writer'
    BY Outcome DEF Commit, Release, Deployment
  <2>2. CASE d = c
    <3>1. call'[d] = IdleCall
      BY <2>2, ReturnMoves DEF Commit
    <3> QED
      BY <2>1, <3>1, IdleWaits
  <2>3. CASE d # c
    <3>1. Waits(call[d], db)
      BY <2>3, Outcome, WriterFacts
    <3>2. call'[d] = call[d]
      BY <2>3, ReturnMoves DEF Commit, Moves
    <3> QED
      BY <1>1, <2>1, <3>1, <3>2 DEF Waits
  <2> QED
    BY <2>2, <2>3
<1> QED
  BY <1>1, <1>2 DEF SInv

LEMMA ChangeSql ==
  ASSUME Deployment, IInv, SInv, dialect = "sqlite", NEW c \in Clients, Change(c)
  PROVE  SInv'
<1> DEFINE k == call[c]
           k2 == call'[c]
<1>1. /\ dialect' = dialect /\ db' = db /\ serial' = serial /\ writer' = writer
      /\ \A d \in Clients \ {c} : call'[d] = call[d]
  BY ChangeMoves DEF Change, Moves
<1>2. /\ k.pc = "run" /\ k.script # <<>> /\ Head(k.script).kind \in {"delete", "update"}
      /\ k.op \in {"create", "drop", "update"} /\ k.set \subseteq Keys
  BY ChangeEffect, CallFacts DEF Typed
<1>3. k2.pc = "run" /\ k2.op = k.op
  <2>1. PICK own2, script2, seen2 :
          /\ Effect(c, own2, script2, seen2)
          /\ call' = [call EXCEPT ![c] = [call[c] EXCEPT !.own = own2, !.script = script2, !.seen = seen2]]
    BY ChangeEffect
  <2> QED
    BY <1>2, <2>1, CallFacts DEF Typed
<1>4. c = writer
  <2> SUFFICES ASSUME c # writer PROVE FALSE
    OBVIOUS
  <2>1. k.script = CreateScript(k)
    BY <1>2, WriterFacts DEF Waits
  <2> DEFINE first == <<Insert(Identity, "0")>>
             rest == Creations(k.set)
  <2>2. first \in Seq(Statement) /\ Len(first) = 1 /\ rest \in Seq(Statement)
        /\ first[1].kind = "insert"
    BY <1>2, StatementsTyped, CreationFacts DEF Insert
  <2> HIDE DEF first, rest
  <2>3. Head(first \o rest).kind = "insert"
    BY <2>2, PrependFacts
  <2> QED
    BY <1>2, <2>1, <2>3 DEF CreateScript, first, rest
<1>5. Knows(k, db)
  BY <1>4, WriterFacts
<1>6. InSight(k, db)
  BY <1>2, <1>5 DEF Knows
<1>7. Knows(k2, db)
  <2>1. CASE k.op = "drop"
    <3>1. InSight(k2, db) /\ Dropping(k2, db)
      BY <1>2, <1>5, <1>6, <2>1, DroppingGoesOn DEF Knows
    <3> HIDE DEF k2
    <3> QED
      BY <1>3, <2>1, <3>1 DEF Knows
  <2>2. CASE k.op = "create"
    BY <1>2, <1>5, <2>2, CreatingInserts DEF Knows
  <2>3. CASE k.op = "update"
    <3>1. InSight(k2, db) /\ Updating(k2, db)
      BY <1>2, <1>5, <1>6, <2>3, UpdatingGoesOn DEF Knows
    <3> HIDE DEF k2
    <3> QED
      BY <1>3, <2>3, <3>1 DEF Knows
  <2> QED
    BY <1>2, <2>1, <2>2, <2>3
<1> QED
  BY <1>1, <1>4, <1>7, SqlQuiet DEF Role

\* A call that has not written takes the writer lock and looks for the identity row.
LEMMA ProbeSql ==
  ASSUME Deployment, IInv, SInv, dialect = "sqlite", NEW c \in Clients, Probe(c)
  PROVE  SInv'
<1> DEFINE k2 == call'[c]
<1>1. /\ dialect' = dialect /\ db' = db /\ serial' = serial
      /\ writer' = c /\ writer \in {Nobody, c}
      /\ \A d \in Clients \ {c} : call'[d] = call[d]
  BY ProbeMoves DEF Probe, Moves, TakeWriter
<1>2. k2.pc = IF db[Identity] # NoRow THEN "lock_identity" ELSE "lock_property"
  BY ViewOK, CallFacts, UntouchedOK DEF Probe, Goto, Typed
<1>3. k2.seen = NotStarted /\ NotStarted # <<>>
  BY CallFacts DEF Probe, Goto, NotStarted, Typed
<1>4. Knows(k2, db)
  <2> HIDE DEF k2
  <2> QED
    BY <1>2, <1>3 DEF Knows
<1> QED
  BY <1>1, <1>4, SqlQuiet DEF Role

\* The statements of a namespace that is there start.
LEMMA BodyKnows ==
  ASSUME Deployment, IInv, NEW c \in Clients, call[c].pc \notin {"idle", "precheck", "run"},
         namespace_exists(db),
         NEW p \in Seq(Statement),
         IF db[Identity] = NoRow THEN p = <<InsertIgnore(Identity, Marker(db))>> ELSE p = <<>>,
         Run(c, IF call[c].op = "drop" THEN drop_statements ELSE p \o update_statements(c))
  PROVE  Knows(call'[c], db)
<1> DEFINE script == IF call[c].op = "drop" THEN drop_statements ELSE p \o update_statements(c)
           k2 == call'[c]
<1>1. /\ call[c].op \in {"drop", "update"} /\ call[c].set \subseteq Keys /\ call[c].remove \in Seq(Keys)
  BY CallFacts
<1>2. script \in Seq(Statement)
  <2>1. drop_statements \in Seq(Statement) /\ update_statements(c) \in Seq(Statement)
    BY <1>1, BodyFacts
  <2> QED
    BY <2>1
<1>3. Run(c, script)
  OBVIOUS
<1> HIDE DEF script
<1>4. /\ k2.pc = "run" /\ k2.op = call[c].op /\ k2.own = Untouched /\ k2.script = script
      /\ k2.set = call[c].set /\ k2.remove = call[c].remove /\ k2.seen = NotStarted
  BY <1>2, <1>3, RunMoves
<1> HIDE DEF k2
<1>5. CASE call[c].op = "drop"
  <2>1. k2.script = drop_statements
    BY <1>4, <1>5 DEF script
  <2>2. Dropping(k2, db)
    BY <2>1, StartsDrop
  <2> QED
    BY <1>4, <1>5, <2>2 DEF Knows, InSight, k2
<1>6. CASE call[c].op = "update"
  <2>1. k2.script = p \o update_statements(c)
    BY <1>4, <1>6 DEF script
  <2>2. Updating(k2, db)
    BY <1>1, <1>4, <2>1, StartsUpdate
  <2> QED
    BY <1>4, <1>6, <2>2 DEF Knows, InSight, k2
<1> QED
  BY <1>1, <1>5, <1>6

LEMMA LockIdentitySql ==
  ASSUME Deployment, IInv, SInv, dialect = "sqlite", NEW c \in Clients, LockIdentity(c)
  PROVE  SInv'
<1> DEFINE k == call[c]
           k2 == call'[c]
           sight == Visible(c, {Identity})
           s == IF k.seen = NotStarted THEN sight ELSE k.seen
           found == s # <<>> /\ View(c, Identity).id = s[1].id
<1>1. /\ dialect' = dialect /\ db' = db /\ serial' = serial
      /\ \A d \in Clients \ {c} : call'[d] = call[d]
  BY LockIdentityMoves DEF LockIdentity, Moves
<1>2. /\ k.pc \in {"lock_identity", "recheck"} /\ c = writer /\ Knows(k, db)
      /\ View(c, Identity) = db[Identity]
  BY WriterFacts, ViewOK, UntouchedOK DEF LockIdentity
<1>3. /\ sight \in Seq(SeenRow)
      /\ db[Identity] # NoRow => sight # <<>> /\ sight[1].id = db[Identity].id
      /\ db[Identity] = NoRow => sight = <<>>
  <2>1. /\ sight \in Seq(SeenRow)
        /\ \A i \in DOMAIN sight :
             /\ sight[i].row = Identity /\ View(c, Identity) # NoRow
             /\ sight[i].id = View(c, Identity).id
        /\ View(c, Identity) # NoRow => \E i \in DOMAIN sight : TRUE
    BY ViewOK, VisibleRows, UntouchedOK
  <2> HIDE DEF sight
  <2>2. sight # <<>> => 1 \in DOMAIN sight
    BY <2>1
  <2> QED
    BY <1>2, <2>1, <2>2
<1>4. /\ db[Identity] # NoRow <=> k.pc = "lock_identity"
      /\ k.pc = "lock_identity" => found
      /\ k.pc = "recheck" => ~found
  <2>1. k.pc = "recheck" => k.seen = NotStarted /\ db[Identity] = NoRow
    BY <1>2, UntouchedOK DEF Knows
  <2>2. k.pc = "lock_identity" => /\ db[Identity] # NoRow
                                  /\ k.seen # NotStarted => k.seen # <<>> /\ k.seen[1].id = db[Identity].id
    BY <1>2 DEF Knows
  <2> HIDE DEF sight, k
  <2> QED
    BY <1>2, <1>3, <2>1, <2>2
<1>5. CASE k.seen = NotStarted /\ View(c, Identity) # NoRow /\ See(c, {Identity}) /\ UNCHANGED <<locks, writer>>
  <2>1. k2.pc = k.pc /\ k2.seen = sight
    BY <1>5, CallFacts DEF See, Typed
  <2>2. Knows(k2, db)
    <3> HIDE DEF k2, k, sight
    <3> QED
      BY <1>2, <1>3, <1>4, <1>5, <2>1 DEF Knows
  <2> QED
    BY <1>1, <1>2, <1>5, <2>2, SqlQuiet DEF Role
<1>6. CASE found /\ Current(c) /\ UNCHANGED writer
  <2>1. db[Identity] # NoRow /\ namespace_exists(db)
    BY <1>2, <1>4, <1>6, UntouchedOK DEF namespace_exists
  <2>2. update_statements(c) \in Seq(Statement)
    BY CallFacts, BodyFacts
  <2>3. <<>> \o update_statements(c) = update_statements(c) /\ <<>> \in Seq(Statement)
    BY <2>2
  <2>4. Run(c, IF call[c].op = "drop" THEN drop_statements ELSE <<>> \o update_statements(c))
    BY <1>6, <2>3 DEF Current
  <2>5. Knows(k2, db)
    BY <1>2, <2>1, <2>3, <2>4, BodyKnows
  <2> QED
    BY <1>1, <1>2, <1>6, <2>5, SqlQuiet DEF Role
<1>7. CASE ~found /\ k.pc = "recheck" /\ Missing(c)
  <2>1. Waits(k2, db)
    BY <1>7, ReturnMoves, IdleWaits DEF Missing
  <2>2. Role(c, k2, writer', db) /\ (writer' = writer \/ (writer \in {Nobody, c} /\ writer' \in {Nobody, c}))
    BY <1>7, <2>1, ReleasedRole DEF Missing
  <2> QED
    BY <1>1, <2>2, SqlQuiet
<1>8. \/ k.seen = NotStarted /\ View(c, Identity) # NoRow /\ See(c, {Identity}) /\ UNCHANGED <<locks, writer>>
      \/ found /\ Current(c) /\ UNCHANGED writer
      \/ ~found /\ k.pc = "lock_identity"
      \/ ~found /\ k.pc = "recheck" /\ Missing(c)
  BY DEF LockIdentity
<1> HIDE DEF found, k2
<1> QED
  BY <1>4, <1>5, <1>6, <1>7, <1>8

LEMMA LockPropertySql ==
  ASSUME Deployment, IInv, SInv, dialect = "sqlite", NEW c \in Clients, LockProperty(c)
  PROVE  SInv'
<1> DEFINE k == call[c]
           k2 == call'[c]
           sight == Visible(c, Keys)
<1>1. /\ dialect' = dialect /\ db' = db /\ serial' = serial /\ writer' = writer
      /\ \A d \in Clients \ {c} : call'[d] = call[d]
  BY LockPropertyMoves DEF LockProperty, Moves
<1>2. /\ k.pc = "lock_property" /\ c = writer
      /\ db[Identity] = NoRow
      /\ k.seen # NotStarted => \A i \in DOMAIN k.seen : k.seen[i].id = db[k.seen[i].row].id
      /\ k.seen = <<>> => \A r \in Rows : db[r] = NoRow
      /\ \A r \in Rows : View(c, r) = db[r] /\ RowOK(db[r])
      /\ k.seen \in Seq(SeenRow) \cup {NotStarted}
  <2>1. k.pc = "lock_property"
    BY DEF LockProperty
  <2>2. c = writer /\ Knows(k, db)
    BY <2>1, WriterFacts
  <2>3. \A r \in Rows : View(c, r) = db[r] /\ RowOK(db[r])
    BY <2>1, ViewOK
  <2> QED
    BY <2>1, <2>2, <2>3, CallFacts DEF Knows
<1>3. CASE k.seen = NotStarted /\ See(c, Keys)
  <2>1. k2.pc = "lock_property" /\ k2.seen = sight
    BY <1>2, <1>3, CallFacts DEF See, Typed
  <2>2. /\ \A i \in DOMAIN sight : sight[i].row \in Keys /\ sight[i].id = View(c, sight[i].row).id
        /\ \A r \in Keys \cap Rows : View(c, r) # NoRow => \E i \in DOMAIN sight : sight[i].row = r
    <3>1. \A r \in Rows : RowOK(View(c, r))
      BY ViewOK
    <3> QED
      BY ONLY Deployment, <3>1, VisibleRows DEF sight
  <2> HIDE DEF sight, k2
  <2>3. \A i \in DOMAIN sight : sight[i].id = db[sight[i].row].id
    BY <1>2, <2>2 DEF Rows
  <2>4. sight = <<>> => \A r \in Rows : db[r] = NoRow
    BY <1>2, <2>2 DEF Rows
  <2>5. Knows(k2, db)
    BY <1>2, <2>1, <2>3, <2>4 DEF Knows
  <2> QED
    BY <1>1, <1>2, <2>5, SqlQuiet DEF Role, k2
<1>4. CASE k.seen = <<>> /\ Goto(c, "recheck")
  <2>1. k2.pc = "recheck" /\ k2.seen = NotStarted
    BY <1>4, CallFacts DEF Goto, Typed
  <2>2. Knows(k2, db)
    <3> HIDE DEF k2, k
    <3> QED
      BY <1>2, <1>4, <2>1 DEF Knows
  <2> QED
    BY <1>1, <1>2, <2>2, SqlQuiet DEF Role
<1>5. CASE k.seen \notin {NotStarted, <<>>}
  <2>1. /\ k.seen \in Seq(SeenRow) /\ 1 \in DOMAIN k.seen /\ Target(c) = k.seen[1]
        /\ k.seen[1] \in SeenRow
    BY <1>2, <1>5 DEF Target
  <2>2. /\ Target(c).row \in Rows /\ Target(c).id # 0
        /\ Target(c).id = db[Target(c).row].id
    BY <1>2, <1>5, <2>1 DEF SeenRow
  <2>3. StillThere(c) /\ db[Target(c).row] # NoRow
    BY <1>2, <2>2 DEF StillThere, NoRow
  <2>4. Legacy(c)
    BY <1>5, <2>3 DEF LockProperty
  <2>5. namespace_exists(db)
    BY <2>2, <2>3 DEF namespace_exists
  <2>6. promotion(c) = <<InsertIgnore(Identity, Marker(db))>>
    <3>1. "exists" \in Rows
      BY DEF Rows, Deployment
    <3> QED
      BY <1>2, <3>1 DEF promotion, Marker
  <2>7. promotion(c) \in Seq(Statement)
    BY <2>6, StatementsTyped DEF Marker
  <2>8. Run(c, IF call[c].op = "drop" THEN drop_statements ELSE promotion(c) \o update_statements(c))
    BY <2>4 DEF Legacy
  <2>9. Knows(k2, db)
    BY <1>2, <2>5, <2>6, <2>7, <2>8, BodyKnows
  <2> QED
    BY <1>1, <1>2, <2>9, SqlQuiet DEF Role
<1> QED
  BY <1>3, <1>4, <1>5 DEF LockProperty

LEMMA PrecheckSql ==
  ASSUME Deployment, IInv, SInv, dialect = "sqlite", NEW c \in Clients, Precheck(c)
  PROVE  SInv'
<1> DEFINE k2 == call'[c]
<1>1. /\ dialect' = dialect /\ db' = db /\ serial' = serial /\ writer' = writer
      /\ \A d \in Clients \ {c} : call'[d] = call[d]
  BY PrecheckMoves DEF Precheck, Moves
<1>2. c # writer /\ call[c].op = "create" /\ call[c].set \subseteq Keys
  BY WriterFacts, CallFacts DEF Precheck, Typed
<1>3. CASE Return(c)
  <2>1. Waits(k2, db)
    BY <1>3, ReturnMoves, IdleWaits
  <2> QED
    BY <1>1, <1>2, <2>1, SqlQuiet DEF Role
<1>4. CASE ~namespace_exists(db) /\ Run(c, create_statements(c))
  <2>1. create_statements(c) \in Seq(Statement)
    <3>1. <<Insert(Identity, "0")>> \in Seq(Statement) /\ Creations(call[c].set) \in Seq(Statement)
      BY <1>2, StatementsTyped, CreationFacts
    <3> QED
      BY <3>1 DEF create_statements
  <2>2. /\ k2.pc = "run" /\ k2.op = "create" /\ k2.own = Untouched
        /\ k2.script = create_statements(c) /\ k2.set = call[c].set
    BY <1>2, <1>4, <2>1, RunMoves DEF Precheck
  <2>3. \A r \in Rows : db[r] = NoRow
    BY <1>4 DEF namespace_exists
  <2> HIDE DEF k2
  <2>4. k2.script = CreateScript(k2)
    BY <2>2 DEF create_statements, CreateScript
  <2>5. Waits(k2, db)
    BY <2>2, <2>3, <2>4 DEF Waits
  <2> QED
    BY <1>1, <1>2, <2>5, SqlQuiet DEF Role, k2
<1> QED
  BY <1>3, <1>4 DEF Precheck

\* A call begins without the writer lock.
LEMMA StartSql ==
  ASSUME Deployment, IInv, SInv, dialect = "sqlite", NEW c \in Clients, Start(c)
  PROVE  SInv'
<1>1. PICK op, pc, set, remove : pc \in {"precheck", "probe"} /\ Begin(c, op, pc, set, remove)
  BY DEF Start, create_namespace, drop_namespace, update_namespace
<1>2. /\ dialect' = dialect /\ db' = db /\ serial' = serial /\ writer' = writer
      /\ \A d \in Clients \ {c} : call'[d] = call[d]
      /\ call[c].pc = "idle"
  BY <1>1, StartMoves DEF Begin, Moves
<1>3. c # writer
  BY <1>2, WriterFacts
<1>4. call'[c].pc = pc
  BY <1>1, CallFacts DEF Begin, IdleCall
<1>5. Waits(call'[c], db)
  BY <1>1, <1>4 DEF Waits
<1> QED
  BY <1>2, <1>3, <1>5, SqlQuiet DEF Role

\* A call whose transaction is gone has not written.
LEMMA EndSql ==
  ASSUME Deployment, IInv, SInv, dialect = "sqlite", NEW c \in Clients, call[c].pc # "idle",
         Rollback(c) \/ (Return(c) /\ Release(c)), UNCHANGED <<dialect, db, serial>>
  PROVE  SInv'
<1>1. \A d \in Clients \ {c} : call'[d] = call[d]
  BY RollbackMoves, ReturnMoves DEF Moves
<1>2. Waits(call'[c], db)
  <2>1. CASE Return(c)
    BY <2>1, ReturnMoves, IdleWaits
  <2>2. CASE call' = [call EXCEPT ![c].pc = "probe", ![c].retries = @ + 1, ![c].own = Untouched,
                                  ![c].script = <<>>, ![c].seen = NotStarted]
    <3>1. call'[c].pc = "probe"
      BY <2>2, CallFacts DEF Typed
    <3> QED
      BY <3>1 DEF Waits
  <2> QED
    BY <2>1, <2>2 DEF Rollback
<1>3. Release(c)
  BY DEF Rollback
<1> QED
  BY <1>1, <1>2, <1>3, ReleasedRole, SqlQuiet

LEMMA SInvInit ==
  ASSUME Deployment, Init
  PROVE  SInv
<1>1. ASSUME NEW c \in Clients PROVE c # writer /\ Waits(call[c], db)
  BY IdleWaits DEF Init, Deployment
<1> QED
  BY <1>1 DEF Init, SInv

LEMMA SInvStep ==
  ASSUME Deployment, IInv, SInv, [Next]_vars
  PROVE  SInv'
<1>1. CASE UNCHANGED vars
  BY <1>1 DEF vars, SInv, namespace_exists, load_namespace
<1>2. CASE Next
  <2>1. PICK c \in Clients : Start(c) \/ Proceed(c) \/ Fail(c)
    BY <1>2 DEF Next
  <2>2. dialect' = dialect
    BY <2>1 DEF Start, create_namespace, drop_namespace, update_namespace, Begin, Proceed, Precheck,
             Probe, LockIdentity, LockProperty, Change, InsertRow, Commit, Deadlock, Fail
  <2>3. CASE dialect # "sqlite"
    BY <2>2, <2>3 DEF SInv
  <2>4. CASE dialect = "sqlite"
    <3>1. Deadlock(c) => SInv'
      BY <2>4, EndSql DEF Deadlock
    <3>2. Fail(c) => SInv'
      BY <2>4, EndSql DEF Fail
    <3> QED
      BY <2>1, <2>4, <3>1, <3>2, StartSql, PrecheckSql, ProbeSql, LockIdentitySql, LockPropertySql,
         ChangeSql, InsertSql, CommitSql DEF Proceed
  <2> QED
    BY <2>3, <2>4
<1> QED
  BY <1>1, <1>2

-----------------------------------------------------------------------------
(* The theorems *)

\* The invariants hold throughout.
THEOREM InvariantHolds == Deployment => (Init /\ [][Next]_vars => [](IInv /\ SInv))
<1> SUFFICES ASSUME Deployment PROVE Init /\ [][Next]_vars => [](IInv /\ SInv)
  OBVIOUS
<1>1. Init => IInv /\ SInv
  BY IInvInit, SInvInit
<1>2. (IInv /\ SInv) /\ [Next]_vars => (IInv /\ SInv)'
  BY IInvStep, SInvStep
<1> QED
  BY <1>1, <1>2, PTL

\* SqliteSerial: on SQLite the namespace, and the keys load_namespace returns,
\* are those of the committed calls, one after another.
THEOREM SqliteSerialAlways == Deployment => (Init /\ [][Next]_vars => []SqliteSerial)
<1> SUFFICES ASSUME Deployment PROVE Init /\ [][Next]_vars => []SqliteSerial
  OBVIOUS
<1>1. IInv /\ SInv => SqliteSerial
  BY DEF SInv, SqliteSerial
<1>2. Init /\ [][Next]_vars => [](IInv /\ SInv)
  BY InvariantHolds
<1> QED
  BY <1>1, <1>2, PTL

\* NamespaceSurvives: a namespace that is there by the committed calls only
\* disappears when a drop_namespace commits, on both databases.
THEOREM NamespaceSurvivesAlways == Deployment => (Init /\ [][Next]_vars => NamespaceSurvives)
<1> SUFFICES ASSUME Deployment PROVE Init /\ [][Next]_vars => NamespaceSurvives
  OBVIOUS
<1>1. IInv /\ [Next]_vars => NamespaceSurvivesStep
  BY IInvStep
<1>2. Init /\ [][Next]_vars => [](IInv /\ SInv)
  BY InvariantHolds
<1> QED
  BY <1>1, <1>2, PTL DEF NamespaceSurvives

=============================================================================
