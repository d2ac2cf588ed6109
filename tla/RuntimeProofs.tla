---------------------------- MODULE RuntimeProofs ----------------------------
(***************************************************************************)
(* The properties of MCRuntime that follow from the theorems about one of  *)
(* its components: the namespaces of the SQL catalog, for any clients,     *)
(* keys, updates and bounds MCRuntime is given.                            *)
(***************************************************************************)
EXTENDS MCRuntime, TLAPS

NamesProofs == INSTANCE SqlNamespacesProofs
  WITH Clients <- NameClients, KeyOrder <- PropertyKeys, Dialects <- {"postgres", "sqlite"},
       Updates <- UpdateSet

-----------------------------------------------------------------------------
(* The namespaces of the SQL catalog *)

\* The instance the proofs are about is the one that is composed.
LEMMA NamesSame ==
  /\ Names!Init <=> NamesProofs!Init
  /\ Names!Next <=> NamesProofs!Next
  /\ Names!vars = NamesProofs!vars
  /\ Names!SqliteSerial <=> NamesProofs!SqliteSerial
  /\ Names!NamespaceSurvivesStep <=> NamesProofs!NamespaceSurvivesStep
<1> USE DEF
      Names!Keys, NamesProofs!Keys, Names!Identity, NamesProofs!Identity, Names!Rows,
      NamesProofs!Rows, Names!NoRow, NamesProofs!NoRow, Names!Same, NamesProofs!Same,
      Names!Nobody, NamesProofs!Nobody, Names!NotStarted, NamesProofs!NotStarted,
      Names!Untouched, NamesProofs!Untouched, Names!IdleCall, NamesProofs!IdleCall,
      Names!LegacyRows, NamesProofs!LegacyRows, Names!CurrentRows, NamesProofs!CurrentRows,
      Names!namespace_exists, NamesProofs!namespace_exists, Names!load_namespace,
      NamesProofs!load_namespace, Names!View, NamesProofs!View, Names!Free, NamesProofs!Free,
      Names!CanInsert, NamesProofs!CanInsert, Names!TakeWriter, NamesProofs!TakeWriter,
      Names!Release, NamesProofs!Release, Names!Return, NamesProofs!Return, Names!Goto,
      NamesProofs!Goto, Names!Lock, NamesProofs!Lock, Names!Visible, NamesProofs!Visible,
      Names!See, NamesProofs!See, Names!Target, NamesProofs!Target, Names!StillThere,
      NamesProofs!StillThere, Names!Delete, NamesProofs!Delete, Names!Insert,
      NamesProofs!Insert, Names!InsertIgnore, NamesProofs!InsertIgnore, Names!SetMarker,
      NamesProofs!SetMarker, Names!ForEach, NamesProofs!ForEach, Names!Replacements,
      NamesProofs!Replacements, Names!Mutations, NamesProofs!Mutations,
      Names!update_statements, NamesProofs!update_statements, Names!drop_statements,
      NamesProofs!drop_statements, Names!Creations, NamesProofs!Creations,
      Names!create_statements, NamesProofs!create_statements, Names!promotion,
      NamesProofs!promotion, Names!Run, NamesProofs!Run, Names!Current, NamesProofs!Current,
      Names!Legacy, NamesProofs!Legacy, Names!Missing, NamesProofs!Missing, Names!Written,
      NamesProofs!Written, Names!SerialEffect, NamesProofs!SerialEffect, Names!Begin,
      NamesProofs!Begin, Names!WaitsFor, NamesProofs!WaitsFor, Names!WaitGraph,
      NamesProofs!WaitGraph, Names!Rollback, NamesProofs!Rollback, Names!Range,
      NamesProofs!Range, Names!FlattenSeq, NamesProofs!FlattenSeq, Names!TransitiveClosure,
      NamesProofs!TransitiveClosure, Names!Cardinality, NamesProofs!Cardinality, Names!vars,
      NamesProofs!vars
<1>1. Names!Init <=> NamesProofs!Init
  BY DEF Names!Init, NamesProofs!Init
<1>2. Names!vars = NamesProofs!vars
  OBVIOUS
<1>3. Names!SqliteSerial <=> NamesProofs!SqliteSerial
  BY DEF Names!SqliteSerial, NamesProofs!SqliteSerial
<1>4. Names!NamespaceSurvivesStep <=> NamesProofs!NamespaceSurvivesStep
  BY DEF Names!NamespaceSurvivesStep, NamesProofs!NamespaceSurvivesStep
<1>5. \A c \in NameClients : Names!create_namespace(c) <=> NamesProofs!create_namespace(c)
  BY DEF Names!create_namespace, NamesProofs!create_namespace
<1>6. \A c \in NameClients : Names!drop_namespace(c) <=> NamesProofs!drop_namespace(c)
  BY DEF Names!drop_namespace, NamesProofs!drop_namespace
<1>7. \A c \in NameClients : Names!update_namespace(c) <=> NamesProofs!update_namespace(c)
  BY DEF Names!update_namespace, NamesProofs!update_namespace
<1>8. \A c \in NameClients : Names!Precheck(c) <=> NamesProofs!Precheck(c)
  BY DEF Names!Precheck, NamesProofs!Precheck
<1>9. \A c \in NameClients : Names!Probe(c) <=> NamesProofs!Probe(c)
  BY DEF Names!Probe, NamesProofs!Probe
<1>10. \A c \in NameClients : Names!LockIdentity(c) <=> NamesProofs!LockIdentity(c)
  <2>1. \A c : /\ Names!Current(c) <=> NamesProofs!Current(c)
               /\ Names!Missing(c) <=> NamesProofs!Missing(c)
    OBVIOUS
  <2>2. \A c, x : /\ Names!View(c, x) = NamesProofs!View(c, x)
                  /\ Names!Visible(c, x) = NamesProofs!Visible(c, x)
                  /\ Names!Free(c, x) <=> NamesProofs!Free(c, x)
                  /\ Names!Lock(c, x) <=> NamesProofs!Lock(c, x)
                  /\ Names!See(c, x) <=> NamesProofs!See(c, x)
                  /\ Names!Goto(c, x) <=> NamesProofs!Goto(c, x)
    OBVIOUS
  <2> HIDE DEF Names!Current, NamesProofs!Current, Names!Missing, NamesProofs!Missing, Names!View,
               NamesProofs!View, Names!Visible, NamesProofs!Visible, Names!Free,
               NamesProofs!Free, Names!Lock, NamesProofs!Lock, Names!See, NamesProofs!See,
               Names!Goto, NamesProofs!Goto
  <2> QED
    BY <2>1, <2>2 DEF Names!LockIdentity, NamesProofs!LockIdentity
<1>11. \A c \in NameClients : Names!LockProperty(c) <=> NamesProofs!LockProperty(c)
  BY DEF Names!LockProperty, NamesProofs!LockProperty
<1>12. \A c \in NameClients : Names!Change(c) <=> NamesProofs!Change(c)
  BY DEF Names!Change, NamesProofs!Change
<1>13. \A c \in NameClients : Names!InsertRow(c) <=> NamesProofs!InsertRow(c)
  BY DEF Names!InsertRow, NamesProofs!InsertRow
<1>14. \A c \in NameClients : Names!Commit(c) <=> NamesProofs!Commit(c)
  BY DEF Names!Commit, NamesProofs!Commit
<1>15. \A c \in NameClients : Names!Deadlock(c) <=> NamesProofs!Deadlock(c)
  BY DEF Names!Deadlock, NamesProofs!Deadlock
<1>16. \A c \in NameClients : Names!Fail(c) <=> NamesProofs!Fail(c)
  BY DEF Names!Fail, NamesProofs!Fail
<1>17. Names!Next <=> NamesProofs!Next
  BY <1>5, <1>6, <1>7, <1>8, <1>9, <1>10, <1>11, <1>12, <1>13, <1>14, <1>15, <1>16
     DEF Names!Next, NamesProofs!Next, Names!Start, NamesProofs!Start, Names!Proceed,
         NamesProofs!Proceed
<1> QED
  BY <1>1, <1>2, <1>3, <1>4, <1>17

\* The parameters are what the theorems about the namespaces assume of them.
LEMMA NamesDeployment == NamesProofs!Deployment
  BY NamesAssumption
     DEF NamesProofs!Deployment, Names!Keys, NamesProofs!Keys, Names!Range, NamesProofs!Range,
         Names!Identity, NamesProofs!Identity, Names!Nobody, NamesProofs!Nobody

\* A behaviour of this component is one throughout.
LEMMA NamesBehaves ==
  /\ Spec /\ part = "namespaces" => NamesProofs!Init /\ [][NamesProofs!Next]_(NamesProofs!vars) /\ [](part = "namespaces")
  /\ Spec /\ ~(part = "namespaces") => [](~(part = "namespaces"))
  <1>1. Init /\ part = "namespaces" => NamesProofs!Init
    BY NamesSame DEF Init
  <1>2. part = "namespaces" /\ [Next]_vars => [NamesProofs!Next]_(NamesProofs!vars) /\ (part = "namespaces")'
    <2> SUFFICES ASSUME part = "namespaces", [Next]_vars
                 PROVE  [NamesProofs!Next]_(NamesProofs!vars) /\ (part = "namespaces")'
      OBVIOUS
    <2>1. CASE Next
      BY <2>1, NamesSame DEF Next, OfWriter, OfSink, OfFork, OfCaches, OfNames, OfRetry
    <2>2. CASE UNCHANGED vars
      BY <2>2 DEF vars, NamesProofs!vars, nameVars
    <2> QED
      BY <2>1, <2>2
  <1>3. ~(part = "namespaces") /\ [Next]_vars => ~(part = "namespaces")'
    BY DEF Next, vars, OfWriter, OfSink, OfFork, OfCaches, OfNames, OfRetry
  <1>4. Spec /\ part = "namespaces" => NamesProofs!Init /\ [][NamesProofs!Next]_(NamesProofs!vars) /\ [](part = "namespaces")
    BY <1>1, <1>2, PTL DEF Spec
  <1>5. Spec /\ ~(part = "namespaces") => [](~(part = "namespaces"))
    BY <1>3, PTL DEF Spec
  <1> QED
    BY <1>4, <1>5

\* On SQLite the namespace, and what load_namespace returns, is what the
\* committed calls, one after another, make it, for any number of clients,
\* calls and failures.
THEOREM SqliteSerialHolds == Spec => []SqliteSerial
  <1>1. NamesProofs!Init /\ [][NamesProofs!Next]_(NamesProofs!vars) => []NamesProofs!SqliteSerial
    BY NamesProofs!SqliteSerialAlways, NamesDeployment
  <1>2. NamesProofs!SqliteSerial => SqliteSerial
    BY NamesSame DEF SqliteSerial
  <1>3. ~(part = "namespaces") => SqliteSerial
    BY DEF SqliteSerial
  <1> QED
    BY <1>1, <1>2, <1>3, NamesBehaves, PTL

\* On both databases a namespace that is there by the calls committed so far
\* only disappears when a drop_namespace commits.
THEOREM NamespaceSurvivesHolds == Spec => NamespaceSurvives
  <1> DEFINE A == NamesProofs!NamespaceSurvivesStep
             B == part = "namespaces" => Names!NamespaceSurvivesStep
  <1>1. NamesProofs!Init /\ [][NamesProofs!Next]_(NamesProofs!vars) => [][A]_(NamesProofs!vars)
    BY NamesProofs!NamespaceSurvivesAlways, NamesDeployment DEF NamesProofs!NamespaceSurvives
  <1>2. [A]_(NamesProofs!vars) => [B]_vars
    BY NamesSame DEF Names!NamespaceSurvivesStep, NamesProofs!vars
  <1>3. ~(part = "namespaces") => [B]_vars
    OBVIOUS
  <1> QED
    BY <1>1, <1>2, <1>3, NamesBehaves, PTL DEF NamespaceSurvives

-----------------------------------------------------------------------------
(* The caches of a scan                                                    *)
(*                                                                         *)
(* An entry holds what its key says, in every cache and whatever is        *)
(* inserted, touched, replaced and evicted; so a hit is exact, and a       *)
(* reader between its lookup and its answer holds exact parts only.        *)

\* The files' parts, and what a part's key says of its contents.
PartKeys == (STRING \X STRING) \X Nat
ValueOf(key) == <<key[1][1], key[1][2], key[2]>>
Entries == {e \in [key : PartKeys, value : STRING \X STRING \X Nat, weight : Nat] :
              e.value = ValueOf(e.key)}

CacheOK(c) == DOMAIN c = {"entries", "total"} /\ c.entries \in Seq(Entries)

\* What a lookup may find of the parts of a call.
Found(req, got) ==
  /\ DOMAIN got = DOMAIN req.ranges
  /\ \A n \in DOMAIN got : got[n] \in {<<>>, Caches!content(req, req.ranges[n])}

ReaderOK(r, t) ==
  /\ DOMAIN t = {"pc", "at", "widen", "gate", "got", "expected"}
  /\ t.pc \in {"call", "gate", "fetch"}
  /\ t.at \in Nat \ {0}
  /\ t.pc = "call" => t.got = t.expected
  /\ t.pc # "call" => t.at <= Len(ReadsOf[r]) /\ Found(ReadsOf[r][t.at], t.got)
  /\ t.pc = "gate" => ReadsOf[r][t.at].kind = "footer"

CachesInv ==
  /\ DOMAIN cache = Caches!Kinds
  /\ \A k \in Caches!Kinds : CacheOK(cache[k])
  /\ DOMAIN rd = CacheReaders
  /\ \A r \in CacheReaders : ReaderOK(r, rd[r])

-----------------------------------------------------------------------------
(* Lists of entries *)

\* Only selects elements.
LEMMA OnlyFacts ==
  ASSUME NEW S, NEW s \in Seq(S), NEW T
  PROVE  Caches!Only(s, T) \in Seq(S \cap T)
<1> DEFINE ss == [n \in DOMAIN s |-> IF s[n] \in T THEN <<s[n]>> ELSE <<>>]
           Q == Seq(S \cap T)
<1>1. Len(ss) \in Nat /\ DOMAIN ss = 1 .. Len(ss) /\ (Len(ss) = 0 => ss = <<>>)
  <2>1. Len(s) \in Nat /\ DOMAIN s = 1 .. Len(s)
    OBVIOUS
  <2>2. ss \in Seq({<<>>} \cup {<<x>> : x \in S})
    <3>1. \A n \in 1 .. Len(s) : ss[n] \in {<<>>} \cup {<<x>> : x \in S}
      BY <2>1
    <3> QED
      BY <2>1, <3>1
  <2> QED
    BY <2>2
<1>2. <<>> \in Q /\ \A p, q \in Q : p \o q \in Q
  OBVIOUS
<1>3. \A n \in DOMAIN ss : ss[n] \in Q
  <2> TAKE n \in DOMAIN ss
  <2>1. s[n] \in S /\ ss[n] = IF s[n] \in T THEN <<s[n]>> ELSE <<>>
    OBVIOUS
  <2>2. \A x \in S \cap T : <<x>> \in Q
    OBVIOUS
  <2> HIDE DEF ss, Q
  <2> QED
    BY <1>2, <2>1, <2>2
<1>4. NamesProofs!FlattenSeq(ss) \in Q
  <2> HIDE DEF ss, Q
  <2> QED
    BY <1>1, <1>2, <1>3, NamesProofs!FlattenIn
<1>5. Caches!FlattenSeq(ss) = NamesProofs!FlattenSeq(ss)
  BY DEF Caches!FlattenSeq, NamesProofs!FlattenSeq
<1> QED
  BY <1>4, <1>5 DEF Caches!Only

LEMMA OnlyKeeps ==
  ASSUME NEW S, NEW s \in Seq(S), NEW T
  PROVE  Caches!Only(s, T) \in Seq(S)
<1>1. Caches!Only(s, T) \in Seq(S \cap T)
  BY OnlyFacts
<1> QED
  BY <1>1

\* A set of numbers that is not empty has a least one.
LEMMA LeastNumber ==
  ASSUME NEW n \in Nat, NEW S, S \subseteq 0 .. n, S # {}
  PROVE  Caches!Min(S) \in S
<1> DEFINE T == {k \in 0 .. n : \A x \in S : x > k}
<1>1. PICK x \in S : \A y \in S : x <= y
  <2> SUFFICES ASSUME \A x \in S : \E y \in S : y < x PROVE FALSE
    OBVIOUS
  <2>1. 0 \in T
    BY SMT
  <2>2. \A k \in 0 .. n - 1 : k \in T => k + 1 \in T
    BY SMT
  <2>3. \A k \in 0 .. n : k \in T
    <3> HIDE DEF T
    <3> QED
      BY <2>1, <2>2, NamesProofs!Induction
  <2>4. n \in T
    BY <2>3
  <2>5. PICK y \in S : TRUE
    OBVIOUS
  <2>6. y > n /\ y \in 0 .. n
    BY <2>4, <2>5
  <2> QED
    BY <2>6
<1> QED
  BY <1>1 DEF Caches!Min

\* Evicting the least recently used leaves entries.
LEMMA ShrinkKeeps ==
  ASSUME NEW es \in Seq(Entries), NEW total, NEW cap
  PROVE  CacheOK(Caches!shrink(es, total, cap))
<1> DEFINE dropped == {n \in 0 .. Len(es) : total - Caches!Weight(SubSeq(es, 1, n)) <= cap} \cup {Len(es)}
           drop == Caches!Min(dropped)
<1>1. drop \in 0 .. Len(es)
  <2>1. Len(es) \in Nat /\ dropped \subseteq 0 .. Len(es) /\ dropped # {}
    OBVIOUS
  <2> HIDE DEF dropped
  <2> QED
    BY <2>1, LeastNumber
<1> HIDE DEF drop
<1>2. SubSeq(es, drop + 1, Len(es)) \in Seq(Entries)
  BY <1>1
<1> QED
  BY <1>2 DEF CacheOK, Caches!shrink, drop

\* So does inserting, with what is replaced taken out.
LEMMA InsertKeeps ==
  ASSUME NEW c, CacheOK(c), NEW es \in Seq(Entries), NEW cap,
         NEW after \in Caches!insert(c, es, cap)
  PROVE  CacheOK(after)
<1>1. PICK kept, total : kept \in Seq(Entries) /\ after = Caches!shrink(kept \o es, total, cap)
  <2> DEFINE kept == Caches!Only(c.entries, Caches!Range(c.entries) \ Caches!replaced(c, es))
             total == c.total - Caches!Weight(Caches!Only(c.entries, Caches!replaced(c, es)))
                      + Caches!Weight(es)
  <2>1. kept \in Seq(Entries)
    BY OnlyKeeps DEF CacheOK
  <2>2. after = Caches!shrink(kept \o es, total, cap)
    BY DEF Caches!insert
  <2> HIDE DEF kept, total
  <2> QED
    BY <2>1, <2>2
<1>2. kept \o es \in Seq(Entries)
  BY <1>1
<1> QED
  BY <1>1, <1>2, ShrinkKeeps

\* A lookup moves entries.
LEMMA TouchKeeps ==
  ASSUME NEW c, CacheOK(c), NEW keys \in Seq(PartKeys)
  PROVE  CacheOK(Caches!touched(c, keys))
<1> DEFINE hits == Caches!Only(keys, Caches!KeysOf(c))
           others == Caches!Only(c.entries, {e \in Caches!Range(c.entries) : e.key \notin Caches!Range(keys)})
           moved == [n \in DOMAIN hits |-> CHOOSE e \in Caches!Range(c.entries) : e.key = hits[n]]
<1>1. hits \in Seq(PartKeys \cap Caches!KeysOf(c))
  BY OnlyFacts
<1>2. others \in Seq(Entries)
  BY OnlyKeeps DEF CacheOK
<1>3. moved \in Seq(Entries)
  <2>1. Caches!Range(c.entries) \subseteq Entries
    BY DEF CacheOK, Caches!Range
  <2>2. \A n \in DOMAIN hits : \E e \in Caches!Range(c.entries) : e.key = hits[n]
    <3> HIDE DEF hits
    <3> QED
      BY <1>1 DEF Caches!KeysOf
  <2>3. \A n \in DOMAIN hits : moved[n] \in Entries
    BY <2>1, <2>2
  <2>4. Len(hits) \in Nat /\ DOMAIN hits = 1 .. Len(hits)
    BY <1>1
  <2> HIDE DEF hits
  <2>5. moved = [n \in 1 .. Len(hits) |-> moved[n]]
    BY <2>4
  <2> HIDE DEF moved, Entries
  <2> QED
    BY <2>3, <2>4, <2>5
<1>4. Caches!touched(c, keys) = [c EXCEPT !.entries = others \o moved]
  BY DEF Caches!touched
<1> HIDE DEF others, moved
<1> QED
  BY <1>2, <1>3, <1>4 DEF CacheOK

\* What is found under a key is what the key says.
LEMMA ValuesExact ==
  ASSUME NEW c, CacheOK(c), NEW keys
  PROVE  /\ DOMAIN Caches!values(c, keys) = DOMAIN keys
         /\ Caches!values(c, keys) = [n \in DOMAIN keys |-> Caches!values(c, keys)[n]]
         /\ \A n \in DOMAIN keys : Caches!values(c, keys)[n] \in {<<>>, ValueOf(keys[n])}
<1>1. /\ DOMAIN Caches!values(c, keys) = DOMAIN keys
      /\ Caches!values(c, keys) = [n \in DOMAIN keys |-> Caches!values(c, keys)[n]]
  <2> DEFINE value(n) == LET hits == {m \in DOMAIN c.entries : c.entries[m].key = keys[n]}
                         IN  IF hits = {} THEN <<>> ELSE c.entries[CHOOSE m \in hits : TRUE].value
  <2>1. Caches!values(c, keys) = [n \in DOMAIN keys |-> value(n)]
    BY DEF Caches!values
  <2> HIDE DEF value
  <2> QED
    BY <2>1
<1>2. ASSUME NEW n \in DOMAIN keys
      PROVE  Caches!values(c, keys)[n] \in {<<>>, ValueOf(keys[n])}
  <2> DEFINE hits == {m \in DOMAIN c.entries : c.entries[m].key = keys[n]}
             hit == CHOOSE m \in hits : TRUE
  <2>1. Caches!values(c, keys)[n] = IF hits = {} THEN <<>> ELSE c.entries[hit].value
    BY DEF Caches!values
  <2>2. CASE hits # {}
    <3>1. hit \in hits
      BY <2>2
    <3> HIDE DEF hit
    <3>2. c.entries[hit] \in Entries /\ c.entries[hit].key = keys[n]
      BY <3>1 DEF CacheOK
    <3> QED
      BY <2>1, <2>2, <3>2 DEF Entries
  <2> QED
    BY <2>1, <2>2
<1> QED
  BY <1>1, <1>2

-----------------------------------------------------------------------------
(* Steps *)

\* The calls of the readers, and the keys and contents of their parts.
LEMMA CallFacts ==
  ASSUME NEW r \in CacheReaders, rd[r].at \in Nat \ {0}, rd[r].at <= Len(ReadsOf[r])
  PROVE  LET req == ReadsOf[r][rd[r].at]
         IN  /\ req = Caches!Call(r)
             /\ req.kind \in Caches!Kinds
             /\ req.store \in STRING /\ req.path \in STRING /\ req.ranges \in Seq(Nat)
             /\ req.kind = "footer" => DOMAIN req.ranges = {1}
             /\ Caches!Keys(r) \in Seq(PartKeys)
             /\ DOMAIN Caches!Keys(r) = DOMAIN req.ranges
             /\ \A n \in DOMAIN req.ranges :
                  /\ Caches!Keys(r)[n] = <<Caches!key_of(req), req.ranges[n]>>
                  /\ ValueOf(Caches!Keys(r)[n]) = Caches!content(req, req.ranges[n])
<1> DEFINE req == ReadsOf[r][rd[r].at]
           Requests == [kind : Caches!Kinds, store : STRING, path : STRING, ranges : Seq(Nat)]
<1>1. /\ ReadsOf[r] \in Seq(Requests)
      /\ rd[r].at \in DOMAIN ReadsOf[r]
  <2>1. ReadsOf[r] \in Seq(Requests)
    BY CachesAssumption
  <2> HIDE DEF Requests
  <2> QED
    BY <2>1
<1>2. /\ req \in Requests
      /\ req.kind \in Caches!Kinds /\ req.store \in STRING /\ req.path \in STRING
      /\ req.ranges \in Seq(Nat)
  <2>1. req \in Requests
    <3> HIDE DEF Requests
    <3> QED
      BY <1>1
  <2> HIDE DEF req
  <2> QED
    BY <2>1
<1> HIDE DEF Requests
<1>3. req.kind = "footer" => DOMAIN req.ranges = {1}
  <2>1. req.kind = "footer" => Len(req.ranges) = 1
    BY <1>1, CachesAssumption
  <2> QED
    BY <1>2, <2>1
<1>4. req = Caches!Call(r)
  BY DEF Caches!Call, Reads
<1> HIDE DEF req
<1>5. \A n \in DOMAIN req.ranges :
        /\ Caches!Keys(r)[n] = <<Caches!key_of(req), req.ranges[n]>>
        /\ <<Caches!key_of(req), req.ranges[n]>> \in PartKeys
        /\ ValueOf(<<Caches!key_of(req), req.ranges[n]>>) = Caches!content(req, req.ranges[n])
  BY <1>2, <1>4 DEF Caches!Keys, Caches!key_of, Caches!content, ValueOf, PartKeys
<1>6. Caches!Keys(r) \in Seq(PartKeys) /\ DOMAIN Caches!Keys(r) = DOMAIN req.ranges
  <2>1. Len(req.ranges) \in Nat /\ DOMAIN req.ranges = 1 .. Len(req.ranges)
    BY <1>2
  <2>2. Caches!Keys(r) = [n \in 1 .. Len(req.ranges) |-> <<Caches!key_of(req), req.ranges[n]>>]
    BY <1>4, <2>1 DEF Caches!Keys
  <2>3. \A n \in 1 .. Len(req.ranges) : Caches!Keys(r)[n] \in PartKeys
    BY <1>5, <2>1
  <2> DEFINE keys == Caches!Keys(r)
             len == Len(req.ranges)
  <2>4. keys = [n \in 1 .. len |-> keys[n]] /\ DOMAIN keys = 1 .. len
    <3> DEFINE key(n) == <<Caches!key_of(req), req.ranges[n]>>
    <3> HIDE DEF key
    <3>1. keys = [n \in 1 .. len |-> key(n)]
      BY <2>2 DEF key
    <3> HIDE DEF keys, len
    <3> QED
      BY <3>1
  <2>5. \A n \in 1 .. len : keys[n] \in PartKeys
    BY <2>3
  <2> HIDE DEF PartKeys, keys, len
  <2>6. len \in Nat
    BY <2>1 DEF len
  <2>7. keys \in Seq(PartKeys)
    BY <2>4, <2>5, <2>6
  <2> QED
    BY <2>1, <2>4, <2>7 DEF keys, len
<1> QED
  BY <1>2, <1>3, <1>4, <1>5, <1>6 DEF req

\* One reader moves, and one cache may change.
LEMMA ReaderStep ==
  ASSUME CachesInv, NEW r \in CacheReaders, NEW t, ReaderOK(r, t), rd' = [rd EXCEPT ![r] = t],
         \/ cache' = cache
         \/ \E k \in Caches!Kinds : \E c : CacheOK(c) /\ cache' = [cache EXCEPT ![k] = c]
  PROVE  CachesInv'
<1>1. DOMAIN cache' = Caches!Kinds /\ \A k \in Caches!Kinds : CacheOK(cache'[k])
  BY DEF CachesInv
<1>2. DOMAIN rd' = CacheReaders /\ \A q \in CacheReaders : ReaderOK(q, rd'[q])
  BY DEF CachesInv
<1> QED
  BY <1>1, <1>2 DEF CachesInv, Caches!Kinds, CacheOK, ReaderOK

\* A call that returns the parts it asked for.
LEMMA AnswerExact ==
  ASSUME CachesInv, NEW r \in CacheReaders, NEW got, Caches!Answer(r, got),
         rd[r].at \in Nat \ {0}, rd[r].at <= Len(ReadsOf[r]),
         got = [n \in DOMAIN ReadsOf[r][rd[r].at].ranges |->
                  Caches!content(ReadsOf[r][rd[r].at], ReadsOf[r][rd[r].at].ranges[n])]
  PROVE  \E t : ReaderOK(r, t) /\ rd' = [rd EXCEPT ![r] = t]
<1> DEFINE after == rd[r].at + 1
           t == [pc |-> "call", at |-> after, widen |-> FALSE, gate |-> 0, got |-> got, expected |-> got]
<1>1. rd' = [rd EXCEPT ![r] = t]
  BY DEF Caches!Answer, Caches!Call, Reads
<1>2. /\ DOMAIN t = {"pc", "at", "widen", "gate", "got", "expected"}
      /\ t.pc = "call" /\ t.at \in Nat \ {0} /\ t.got = t.expected
  <2>1. after \in Nat \ {0}
    OBVIOUS
  <2> HIDE DEF after
  <2> QED
    BY ONLY <2>1
<1> HIDE DEF t
<1>3. ReaderOK(r, t)
  BY <1>2 DEF ReaderOK
<1> QED
  BY <1>1, <1>3

LEMMA LookupKeeps ==
  ASSUME CachesInv, NEW r \in CacheReaders, Caches!Lookup(r)
  PROVE  CachesInv'
<1> DEFINE req == ReadsOf[r][rd[r].at]
           k == req.kind
           found == Caches!values(cache[k], Caches!Keys(r))
<1>1. rd[r].at \in Nat \ {0} /\ rd[r].at <= Len(ReadsOf[r]) /\ DOMAIN rd = CacheReaders
  <2>1. rd[r].at \in Nat \ {0} /\ DOMAIN rd = CacheReaders
    BY DEF CachesInv, ReaderOK
  <2>2. ~ (rd[r].at > Len(ReadsOf[r])) /\ Len(ReadsOf[r]) \in Nat
    BY CachesAssumption DEF Caches!Lookup, Caches!Finished, Reads
  <2> QED
    BY <2>1, <2>2
<1>2. /\ req = Caches!Call(r) /\ k \in Caches!Kinds /\ req.ranges \in Seq(Nat)
      /\ Caches!Keys(r) \in Seq(PartKeys) /\ DOMAIN Caches!Keys(r) = DOMAIN req.ranges
      /\ \A n \in DOMAIN req.ranges : ValueOf(Caches!Keys(r)[n]) = Caches!content(req, req.ranges[n])
  BY <1>1, CallFacts
<1>3. CacheOK(cache[k])
  BY <1>2 DEF CachesInv
<1>4. Found(req, found)
  BY <1>2, <1>3, ValuesExact DEF Found
<1>5. CacheOK(Caches!touched(cache[k], Caches!Keys(r)))
  BY <1>2, <1>3, TouchKeeps
<1>6. cache' = [cache EXCEPT ![k] = Caches!touched(cache[k], Caches!Keys(r))]
  BY <1>2 DEF Caches!Lookup
<1>7. \E t : ReaderOK(r, t) /\ rd' = [rd EXCEPT ![r] = t]
  <2>1. CASE \A n \in DOMAIN found : found[n] # <<>>
    <3>1. Caches!Answer(r, found)
      BY <1>2, <2>1 DEF Caches!Lookup
    <3>2. found = [n \in DOMAIN req.ranges |-> Caches!content(req, req.ranges[n])]
      <4>1. \A n \in DOMAIN req.ranges : found[n] = Caches!content(req, req.ranges[n])
        BY <1>4, <2>1 DEF Found
      <4>2. DOMAIN found = DOMAIN req.ranges
        BY <1>4 DEF Found
      <4>3. found = [n \in DOMAIN Caches!Keys(r) |-> found[n]]
        BY ValuesExact, <1>3
      <4> QED
        BY <1>2, <4>1, <4>2, <4>3
    <3> HIDE DEF found
    <3> QED
      BY <1>1, <3>1, <3>2, AnswerExact
  <2>2. CASE ~ \A n \in DOMAIN found : found[n] # <<>>
    <3> DEFINE t == [rd[r] EXCEPT !.pc = IF k = "footer" /\ CacheCaps[k] # 0 THEN "gate" ELSE "fetch",
                                  !.got = found]
    <3>1. rd' = [rd EXCEPT ![r] = t]
      BY <1>2, <2>2 DEF Caches!Lookup, Caps
    <3>2. ReaderOK(r, rd[r])
      BY DEF CachesInv
    <3> HIDE DEF found
    <3>3. ReaderOK(r, t)
      BY <1>1, <1>4, <3>2 DEF ReaderOK
    <3> QED
      BY <3>1, <3>3
  <2> QED
    BY <2>1, <2>2
<1> QED
  BY <1>2, <1>5, <1>6, <1>7, ReaderStep

LEMMA GateKeeps ==
  ASSUME CachesInv, NEW r \in CacheReaders, Caches!Gate(r)
  PROVE  CachesInv'
<1> DEFINE req == ReadsOf[r][rd[r].at]
           again == Caches!values(cache["footer"], Caches!Keys(r))[1]
<1>1. /\ ReaderOK(r, rd[r]) /\ rd[r].pc = "gate" /\ DOMAIN rd = CacheReaders
      /\ rd[r].at \in Nat \ {0} /\ rd[r].at <= Len(ReadsOf[r]) /\ req.kind = "footer"
  BY DEF CachesInv, ReaderOK, Caches!Gate
<1>2. /\ DOMAIN req.ranges = {1} /\ Caches!Keys(r) \in Seq(PartKeys)
      /\ DOMAIN Caches!Keys(r) = {1} /\ ValueOf(Caches!Keys(r)[1]) = Caches!content(req, req.ranges[1])
  BY <1>1, CallFacts
<1>3. CacheOK(cache["footer"]) /\ "footer" \in Caches!Kinds
  BY DEF CachesInv, Caches!Kinds
<1>4. again \in {<<>>, Caches!content(req, req.ranges[1])}
  BY <1>2, <1>3, ValuesExact
<1>5. CacheOK(Caches!touched(cache["footer"], Caches!Keys(r)))
  BY <1>2, <1>3, TouchKeeps
<1>6. cache' = [cache EXCEPT !["footer"] = Caches!touched(cache["footer"], Caches!Keys(r))]
  BY DEF Caches!Gate
<1>7. \E t : ReaderOK(r, t) /\ rd' = [rd EXCEPT ![r] = t]
  <2>1. CASE again # <<>>
    <3>1. Caches!Answer(r, <<again>>)
      BY <2>1 DEF Caches!Gate
    <3>2. <<again>> = [n \in DOMAIN req.ranges |-> Caches!content(req, req.ranges[n])]
      <4> DEFINE piece(n) == Caches!content(req, req.ranges[n])
      <4>1. <<again>> = [n \in {1} |-> again] /\ again = piece(1)
        BY <1>4, <2>1
      <4> HIDE DEF again, piece
      <4>2. <<again>> = [n \in {1} |-> piece(n)]
        BY <4>1
      <4> QED
        BY <1>2, <4>2 DEF piece
    <3> HIDE DEF again
    <3> QED
      BY <1>1, <3>1, <3>2, AnswerExact
  <2>2. CASE again = <<>>
    <3> DEFINE w == ~backed_off
               own == Caches!inflight_gate(Caches!key_of(Caches!Call(r)))
               g == IF own.id \in locked THEN 0 ELSE own.id
    <3>1. rd' = [rd EXCEPT ![r] = [@ EXCEPT !.pc = "fetch", !.widen = w, !.gate = g]]
      <4>1. rd' = [rd EXCEPT ![r].pc = "fetch", ![r].widen = w, ![r].gate = g]
        BY <2>2 DEF Caches!Gate
      <4> HIDE DEF w, g
      <4> QED
        BY <1>1, <4>1
    <3> HIDE DEF w, g
    <3> DEFINE t == [rd[r] EXCEPT !.pc = "fetch", !.widen = w, !.gate = g]
    <3>2. ReaderOK(r, t)
      BY <1>1 DEF ReaderOK
    <3> QED
      BY <3>1, <3>2
  <2> QED
    BY <2>1, <2>2
<1> QED
  BY <1>3, <1>5, <1>6, <1>7, ReaderStep

LEMMA FetchKeeps ==
  ASSUME CachesInv, NEW r \in CacheReaders, Caches!Fetch(r)
  PROVE  CachesInv'
<1> DEFINE req == ReadsOf[r][rd[r].at]
           k == req.kind
           got == rd[r].got
           new == [n \in DOMAIN Caches!Missing(r) |-> Caches!EntryOf(r, Caches!Missing(r)[n])]
           fits == Caches!fitting(new, CacheCaps[k])
           answer == [n \in DOMAIN got |-> IF got[n] = <<>> THEN Caches!EntryOf(r, n).value ELSE got[n]]
<1>1. /\ ReaderOK(r, rd[r]) /\ rd[r].pc = "fetch" /\ DOMAIN rd = CacheReaders
      /\ rd[r].at \in Nat \ {0} /\ rd[r].at <= Len(ReadsOf[r]) /\ Found(req, got)
  BY DEF CachesInv, ReaderOK, Caches!Fetch, Caches!Polled
<1>2. /\ req = Caches!Call(r) /\ k \in Caches!Kinds
      /\ req.store \in STRING /\ req.path \in STRING /\ req.ranges \in Seq(Nat)
      /\ \A n \in DOMAIN req.ranges :
           /\ <<Caches!key_of(req), req.ranges[n]>> \in PartKeys
           /\ ValueOf(<<Caches!key_of(req), req.ranges[n]>>) = Caches!content(req, req.ranges[n])
  <2>1. /\ req = Caches!Call(r) /\ k \in Caches!Kinds
        /\ req.store \in STRING /\ req.path \in STRING /\ req.ranges \in Seq(Nat)
        /\ Caches!Keys(r) \in Seq(PartKeys) /\ DOMAIN Caches!Keys(r) = DOMAIN req.ranges
        /\ \A n \in DOMAIN req.ranges :
             /\ Caches!Keys(r)[n] = <<Caches!key_of(req), req.ranges[n]>>
             /\ ValueOf(Caches!Keys(r)[n]) = Caches!content(req, req.ranges[n])
    BY <1>1, CallFacts
  <2>2. \A n \in DOMAIN req.ranges : Caches!Keys(r)[n] \in PartKeys
    BY <2>1
  <2> QED
    BY <2>1, <2>2
<1>3. CacheOK(cache[k])
  BY <1>2 DEF CachesInv
<1>4. \A n \in DOMAIN req.ranges :
        /\ Caches!EntryOf(r, n) \in Entries
        /\ Caches!EntryOf(r, n).value = Caches!content(req, req.ranges[n])
  <2> TAKE n \in DOMAIN req.ranges
  <2> DEFINE weight == Caches!EntryOf(r, n).weight
  <2>1. /\ Caches!EntryOf(r, n) = [key |-> <<Caches!key_of(req), req.ranges[n]>>,
                                   value |-> Caches!content(req, req.ranges[n]), weight |-> weight]
    BY <1>2 DEF Caches!EntryOf
  <2>2. weight \in Nat
    <3>1. req.ranges[n] \in Nat
      BY <1>2
    <3> QED
      BY <1>2, <3>1 DEF Caches!EntryOf, Caches!range_weight
  <2>3. Caches!content(req, req.ranges[n]) \in STRING \X STRING \X Nat
    <3>1. req.ranges[n] \in Nat
      BY <1>2
    <3> QED
      BY <1>2, <3>1 DEF Caches!content
  <2> HIDE DEF weight
  <2> DEFINE key == <<Caches!key_of(req), req.ranges[n]>>
             value == Caches!content(req, req.ranges[n])
             entry == [key |-> key, value |-> value, weight |-> weight]
  <2>4. key \in PartKeys /\ value = ValueOf(key) /\ value \in STRING \X STRING \X Nat
    BY <1>2, <2>3
  <2>5. Caches!EntryOf(r, n) = entry
    BY <2>1
  <2> HIDE DEF key, value, req
  <2>6. entry.key = key /\ entry.value = value /\ entry \in Entries
    BY <2>2, <2>4 DEF Entries
  <2> QED
    BY <2>5, <2>6 DEF value
<1>5. new \in Seq(Entries)
  <2> DEFINE m == Caches!Missing(r)
  <2>1. Len(req.ranges) \in Nat /\ DOMAIN req.ranges = 1 .. Len(req.ranges) /\ DOMAIN got = 1 .. Len(req.ranges)
    BY <1>1, <1>2 DEF Found
  <2>2. [n \in DOMAIN got |-> n] \in Seq(DOMAIN req.ranges)
    <3> DEFINE len == Len(req.ranges)
    <3>1. len \in Nat /\ DOMAIN got = 1 .. len /\ DOMAIN req.ranges = 1 .. len
      BY <2>1
    <3> HIDE DEF len, got, req
    <3> QED
      BY <3>1
  <2>3. m \in Seq(DOMAIN req.ranges)
    <3>1. m \in Seq(DOMAIN req.ranges \cap {n \in DOMAIN got : got[n] = <<>>})
      BY <2>2, OnlyFacts DEF Caches!Missing
    <3> QED
      BY <3>1
  <2>4. Len(m) \in Nat /\ DOMAIN m = 1 .. Len(m) /\ \A n \in DOMAIN m : m[n] \in DOMAIN req.ranges
    BY <2>3
  <2> HIDE DEF m
  <2>5. new = [n \in 1 .. Len(m) |-> Caches!EntryOf(r, m[n])]
    BY <2>4 DEF m
  <2>6. \A n \in 1 .. Len(m) : Caches!EntryOf(r, m[n]) \in Entries
    BY <1>4, <2>4
  <2> QED
    BY <2>4, <2>5, <2>6
<1>6. fits \in Seq(Entries)
  <2> HIDE DEF new
  <2> QED
    BY <1>5, OnlyKeeps DEF Caches!fitting
<1>7. cache' = cache \/ \E c : CacheOK(c) /\ cache' = [cache EXCEPT ![k] = c]
  <2>1. PICK after \in Caches!insert(cache[k], fits, CacheCaps[k]) :
          cache' = cache \/ cache' = [cache EXCEPT ![k] = after]
    BY <1>2 DEF Caches!Fetch, Caps
  <2> HIDE DEF fits
  <2>2. CacheOK(after)
    BY <1>3, <1>6, InsertKeeps
  <2> QED
    BY <2>1, <2>2
<1>8. Caches!Answer(r, answer)
  BY DEF Caches!Fetch
<1>9. answer = [n \in DOMAIN req.ranges |-> Caches!content(req, req.ranges[n])]
  BY <1>1, <1>4 DEF Found
<1> HIDE DEF answer
<1>10. \E t : ReaderOK(r, t) /\ rd' = [rd EXCEPT ![r] = t]
  BY <1>1, <1>8, <1>9, AnswerExact
<1> QED
  BY <1>2, <1>7, <1>10, ReaderStep

LEMMA AbandonKeeps ==
  ASSUME CachesInv, NEW r \in CacheReaders, Caches!Abandon(r)
  PROVE  CachesInv'
<1> DEFINE t == [rd[r] EXCEPT !.pc = "call", !.at = Len(ReadsOf[r]) + 1, !.gate = 0,
                              !.got = <<>>, !.expected = <<>>]
<1>1. rd' = [rd EXCEPT ![r] = t] /\ cache' = cache
  BY DEF Caches!Abandon, CachesInv, Reads
<1>2. ReaderOK(r, rd[r]) /\ Len(ReadsOf[r]) \in Nat
  BY CachesAssumption DEF CachesInv
<1>3. ReaderOK(r, t)
  BY <1>2 DEF ReaderOK
<1> QED
  BY <1>1, <1>3, ReaderStep

LEMMA CachesStart == Caches!Init => CachesInv
<1> SUFFICES ASSUME Caches!Init PROVE CachesInv
  OBVIOUS
<1>1. DOMAIN cache = Caches!Kinds /\ \A k \in Caches!Kinds : CacheOK(cache[k])
  <2> DEFINE empty == [entries |-> <<>>, total |-> 0]
  <2>1. cache = [k \in Caches!Kinds |-> empty]
    BY DEF Caches!Init
  <2>2. CacheOK(empty)
    BY DEF CacheOK
  <2> HIDE DEF empty
  <2> QED
    BY <2>1, <2>2
<1>2. DOMAIN rd = CacheReaders /\ \A r \in CacheReaders : ReaderOK(r, rd[r])
  BY DEF Caches!Init, ReaderOK
<1> QED
  BY <1>1, <1>2 DEF CachesInv

\* The invariant holds of every behaviour of this component.
LEMMA CachesHold == Spec => [](part = "caches" => CachesInv)
<1>1. Init => (part = "caches" => CachesInv)
  <2> SUFFICES ASSUME Init, part = "caches" PROVE Caches!Init
    BY CachesStart
  <2> QED
    BY DEF Init
<1>2. (part = "caches" => CachesInv) /\ [Next]_vars => (part = "caches" => CachesInv)'
  <2> SUFFICES ASSUME part = "caches" => CachesInv, [Next]_vars, (part = "caches")' PROVE CachesInv'
    OBVIOUS
  <2>1. CASE Next
    <3>1. part = "caches" /\ Caches!Next
      BY <2>1 DEF Next, OfWriter, OfSink, OfFork, OfCaches, OfNames, OfRetry
    <3> QED
      BY <3>1, LookupKeeps, GateKeeps, FetchKeeps, AbandonKeeps DEF Caches!Next, Caches!Step
  <2>2. CASE UNCHANGED vars
    BY <2>2 DEF vars, cacheVars, CachesInv, Caches!Kinds, CacheOK, ReaderOK
  <2> QED
    BY <2>1, <2>2
<1> QED
  BY <1>1, <1>2, PTL DEF Spec

\* A call of any reader, on any of the three caches, returns exactly the bytes
\* of the file it asked for, for any programs of the readers, caps of the
\* caches and failures.
THEOREM ReadsExactHolds == Spec => []ReadsExact
<1>1. (part = "caches" => CachesInv) => ReadsExact
  BY DEF ReadsExact, Caches!ReadsExact, CachesInv, ReaderOK
<1> QED
  BY <1>1, CachesHold, PTL

=============================================================================
