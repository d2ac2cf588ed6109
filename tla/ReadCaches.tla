----------------------------- MODULE ReadCaches -----------------------------
(***************************************************************************)
(* The process-wide caches of a scan: manifest bytes                       *)
(* (iceberg-rust/src/util/manifest_cache.rs), parsed Parquet footers and   *)
(* Parquet byte ranges (datafusion_iceberg/src/parquet_metadata_cache.rs   *)
(* and parquet_data_cache.rs).                                             *)
(*                                                                         *)
(* Each cache is a list of entries, least recently used first, under a     *)
(* byte cap.  A cold footer load takes a gate per file, only to count      *)
(* contention: it never waits for it, since the reader that holds it may   *)
(* be the input of a join that is not polled before this reader is done.   *)
(*                                                                         *)
(* A file is its store and its path; its contents are named by both, so    *)
(* that two stores hold different bytes under one path.  A reader runs a   *)
(* fixed list of calls; a query's probe side stops being polled once its   *)
(* fetch is under way, until the readers it waits for have finished.       *)
(***************************************************************************)
EXTENDS Integers, Sequences, FiniteSets, SequencesExt, FiniteSetsExt

CONSTANTS Readers,
          Programs,     \* per reader: its calls, [kind, store, path, ranges]
          WaitsFor,     \* per reader: the readers it is not polled before
          Cap,          \* per cache: its byte cap, 0 turns it off
          GatesCap,     \* INFLIGHT_GATES_CAP
          Backoff,      \* PAGE_INDEX_BACKOFF_EVICTIONS
          MaxFaults     \* bound on failing fetches

Kinds == {"footer", "ranges", "manifest"}

VARIABLES cache,        \* per kind: [entries, total]
          gates,        \* the gates of the files being loaded, least recently used first: [key, id]
          locked,       \* the gates that are held
          gate_ids,     \* how many gates were made
          evictions, backed_off,
          rd,           \* per reader: [pc, at, widen, gate, got]
          faults

vars == <<cache, gates, locked, gate_ids, evictions, backed_off, rd, faults>>

-----------------------------------------------------------------------------
(* The byte-capped lists. *)

\* The elements of s that are in T, in their order.
Only(s, T) == FlattenSeq([n \in DOMAIN s |-> IF s[n] \in T THEN <<s[n]>> ELSE <<>>])

\* A slip: keys without the store.
by_path(call) == call.path

\* The key of a file: the scan's object-store URL and the path.
key_of(call) == <<call.store, call.path>>

\* What the object store holds under a key.
content(call, part) == <<call.store, call.path, part>>

\* The values under some keys, <<>> where there is none.
values(c, keys) ==
  [n \in DOMAIN keys |->
     LET hits == {m \in DOMAIN c.entries : c.entries[m].key = keys[n]}
     IN  IF hits = {} THEN <<>> ELSE c.entries[CHOOSE m \in hits : TRUE].value]

KeysOf(c) == {e.key : e \in Range(c.entries)}

\* A hit moves the entry to the recent end.
touched(c, keys) ==
  LET hits == Only(keys, KeysOf(c))
  IN  [c EXCEPT !.entries = Only(@, {e \in Range(@) : e.key \notin Range(keys)})
         \o [n \in DOMAIN hits |-> CHOOSE e \in Range(c.entries) : e.key = hits[n]]]

Weight(entries) == MapThenSumSet(LAMBDA n : entries[n].weight, DOMAIN entries)

\* The least recently used entries are dropped until the rest fit.
shrink(entries, total, cap) ==
  LET dropped == {n \in 0..Len(entries) : total - Weight(SubSeq(entries, 1, n)) <= cap} \cup {Len(entries)}
      drop    == Min(dropped)
  IN  [entries |-> SubSeq(entries, drop + 1, Len(entries)),
       total |-> total - Weight(SubSeq(entries, 1, drop))]

\* An entry that is larger than the cap is skipped; one under the same key is
\* replaced and its bytes are given back; then the list is shrunk.  (Shrinking
\* after each of several entries leaves what shrinking after the last leaves.)
fitting(es, cap) == Only(es, {e \in Range(es) : e.weight <= cap})

replaced(c, es) == {e \in Range(c.entries) : \E f \in Range(es) : e.key = f.key}

insert(c, es, cap) ==
  {shrink(kept \o es, total, cap) :
     kept  \in {Only(c.entries, Range(c.entries) \ replaced(c, es))},
     total \in {c.total - Weight(Only(c.entries, replaced(c, es))) + Weight(es)}}

\* The bytes charged for a range: its length and the key's overhead.
range_weight(range) == 1 + range

-----------------------------------------------------------------------------
(* Readers. *)

Call(r) == Programs[r][rd[r].at]

Keys(r) == [n \in DOMAIN Call(r).ranges |-> <<key_of(Call(r)), Call(r).ranges[n]>>]

Finished(r) == rd[r].at > Len(Programs[r])

Init ==
  /\ cache = [k \in Kinds |-> [entries |-> <<>>, total |-> 0]]
  /\ gates = <<>>
  /\ locked = {}
  /\ gate_ids = 0
  /\ evictions = 0
  /\ backed_off = FALSE
  /\ rd = [r \in Readers |-> [pc |-> "call", at |-> 1, widen |-> FALSE, gate |-> 0,
                              got |-> <<>>, expected |-> <<>>]]
  /\ faults = 0

\* The call of a reader returns: what it got is compared with what the files hold.
Answer(r, got) ==
  rd' = [rd EXCEPT ![r] = [pc |-> "call", at |-> rd[r].at + 1, widen |-> FALSE, gate |-> 0,
                           got |-> got,
                           expected |-> [n \in DOMAIN Call(r).ranges |-> content(Call(r), Call(r).ranges[n])]]]

\* The first lookup of a call, all ranges of it; a call that misses goes on to
\* fetch, a footer that misses with the cache on goes to its gate first.
Lookup(r) ==
  /\ ~Finished(r) /\ rd[r].pc = "call"
  /\ \E k \in {Call(r).kind} :
     \E found \in {values(cache[k], Keys(r))} :
         IF \A n \in DOMAIN found : found[n] # <<>>
         THEN Answer(r, found)
         ELSE rd' = [rd EXCEPT ![r].pc = IF k = "footer" /\ Cap[k] # 0 THEN "gate" ELSE "fetch",
                               ![r].got = found]
  /\ cache' = [cache EXCEPT ![Call(r).kind] = touched(@, Keys(r))]
  /\ UNCHANGED <<gates, locked, gate_ids, evictions, backed_off, faults>>

\* The gate of a file: the one in the list, or a new one, which may push the
\* least recently used out.
inflight_gate(key) ==
  LET known == {g \in Range(gates) : g.key = key}
  IN  IF known # {} THEN CHOOSE g \in known : TRUE ELSE [key |-> key, id |-> gate_ids + 1]

\* The list once gate g is the most recently used.
GatesWith(g) ==
  LET list == Append(Only(gates, Range(gates) \ {g}), g)
  IN  IF Len(list) > GatesCap THEN Tail(list) ELSE list

\* A slip: a contender waits for the gate.
gate_waits(g) == g.id \notin locked

\* A contender goes on whether or not it gets the gate (try_lock).
gate_passes(g) == TRUE

\* The gate is tried and the cache looked up once more; a reader that still
\* misses decides now whether to ask for the page index as well.
Gate(r) ==
  /\ rd[r].pc = "gate"
  /\ LET g     == inflight_gate(key_of(Call(r)))
         again == values(cache["footer"], Keys(r))[1]
     IN  /\ gate_passes(g)
         /\ gates' = GatesWith(g)
         /\ gate_ids' = IF g.id > gate_ids THEN g.id ELSE gate_ids
         /\ cache' = [cache EXCEPT !["footer"] = touched(@, Keys(r))]
         /\ IF again # <<>>
            THEN Answer(r, <<again>>) /\ UNCHANGED locked
            ELSE /\ rd' = [rd EXCEPT ![r].pc = "fetch", ![r].widen = ~backed_off,
                                     ![r].gate = IF g.id \in locked THEN 0 ELSE g.id]
                 /\ locked' = locked \cup {g.id}
  /\ UNCHANGED <<evictions, backed_off, faults>>

\* The query polls this reader's fetch.
Polled(r) == rd[r].pc = "fetch" /\ \A q \in WaitsFor[r] : Finished(q)

\* The parts that were missing when the call looked, in the order of the call.
Missing(r) ==
  Only([n \in DOMAIN rd[r].got |-> n], {n \in DOMAIN rd[r].got : rd[r].got[n] = <<>>})

\* What a fetched part becomes: a footer with its page index weighs more.
EntryOf(r, n) ==
  LET call == Call(r)
  IN  [key |-> <<key_of(call), call.ranges[n]>>, value |-> content(call, call.ranges[n]),
       weight |-> CASE call.kind = "footer" -> IF rd[r].widen THEN 2 ELSE 1
                    [] call.kind = "ranges" -> range_weight(call.ranges[n])
                    [] OTHER -> 1]

\* The fetch ends: every missing part is put into the cache and takes its
\* place among the hits.  Footer evictions are counted, and past the threshold
\* page indexes are not asked for any more.
Fetch(r) ==
  /\ Polled(r)
  /\ \E k \in {Call(r).kind} :
     \E missing \in {Missing(r)} :
     \E new \in {[n \in DOMAIN missing |-> EntryOf(r, missing[n])]} :
     \E fits \in {fitting(new, Cap[k])} :
     \E after \in insert(cache[k], fits, Cap[k]) :
         /\ cache' = IF Cap[k] = 0 THEN cache ELSE [cache EXCEPT ![k] = after]
         /\ evictions' = IF Cap[k] = 0 \/ k # "footer" THEN evictions
                         ELSE evictions + Cardinality(KeysOf(cache[k]) \ KeysOf(after))
         /\ backed_off' = (backed_off \/ evictions' > Backoff)
         /\ Answer(r, [n \in DOMAIN rd[r].got |->
                         IF rd[r].got[n] = <<>> THEN EntryOf(r, n).value ELSE rd[r].got[n]])
  /\ locked' = locked \ {rd[r].gate}
  /\ UNCHANGED <<gates, gate_ids, faults>>

\* The fetch fails, or the query drops the reader: nothing is cached and the
\* gate is released.
Abandon(r) ==
  /\ rd[r].pc = "fetch" /\ faults < MaxFaults
  /\ faults' = faults + 1
  /\ rd' = [rd EXCEPT ![r] = [@ EXCEPT !.pc = "call", !.at = Len(Programs[r]) + 1, !.gate = 0,
                                       !.got = <<>>, !.expected = <<>>]]
  /\ locked' = locked \ {rd[r].gate}
  /\ UNCHANGED <<cache, gates, gate_ids, evictions, backed_off>>

Step(r) == Lookup(r) \/ Gate(r) \/ Fetch(r)

Next == \E r \in Readers : Step(r) \/ Abandon(r)

\* A reader that is polled makes progress.
Spec == Init /\ [][Next]_vars /\ \A r \in Readers : WF_vars(Step(r))

-----------------------------------------------------------------------------
(* Properties. *)

\* A call returns exactly the bytes of the file it asked for, part by part in
\* the order it asked for them: through hits, misses and evictions of the
\* same path on another store, and with other readers filling the cache.
ReadsExact == \A r \in Readers : rd[r].pc = "call" => rd[r].got = rd[r].expected

\* Every reader finishes, although a join's probe side is not polled before
\* the build side is done and both read the same file: the cycle that blocking
\* gates closed on cold TPC-H runs (parquet_metadata_cache.rs, module doc).
AllFinished == \A r \in Readers : Finished(r)

ReadersFinish == <>AllFinished
=============================================================================
