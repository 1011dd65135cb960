-------------------------- MODULE PrefixCacheProofs --------------------------
(***************************************************************************)
(* Proofs about PrefixCacheClient for every set of entries, every prompt   *)
(* set, every bound and every setting of the cache.  The lemmas about one  *)
(* operation of the cache say that it keeps Good, the part of the          *)
(* inductive invariant that is about the cache alone, and what it does to  *)
(* the fields that the ownership part is about.                            *)
(***************************************************************************)
EXTENDS PrefixCacheClient, FiniteSetTheorems, TLAPS

\* c is a record with exactly the fields of EmptyCache.
IsCache(c) ==
    DOMAIN c = {"seqs", "states", "windows", "lrus", "lruSeqs", "counter",
                "pending", "kv", "available", "idCnt"}

\* The state map covers the tree, and the LRU maps are inverse to each other on
\* the recycling sequences.
GoodMaps(c) ==
    /\ IsCache(c)
    /\ c.states \in [DOMAIN c.seqs -> {"kActive", "kRecycling"}]
    /\ c.windows \in [DOMAIN c.seqs -> {Window}]
    /\ c.counter \in Nat
    /\ DOMAIN c.lrus = {s \in DOMAIN c.states : c.states[s] = "kRecycling"}
    /\ \A s \in DOMAIN c.lrus : /\ c.lrus[s] \in 1..c.counter
                                /\ c.lrus[s] \in DOMAIN c.lruSeqs
                                /\ c.lruSeqs[c.lrus[s]] = s
    /\ \A l \in DOMAIN c.lruSeqs : /\ c.lruSeqs[l] \in DOMAIN c.lrus
                                   /\ c.lrus[c.lruSeqs[l]] = l

\* The recycling sequences are finitely many, at most k of them if there is a
\* limit at all.
BoundedBy(c, k) ==
    /\ IsFiniteSet(DOMAIN c.lrus)
    /\ MaxRecycling >= 0 => Cardinality(DOMAIN c.lrus) <= k

\* Ids in circulation are below idCnt and the available ones are distinct and
\* not in the cache.
GoodIds(c) ==
    /\ c.idCnt \in Nat
    /\ DOMAIN c.seqs \subseteq 0..(c.idCnt - 1)
    /\ c.available \in Seq(0..(c.idCnt - 1))
    /\ \A i, j \in DOMAIN c.available : c.available[i] = c.available[j] => i = j
    /\ Ids(c.available) \cap DOMAIN c.seqs = {}

----------------------------------------------------------------------------
(* The id manager                                                          *)

\* A stack of distinct ids, when one is taken from its top.
LEMMA FrontFacts ==
    ASSUME NEW S, NEW q \in Seq(S), q # <<>>
    PROVE  /\ Front(q) \in Seq(S)
           /\ Last(q) \in S
           /\ Last(q) = q[Len(q)] /\ Len(q) \in DOMAIN q
           /\ DOMAIN Front(q) = DOMAIN q \ {Len(q)}
           /\ \A i \in DOMAIN Front(q) : Front(q)[i] = q[i]
  BY DEF Front, Last

\* A stack of ids, when one is pushed.
LEMMA AppendFacts ==
    ASSUME NEW S, NEW q \in Seq(S), NEW x \in S
    PROVE  /\ Append(q, x) \in Seq(S)
           /\ DOMAIN Append(q, x) = DOMAIN q \cup {Len(q) + 1}
           /\ Len(q) + 1 \notin DOMAIN q
           /\ \A i \in DOMAIN q : Append(q, x)[i] = q[i]
           /\ Append(q, x)[Len(q) + 1] = x
  OBVIOUS

\* GetNewId returns an id that nobody has: not in the cache, not available any
\* more, and, if it is not new, one that was available.
LEMMA GetNewIdFacts ==
    ASSUME NEW c, GoodMaps(c), GoodIds(c)
    PROVE  /\ GoodMaps(GetNewId(c)) /\ GoodIds(GetNewId(c))
           /\ GetNewId(c).seqs = c.seqs /\ GetNewId(c).states = c.states
           /\ GetNewId(c).kv = c.kv /\ GetNewId(c).lrus = c.lrus
           /\ GetNewId(c).pending = c.pending
           /\ c.idCnt <= GetNewId(c).idCnt
           /\ NewId(c) \in 0..(GetNewId(c).idCnt - 1)
           /\ NewId(c) \notin DOMAIN c.seqs
           /\ NewId(c) \notin Ids(GetNewId(c).available)
           /\ Ids(GetNewId(c).available) \subseteq Ids(c.available)
           /\ NewId(c) \in Ids(c.available) \/ NewId(c) = c.idCnt
<1>1. CASE c.available # <<>>
  <2>1. /\ GetNewId(c) = [c EXCEPT !.available = Front(c.available)]
        /\ NewId(c) = Last(c.available)
    BY <1>1 DEF GetNewId, NewId
  <2>2. IsCache(GetNewId(c)) /\ GetNewId(c).available = Front(c.available)
        /\ GetNewId(c).seqs = c.seqs /\ GetNewId(c).states = c.states
        /\ GetNewId(c).kv = c.kv /\ GetNewId(c).lrus = c.lrus
        /\ GetNewId(c).pending = c.pending /\ GetNewId(c).idCnt = c.idCnt
        /\ GetNewId(c).windows = c.windows /\ GetNewId(c).lruSeqs = c.lruSeqs
        /\ GetNewId(c).counter = c.counter
    BY <2>1 DEF GoodMaps, IsCache
  <2>3. GoodMaps(GetNewId(c))
    BY <2>2 DEF GoodMaps
  <2> DEFINE q == c.available
             S == 0..(c.idCnt - 1)
  <2>4. q \in Seq(S) /\ q # <<>>
    BY <1>1 DEF GoodIds
  <2>5. /\ Front(q) \in Seq(S) /\ Last(q) \in S
        /\ Last(q) = q[Len(q)] /\ Len(q) \in DOMAIN q
        /\ DOMAIN Front(q) = DOMAIN q \ {Len(q)}
        /\ \A i \in DOMAIN Front(q) : Front(q)[i] = q[i]
    BY <2>4, FrontFacts
  <2>6. \A i, j \in DOMAIN q : q[i] = q[j] => i = j
    BY DEF GoodIds
  <2>7. Last(q) \notin Ids(Front(q)) /\ Ids(Front(q)) \subseteq Ids(q) /\ Last(q) \in Ids(q)
    BY <2>5, <2>6 DEF Ids
  <2>8. \A i, j \in DOMAIN Front(q) : Front(q)[i] = Front(q)[j] => i = j
    BY <2>5, <2>6
  <2>9. Last(q) \notin DOMAIN c.seqs
    BY <2>7 DEF GoodIds
  <2>10. c.idCnt \in Nat
    BY DEF GoodIds
  <2>11. GoodIds(GetNewId(c))
    BY <2>2, <2>5, <2>7, <2>8 DEF GoodIds
  <2> QED
    BY <2>1, <2>2, <2>3, <2>5, <2>7, <2>9, <2>10, <2>11
<1>2. CASE c.available = <<>>
  <2>1. GetNewId(c) = [c EXCEPT !.idCnt = c.idCnt + 1] /\ NewId(c) = c.idCnt
    BY <1>2 DEF GetNewId, NewId
  <2>2. IsCache(GetNewId(c)) /\ GetNewId(c).available = c.available
        /\ GetNewId(c).seqs = c.seqs /\ GetNewId(c).states = c.states
        /\ GetNewId(c).kv = c.kv /\ GetNewId(c).lrus = c.lrus
        /\ GetNewId(c).pending = c.pending /\ GetNewId(c).idCnt = c.idCnt + 1
        /\ GetNewId(c).windows = c.windows /\ GetNewId(c).lruSeqs = c.lruSeqs
        /\ GetNewId(c).counter = c.counter
    BY <2>1 DEF GoodMaps, IsCache
  <2>3. GoodMaps(GetNewId(c))
    BY <2>2 DEF GoodMaps
  <2>4. Ids(c.available) = {} /\ c.idCnt \in Nat /\ DOMAIN c.available = {}
    BY <1>2 DEF GoodIds, Ids
  <2>5. DOMAIN c.seqs \subseteq 0..(c.idCnt - 1)
    BY DEF GoodIds
  <2>6. GoodIds(GetNewId(c))
    BY <1>2, <2>2, <2>4, <2>5 DEF GoodIds
  <2> QED
    BY <2>1, <2>2, <2>3, <2>4, <2>5, <2>6
<1> QED
  BY <1>1, <1>2

\* RecycleId puts back an id that nobody has.
LEMMA RecycleIdFacts ==
    ASSUME NEW c, IsCache(c), GoodIds(c), NEW x \in 0..(c.idCnt - 1),
           x \notin Ids(c.available), x \notin DOMAIN c.seqs
    PROVE  LET d == RecycleId(c, x)
           IN  /\ IsCache(d) /\ GoodIds(d) /\ (GoodMaps(c) => GoodMaps(d))
               /\ Ids(d.available) = Ids(c.available) \cup {x}
               /\ d.seqs = c.seqs /\ d.states = c.states /\ d.windows = c.windows
               /\ d.lrus = c.lrus /\ d.lruSeqs = c.lruSeqs /\ d.counter = c.counter
               /\ d.kv = c.kv /\ d.pending = c.pending /\ d.idCnt = c.idCnt
<1> DEFINE d == RecycleId(c, x)
<1>1. IsCache(d) /\ d.available = Append(c.available, x)
      /\ d.seqs = c.seqs /\ d.states = c.states /\ d.kv = c.kv /\ d.lrus = c.lrus
      /\ d.pending = c.pending /\ d.idCnt = c.idCnt /\ d.windows = c.windows
      /\ d.lruSeqs = c.lruSeqs /\ d.counter = c.counter
  BY DEF IsCache, RecycleId
<1>2. GoodMaps(c) => GoodMaps(d)
  BY <1>1 DEF GoodMaps
<1> DEFINE q == c.available
           S == 0..(c.idCnt - 1)
<1>3. q \in Seq(S) /\ \A i, j \in DOMAIN q : q[i] = q[j] => i = j
  BY DEF GoodIds
<1>4. /\ Append(q, x) \in Seq(S)
      /\ DOMAIN Append(q, x) = DOMAIN q \cup {Len(q) + 1}
      /\ Len(q) + 1 \notin DOMAIN q
      /\ \A i \in DOMAIN q : Append(q, x)[i] = q[i]
      /\ Append(q, x)[Len(q) + 1] = x
  BY <1>3, AppendFacts
<1>5. Ids(Append(q, x)) = Ids(q) \cup {x}
  BY <1>4 DEF Ids
<1>6. \A i \in DOMAIN q : q[i] # x
  BY DEF Ids
<1>7. \A i, j \in DOMAIN Append(q, x) : Append(q, x)[i] = Append(q, x)[j] => i = j
  BY <1>3, <1>4, <1>6
<1>8. GoodIds(d)
  BY <1>1, <1>4, <1>5, <1>7 DEF GoodIds
<1> QED
  BY <1>1, <1>2, <1>5, <1>8

----------------------------------------------------------------------------
(* The prefix cache                                                        *)

\* A commit changes only the tokens of the sequences that are there.
LEMMA CommitFacts ==
    ASSUME NEW c, NEW b, GoodMaps(c)
    PROVE  LET d == CommitSequenceExtention(c, b)
           IN  /\ GoodMaps(d) /\ (GoodIds(c) => GoodIds(d))
               /\ DOMAIN d.seqs = DOMAIN c.seqs /\ d.states = c.states
               /\ d.windows = c.windows /\ d.lrus = c.lrus /\ d.lruSeqs = c.lruSeqs
               /\ d.kv = c.kv /\ d.pending = <<>>
               /\ d.available = c.available /\ d.idCnt = c.idCnt
<1> DEFINE d == CommitSequenceExtention(c, b)
<1>1. IsCache(d) /\ DOMAIN d.seqs = DOMAIN c.seqs /\ d.states = c.states
      /\ d.windows = c.windows /\ d.lrus = c.lrus /\ d.lruSeqs = c.lruSeqs
      /\ d.kv = c.kv /\ d.pending = <<>> /\ d.counter = c.counter
      /\ d.available = c.available /\ d.idCnt = c.idCnt
  BY DEF GoodMaps, IsCache, CommitSequenceExtention
<1>2. GoodMaps(d)
  BY <1>1 DEF GoodMaps
<1>3. GoodIds(c) => GoodIds(d)
  BY <1>1 DEF GoodIds
<1> QED
  BY <1>1, <1>2, <1>3

\* A new sequence is active.
LEMMA NewSequenceFacts ==
    ASSUME NEW c, NEW s, NEW toks, GoodMaps(c), s \notin DOMAIN c.seqs
    PROVE  LET d == NewSequence(c, s, toks, Window)
           IN  /\ GoodMaps(d)
               /\ DOMAIN d.seqs = DOMAIN c.seqs \cup {s}
               /\ d.states[s] = "kActive"
               /\ \A t \in DOMAIN c.seqs : d.states[t] = c.states[t]
               /\ d.lrus = c.lrus /\ d.kv = c.kv /\ d.pending = c.pending
               /\ d.available = c.available /\ d.idCnt = c.idCnt
<1> DEFINE d == NewSequence(c, s, toks, Window)
<1>1. IsCache(d) /\ d.seqs = Put(c.seqs, s, toks) /\ d.states = Put(c.states, s, "kActive")
      /\ d.windows = Put(c.windows, s, Window) /\ d.lrus = c.lrus /\ d.lruSeqs = c.lruSeqs
      /\ d.kv = c.kv /\ d.pending = c.pending /\ d.counter = c.counter
      /\ d.available = c.available /\ d.idCnt = c.idCnt
  BY DEF GoodMaps, IsCache, NewSequence
<1>2. /\ DOMAIN d.seqs = DOMAIN c.seqs \cup {s}
      /\ d.states \in [DOMAIN d.seqs -> {"kActive", "kRecycling"}]
      /\ d.windows \in [DOMAIN d.seqs -> {Window}]
      /\ d.states[s] = "kActive"
      /\ \A t \in DOMAIN c.seqs : d.states[t] = c.states[t]
  BY <1>1 DEF GoodMaps, Put
<1>3. {t \in DOMAIN d.states : d.states[t] = "kRecycling"}
        = {t \in DOMAIN c.states : c.states[t] = "kRecycling"}
  BY <1>2 DEF GoodMaps
<1>4. GoodMaps(d)
  BY <1>1, <1>2, <1>3 DEF GoodMaps
<1> QED
  BY <1>1, <1>2, <1>4

\* A reused sequence becomes active and leaves both LRU maps.
LEMMA ReuseFacts ==
    ASSUME NEW c, NEW s, GoodMaps(c), s \in DOMAIN c.states, c.states[s] = "kRecycling"
    PROVE  LET d == ReuseRecyclingSequence(c, s)
           IN  /\ GoodMaps(d)
               /\ d.seqs = c.seqs /\ d.states[s] = "kActive"
               /\ \A t \in DOMAIN c.seqs : t # s => d.states[t] = c.states[t]
               /\ DOMAIN d.lrus = DOMAIN c.lrus \ {s}
               /\ d.kv = c.kv /\ d.pending = c.pending
               /\ d.available = c.available /\ d.idCnt = c.idCnt
<1> DEFINE d == ReuseRecyclingSequence(c, s)
           l == c.lrus[s]
<1>1. IsCache(d) /\ d.seqs = c.seqs /\ d.states = Put(c.states, s, "kActive")
      /\ d.windows = c.windows /\ d.lrus = Erase(c.lrus, s) /\ d.lruSeqs = Erase(c.lruSeqs, l)
      /\ d.kv = c.kv /\ d.pending = c.pending /\ d.counter = c.counter
      /\ d.available = c.available /\ d.idCnt = c.idCnt
  BY DEF GoodMaps, IsCache, ReuseRecyclingSequence
<1>2. /\ d.states \in [DOMAIN d.seqs -> {"kActive", "kRecycling"}]
      /\ d.states[s] = "kActive"
      /\ \A t \in DOMAIN c.seqs : t # s => d.states[t] = c.states[t]
      /\ DOMAIN c.states = DOMAIN c.seqs /\ DOMAIN d.states = DOMAIN c.seqs
  BY <1>1 DEF GoodMaps, Put
<1>3. s \in DOMAIN c.lrus /\ l \in DOMAIN c.lruSeqs /\ c.lruSeqs[l] = s
  BY DEF GoodMaps
<1>4. /\ DOMAIN d.lrus = DOMAIN c.lrus \ {s} /\ DOMAIN d.lruSeqs = DOMAIN c.lruSeqs \ {l}
      /\ \A t \in DOMAIN d.lrus : d.lrus[t] = c.lrus[t]
      /\ \A k \in DOMAIN d.lruSeqs : d.lruSeqs[k] = c.lruSeqs[k]
  BY <1>1 DEF Erase
<1>5. DOMAIN d.lrus = {t \in DOMAIN d.states : d.states[t] = "kRecycling"}
  BY <1>2, <1>4 DEF GoodMaps
<1>6. \A t \in DOMAIN d.lrus : /\ d.lrus[t] \in 1..d.counter
                               /\ d.lrus[t] \in DOMAIN d.lruSeqs
                               /\ d.lruSeqs[d.lrus[t]] = t
  BY <1>1, <1>3, <1>4 DEF GoodMaps
<1>7. \A k \in DOMAIN d.lruSeqs : /\ d.lruSeqs[k] \in DOMAIN d.lrus
                                  /\ d.lrus[d.lruSeqs[k]] = k
  BY <1>3, <1>4 DEF GoodMaps
<1>8. GoodMaps(d)
  BY <1>1, <1>2, <1>5, <1>6, <1>7 DEF GoodMaps
<1> QED
  BY <1>1, <1>2, <1>4, <1>8

\* A removed sequence leaves the tree, the state maps and the KV cache, and its
\* id becomes available.  (The LRU maps are the caller's business.)
Removal(c, d, s) ==
    /\ IsCache(d) /\ GoodIds(d)
    /\ DOMAIN d.seqs = DOMAIN c.seqs \ {s}
    /\ d.states \in [DOMAIN d.seqs -> {"kActive", "kRecycling"}]
    /\ d.windows \in [DOMAIN d.seqs -> {Window}]
    /\ \A t \in DOMAIN d.seqs : d.states[t] = c.states[t]
    /\ d.lrus = c.lrus /\ d.lruSeqs = c.lruSeqs /\ d.counter = c.counter
    /\ DOMAIN d.kv = DOMAIN c.kv \ {s}
    /\ Ids(d.available) = Ids(c.available) \cup {s}
    /\ d.pending = c.pending /\ d.idCnt = c.idCnt

\* RemoveSequence, the end of RecycleSequence without laziness, is a Removal.
LEMMA RemoveFacts ==
    ASSUME NEW c, NEW s, GoodMaps(c), GoodIds(c), s \in DOMAIN c.seqs
    PROVE  Removal(c, RemoveSequence(c, s), s)
<1> DEFINE e == [c EXCEPT !.seqs = Erase(c.seqs, s), !.states = Erase(c.states, s),
                          !.windows = Erase(c.windows, s)]
           r == RemoveRequestFromModel(e, s)
           d == RemoveSequence(c, s)
<1>1. IsCache(e) /\ e.seqs = Erase(c.seqs, s) /\ e.states = Erase(c.states, s)
      /\ e.windows = Erase(c.windows, s) /\ e.lrus = c.lrus /\ e.lruSeqs = c.lruSeqs
      /\ e.counter = c.counter /\ e.kv = c.kv /\ e.pending = c.pending
      /\ e.available = c.available /\ e.idCnt = c.idCnt
  BY DEF GoodMaps, IsCache
<1>2. IsCache(r) /\ r.seqs = e.seqs /\ r.states = e.states
      /\ r.windows = e.windows /\ r.lrus = c.lrus /\ r.lruSeqs = c.lruSeqs
      /\ r.counter = c.counter /\ r.kv = Erase(c.kv, s) /\ r.pending = c.pending
      /\ r.available = c.available /\ r.idCnt = c.idCnt
  <2> HIDE DEF e
  <2> QED BY <1>1 DEF IsCache, RemoveRequestFromModel
<1>3. d = RecycleId(r, s)
  BY DEF RemoveSequence, RemoveCallback
<1> HIDE DEF e, r, d
<1>4. /\ DOMAIN r.seqs = DOMAIN c.seqs \ {s}
      /\ r.states \in [DOMAIN r.seqs -> {"kActive", "kRecycling"}]
      /\ r.windows \in [DOMAIN r.seqs -> {Window}]
      /\ \A t \in DOMAIN r.seqs : r.states[t] = c.states[t]
      /\ DOMAIN r.kv = DOMAIN c.kv \ {s}
  BY <1>1, <1>2 DEF GoodMaps, Erase
<1>5. s \in 0..(r.idCnt - 1) /\ s \notin Ids(r.available) /\ s \notin DOMAIN r.seqs
  BY <1>2, <1>4 DEF GoodIds
<1>6. GoodIds(r)
  BY <1>2, <1>4 DEF GoodIds
<1>7. /\ IsCache(d) /\ GoodIds(d)
      /\ Ids(d.available) = Ids(r.available) \cup {s}
      /\ d.seqs = r.seqs /\ d.states = r.states /\ d.windows = r.windows
      /\ d.lrus = r.lrus /\ d.lruSeqs = r.lruSeqs /\ d.counter = r.counter
      /\ d.kv = r.kv /\ d.pending = r.pending /\ d.idCnt = r.idCnt
  BY <1>2, <1>3, <1>5, <1>6, RecycleIdFacts
<1>8. Removal(c, d, s)
  BY <1>2, <1>4, <1>7 DEF Removal
<1> QED
  BY <1>8 DEF d

\* Removing an active sequence leaves the LRU maps right.
LEMMA RemoveActive ==
    ASSUME NEW c, NEW s, GoodMaps(c), GoodIds(c), s \in DOMAIN c.seqs,
           c.states[s] = "kActive"
    PROVE  GoodMaps(RemoveSequence(c, s))
<1> DEFINE d == RemoveSequence(c, s)
<1>1. Removal(c, d, s)
  BY RemoveFacts
<1> HIDE DEF d
<1>2. {t \in DOMAIN d.states : d.states[t] = "kRecycling"}
        = {t \in DOMAIN c.states : c.states[t] = "kRecycling"}
  BY <1>1 DEF GoodMaps, Removal
<1>3. GoodMaps(d)
  BY <1>1, <1>2 DEF GoodMaps, Removal
<1> QED
  BY <1>3 DEF d

\* Eviction removes one recycling sequence from everywhere.
LEMMA EvictFacts ==
    ASSUME NEW c, NEW s, GoodMaps(c), GoodIds(c), s \in DOMAIN c.lrus
    PROVE  LET d == Evict(c, s)
           IN  /\ GoodMaps(d) /\ GoodIds(d)
               /\ DOMAIN d.seqs = DOMAIN c.seqs \ {s}
               /\ \A t \in DOMAIN d.seqs : d.states[t] = c.states[t]
               /\ DOMAIN d.lrus = DOMAIN c.lrus \ {s}
               /\ DOMAIN d.kv = DOMAIN c.kv \ {s}
               /\ Ids(d.available) = Ids(c.available) \cup {s}
               /\ d.pending = c.pending /\ d.idCnt = c.idCnt
<1> DEFINE r == RemoveSequence(c, s)
           l == c.lrus[s]
           d == Evict(c, s)
<1>1. s \in DOMAIN c.seqs /\ l \in DOMAIN c.lruSeqs /\ c.lruSeqs[l] = s
  BY DEF GoodMaps
<1>2. Removal(c, r, s)
  BY <1>1, RemoveFacts
<1>3. d = [r EXCEPT !.lrus = Erase(c.lrus, s), !.lruSeqs = Erase(c.lruSeqs, l)]
  BY DEF Evict
<1> HIDE DEF r, d
<1>4. /\ IsCache(d) /\ d.seqs = r.seqs /\ d.states = r.states /\ d.windows = r.windows
      /\ d.lrus = Erase(c.lrus, s) /\ d.lruSeqs = Erase(c.lruSeqs, l)
      /\ d.counter = c.counter /\ d.kv = r.kv /\ d.pending = r.pending
      /\ d.available = r.available /\ d.idCnt = r.idCnt
  BY <1>2, <1>3 DEF IsCache, Removal
<1>5. /\ DOMAIN d.lrus = DOMAIN c.lrus \ {s} /\ DOMAIN d.lruSeqs = DOMAIN c.lruSeqs \ {l}
      /\ \A t \in DOMAIN d.lrus : d.lrus[t] = c.lrus[t]
      /\ \A k \in DOMAIN d.lruSeqs : d.lruSeqs[k] = c.lruSeqs[k]
  BY <1>4 DEF Erase
<1>6. DOMAIN d.lrus = {t \in DOMAIN d.states : d.states[t] = "kRecycling"}
  BY <1>2, <1>4, <1>5 DEF GoodMaps, Removal
<1>7. \A t \in DOMAIN d.lrus : /\ d.lrus[t] \in 1..d.counter
                               /\ d.lrus[t] \in DOMAIN d.lruSeqs
                               /\ d.lruSeqs[d.lrus[t]] = t
  BY <1>1, <1>4, <1>5 DEF GoodMaps
<1>8. \A k \in DOMAIN d.lruSeqs : /\ d.lruSeqs[k] \in DOMAIN d.lrus
                                  /\ d.lrus[d.lruSeqs[k]] = k
  BY <1>1, <1>5 DEF GoodMaps
<1>9. GoodMaps(d)
  BY <1>2, <1>4, <1>6, <1>7, <1>8 DEF GoodMaps, Removal
<1>10. GoodIds(d)
  BY <1>2, <1>4 DEF GoodIds, Removal
<1> QED
  BY <1>2, <1>4, <1>5, <1>9, <1>10 DEF d, Removal

\* A sequence marked for recycling gets a time stamp of its own.
LEMMA MarkFacts ==
    ASSUME NEW c, NEW s, GoodMaps(c), s \in DOMAIN c.seqs, c.states[s] = "kActive"
    PROVE  LET d == MarkRecycling(c, s)
           IN  /\ GoodMaps(d)
               /\ d.seqs = c.seqs
               /\ \A t \in DOMAIN c.seqs : t # s => d.states[t] = c.states[t]
               /\ DOMAIN d.lrus = DOMAIN c.lrus \cup {s} /\ s \notin DOMAIN c.lrus
               /\ d.kv = c.kv /\ d.pending = c.pending
               /\ d.available = c.available /\ d.idCnt = c.idCnt
<1> DEFINE d == MarkRecycling(c, s)
           l == c.counter + 1
<1>1. IsCache(d) /\ d.seqs = c.seqs /\ d.states = Put(c.states, s, "kRecycling")
      /\ d.windows = c.windows /\ d.lrus = Put(c.lrus, s, l) /\ d.lruSeqs = Put(c.lruSeqs, l, s)
      /\ d.kv = c.kv /\ d.pending = c.pending /\ d.counter = l
      /\ d.available = c.available /\ d.idCnt = c.idCnt
  BY DEF GoodMaps, IsCache, MarkRecycling
<1> HIDE DEF d
<1>2. /\ d.states \in [DOMAIN d.seqs -> {"kActive", "kRecycling"}]
      /\ d.states[s] = "kRecycling"
      /\ \A t \in DOMAIN c.seqs : t # s => d.states[t] = c.states[t]
      /\ DOMAIN c.states = DOMAIN c.seqs /\ DOMAIN d.states = DOMAIN c.seqs
  BY <1>1 DEF GoodMaps, Put
<1>3. s \notin DOMAIN c.lrus /\ l \notin DOMAIN c.lruSeqs /\ c.counter \in Nat
  BY DEF GoodMaps
<1>4. /\ DOMAIN d.lrus = DOMAIN c.lrus \cup {s} /\ DOMAIN d.lruSeqs = DOMAIN c.lruSeqs \cup {l}
      /\ \A t \in DOMAIN c.lrus : d.lrus[t] = c.lrus[t]
      /\ \A k \in DOMAIN c.lruSeqs : d.lruSeqs[k] = c.lruSeqs[k]
      /\ d.lrus[s] = l /\ d.lruSeqs[l] = s
  BY <1>1, <1>3 DEF Put
<1>5. DOMAIN d.lrus = {t \in DOMAIN d.states : d.states[t] = "kRecycling"}
  BY <1>2, <1>4 DEF GoodMaps
<1>6. \A t \in DOMAIN d.lrus : /\ d.lrus[t] \in 1..d.counter
                               /\ d.lrus[t] \in DOMAIN d.lruSeqs
                               /\ d.lruSeqs[d.lrus[t]] = t
  BY <1>1, <1>3, <1>4 DEF GoodMaps
<1>7. \A k \in DOMAIN d.lruSeqs : /\ d.lruSeqs[k] \in DOMAIN d.lrus
                                  /\ d.lrus[d.lruSeqs[k]] = k
  BY <1>3, <1>4 DEF GoodMaps
<1>8. GoodMaps(d)
  BY <1>1, <1>2, <1>3, <1>5, <1>6, <1>7 DEF GoodMaps
<1> QED
  BY <1>1, <1>2, <1>3, <1>4, <1>8 DEF d

----------------------------------------------------------------------------
(* Operations of the client on the cache                                   *)

\* What recycling, eviction and removal have in common: from c to d sequences
\* disappear, all of them recycling or s, and only their ids become available.
Released(c, d, s) ==
    /\ GoodMaps(d) /\ GoodIds(d) /\ BoundedBy(d, MaxRecycling)
    /\ DOMAIN d.kv = DOMAIN d.seqs
    /\ DOMAIN d.seqs \subseteq DOMAIN c.seqs
    /\ d.idCnt = c.idCnt
    /\ \A t \in DOMAIN c.seqs : c.states[t] = "kActive" /\ t # s
          => t \in DOMAIN d.seqs /\ d.states[t] = "kActive"
    /\ \A x \in Ids(d.available) :
          \/ x \in Ids(c.available)
          \/ x \in DOMAIN c.seqs /\ (x = s \/ c.states[x] = "kRecycling")

\* TryFreeMemory takes one recycling sequence and leaves room for another.
LEMMA FreeFacts ==
    ASSUME NEW c, NEW d \in TryFreeMemory(c), GoodMaps(c), GoodIds(c),
           BoundedBy(c, MaxRecycling), DOMAIN c.kv = DOMAIN c.seqs
    PROVE  /\ Released(c, d, NoSeq) /\ d.pending = c.pending
           /\ \A t \in DOMAIN d.seqs : d.states[t] = c.states[t]
           /\ MaxRecycling >= 0 => Cardinality(DOMAIN d.lrus) <= MaxRecycling - 1
<1>1. PICK l \in DOMAIN c.lruSeqs : d = Evict(c, c.lruSeqs[l])
  BY DEF TryFreeMemory
<1> DEFINE v == c.lruSeqs[l]
<1>1a. d = Evict(c, v)
  BY <1>1
<1>2. v \in DOMAIN c.lrus
  BY DEF GoodMaps
<1>3. v \in DOMAIN c.seqs /\ c.states[v] = "kRecycling" /\ DOMAIN c.states = DOMAIN c.seqs
  BY <1>2 DEF GoodMaps
<1> HIDE DEF v
<1>3a. LET e == Evict(c, v)
       IN  /\ GoodMaps(e) /\ GoodIds(e)
           /\ DOMAIN e.seqs = DOMAIN c.seqs \ {v}
           /\ \A t \in DOMAIN e.seqs : e.states[t] = c.states[t]
           /\ DOMAIN e.lrus = DOMAIN c.lrus \ {v}
           /\ DOMAIN e.kv = DOMAIN c.kv \ {v}
           /\ Ids(e.available) = Ids(c.available) \cup {v}
           /\ e.pending = c.pending /\ e.idCnt = c.idCnt
  BY <1>2, EvictFacts
<1>4. /\ GoodMaps(d) /\ GoodIds(d)
      /\ DOMAIN d.seqs = DOMAIN c.seqs \ {v}
      /\ \A t \in DOMAIN d.seqs : d.states[t] = c.states[t]
      /\ DOMAIN d.lrus = DOMAIN c.lrus \ {v}
      /\ DOMAIN d.kv = DOMAIN c.kv \ {v}
      /\ Ids(d.available) = Ids(c.available) \cup {v}
      /\ d.pending = c.pending /\ d.idCnt = c.idCnt
  BY <1>1a, <1>3a
<1>5. IsFiniteSet(DOMAIN c.lrus) /\ (MaxRecycling >= 0 => Cardinality(DOMAIN c.lrus) <= MaxRecycling)
  BY DEF BoundedBy
<1>6. /\ IsFiniteSet(DOMAIN d.lrus)
      /\ Cardinality(DOMAIN d.lrus) = Cardinality(DOMAIN c.lrus) - 1
      /\ Cardinality(DOMAIN c.lrus) \in Nat
  BY <1>2, <1>4, <1>5, FS_RemoveElement, FS_CardinalityType
<1>7. MaxRecycling >= 0 => Cardinality(DOMAIN d.lrus) <= MaxRecycling - 1
  BY <1>5, <1>6, MaxRecyclingAssumption
<1>8. BoundedBy(d, MaxRecycling)
  BY <1>5, <1>6, MaxRecyclingAssumption DEF BoundedBy
<1> QED
  BY <1>3, <1>4, <1>7, <1>8 DEF Released

\* RecycleSequence removes the active sequence s or marks it, after evicting one
\* sequence when the limit is reached.
LEMMA RecycleFacts ==
    ASSUME NEW c, NEW b, NEW s, NEW lazy \in BOOLEAN, NEW d \in RecycleSequence(c, b, s, lazy),
           GoodMaps(c), GoodIds(c), BoundedBy(c, MaxRecycling), DOMAIN c.kv = DOMAIN c.seqs,
           s \in DOMAIN c.seqs, c.states[s] = "kActive"
    PROVE  Released(c, d, s) /\ d.pending = <<>>
<1> DEFINE c1 == CommitSequenceExtention(c, b)
<1>1. /\ GoodMaps(c1) /\ GoodIds(c1)
      /\ DOMAIN c1.seqs = DOMAIN c.seqs /\ c1.states = c.states
      /\ c1.lrus = c.lrus /\ c1.kv = c.kv /\ c1.pending = <<>>
      /\ c1.available = c.available /\ c1.idCnt = c.idCnt
  BY CommitFacts
<1>1a. s \in DOMAIN c1.seqs
  BY <1>1
<1>2. BoundedBy(c1, MaxRecycling) /\ DOMAIN c1.kv = DOMAIN c1.seqs
  BY <1>1 DEF BoundedBy
<1>3. \/ MaxRecycling # 0 /\ Cardinality(DOMAIN c1.lrus) = MaxRecycling
         /\ \E c2 \in TryFreeMemory(c1) : d = MarkRecycling(c2, s)
      \/ MaxRecycling # 0 /\ Cardinality(DOMAIN c1.lrus) # MaxRecycling
         /\ d = MarkRecycling(c1, s)
      \/ d = RemoveSequence(c1, s)
  BY DEF RecycleSequence
<1> HIDE DEF c1
<1>4. CASE /\ MaxRecycling # 0 /\ Cardinality(DOMAIN c1.lrus) = MaxRecycling
           /\ \E c2 \in TryFreeMemory(c1) : d = MarkRecycling(c2, s)
  <2>1. PICK c2 \in TryFreeMemory(c1) : d = MarkRecycling(c2, s)
    BY <1>4
  <2>2. /\ Released(c1, c2, NoSeq) /\ c2.pending = <<>>
        /\ MaxRecycling >= 0 => Cardinality(DOMAIN c2.lrus) <= MaxRecycling - 1
    BY <1>1, <1>2, FreeFacts
  <2>3. \A t \in DOMAIN c.seqs : t # NoSeq
    BY DEF GoodIds, NoSeq
  <2>4. s \in DOMAIN c2.seqs /\ c2.states[s] = "kActive" /\ GoodMaps(c2) /\ GoodIds(c2)
        /\ IsFiniteSet(DOMAIN c2.lrus)
    BY <1>1, <2>2, <2>3 DEF Released, BoundedBy
  <2>5. /\ GoodMaps(d) /\ d.seqs = c2.seqs
        /\ \A t \in DOMAIN c2.seqs : t # s => d.states[t] = c2.states[t]
        /\ DOMAIN d.lrus = DOMAIN c2.lrus \cup {s} /\ s \notin DOMAIN c2.lrus
        /\ d.kv = c2.kv /\ d.pending = c2.pending
        /\ d.available = c2.available /\ d.idCnt = c2.idCnt
    BY <2>1, <2>4, MarkFacts
  <2>6. /\ IsFiniteSet(DOMAIN d.lrus)
        /\ Cardinality(DOMAIN d.lrus) = Cardinality(DOMAIN c2.lrus) + 1
        /\ Cardinality(DOMAIN c2.lrus) \in Nat
    BY <2>4, <2>5, FS_AddElement, FS_CardinalityType
  <2>7. BoundedBy(d, MaxRecycling)
    BY <2>2, <2>6, MaxRecyclingAssumption DEF BoundedBy
  <2>8. GoodIds(d)
    BY <2>4, <2>5 DEF GoodIds
  <2> QED
    BY <1>1, <2>2, <2>3, <2>5, <2>7, <2>8 DEF Released
<1>5. CASE /\ MaxRecycling # 0 /\ Cardinality(DOMAIN c1.lrus) # MaxRecycling
           /\ d = MarkRecycling(c1, s)
  <2>1. /\ GoodMaps(d) /\ d.seqs = c1.seqs
        /\ \A t \in DOMAIN c1.seqs : t # s => d.states[t] = c1.states[t]
        /\ DOMAIN d.lrus = DOMAIN c1.lrus \cup {s} /\ s \notin DOMAIN c1.lrus
        /\ d.kv = c1.kv /\ d.pending = c1.pending
        /\ d.available = c1.available /\ d.idCnt = c1.idCnt
    BY <1>1, <1>5, MarkFacts
  <2>2. IsFiniteSet(DOMAIN c1.lrus)
    BY <1>2 DEF BoundedBy
  <2>3. /\ IsFiniteSet(DOMAIN d.lrus)
        /\ Cardinality(DOMAIN d.lrus) = Cardinality(DOMAIN c1.lrus) + 1
        /\ Cardinality(DOMAIN c1.lrus) \in Nat
    BY <2>1, <2>2, FS_AddElement, FS_CardinalityType
  <2>4. BoundedBy(d, MaxRecycling)
    BY <1>2, <1>5, <2>3, MaxRecyclingAssumption DEF BoundedBy
  <2>5. GoodIds(d)
    BY <1>1, <2>1 DEF GoodIds
  <2> QED
    BY <1>1, <1>2, <2>1, <2>4, <2>5 DEF Released
<1>6. CASE d = RemoveSequence(c1, s)
  <2>1. Removal(c1, d, s)
    BY <1>1, <1>1a, <1>6, RemoveFacts
  <2>2. GoodMaps(d)
    BY <1>1, <1>1a, <1>6, RemoveActive
  <2>3. BoundedBy(d, MaxRecycling)
    BY <1>2, <2>1 DEF BoundedBy, Removal
  <2> QED
    BY <1>1, <1>2, <2>1, <2>2, <2>3 DEF Released, Removal
<1> QED
  BY <1>3, <1>4, <1>5, <1>6

\* A roll back changes only the tokens.
SameButTokens(c, d) ==
    /\ GoodMaps(d) /\ GoodIds(d)
    /\ DOMAIN d.seqs = DOMAIN c.seqs /\ d.states = c.states /\ d.lrus = c.lrus
    /\ d.kv = c.kv /\ d.available = c.available /\ d.idCnt = c.idCnt /\ d.pending = <<>>

\* RollBackSequence leaves everything but tokens.
LEMMA RollBackFacts ==
    ASSUME NEW c, NEW b, NEW s, NEW n, GoodMaps(c), GoodIds(c), s \in DOMAIN c.seqs
    PROVE  SameButTokens(c, RollBackSequence(c, b, s, n))
<1> DEFINE c1 == CommitSequenceExtention(c, b)
           d  == RollBackSequence(c, b, s, n)
<1>1. /\ GoodMaps(c1) /\ GoodIds(c1)
      /\ DOMAIN c1.seqs = DOMAIN c.seqs /\ c1.states = c.states
      /\ c1.lrus = c.lrus /\ c1.kv = c.kv /\ c1.pending = <<>>
      /\ c1.available = c.available /\ c1.idCnt = c.idCnt
  BY CommitFacts
<1>2. d = [c1 EXCEPT !.seqs = Put(c1.seqs, s, DropLast(c1.seqs[s], n))]
  BY DEF RollBackSequence
<1> HIDE DEF c1, d
<1>3. IsCache(d) /\ d.seqs = Put(c1.seqs, s, DropLast(c1.seqs[s], n))
      /\ d.states = c1.states /\ d.windows = c1.windows /\ d.lrus = c1.lrus
      /\ d.lruSeqs = c1.lruSeqs /\ d.counter = c1.counter /\ d.pending = c1.pending
      /\ d.kv = c1.kv /\ d.available = c1.available /\ d.idCnt = c1.idCnt
  BY <1>1, <1>2 DEF IsCache, GoodMaps
<1>4. DOMAIN d.seqs = DOMAIN c1.seqs
  BY <1>1, <1>3 DEF Put
<1>5. GoodMaps(d)
  BY <1>1, <1>3, <1>4 DEF GoodMaps
<1>6. GoodIds(d)
  BY <1>1, <1>3, <1>4 DEF GoodIds
<1>7. SameButTokens(c, d)
  BY <1>1, <1>3, <1>4, <1>5, <1>6 DEF SameButTokens
<1> QED
  BY <1>7 DEF d

\* From c to d an active sequence m is obtained that was not there, or was
\* recycling; nothing else changes but tokens.
Obtained(c, d, m) ==
    /\ GoodMaps(d) /\ BoundedBy(d, MaxRecycling)
    /\ m \in DOMAIN c.seqs => c.states[m] = "kRecycling"
    /\ DOMAIN d.seqs = DOMAIN c.seqs \cup {m}
    /\ d.states[m] = "kActive"
    /\ \A t \in DOMAIN c.seqs : t # m => d.states[t] = c.states[t]
    /\ d.kv = c.kv /\ d.pending = <<>>
    /\ d.available = c.available /\ d.idCnt = c.idCnt

\* Reusing a recycling sequence obtains it, also when it is then cut.
LEMMA ObtainReused ==
    ASSUME NEW c, NEW m, GoodMaps(c), BoundedBy(c, MaxRecycling), c.pending = <<>>,
           m \in DOMAIN c.seqs, c.states[m] = "kRecycling", NEW d, NEW toks,
           \/ d = ReuseRecyclingSequence(c, m)
           \/ d = [ReuseRecyclingSequence(c, m) EXCEPT !.seqs = Put(c.seqs, m, toks)]
    PROVE  Obtained(c, d, m)
<1> DEFINE r == ReuseRecyclingSequence(c, m)
<1>0. DOMAIN c.states = DOMAIN c.seqs
  BY DEF GoodMaps
<1>1. LET e == ReuseRecyclingSequence(c, m)
      IN  /\ GoodMaps(e)
          /\ e.seqs = c.seqs /\ e.states[m] = "kActive"
          /\ \A t \in DOMAIN c.seqs : t # m => e.states[t] = c.states[t]
          /\ DOMAIN e.lrus = DOMAIN c.lrus \ {m}
          /\ e.kv = c.kv /\ e.pending = c.pending
          /\ e.available = c.available /\ e.idCnt = c.idCnt
  BY <1>0, ReuseFacts
<1>2. /\ GoodMaps(r)
      /\ r.seqs = c.seqs /\ r.states[m] = "kActive"
      /\ \A t \in DOMAIN c.seqs : t # m => r.states[t] = c.states[t]
      /\ DOMAIN r.lrus = DOMAIN c.lrus \ {m}
      /\ r.kv = c.kv /\ r.pending = c.pending
      /\ r.available = c.available /\ r.idCnt = c.idCnt
  BY <1>1
<1>3. d = r \/ d = [r EXCEPT !.seqs = Put(c.seqs, m, toks)]
  OBVIOUS
<1> HIDE DEF r
<1>4. /\ IsCache(d) /\ d.states = r.states /\ d.windows = r.windows /\ d.lrus = r.lrus
      /\ d.lruSeqs = r.lruSeqs /\ d.counter = r.counter /\ d.kv = r.kv
      /\ d.pending = r.pending /\ d.available = r.available /\ d.idCnt = r.idCnt
      /\ d.seqs = r.seqs \/ d.seqs = Put(c.seqs, m, toks)
  BY <1>2, <1>3 DEF GoodMaps, IsCache
<1>5. DOMAIN d.seqs = DOMAIN c.seqs
  BY <1>2, <1>4 DEF Put
<1>6. GoodMaps(d)
  BY <1>2, <1>4, <1>5 DEF GoodMaps
<1>7. IsFiniteSet(DOMAIN c.lrus) /\ (MaxRecycling >= 0 => Cardinality(DOMAIN c.lrus) <= MaxRecycling)
  BY DEF BoundedBy
<1>8. /\ IsFiniteSet(DOMAIN d.lrus)
      /\ Cardinality(DOMAIN c.lrus) \in Nat
      /\ Cardinality(DOMAIN d.lrus) \in {Cardinality(DOMAIN c.lrus) - 1, Cardinality(DOMAIN c.lrus)}
  BY <1>2, <1>4, <1>7, FS_RemoveElement, FS_CardinalityType
<1>9. BoundedBy(d, MaxRecycling)
  BY <1>7, <1>8, MaxRecyclingAssumption DEF BoundedBy
<1> QED
  BY <1>2, <1>4, <1>5, <1>6, <1>9 DEF Obtained

\* InsertSequence obtains the reused sequence, or s if it reuses none.
LEMMA InsertFacts ==
    ASSUME NEW c, NEW b, NEW s, NEW toks, NEW o \in InsertSequence(c, b, s, toks, Window),
           GoodMaps(c), GoodIds(c), BoundedBy(c, MaxRecycling), s \notin DOMAIN c.seqs
    PROVE  \/ o.res.reused = NoSeq /\ Obtained(c, o.c, s)
           \/ /\ o.res.reused # NoSeq /\ o.res.reused \in DOMAIN c.seqs
              /\ Obtained(c, o.c, o.res.reused)
<1> DEFINE c1 == CommitSequenceExtention(c, b)
           off == MatchedOffset(c1, Front(toks))
           matched == MatchedSeqs(c1, Front(toks))
<1>1. /\ GoodMaps(c1) /\ GoodIds(c1)
      /\ DOMAIN c1.seqs = DOMAIN c.seqs /\ c1.states = c.states
      /\ c1.lrus = c.lrus /\ c1.kv = c.kv /\ c1.pending = <<>>
      /\ c1.available = c.available /\ c1.idCnt = c.idCnt
  BY CommitFacts
<1>2. BoundedBy(c1, MaxRecycling) /\ s \notin DOMAIN c1.seqs
  BY <1>1 DEF BoundedBy
<1>3. o \in PlaceSequence(c1, s, off, matched, Window)
  BY DEF InsertSequence
<1>4. matched \subseteq DOMAIN c1.seqs
  BY DEF MatchedSeqs
<1> HIDE DEF c1, off, matched
<1>5. \/ \E m \in Reusable(c1, matched, Window) : \E t :
            /\ o.res.reused = m
            /\ \/ o.c = ReuseRecyclingSequence(c1, m)
               \/ o.c = [ReuseRecyclingSequence(c1, m) EXCEPT !.seqs = Put(c1.seqs, m, t)]
      \/ \E t : o.res.reused = NoSeq /\ o.c = NewSequence(c1, s, t, Window)
  <2>1. \/ o \in {[c |-> ReuseRecyclingSequence(c1, m),
                   res |-> Result(off, NoSeq, m, 0)] : m \in Exact(c1, matched, off, Window)}
        \/ o \in {[c |-> [ReuseRecyclingSequence(c1, m) EXCEPT
                              !.seqs = Put(c1.seqs, m, SubSeq(c1.seqs[m], 1, off))],
                   res |-> Result(off, NoSeq, m, Len(c1.seqs[m]) - off)]
                     : m \in Shortest(c1, matched, off, Window)}
        \/ o \in {[c |-> NewSequence(c1, s, SubSeq(c1.seqs[m], 1, off), Window),
                   res |-> Result(off, m, NoSeq, 0)] : m \in Forkable(c1, matched, off)}
        \/ o \in {[c |-> NewSequence(c1, s, <<>>, Window),
                   res |-> Result(0, NoSeq, NoSeq, 0)]}
    <3> DEFINE E == IF Window # NoWindow THEN Exact(c1, matched, off, Window) ELSE {}
               H == IF Window = NoWindow THEN Shortest(c1, matched, off, Window) ELSE {}
               F == IF Window = NoWindow THEN Forkable(c1, matched, off) ELSE {}
    <3>1. CASE off > 0 /\ E # {}
      BY <1>3, <3>1 DEF PlaceSequence
    <3>2. CASE ~(off > 0 /\ E # {}) /\ off > 0 /\ H # {}
      BY <1>3, <3>2 DEF PlaceSequence
    <3>3. CASE ~(off > 0 /\ E # {}) /\ ~(off > 0 /\ H # {}) /\ off > 0 /\ F # {}
      BY <1>3, <3>3 DEF PlaceSequence
    <3>4. CASE ~(off > 0 /\ E # {}) /\ ~(off > 0 /\ H # {}) /\ ~(off > 0 /\ F # {})
      BY <1>3, <3>4 DEF PlaceSequence
    <3> QED
      BY <3>1, <3>2, <3>3, <3>4
  <2>2. CASE o \in {[c |-> ReuseRecyclingSequence(c1, m),
                     res |-> Result(off, NoSeq, m, 0)] : m \in Exact(c1, matched, off, Window)}
    BY <2>2 DEF Exact, Result
  <2>3. CASE o \in {[c |-> [ReuseRecyclingSequence(c1, m) EXCEPT
                                !.seqs = Put(c1.seqs, m, SubSeq(c1.seqs[m], 1, off))],
                     res |-> Result(off, NoSeq, m, Len(c1.seqs[m]) - off)]
                       : m \in Shortest(c1, matched, off, Window)}
    BY <2>3 DEF Shortest, Result
  <2>4. CASE o \in {[c |-> NewSequence(c1, s, SubSeq(c1.seqs[m], 1, off), Window),
                     res |-> Result(off, m, NoSeq, 0)] : m \in Forkable(c1, matched, off)}
    BY <2>4 DEF Result
  <2>5. CASE o \in {[c |-> NewSequence(c1, s, <<>>, Window),
                     res |-> Result(0, NoSeq, NoSeq, 0)]}
    BY <2>5 DEF Result
  <2> QED
    BY <2>1, <2>2, <2>3, <2>4, <2>5
<1>6. CASE \E m \in Reusable(c1, matched, Window) : \E t :
              /\ o.res.reused = m
              /\ \/ o.c = ReuseRecyclingSequence(c1, m)
                 \/ o.c = [ReuseRecyclingSequence(c1, m) EXCEPT !.seqs = Put(c1.seqs, m, t)]
  <2>1. PICK m, t :
            /\ m \in Reusable(c1, matched, Window)
            /\ o.res.reused = m
            /\ \/ o.c = ReuseRecyclingSequence(c1, m)
               \/ o.c = [ReuseRecyclingSequence(c1, m) EXCEPT !.seqs = Put(c1.seqs, m, t)]
    BY <1>6
  <2>2. m \in DOMAIN c1.seqs /\ c1.states[m] = "kRecycling"
    BY <1>4, <2>1 DEF Reusable
  <2>3. Obtained(c1, o.c, m)
    BY <1>1, <1>2, <2>1, <2>2, ObtainReused
  <2>4. m # NoSeq
    BY <1>1, <2>2 DEF GoodIds, NoSeq
  <2> QED
    BY <1>1, <2>1, <2>2, <2>3, <2>4 DEF Obtained
<1>7. CASE \E t : o.res.reused = NoSeq /\ o.c = NewSequence(c1, s, t, Window)
  <2>1. PICK t : o.res.reused = NoSeq /\ o.c = NewSequence(c1, s, t, Window)
    BY <1>7
  <2>2. LET d == NewSequence(c1, s, t, Window)
        IN  /\ GoodMaps(d)
            /\ DOMAIN d.seqs = DOMAIN c1.seqs \cup {s}
            /\ d.states[s] = "kActive"
            /\ \A u \in DOMAIN c1.seqs : d.states[u] = c1.states[u]
            /\ d.lrus = c1.lrus /\ d.kv = c1.kv /\ d.pending = c1.pending
            /\ d.available = c1.available /\ d.idCnt = c1.idCnt
    BY <1>1, <1>2, NewSequenceFacts
  <2> QED
    BY <1>1, <1>2, <2>1, <2>2 DEF Obtained, BoundedBy
<1> QED
  BY <1>5, <1>6, <1>7

----------------------------------------------------------------------------
(* Ownership: the part of the inductive invariant about entries            *)

EntryFields == {"phase", "id", "prompt", "inputs", "committed", "cached"}

Owns(c, f) ==
    /\ DOMAIN f = Entries
    /\ \A e \in Entries : /\ DOMAIN f[e] = EntryFields
                          /\ f[e].phase \in {"none", "pending", "alive"}
                          /\ f[e].phase = "none" => f[e].id = NoSeq
    /\ \A e \in Entries : f[e].phase # "none" =>
          f[e].id \in 0..(c.idCnt - 1) /\ f[e].id \notin Ids(c.available)
    /\ \A e \in Entries : f[e].phase = "alive" =>
          f[e].id \in DOMAIN c.seqs /\ c.states[f[e].id] = "kActive"
    /\ \A e \in Entries : f[e].phase = "pending" => f[e].id \notin DOMAIN c.seqs
    /\ \A e, g \in Entries :
          f[e].phase # "none" /\ f[g].phase # "none" /\ f[e].id = f[g].id => e = g

\* h is f but for entry e, which has the given phase and id.
Became(f, h, e, phase, id) ==
    /\ DOMAIN h = Entries /\ \A g \in Entries : g # e => h[g] = f[g]
    /\ DOMAIN h[e] = EntryFields
    /\ h[e].phase = phase /\ h[e].id = id

\* Sequences that disappear are those of e or nobody's.
LEMMA OwnsReleased ==
    ASSUME NEW c, NEW d, NEW f, NEW h, NEW e \in Entries, Owns(c, f),
           Released(c, d, f[e].id), f[e].phase = "alive", Became(f, h, e, "none", NoSeq)
    PROVE  Owns(d, h)
<1>1. /\ DOMAIN d.seqs \subseteq DOMAIN c.seqs /\ d.idCnt = c.idCnt
      /\ \A t \in DOMAIN c.seqs : c.states[t] = "kActive" /\ t # f[e].id
            => t \in DOMAIN d.seqs /\ d.states[t] = "kActive"
      /\ \A x \in Ids(d.available) :
            \/ x \in Ids(c.available)
            \/ x \in DOMAIN c.seqs /\ (x = f[e].id \/ c.states[x] = "kRecycling")
  BY DEF Released
<1>2. \A g \in Entries : g # e /\ f[g].phase # "none" => f[g].id # f[e].id
  BY DEF Owns
<1>3. \A g \in Entries : g # e /\ f[g].phase # "none" => f[g].id \notin Ids(d.available)
  BY <1>1, <1>2 DEF Owns
<1>4. \A g \in Entries : g # e /\ f[g].phase = "alive" =>
          f[g].id \in DOMAIN d.seqs /\ d.states[f[g].id] = "kActive"
  BY <1>1, <1>2 DEF Owns
<1> QED
  BY <1>1, <1>3, <1>4 DEF Owns, Became

\* Eviction takes nobody's sequence.
LEMMA OwnsEvicted ==
    ASSUME NEW c, NEW d, NEW f, Owns(c, f), Released(c, d, NoSeq), GoodIds(c)
    PROVE  Owns(d, f)
<1>1. /\ DOMAIN d.seqs \subseteq DOMAIN c.seqs /\ d.idCnt = c.idCnt
      /\ \A t \in DOMAIN c.seqs : c.states[t] = "kActive" /\ t # NoSeq
            => t \in DOMAIN d.seqs /\ d.states[t] = "kActive"
      /\ \A x \in Ids(d.available) :
            \/ x \in Ids(c.available)
            \/ x \in DOMAIN c.seqs /\ (x = NoSeq \/ c.states[x] = "kRecycling")
  BY DEF Released
<1>2. \A t \in DOMAIN c.seqs : t # NoSeq
  BY DEF GoodIds, NoSeq
<1>3. \A g \in Entries : f[g].phase # "none" => f[g].id \notin Ids(d.available)
  BY <1>1, <1>2 DEF Owns
<1> QED
  BY <1>1, <1>2, <1>3 DEF Owns

\* A new id is nobody's.
LEMMA OwnsNewId ==
    ASSUME NEW c, NEW f, NEW h, NEW e \in Entries, Owns(c, f), GoodMaps(c), GoodIds(c),
           f[e].phase = "none", Became(f, h, e, "pending", NewId(c))
    PROVE  Owns(GetNewId(c), h)
<1> DEFINE d == GetNewId(c)
           x == NewId(c)
<1>1. /\ d.seqs = c.seqs /\ d.states = c.states
      /\ c.idCnt <= d.idCnt /\ x \in 0..(d.idCnt - 1)
      /\ x \notin DOMAIN c.seqs /\ x \notin Ids(d.available)
      /\ Ids(d.available) \subseteq Ids(c.available)
      /\ x \in Ids(c.available) \/ x = c.idCnt
      /\ GoodIds(d)
  BY GetNewIdFacts
<1>2. c.idCnt \in Nat /\ d.idCnt \in Nat
  BY <1>1 DEF GoodIds
<1> HIDE DEF d, x
<1>3. \A g \in Entries : f[g].phase # "none" =>
          f[g].id # x /\ f[g].id \in 0..(d.idCnt - 1) /\ f[g].id \notin Ids(d.available)
  BY <1>1, <1>2 DEF Owns
<1>4. Became(f, h, e, "pending", x)
  BY DEF x
<1>5. Owns(d, h)
  BY <1>1, <1>3, <1>4 DEF Owns, Became
<1> QED
  BY <1>5 DEF d

\* An entry that obtains a sequence, and gives its own id back if it is another
\* one, owns it alone.
LEMMA OwnsObtained ==
    ASSUME NEW c, NEW d, NEW f, NEW h, NEW e \in Entries, NEW m, Owns(c, f), GoodIds(c),
           f[e].phase = "pending", m = f[e].id \/ m \in DOMAIN c.seqs,
           m \in DOMAIN c.seqs => c.states[m] = "kRecycling",
           DOMAIN d.seqs = DOMAIN c.seqs \cup {m}, d.states[m] = "kActive",
           \A t \in DOMAIN c.seqs : t # m => d.states[t] = c.states[t],
           d.idCnt = c.idCnt,
           Ids(d.available) \subseteq
               Ids(c.available) \cup (IF m = f[e].id THEN {} ELSE {f[e].id}),
           Became(f, h, e, "alive", m)
    PROVE  Owns(d, h)
<1>1. \A g \in Entries : g # e /\ f[g].phase # "none" => f[g].id # f[e].id /\ f[g].id # m
  BY DEF Owns
<1>2. m \in 0..(d.idCnt - 1) /\ m \notin Ids(d.available)
  BY DEF Owns, GoodIds
<1>3. \A g \in Entries : g # e /\ f[g].phase # "none" => f[g].id \notin Ids(d.available)
  BY <1>1 DEF Owns
<1>4. \A g \in Entries : g # e /\ f[g].phase = "alive" =>
          f[g].id \in DOMAIN d.seqs /\ d.states[f[g].id] = "kActive"
  BY <1>1 DEF Owns
<1>5. \A g \in Entries : g # e /\ f[g].phase = "pending" => f[g].id \notin DOMAIN d.seqs
  BY <1>1 DEF Owns
<1> QED
  BY <1>1, <1>2, <1>3, <1>4, <1>5 DEF Owns, Became

----------------------------------------------------------------------------
(* The inductive invariant                                                 *)

Good(c) ==
    /\ GoodMaps(c) /\ GoodIds(c) /\ BoundedBy(c, MaxRecycling)
    /\ DOMAIN c.kv = DOMAIN c.seqs

\* ExtensionsOfActive, for any cache.
ExtendsActive(c) ==
    \A i \in DOMAIN c.pending :
        c.pending[i].seq \in DOMAIN c.seqs => c.states[c.pending[i].seq] = "kActive"

IInv == Good(cache) /\ Owns(cache, ents) /\ ExtendsActive(cache) /\ DOMAIN buf = Entries

\* The empty cache, without entries.
LEMMA EmptyFacts ==
    ASSUME NEW f, f = [e \in Entries |-> Idle]
    PROVE  Good(EmptyCache) /\ ExtendsActive(EmptyCache) /\ Owns(EmptyCache, f)
<1>1. GoodMaps(EmptyCache)
  BY DEF GoodMaps, IsCache, EmptyCache, EmptyMap
<1>2. GoodIds(EmptyCache)
  BY DEF GoodIds, EmptyCache, EmptyMap, Ids
<1>3. DOMAIN EmptyCache.lrus = {}
  BY DEF EmptyCache, EmptyMap
<1>4. BoundedBy(EmptyCache, MaxRecycling)
  BY <1>3, FS_EmptySet, MaxRecyclingAssumption DEF BoundedBy
<1>5. DOMAIN EmptyCache.kv = DOMAIN EmptyCache.seqs /\ ExtendsActive(EmptyCache)
  BY DEF EmptyCache, EmptyMap, ExtendsActive
<1>6. Owns(EmptyCache, f)
  BY DEF Owns, Idle, Entry, EntryFields, NoSeq
<1> QED
  BY <1>1, <1>2, <1>4, <1>5, <1>6 DEF Good

\* A new engine satisfies the inductive invariant.
LEMMA InitIInv == Init => IInv
  BY EmptyFacts DEF Init, IInv

\* AddRequest hands out an id that nobody has.
LEMMA AddRequestIInv ==
    ASSUME IInv, NEW e \in Entries, NEW p, AddRequest(e, p)
    PROVE  IInv'
<1>1. /\ GoodMaps(cache') /\ GoodIds(cache')
      /\ cache'.seqs = cache.seqs /\ cache'.states = cache.states
      /\ cache'.kv = cache.kv /\ cache'.lrus = cache.lrus
      /\ cache'.pending = cache.pending
  BY GetNewIdFacts DEF AddRequest, IInv, Good
<1>2. Became(ents, ents', e, "pending", NewId(cache)) /\ ents[e].phase = "none"
  BY DEF AddRequest, IInv, Owns, Became, Entry, EntryFields
<1>3. Owns(cache', ents')
  BY <1>2, OwnsNewId DEF AddRequest, IInv, Good
<1> QED
  BY <1>1, <1>3 DEF AddRequest, IInv, Good, BoundedBy, ExtendsActive

\* An entry that reuses a sequence gives its own id back.
GivenBack(c, d, x) ==
    /\ GoodMaps(d) /\ GoodIds(d) /\ Ids(d.available) = Ids(c.available) \cup {x}
    /\ d.seqs = c.seqs /\ d.states = c.states /\ d.lrus = c.lrus
    /\ d.kv = c.kv /\ d.pending = c.pending /\ d.idCnt = c.idCnt

\* RecycleId of an id that is out of the cache gives it back.
LEMMA GiveBackFacts ==
    ASSUME NEW c, NEW x, GoodMaps(c), GoodIds(c), x \in 0..(c.idCnt - 1),
           x \notin Ids(c.available), x \notin DOMAIN c.seqs
    PROVE  GivenBack(c, RecycleId(c, x), x)
<1> DEFINE d == RecycleId(c, x)
<1>1. IsCache(c)
  BY DEF GoodMaps
<1>2. /\ IsCache(d) /\ GoodIds(d) /\ (GoodMaps(c) => GoodMaps(d))
      /\ Ids(d.available) = Ids(c.available) \cup {x}
      /\ d.seqs = c.seqs /\ d.states = c.states /\ d.windows = c.windows
      /\ d.lrus = c.lrus /\ d.lruSeqs = c.lruSeqs /\ d.counter = c.counter
      /\ d.kv = c.kv /\ d.pending = c.pending /\ d.idCnt = c.idCnt
  BY <1>1, RecycleIdFacts
<1> QED
  BY <1>2 DEF GivenBack

\* A cache whose KV cache alone is changed.
WithKv(c, d, kv) ==
    /\ GoodMaps(d) /\ (GoodIds(c) => GoodIds(d))
    /\ d.seqs = c.seqs /\ d.states = c.states /\ d.lrus = c.lrus /\ d.kv = kv
    /\ d.pending = c.pending /\ d.available = c.available /\ d.idCnt = c.idCnt

\* Changing the KV cache changes nothing else.
LEMMA WithKvFacts ==
    ASSUME NEW c, NEW kv, GoodMaps(c)
    PROVE  WithKv(c, [c EXCEPT !.kv = kv], kv)
<1> DEFINE d == [c EXCEPT !.kv = kv]
<1>1. /\ IsCache(d) /\ d.seqs = c.seqs /\ d.states = c.states /\ d.lrus = c.lrus /\ d.kv = kv
      /\ d.pending = c.pending /\ d.available = c.available /\ d.idCnt = c.idCnt
      /\ d.windows = c.windows /\ d.lruSeqs = c.lruSeqs /\ d.counter = c.counter
  BY DEF GoodMaps, IsCache
<1> HIDE DEF d
<1>2. GoodMaps(d) /\ (GoodIds(c) => GoodIds(d))
  BY <1>1 DEF GoodMaps, GoodIds
<1>3. WithKv(c, d, kv)
  BY <1>1, <1>2 DEF WithKv
<1> QED
  BY <1>3 DEF d

\* The cache when MatchPrefixCache ends: o, in which m was obtained, with the KV
\* cache of m in place and, if m was reused, the entry's id x given back.
MatchEnds(o, d, m, x) ==
    /\ GoodMaps(d) /\ GoodIds(d)
    /\ DOMAIN d.seqs = DOMAIN o.seqs /\ d.states = o.states /\ d.lrus = o.lrus
    /\ DOMAIN d.kv = DOMAIN o.kv \cup {m} /\ d.pending = <<>> /\ d.idCnt = o.idCnt
    /\ Ids(d.available) \subseteq Ids(o.available) \cup (IF m = x THEN {} ELSE {x})

\* An entry that ends MatchPrefixCache with an obtained sequence keeps the invariant.
LEMMA MatchEndsIInv ==
    ASSUME IInv, NEW e \in Entries, ents[e].phase = "pending",
           NEW o, NEW m, Obtained(cache, o, m), m = ents[e].id \/ m \in DOMAIN cache.seqs,
           MatchEnds(o, cache', m, ents[e].id), Became(ents, ents', e, "alive", m), buf' = buf
    PROVE  IInv'
<1>1. GoodIds(cache) /\ Owns(cache, ents) /\ DOMAIN cache.kv = DOMAIN cache.seqs
  BY DEF IInv, Good
<1>2. /\ m \in DOMAIN cache.seqs => cache.states[m] = "kRecycling"
      /\ DOMAIN cache'.seqs = DOMAIN cache.seqs \cup {m} /\ cache'.states[m] = "kActive"
      /\ \A t \in DOMAIN cache.seqs : t # m => cache'.states[t] = cache.states[t]
      /\ cache'.idCnt = cache.idCnt
      /\ Ids(cache'.available) \subseteq
             Ids(cache.available) \cup (IF m = ents[e].id THEN {} ELSE {ents[e].id})
  BY DEF Obtained, MatchEnds
<1>3. Owns(cache', ents')
  BY <1>1, <1>2, OwnsObtained
<1>4. Good(cache') /\ ExtendsActive(cache')
  BY <1>1, <1>2 DEF Obtained, MatchEnds, Good, BoundedBy, ExtendsActive
<1> QED
  BY <1>3, <1>4 DEF IInv

\* The ids InsertSequence leaves, for the calls that follow it.
LEMMA ObtainedIds ==
    ASSUME IInv, NEW e \in Entries, ents[e].phase = "pending",
           NEW o, NEW m, Obtained(cache, o, m), m = ents[e].id \/ m \in DOMAIN cache.seqs
    PROVE  /\ GoodMaps(o) /\ GoodIds(o) /\ m \in DOMAIN o.seqs /\ o.pending = <<>>
           /\ ents[e].id \in 0..(o.idCnt - 1) /\ ents[e].id \notin Ids(o.available)
           /\ m # ents[e].id => m \in DOMAIN o.kv /\ ents[e].id \notin DOMAIN o.seqs
<1>1. GoodIds(cache) /\ Owns(cache, ents) /\ DOMAIN cache.kv = DOMAIN cache.seqs
  BY DEF IInv, Good
<1>2. /\ ents[e].id \in 0..(cache.idCnt - 1) /\ ents[e].id \notin Ids(cache.available)
      /\ ents[e].id \notin DOMAIN cache.seqs
  BY <1>1 DEF Owns
<1>3. GoodIds(o)
  BY <1>1, <1>2 DEF Obtained, GoodIds
<1> QED
  BY <1>1, <1>2, <1>3 DEF Obtained

\* MatchPrefixCache keeps the invariant: a reused, forked or new sequence has one owner.
LEMMA MatchIInv ==
    ASSUME IInv, NEW e \in Entries, MatchPrefixCache(e)
    PROVE  IInv'
<1> DEFINE id == ents[e].id
<1>1. /\ ents[e].phase = "pending" /\ id \notin DOMAIN cache.seqs /\ buf' = buf
      /\ DOMAIN ents = Entries /\ DOMAIN ents[e] = EntryFields
  BY DEF MatchPrefixCache, HasSequence, IInv, Owns
<1>2. PICK o \in InsertSequence(cache, buf, id, ents[e].inputs, Window) :
         LET r == o.res
         IN  IF r.reused # NoSeq
             THEN /\ cache' = [RecycleId(o.c, id) EXCEPT
                        !.kv = Put(@, r.reused, DropLast(@[r.reused], r.pop))]
                  /\ Matched(e, r.reused, r.prefilled)
             ELSE /\ cache' = [o.c EXCEPT
                        !.kv = Put(@, id, IF r.forked = NoSeq THEN <<>>
                                          ELSE ForkedAt(@[r.forked], r.prefilled))]
                  /\ Matched(e, id, r.prefilled)
  BY DEF MatchPrefixCache
<1>3. \/ o.res.reused = NoSeq /\ Obtained(cache, o.c, id)
      \/ /\ o.res.reused # NoSeq /\ o.res.reused \in DOMAIN cache.seqs
         /\ Obtained(cache, o.c, o.res.reused)
  BY <1>1, InsertFacts DEF IInv, Good
<1>4. CASE o.res.reused # NoSeq
  <2> DEFINE m == o.res.reused
             r == RecycleId(o.c, id)
             kv == Put(r.kv, m, DropLast(r.kv[m], o.res.pop))
  <2>1. m \in DOMAIN cache.seqs /\ Obtained(cache, o.c, m) /\ m # id
    BY <1>1, <1>3, <1>4
  <2>2. /\ GoodMaps(o.c) /\ GoodIds(o.c) /\ o.c.pending = <<>>
        /\ id \in 0..(o.c.idCnt - 1) /\ id \notin Ids(o.c.available)
        /\ m \in DOMAIN o.c.kv /\ id \notin DOMAIN o.c.seqs
    BY <1>1, <2>1, ObtainedIds
  <2>3. GivenBack(o.c, r, id)
    BY <2>2, GiveBackFacts
  <2>4. cache' = [r EXCEPT !.kv = kv] /\ Matched(e, m, o.res.prefilled)
    BY <1>2, <1>4
  <2>5. Became(ents, ents', e, "alive", m)
    BY <1>1, <2>4 DEF Matched, Became
  <2> HIDE DEF r, m
  <2>6. DOMAIN kv = DOMAIN r.kv \cup {m}
    BY DEF Put
  <2> HIDE DEF kv, id
  <2>7. WithKv(r, cache', kv)
    BY <2>3, <2>4, WithKvFacts DEF GivenBack
  <2>8. MatchEnds(o.c, cache', m, id)
    BY <2>1, <2>2, <2>3, <2>6, <2>7 DEF GivenBack, WithKv, MatchEnds
  <2> QED
    BY <1>1, <2>1, <2>5, <2>8, MatchEndsIInv DEF id
<1>5. CASE o.res.reused = NoSeq
  <2> DEFINE kv == Put(o.c.kv, id, IF o.res.forked = NoSeq THEN <<>>
                                   ELSE ForkedAt(o.c.kv[o.res.forked], o.res.prefilled))
  <2>1. Obtained(cache, o.c, id)
    BY <1>3, <1>5
  <2>2. GoodMaps(o.c) /\ GoodIds(o.c) /\ o.c.pending = <<>>
    BY <1>1, <2>1, ObtainedIds
  <2>3. cache' = [o.c EXCEPT !.kv = kv] /\ Matched(e, id, o.res.prefilled)
    BY <1>2, <1>5
  <2>4. Became(ents, ents', e, "alive", id)
    BY <1>1, <2>3 DEF Matched, Became
  <2>5. DOMAIN kv = DOMAIN o.c.kv \cup {id}
    BY DEF Put
  <2> HIDE DEF kv, id
  <2>6. WithKv(o.c, cache', kv)
    BY <2>2, <2>3, WithKvFacts
  <2>7. MatchEnds(o.c, cache', id, id)
    BY <2>2, <2>5, <2>6 DEF WithKv, MatchEnds
  <2> QED
    BY <1>1, <2>1, <2>4, <2>7, MatchEndsIInv DEF id
<1> QED
  BY <1>4, <1>5

\* The Eagle variant, with its additional roll back, keeps it too.
LEMMA EagleMatchIInv ==
    ASSUME IInv, NEW e \in Entries, EagleMatchPrefixCache(e)
    PROVE  IInv'
<1> DEFINE id == ents[e].id
<1>1. /\ ents[e].phase = "pending" /\ id \notin DOMAIN cache.seqs /\ buf' = buf
      /\ DOMAIN ents = Entries /\ DOMAIN ents[e] = EntryFields
  BY DEF EagleMatchPrefixCache, HasSequence, IInv, Owns
<1>2. PICK o \in InsertSequence(cache, buf, id, ents[e].inputs, Window) :
         LET r == o.res
             RolledBack(c, s) == RollBackSequence(c, buf, s, 1)
         IN  IF r.reused # NoSeq
             THEN /\ cache' = [RolledBack(RecycleId(o.c, id), r.reused) EXCEPT
                        !.kv = Put(@, r.reused, DropLast(@[r.reused], r.pop + 1))]
                  /\ Matched(e, r.reused, r.prefilled - 1)
             ELSE IF r.forked # NoSeq
             THEN /\ cache' = [RolledBack(o.c, id) EXCEPT
                        !.kv = Put(@, id, ForkedAt(@[r.forked], r.prefilled - 1))]
                  /\ Matched(e, id, r.prefilled)
             ELSE /\ cache' = [o.c EXCEPT !.kv = Put(@, id, <<>>)]
                  /\ Matched(e, id, 0)
  BY DEF EagleMatchPrefixCache
<1>3. \/ o.res.reused = NoSeq /\ Obtained(cache, o.c, id)
      \/ /\ o.res.reused # NoSeq /\ o.res.reused \in DOMAIN cache.seqs
         /\ Obtained(cache, o.c, o.res.reused)
  BY <1>1, InsertFacts DEF IInv, Good
<1>4. CASE o.res.reused # NoSeq
  <2> DEFINE m == o.res.reused
             r == RecycleId(o.c, id)
             q == RollBackSequence(r, buf, m, 1)
             kv == Put(q.kv, m, DropLast(q.kv[m], o.res.pop + 1))
  <2>1. m \in DOMAIN cache.seqs /\ Obtained(cache, o.c, m) /\ m # id
    BY <1>1, <1>3, <1>4
  <2>2. /\ GoodMaps(o.c) /\ GoodIds(o.c) /\ o.c.pending = <<>> /\ m \in DOMAIN o.c.seqs
        /\ id \in 0..(o.c.idCnt - 1) /\ id \notin Ids(o.c.available)
        /\ m \in DOMAIN o.c.kv /\ id \notin DOMAIN o.c.seqs
    BY <1>1, <2>1, ObtainedIds
  <2>3. GivenBack(o.c, r, id)
    BY <2>2, GiveBackFacts
  <2>4. cache' = [q EXCEPT !.kv = kv] /\ Matched(e, m, o.res.prefilled - 1)
    BY <1>2, <1>4
  <2>5. Became(ents, ents', e, "alive", m)
    BY <1>1, <2>4 DEF Matched, Became
  <2> HIDE DEF r, m
  <2>6. SameButTokens(r, q)
    BY <2>2, <2>3, RollBackFacts DEF GivenBack
  <2> HIDE DEF q
  <2>7. DOMAIN kv = DOMAIN q.kv \cup {m}
    BY DEF Put
  <2> HIDE DEF kv, id
  <2>8. WithKv(q, cache', kv)
    BY <2>4, <2>6, WithKvFacts DEF SameButTokens
  <2>9. MatchEnds(o.c, cache', m, id)
    BY <2>1, <2>2, <2>3, <2>6, <2>7, <2>8 DEF GivenBack, SameButTokens, WithKv, MatchEnds
  <2> QED
    BY <1>1, <2>1, <2>5, <2>9, MatchEndsIInv DEF id
<1>5. CASE o.res.reused = NoSeq /\ o.res.forked # NoSeq
  <2> DEFINE q == RollBackSequence(o.c, buf, id, 1)
             kv == Put(q.kv, id, ForkedAt(q.kv[o.res.forked], o.res.prefilled - 1))
  <2>1. Obtained(cache, o.c, id)
    BY <1>3, <1>5
  <2>2. GoodMaps(o.c) /\ GoodIds(o.c) /\ id \in DOMAIN o.c.seqs
    BY <1>1, <2>1, ObtainedIds
  <2>3. cache' = [q EXCEPT !.kv = kv] /\ Matched(e, id, o.res.prefilled)
    BY <1>2, <1>5
  <2>4. Became(ents, ents', e, "alive", id)
    BY <1>1, <2>3 DEF Matched, Became
  <2> HIDE DEF id
  <2>5. SameButTokens(o.c, q)
    BY <2>2, RollBackFacts
  <2> HIDE DEF q
  <2>6. DOMAIN kv = DOMAIN q.kv \cup {id}
    BY DEF Put
  <2> HIDE DEF kv
  <2>7. WithKv(q, cache', kv)
    BY <2>3, <2>5, WithKvFacts DEF SameButTokens
  <2>8. MatchEnds(o.c, cache', id, id)
    BY <2>2, <2>5, <2>6, <2>7 DEF SameButTokens, WithKv, MatchEnds
  <2> QED
    BY <1>1, <2>1, <2>4, <2>8, MatchEndsIInv DEF id
<1>6. CASE o.res.reused = NoSeq /\ o.res.forked = NoSeq
  <2> DEFINE kv == Put(o.c.kv, id, <<>>)
  <2>1. Obtained(cache, o.c, id)
    BY <1>3, <1>6
  <2>2. GoodMaps(o.c) /\ GoodIds(o.c) /\ o.c.pending = <<>>
    BY <1>1, <2>1, ObtainedIds
  <2>3. cache' = [o.c EXCEPT !.kv = kv] /\ Matched(e, id, 0)
    BY <1>2, <1>6
  <2>4. Became(ents, ents', e, "alive", id)
    BY <1>1, <2>3 DEF Matched, Became
  <2>5. DOMAIN kv = DOMAIN o.c.kv \cup {id}
    BY DEF Put
  <2> HIDE DEF kv, id
  <2>6. WithKv(o.c, cache', kv)
    BY <2>2, <2>3, WithKvFacts
  <2>7. MatchEnds(o.c, cache', id, id)
    BY <2>2, <2>5, <2>6 DEF WithKv, MatchEnds
  <2> QED
    BY <1>1, <2>1, <2>4, <2>7, MatchEndsIInv DEF id
<1> QED
  BY <1>4, <1>5, <1>6

\* A batch adds to the KV cache of active sequences and extends only them.
LEMMA RunBatchIInv ==
    ASSUME IInv, NEW b \in Batches, RunBatch(b)
    PROVE  IInv'
<1> DEFINE members == {b[i] : i \in DOMAIN b}
           owner(s) == CHOOSE e \in members : ents[e].id = s
           c1 == CommitSequenceExtention(cache, buf)
<1>1. /\ GoodMaps(c1) /\ GoodIds(c1)
      /\ DOMAIN c1.seqs = DOMAIN cache.seqs /\ c1.states = cache.states
      /\ c1.lrus = cache.lrus /\ c1.kv = cache.kv
      /\ c1.available = cache.available /\ c1.idCnt = cache.idCnt
  BY CommitFacts DEF IInv, Good
<1>2. \A i \in DOMAIN b : b[i] \in Entries /\ ents[b[i]].phase = "alive"
  BY DEF Batches
<1>3. PICK chunk \in [members -> UNION {Chunks(e) : e \in members}],
           sampled \in [members -> Tokens] :
          LET after(e) == Ran(ents[e], chunk[e], sampled[e])
          IN  /\ cache' = [c1 EXCEPT
                     !.kv = [s \in DOMAIN cache.kv |->
                                IF \E e \in members : ents[e].id = s
                                THEN AppendKv(cache.kv[s], chunk[owner(s)]) ELSE cache.kv[s]],
                     !.pending = [i \in DOMAIN b |-> [seq |-> ents[b[i]].id, src |-> b[i]]]]
              /\ buf' = [e \in Entries |->
                            IF e \in members THEN Reported(ents[e], after(e), chunk[e])
                            ELSE buf[e]]
              /\ ents' = [e \in Entries |->
                            IF e \notin members THEN ents[e]
                            ELSE [after(e) EXCEPT !.cached =
                                    IF @ < Len(after(e).committed) - 1
                                    THEN Len(after(e).committed) - 1 ELSE @]]
  BY DEF RunBatch
<1> HIDE DEF c1
<1>4. /\ IsCache(cache') /\ DOMAIN cache'.kv = DOMAIN cache.kv
      /\ cache'.pending = [i \in DOMAIN b |-> [seq |-> ents[b[i]].id, src |-> b[i]]]
      /\ cache'.seqs = c1.seqs /\ cache'.states = c1.states /\ cache'.windows = c1.windows
      /\ cache'.lrus = c1.lrus /\ cache'.lruSeqs = c1.lruSeqs /\ cache'.counter = c1.counter
      /\ cache'.available = c1.available /\ cache'.idCnt = c1.idCnt
  BY <1>1, <1>3 DEF GoodMaps, IsCache
<1> HIDE DEF members
<1>5. /\ DOMAIN ents' = Entries /\ DOMAIN buf' = Entries
      /\ \A e \in Entries : /\ DOMAIN ents'[e] = EntryFields
                            /\ ents'[e].phase = ents[e].phase /\ ents'[e].id = ents[e].id
  <2>1. DOMAIN ents' = Entries /\ DOMAIN buf' = Entries
    BY <1>3
  <2>2. \A e \in Entries : \A k, t :
            LET q == Ran(ents[e], k, t)
            IN  /\ DOMAIN q = DOMAIN ents[e]
                /\ q.phase = ents[e].phase /\ q.id = ents[e].id
    BY DEF IInv, Owns, EntryFields, Ran
  <2> QED
    BY <1>3, <2>1, <2>2 DEF IInv, Owns, EntryFields
<1>6. GoodMaps(cache')
  BY <1>1, <1>4 DEF GoodMaps
<1>7. GoodIds(cache')
  BY <1>1, <1>4 DEF GoodIds
<1>8. Good(cache')
  BY <1>1, <1>4, <1>6, <1>7 DEF IInv, Good, BoundedBy
<1>9. ExtendsActive(cache')
  BY <1>1, <1>2, <1>4 DEF IInv, Owns, ExtendsActive
<1>10. Owns(cache', ents')
  BY <1>1, <1>4, <1>5 DEF IInv, Owns
<1> QED
  BY <1>5, <1>8, <1>9, <1>10 DEF IInv

\* Recycling the sequence of an entry that then owns nothing.
LEMMA ReleaseIInv ==
    ASSUME IInv, NEW e \in Entries, ents[e].phase = "alive", NEW lazy \in BOOLEAN,
           NEW d \in RecycleSequence(cache, buf, ents[e].id, lazy),
           NEW h, Became(ents, h, e, "none", NoSeq)
    PROVE  Good(d) /\ Owns(d, h) /\ ExtendsActive(d)
<1>1. Good(cache) /\ Owns(cache, ents)
  BY DEF IInv
<1>2. ents[e].id \in DOMAIN cache.seqs /\ cache.states[ents[e].id] = "kActive"
  BY <1>1 DEF Owns
<1>3. Released(cache, d, ents[e].id) /\ d.pending = <<>>
  BY <1>1, <1>2, RecycleFacts DEF Good
<1>4. Owns(d, h)
  BY <1>1, <1>3, OwnsReleased
<1>5. Good(d) /\ ExtendsActive(d)
  BY <1>3 DEF Released, Good, ExtendsActive
<1> QED
  BY <1>4, <1>5

\* A finished entry leaves its sequence to be recycled.
LEMMA FinishIInv ==
    ASSUME IInv, NEW e \in Entries, Finish(e)
    PROVE  IInv'
<1>1. Became(ents, ents', e, "none", NoSeq) /\ ents[e].phase = "alive"
  BY DEF Finish, IInv, Owns, Became, Idle, Entry, EntryFields
<1> QED
  BY <1>1, ReleaseIInv DEF Finish, IInv

\* A pinned sequence keeps its id, which stays out of circulation.
LEMMA FinishPinnedIInv ==
    ASSUME IInv, NEW e \in Entries, FinishPinned(e)
    PROVE  IInv'
<1>1. Became(ents, ents', e, "none", NoSeq) /\ cache' = cache /\ buf' = buf
  BY DEF FinishPinned, IInv, Owns, Became, Idle, Entry, EntryFields
<1>2. Owns(cache', ents')
  BY <1>1 DEF IInv, Owns, Became
<1> QED
  BY <1>1, <1>2 DEF IInv

\* A preempted entry loses its sequence and gets an id that nobody has.
LEMMA PreemptIInv ==
    ASSUME IInv, NEW e \in Entries, Preempt(e)
    PROVE  IInv'
<1>1. PICK c \in RecycleSequence(cache, buf, ents[e].id, FALSE) :
         /\ cache' = GetNewId(c)
         /\ ents' = [ents EXCEPT ![e].phase = "pending", ![e].id = NewId(c),
                                 ![e].inputs = ents[e].prompt \o ents[e].committed,
                                 ![e].cached = 0]
  BY DEF Preempt
<1> DEFINE h == [ents EXCEPT ![e] = Idle]
<1>2. Became(ents, h, e, "none", NoSeq) /\ ents[e].phase = "alive" /\ h[e].phase = "none"
  BY DEF Preempt, IInv, Owns, Became, Idle, Entry, EntryFields
<1>3. Became(h, ents', e, "pending", NewId(c))
  BY <1>1 DEF IInv, Owns, Became
<1> HIDE DEF h
<1>4. Good(c) /\ Owns(c, h) /\ ExtendsActive(c)
  BY <1>2, ReleaseIInv
<1>5. Owns(cache', ents')
  BY <1>1, <1>2, <1>3, <1>4, OwnsNewId DEF Good
<1>6. /\ GoodMaps(GetNewId(c)) /\ GoodIds(GetNewId(c))
      /\ GetNewId(c).seqs = c.seqs /\ GetNewId(c).states = c.states
      /\ GetNewId(c).kv = c.kv /\ GetNewId(c).lrus = c.lrus
      /\ GetNewId(c).pending = c.pending
  BY <1>4, GetNewIdFacts DEF Good
<1>7. Good(cache') /\ ExtendsActive(cache')
  BY <1>1, <1>4, <1>6 DEF Good, BoundedBy, ExtendsActive
<1> QED
  BY <1>5, <1>7 DEF Preempt, IInv

\* An aborted entry loses its sequence, or never had one.
LEMMA AbortIInv ==
    ASSUME IInv, NEW e \in Entries, Abort(e)
    PROVE  IInv'
<1>1. Became(ents, ents', e, "none", NoSeq) /\ buf' = buf
  BY DEF Abort, IInv, Owns, Became, Idle, Entry, EntryFields
<1>2. CASE ents[e].phase = "alive"
  BY <1>1, <1>2, ReleaseIInv DEF Abort, IInv
<1>3. CASE ents[e].phase # "alive"
  <2>1. cache' = cache
    BY <1>3 DEF Abort
  <2>2. Owns(cache', ents')
    BY <1>1, <2>1 DEF IInv, Owns, Became
  <2> QED
    BY <1>1, <2>1, <2>2 DEF IInv
<1> QED
  BY <1>2, <1>3

\* Eviction under memory pressure takes no sequence that an entry owns.
LEMMA FreeMemoryIInv ==
    ASSUME IInv, FreeMemory
    PROVE  IInv'
<1>1. cache' \in TryFreeMemory(cache) /\ buf' = buf /\ ents' = ents /\ Good(cache)
  BY DEF FreeMemory, IInv
<1>2. /\ Released(cache, cache', NoSeq) /\ cache'.pending = cache.pending
      /\ \A t \in DOMAIN cache'.seqs : cache'.states[t] = cache.states[t]
  BY <1>1, FreeFacts DEF Good
<1>3. Owns(cache', ents')
  BY <1>1, <1>2, OwnsEvicted DEF IInv, Good
<1>4. Good(cache') /\ ExtendsActive(cache')
  BY <1>2 DEF Released, Good, ExtendsActive, IInv
<1> QED
  BY <1>1, <1>3, <1>4 DEF IInv

\* Reset starts again from the empty cache.
LEMMA ResetIInv ==
    ASSUME IInv, Reset
    PROVE  IInv'
  BY EmptyFacts DEF Reset, IInv

\* Every step of the engine keeps the inductive invariant.
LEMMA NextIInv == IInv /\ [Next]_vars => IInv'
<1> SUFFICES ASSUME IInv, [Next]_vars PROVE IInv'
  OBVIOUS
<1>1. CASE UNCHANGED vars
  BY <1>1 DEF vars, IInv
<1>2. CASE Next
  <2>1. ASSUME NEW e \in Entries, NEW p, AddRequest(e, p) PROVE IInv'
    BY <2>1, AddRequestIInv
  <2>2. ASSUME NEW e \in Entries, MatchPrefixCache(e) PROVE IInv'
    BY <2>2, MatchIInv
  <2>3. ASSUME NEW e \in Entries, EagleMatchPrefixCache(e) PROVE IInv'
    BY <2>3, EagleMatchIInv
  <2>4. ASSUME NEW e \in Entries, Finish(e) PROVE IInv'
    BY <2>4, FinishIInv
  <2>5. ASSUME NEW e \in Entries, FinishPinned(e) PROVE IInv'
    BY <2>5, FinishPinnedIInv
  <2>6. ASSUME NEW e \in Entries, Preempt(e) PROVE IInv'
    BY <2>6, PreemptIInv
  <2>7. ASSUME NEW e \in Entries, Abort(e) PROVE IInv'
    BY <2>7, AbortIInv
  <2>8. ASSUME NEW b \in Batches, RunBatch(b) PROVE IInv'
    BY <2>8, RunBatchIInv
  <2>9. CASE FreeMemory
    BY <2>9, FreeMemoryIInv
  <2>10. CASE Reset
    BY <2>10, ResetIInv
  <2> QED
    BY <1>2, <2>1, <2>2, <2>3, <2>4, <2>5, <2>6, <2>7, <2>8, <2>9, <2>10 DEF Next
<1> QED
  BY <1>1, <1>2

----------------------------------------------------------------------------
(* The theorems                                                            *)

\* IInv holds in every reachable state.
THEOREM Invariance == Spec => []IInv
  BY InitIInv, NextIInv, PTL DEF Spec

\* The maps of the cache, the id manager and the entries always have their types.
THEOREM TypeCorrect == Spec => []TypeOK
<1>1. IInv => TypeOK
  BY DEF IInv, Good, GoodMaps, GoodIds, Owns, TypeOK
<1> QED
  BY <1>1, Invariance, PTL

\* No two requests own a sequence, and no id in use is ever handed out, whatever
\* is reused, forked, evicted, preempted, aborted or reset.
THEOREM IdsAreExclusive == Spec => []ExclusiveIds
<1>1. IInv => ExclusiveIds
  BY DEF IInv, Good, GoodMaps, GoodIds, Owns, ExclusiveIds, HasSequence, Live
<1> QED
  BY <1>1, Invariance, PTL

\* The LRU maps stay inverse to each other and hold the recycling sequences.
THEOREM LruMapsStayInverse == Spec => []LruMapsAgree
<1>1. IInv => LruMapsAgree
  BY DEF IInv, Good, GoodMaps, LruMapsAgree, Recycling
<1> QED
  BY <1>1, Invariance, PTL

\* The number of recycling sequences stays within its limit.
THEOREM RecyclingStaysBounded == Spec => []RecyclingBounded
<1>1. IInv => RecyclingBounded
  BY DEF IInv, Good, GoodMaps, BoundedBy, RecyclingBounded, Recycling
<1> QED
  BY <1>1, Invariance, PTL

\* CommitSequenceExtention never meets an extension of a recycled sequence.
THEOREM CommitChecksHold == Spec => []ExtensionsOfActive
<1>1. IInv => ExtensionsOfActive
  BY DEF IInv, ExtendsActive, ExtensionsOfActive
<1> QED
  BY <1>1, Invariance, PTL

\* Eviction at the limit is safe: the LRU maps agree and the limit is kept.
THEOREM RecyclingIsSound == Spec => []RecyclingSound
<1>1. LruMapsAgree /\ RecyclingBounded => RecyclingSound
  BY DEF RecyclingSound
<1> QED
  BY <1>1, LruMapsStayInverse, RecyclingStaysBounded, PTL

\* Ids belong to one request at a time, and what is committed extends a sequence
\* that a request still uses.
THEOREM OwnershipIsSound == Spec => []OwnershipSound
<1>1. ExclusiveIds /\ ExtensionsOfActive => OwnershipSound
  BY DEF OwnershipSound
<1> QED
  BY <1>1, IdsAreExclusive, CommitChecksHold, PTL
=============================================================================
