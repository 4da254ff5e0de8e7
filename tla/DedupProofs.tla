---------------------------- MODULE DedupProofs ----------------------------
(***************************************************************************)
(* Theorems about the deduplicator, for any handlers, keys, signatures,    *)
(* TTL and cache size.                                                     *)
(***************************************************************************)
EXTENDS Dedup, FiniteSetTheorems, WellFoundedInduction, TLAPS

LEMMA Sentinels ==
  ASSUME NEW e \in CacheEntry
  PROVE  e # NoEntry
BY DedupSentinels DEF CacheEntry, Signature

LEMMA AgedType ==
  ASSUME NEW e \in MaybeEntry
  PROVE  /\ Aged(e) \in MaybeEntry
         /\ Aged(e) = NoEntry <=> e = NoEntry
         /\ e # NoEntry => Aged(e).sig = e.sig
         /\ Expired(e) => Expired(Aged(e))
<1>1. CASE e = NoEntry
  BY <1>1 DEF Aged, MaybeEntry, Expired
<1>2. CASE e # NoEntry
  <2>1. e \in [sig : Signature, age : 0 .. MaxAge]
    BY <1>2 DEF MaybeEntry, CacheEntry
  <2>2. Aged(e) = [e EXCEPT !.age = Older(e.age)]
    BY <1>2 DEF Aged
  <2>3. /\ Older(e.age) \in 0 .. MaxAge
        /\ e.age >= TTL => Older(e.age) >= TTL
    BY <2>1, DedupConstants DEF Older
  <2>4. Aged(e) \in CacheEntry /\ Aged(e).sig = e.sig /\ Aged(e).age = Older(e.age)
    BY <2>1, <2>2, <2>3 DEF CacheEntry
  <2>5. Aged(e) # NoEntry
    BY <2>4, Sentinels
  <2> QED
    BY <1>2, <2>3, <2>4, <2>5 DEF MaybeEntry, Expired
<1> QED
  BY <1>1, <1>2

-----------------------------------------------------------------------------
(* Type correctness *)

LEMMA InsertType ==
  ASSUME TypeOK, NEW h \in Handlers, pc[h] = "store", NEW gone, gone \subseteq Keys,
         Insert(h, gone)
  PROVE  /\ cache' \in [Keys -> MaybeEntry]
         /\ passed' \in [Keys -> MaybeEntry]
         /\ evicted' \subseteq Keys
<1>1. call[h] \in Call
  BY DEF TypeOK
<1>2. [sig |-> call[h].sig, age |-> 0] \in MaybeEntry
  BY <1>1, DedupConstants DEF Call, MaybeEntry, CacheEntry
<1> QED
  BY <1>1, <1>2 DEF Insert, TypeOK, Call, MaybeEntry

LEMMA TypeInit == Init => TypeOK
<1> SUFFICES ASSUME Init
             PROVE  TypeOK
  OBVIOUS
<1>1. NoEntry \in MaybeEntry
  BY DEF MaybeEntry
<1>2. cache \in [Keys -> MaybeEntry] /\ passed \in [Keys -> MaybeEntry]
  BY <1>1 DEF Init
<1>3. phase \in 0 .. TTL - 1
  BY DedupConstants DEF Init
<1> QED
  BY <1>2, <1>3 DEF Init, TypeOK

LEMMA TypeStep == TypeOK /\ [Next]_vars => TypeOK'
<1> SUFFICES ASSUME TypeOK, [Next]_vars
             PROVE  TypeOK'
  OBVIOUS
<1> USE DEF TypeOK
<1>1. ASSUME NEW h \in Handlers, Lookup(h)
      PROVE  TypeOK'
  <2>1. PICK k \in KeysOf[h], s \in Signature :
          call' = [call EXCEPT ![h] = [key |-> k, sig |-> s, entry |-> cache[k]]]
    BY <1>1 DEF Lookup
  <2>2. k \in Keys
    BY DedupConstants
  <2>3. [key |-> k, sig |-> s, entry |-> cache[k]] \in Call
    BY <2>2 DEF Call
  <2> QED
    BY <1>1, <2>1, <2>3 DEF Lookup
<1>2. ASSUME NEW h \in Handlers, Suppress(h)
      PROVE  TypeOK'
  BY <1>2 DEF Suppress
<1>3. ASSUME NEW h \in Handlers, Miss(h)
      PROVE  TypeOK'
  BY <1>3 DEF Miss
<1>4. ASSUME NEW h \in Handlers, Store(h)
      PROVE  TypeOK'
  <2>1. PICK gone \in SUBSET Keys : Insert(h, gone)
    BY <1>4 DEF Store, EvictOldest, Oldest, Present
  <2>2. /\ cache' \in [Keys -> MaybeEntry]
        /\ passed' \in [Keys -> MaybeEntry]
        /\ evicted' \subseteq Keys
    BY <1>4, <2>1, InsertType DEF Store
  <2> QED
    BY <1>4, <2>2 DEF Store
<1>5. ASSUME Cleanup
      PROVE  TypeOK'
  BY <1>5 DEF Cleanup, MaybeEntry
<1>6. ASSUME Tick
      PROVE  TypeOK'
  <2>1. cache' \in [Keys -> MaybeEntry] /\ passed' \in [Keys -> MaybeEntry]
    BY <1>6, AgedType DEF Tick
  <2>2. ASSUME NEW h \in Handlers, pc[h] # "idle"
        PROVE  [call[h] EXCEPT !.entry = Aged(@)] \in Call
    BY <2>2, AgedType DEF Call
  <2>3. call' \in [Handlers -> Call \cup {NoEntry}]
    BY <1>6, <2>2 DEF Tick
  <2>4. \A h \in Handlers : pc'[h] # "idle" => call'[h] \in Call
    BY <1>6, <2>2 DEF Tick
  <2>5. phase' \in 0 .. TTL - 1
    BY <1>6, DedupConstants DEF Tick
  <2>6. tickC' \in BOOLEAN
    BY <1>6 DEF Tick
  <2> QED
    BY <1>6, <2>1, <2>3, <2>4, <2>5, <2>6 DEF Tick
<1>7. CASE ReceiveTick \/ ReceiveToken \/ LoopExit \/ Stop
  BY <1>7 DEF ReceiveTick, ReceiveToken, LoopExit, Stop
<1>8. CASE UNCHANGED vars
  BY <1>8 DEF vars
<1> QED
  BY <1>1, <1>2, <1>3, <1>4, <1>5, <1>6, <1>7, <1>8 DEF Next

\* The variables of the deduplicator keep their types.
THEOREM TypeCorrect == Spec => []TypeOK
BY TypeInit, TypeStep, PTL DEF Spec

-----------------------------------------------------------------------------
(* The bound on the cache *)

LEMMA PresentFinite ==
  ASSUME NEW c, NEW S, S \subseteq Keys
  PROVE  /\ IsFiniteSet(Present(c)) /\ Cardinality(Present(c)) \in Nat
         /\ IsFiniteSet(S) /\ Cardinality(S) \in Nat
BY DedupConstants, FS_Subset, FS_CardinalityType DEF Present

\* The ages of a non-empty cache have a greatest, so an entry is there to evict.
LEMMA OldestExists ==
  ASSUME NEW c \in [Keys -> MaybeEntry], Present(c) # {}
  PROVE  Oldest(c) # {}
<1> DEFINE Youth == {MaxAge - c[k].age : k \in Present(c)}
<1>1. \A k \in Present(c) : c[k].age \in 0 .. MaxAge
  BY DEF Present, MaybeEntry, CacheEntry
<1>2. Youth \subseteq Nat /\ Youth # {}
  BY <1>1, DedupConstants
<1>3. \E x \in Youth : \A y \in Youth : ~ (<<y, x>> \in OpToRel(<, Nat))
  <2> HIDE DEF Youth
  <2> QED
    BY <1>2, WFMin, NatLessThanWellFounded, Zenon
<1>4. PICK x \in Youth : \A y \in Youth : ~ (y < x)
  BY <1>2, <1>3 DEF OpToRel
<1>5. PICK k \in Present(c) : x = MaxAge - c[k].age
  BY <1>4
<1>6. ASSUME NEW j \in Present(c)
      PROVE  c[j].age <= c[k].age
  <2>1. ~ (MaxAge - c[j].age < MaxAge - c[k].age)
    BY <1>4, <1>5
  <2> QED
    BY <1>1, <2>1, DedupConstants
<1> QED
  BY <1>6 DEF Oldest

LEMMA AddOne ==
  ASSUME NEW S, IsFiniteSet(S), NEW x
  PROVE  IsFiniteSet(S \cup {x}) /\ Cardinality(S \cup {x}) <= Cardinality(S) + 1
<1>1. Cardinality(S) \in Nat
  BY FS_CardinalityType
<1> QED
  BY <1>1, FS_AddElement

\* Store makes room before it adds an entry.
LEMMA StoreBounded ==
  ASSUME TypeOK, CacheBounded, NEW h \in Handlers, Store(h)
  PROVE  CacheBounded'
<1> DEFINE k == call[h].key
           P == Present(cache)
<1>1. k \in Keys
  BY DEF Store, TypeOK, Call
<1>2. IsFiniteSet(P) /\ Cardinality(P) \in Nat /\ Cardinality(P) <= MaxSize
  BY PresentFinite DEF CacheBounded
<1>3. CASE EvictOldest(cache) = {}
  <2>1. Insert(h, {})
    BY <1>3 DEF Store
  <2>2. Cardinality(P) < MaxSize
    <3>1. P = {} => Cardinality(P) = 0
      BY FS_EmptySet
    <3> QED
      BY <1>2, <1>3, <3>1, OldestExists, DedupConstants DEF EvictOldest, TypeOK
  <2>3. Present(cache') \subseteq P \cup {k}
    BY <2>1 DEF Insert, Present
  <2>4. IsFiniteSet(P \cup {k}) /\ Cardinality(P \cup {k}) <= Cardinality(P) + 1
    <3> HIDE DEF P, k
    <3> QED
      BY <1>2, AddOne
  <2>5. Cardinality(Present(cache')) <= Cardinality(P \cup {k})
    BY <2>3, <2>4, FS_Subset
  <2> HIDE DEF P
  <2> QED
    BY <1>1, <1>2, <2>2, <2>4, <2>5, PresentFinite, FS_CardinalityType, DedupConstants
       DEF CacheBounded
<1>4. CASE EvictOldest(cache) # {}
  <2>1. PICK victim \in P : Insert(h, {victim})
    BY <1>4 DEF Store, EvictOldest, Oldest
  <2> DEFINE Q == P \ {victim}
  <2>2. IsFiniteSet(Q) /\ Cardinality(Q) = Cardinality(P) - 1
    BY <1>2, FS_RemoveElement
  <2>3. Present(cache') \subseteq Q \cup {k}
    BY <2>1 DEF Insert, Present
  <2>4. IsFiniteSet(Q \cup {k}) /\ Cardinality(Q \cup {k}) <= Cardinality(Q) + 1
    <3> HIDE DEF Q, k
    <3> QED
      BY <2>2, AddOne
  <2>5. Cardinality(Present(cache')) <= Cardinality(Q \cup {k})
    BY <2>3, <2>4, FS_Subset
  <2> HIDE DEF P, Q
  <2> QED
    BY <1>1, <1>2, <2>2, <2>4, <2>5, PresentFinite, FS_CardinalityType, DedupConstants
       DEF CacheBounded
<1> QED
  BY <1>3, <1>4

LEMMA BoundedStep == TypeOK /\ CacheBounded /\ [Next]_vars => CacheBounded'
<1> SUFFICES ASSUME TypeOK, CacheBounded, [Next]_vars
             PROVE  CacheBounded'
  OBVIOUS
<1>1. ASSUME Present(cache') \subseteq Present(cache)
      PROVE  CacheBounded'
  BY <1>1, PresentFinite, FS_Subset, DedupConstants DEF CacheBounded
<1>2. ASSUME NEW h \in Handlers, Store(h)
      PROVE  CacheBounded'
  BY <1>2, StoreBounded
<1>3. CASE Cleanup
  BY <1>1, <1>3 DEF Cleanup, Present
<1>4. CASE Tick
  BY <1>1, <1>4, AgedType DEF Tick, Present, TypeOK
<1>5. ASSUME cache' = cache
      PROVE  CacheBounded'
  BY <1>1, <1>5
<1> QED
  BY <1>2, <1>3, <1>4, <1>5
     DEF Next, Lookup, Suppress, Miss, ReceiveTick, ReceiveToken, LoopExit, Stop, vars

\* The cache never holds more than maxSize entries.
THEOREM CacheStaysBounded == Spec => []CacheBounded
<1>1. Init => CacheBounded
  <2> SUFFICES ASSUME Init
               PROVE  CacheBounded
    OBVIOUS
  <2>1. Present(cache) = {}
    BY DEF Init, Present
  <2> QED
    BY <2>1, FS_EmptySet, DedupConstants DEF CacheBounded
<1> QED
  BY <1>1, BoundedStep, TypeCorrect, PTL DEF Spec

\* Store evicts when the cache is at its bound, and then one of its oldest entries.
LEMMA StoreEvictsOldest ==
  ASSUME TypeOK, CacheBounded, NEW h \in Handlers, Store(h),
         NEW k \in Keys, cache[k] # NoEntry, cache'[k] = NoEntry
  PROVE  /\ Cardinality(Present(cache)) = MaxSize
         /\ \A j \in Present(cache) : cache[j].age <= cache[k].age
<1>1. PICK gone \in SUBSET EvictOldest(cache) : Insert(h, gone)
  BY DEF Store
<1>2. [sig |-> call[h].sig, age |-> 0] \in CacheEntry
  BY DedupConstants DEF Store, TypeOK, Call, CacheEntry
<1>3. k \in gone
  BY <1>1, <1>2, Sentinels DEF Insert
<1>4. Cardinality(Present(cache)) >= MaxSize /\ k \in Oldest(cache)
  BY <1>3 DEF EvictOldest
<1>5. Cardinality(Present(cache)) \in Nat
  BY PresentFinite
<1> QED
  BY <1>4, <1>5, DedupConstants DEF CacheBounded, Oldest

\* An entry that is still valid leaves the cache only when the cache is full, and
\* then none is older: the ticker, a late cleanup and a handler that found room
\* before all leave it there.
THEOREM EvictionTakesOldest == Spec => EvictsOldestFirst
<1> DEFINE Kept(k) ==
      cache[k] # NoEntry /\ ~Expired(cache[k]) /\ cache'[k] = NoEntry =>
        /\ Cardinality(Present(cache)) = MaxSize
        /\ \A j \in Present(cache) : cache[j].age <= cache[k].age
<1>1. ASSUME TypeOK, CacheBounded, [Next]_vars, NEW k \in Keys
      PROVE  Kept(k)
  <2> SUFFICES ASSUME cache[k] # NoEntry, ~Expired(cache[k]), cache'[k] = NoEntry
               PROVE  Kept(k)
    OBVIOUS
  <2>1. ~Tick
    BY <1>1, AgedType DEF Tick, TypeOK
  <2>2. ~Cleanup
    BY DEF Cleanup
  <2>3. PICK h \in Handlers : Store(h)
    BY <1>1, <2>1, <2>2
       DEF Next, Lookup, Suppress, Miss, ReceiveTick, ReceiveToken, LoopExit, Stop, vars
  <2> QED
    BY <1>1, <2>3, StoreEvictsOldest
<1>2. TypeOK /\ CacheBounded /\ [Next]_vars => [\A k \in Keys : Kept(k)]_vars
  BY <1>1
<1> QED
  BY <1>2, TypeCorrect, CacheStaysBounded, PTL DEF Spec, EvictsOldestFirst

-----------------------------------------------------------------------------
(* What is suppressed and what is let through.  ShouldProcess decides on an
   entry it read earlier; that is sound because nobody else stores the keys of
   its handler: each informer owns the keys of its kind. *)

DisjointKeys ==
  \A g, h \in Handlers : g # h => KeysOf[g] \cap KeysOf[h] = {}

\* Nothing that was let through makes the next event of the key a repetition.
Fresh(k) == passed[k] = NoEntry \/ Expired(passed[k]) \/ k \in evicted

\* The cache is the history of what was let through, minus what has expired or
\* was evicted.
CacheIsHistory ==
  \A k \in Keys :
    /\ cache[k] # NoEntry => cache[k] = passed[k]
    /\ cache[k] = NoEntry => Fresh(k)

\* So is what a handler has read, until it has decided and stored.
ReadIsHistory(h) ==
  LET c == call[h]
  IN  pc[h] # "idle" =>
        /\ c.key \in KeysOf[h]
        /\ c.entry # NoEntry => c.entry = passed[c.key]
        /\ c.entry = NoEntry => Fresh(c.key)
        /\ pc[h] = "store" =>
             Fresh(c.key) \/ ~SameSignature(passed[c.key].sig, c.sig)

HistoryInv == CacheIsHistory /\ \A h \in Handlers : ReadIsHistory(h)

LEMMA HistoryInit == Init => HistoryInv
BY DEF Init, HistoryInv, CacheIsHistory, ReadIsHistory, Fresh

\* What a step of handler h leaves alone, when only the keys of h may be stored.
LEMMA OthersKeep ==
  ASSUME DisjointKeys, NEW h \in Handlers, NEW g \in Handlers, g # h,
         ReadIsHistory(g), pc'[g] = pc[g], call'[g] = call[g],
         NEW k \in KeysOf[h],
         \A j \in Keys \ {k} : passed'[j] = passed[j],
         evicted \ {k} \subseteq evicted'
  PROVE  ReadIsHistory(g)'
<1> SUFFICES ASSUME pc[g] # "idle"
             PROVE  ReadIsHistory(g)'
  BY DEF ReadIsHistory
<1>1. call[g].key # k /\ call[g].key \in Keys
  BY DedupConstants DEF ReadIsHistory, DisjointKeys
<1>2. passed'[call[g].key] = passed[call[g].key]
  BY <1>1
<1>3. Fresh(call[g].key) => Fresh(call[g].key)'
  BY <1>1, <1>2 DEF Fresh
<1> QED
  BY <1>1, <1>2, <1>3 DEF ReadIsHistory

LEMMA HistoryStore ==
  ASSUME DisjointKeys, TypeOK, HistoryInv, NEW h \in Handlers, Store(h)
  PROVE  HistoryInv'
<1> DEFINE k == call[h].key
<1>1. k \in Keys /\ k \in KeysOf[h]
  BY DedupConstants DEF Store, HistoryInv, ReadIsHistory
<1>2. PICK gone \in SUBSET Keys : Insert(h, gone)
  BY DEF Store, EvictOldest, Oldest, Present
<1>3. CacheIsHistory'
  <2> SUFFICES ASSUME NEW j \in Keys
               PROVE  /\ cache'[j] # NoEntry => cache'[j] = passed'[j]
                      /\ cache'[j] = NoEntry => Fresh(j)'
    BY DEF CacheIsHistory
  <2>1. CASE j = k
    <3>1. [sig |-> call[h].sig, age |-> 0] \in CacheEntry
      BY DedupConstants DEF Store, TypeOK, Call, CacheEntry
    <3> QED
      BY <1>1, <1>2, <2>1, <3>1, Sentinels DEF Insert, TypeOK
  <2>2. CASE j # k /\ j \in gone
    BY <1>2, <2>2 DEF Insert, TypeOK, Fresh
  <2>3. CASE j # k /\ j \notin gone
    <3>1. cache'[j] = cache[j] /\ passed'[j] = passed[j]
          /\ (j \in evicted => j \in evicted')
      BY <1>2, <2>3 DEF Insert, TypeOK
    <3>2. Fresh(j) => Fresh(j)'
      BY <3>1 DEF Fresh
    <3> QED
      BY <3>1, <3>2 DEF HistoryInv, CacheIsHistory
  <2> QED
    BY <2>1, <2>2, <2>3
<1>4. ASSUME NEW g \in Handlers
      PROVE  ReadIsHistory(g)'
  <2>1. CASE g = h
    BY <2>1 DEF Store, ReadIsHistory, TypeOK
  <2>2. CASE g # h
    <3>1. pc'[g] = pc[g] /\ call'[g] = call[g]
      BY <2>2 DEF Store, TypeOK
    <3>2. \A j \in Keys \ {k} : passed'[j] = passed[j]
      BY <1>2 DEF Insert, TypeOK
    <3>3. evicted \ {k} \subseteq evicted'
      BY <1>2 DEF Insert
    <3>4. ReadIsHistory(g)
      BY DEF HistoryInv
    <3> QED
      BY <1>1, <2>2, <3>1, <3>2, <3>3, <3>4, OthersKeep
  <2> QED
    BY <2>1, <2>2
<1> QED
  BY <1>3, <1>4 DEF HistoryInv

\* An entry that grows older stays what it was.
LEMMA FreshTick ==
  ASSUME TypeOK, Tick, NEW k \in Keys
  PROVE  Fresh(k) => Fresh(k)'
BY AgedType DEF TypeOK, Tick, Fresh

LEMMA HistoryTick ==
  ASSUME TypeOK, HistoryInv, Tick
  PROVE  HistoryInv'
<1>1. CacheIsHistory'
  <2> SUFFICES ASSUME NEW k \in Keys
               PROVE  /\ cache'[k] # NoEntry => cache'[k] = passed'[k]
                      /\ cache'[k] = NoEntry => Fresh(k)'
    BY DEF CacheIsHistory
  <2>1. cache'[k] = Aged(cache[k]) /\ passed'[k] = Aged(passed[k])
    BY DEF Tick
  <2>2. cache'[k] = NoEntry <=> cache[k] = NoEntry
    BY <2>1, AgedType DEF TypeOK
  <2> QED
    BY <2>1, <2>2, FreshTick DEF HistoryInv, CacheIsHistory
<1>2. ASSUME NEW h \in Handlers
      PROVE  ReadIsHistory(h)'
  <2> SUFFICES ASSUME pc[h] # "idle"
               PROVE  ReadIsHistory(h)'
    BY DEF Tick, ReadIsHistory
  <2>1. call[h] \in Call
    BY DEF TypeOK
  <2>a. PICK k \in Keys : call[h].key = k
    BY <2>1 DEF Call
  <2>2. ReadIsHistory(h)
    BY DEF HistoryInv
  <2>3. call'[h] = [call[h] EXCEPT !.entry = Aged(@)]
    BY DEF Tick
  <2>4. /\ call'[h].key = k /\ call'[h].sig = call[h].sig
        /\ call'[h].entry = Aged(call[h].entry)
    BY <2>1, <2>a, <2>3 DEF Call
  <2>5. passed'[k] = Aged(passed[k]) /\ pc'[h] = pc[h]
    BY <2>1 DEF Tick
  <2>6. /\ call'[h].entry = NoEntry <=> call[h].entry = NoEntry
        /\ passed[k] # NoEntry => passed'[k].sig = passed[k].sig
    BY <2>1, <2>4, <2>5, AgedType DEF TypeOK, Call
  <2>7. Fresh(k) => Fresh(k)'
    BY <2>1, FreshTick
  <2>8. passed[k] = NoEntry => Fresh(k)
    BY DEF Fresh
  <2> QED
    BY <2>1, <2>a, <2>2, <2>4, <2>5, <2>6, <2>7, <2>8 DEF ReadIsHistory
<1> QED
  BY <1>1, <1>2 DEF HistoryInv

LEMMA HistoryStep ==
  ASSUME DisjointKeys, TypeOK, HistoryInv, [Next]_vars
  PROVE  HistoryInv'
<1>1. ASSUME NEW h \in Handlers, Lookup(h)
      PROVE  HistoryInv'
  <2>1. PICK k \in KeysOf[h], s \in Signature :
          call' = [call EXCEPT ![h] = [key |-> k, sig |-> s, entry |-> cache[k]]]
    BY <1>1 DEF Lookup
  <2>2. k \in Keys
    BY DedupConstants
  <2>3. ReadIsHistory(h)'
    BY <1>1, <2>1, <2>2
       DEF Lookup, TypeOK, HistoryInv, CacheIsHistory, ReadIsHistory, Fresh
  <2>4. ASSUME NEW g \in Handlers, g # h
        PROVE  ReadIsHistory(g)'
    BY <1>1, <2>4 DEF Lookup, TypeOK, HistoryInv, ReadIsHistory, Fresh
  <2> QED
    BY <1>1, <2>3, <2>4 DEF Lookup, HistoryInv, CacheIsHistory, Fresh
<1>2. ASSUME NEW h \in Handlers, Suppress(h)
      PROVE  HistoryInv'
  BY <1>2 DEF Suppress, TypeOK, HistoryInv, CacheIsHistory, ReadIsHistory, Fresh
<1>3. ASSUME NEW h \in Handlers, Miss(h)
      PROVE  HistoryInv'
  <2>1. ReadIsHistory(h)'
    BY <1>3 DEF Miss, TypeOK, HistoryInv, ReadIsHistory, Fresh, IsDuplicate
  <2>2. ASSUME NEW g \in Handlers, g # h
        PROVE  ReadIsHistory(g)'
    BY <1>3, <2>2 DEF Miss, TypeOK, HistoryInv, ReadIsHistory, Fresh
  <2> QED
    BY <1>3, <2>1, <2>2 DEF Miss, HistoryInv, CacheIsHistory, Fresh
<1>4. ASSUME NEW h \in Handlers, Store(h)
      PROVE  HistoryInv'
  BY <1>4, HistoryStore
<1>5. CASE Cleanup
  <2>1. CacheIsHistory'
    BY <1>5 DEF Cleanup, HistoryInv, CacheIsHistory, Fresh
  <2> QED
    BY <1>5, <2>1 DEF Cleanup, HistoryInv, ReadIsHistory, Fresh
<1>6. CASE Tick
  BY <1>6, HistoryTick
<1>7. CASE ReceiveTick \/ ReceiveToken \/ LoopExit \/ Stop \/ UNCHANGED vars
  BY <1>7 DEF ReceiveTick, ReceiveToken, LoopExit, Stop, vars, HistoryInv,
              CacheIsHistory, ReadIsHistory, Fresh
<1> QED
  BY <1>1, <1>2, <1>3, <1>4, <1>5, <1>6, <1>7 DEF Next

LEMMA HistoryCorrect ==
  ASSUME DisjointKeys
  PROVE  Spec => [](TypeOK /\ HistoryInv)
BY HistoryInit, HistoryStep, TypeInit, TypeStep, PTL DEF Spec

\* When handlers own their keys, an event is dropped only if the last event of
\* its key that was let through had its signature and is younger than the TTL.
THEOREM SuppressionIsJustified ==
  ASSUME DisjointKeys
  PROVE  Spec => SuppressionJustified
<1> DEFINE Justified(h) ==
      pc[h] = "decide" /\ pc'[h] = "idle" =>
        LET last == passed[call[h].key]
        IN  /\ last # NoEntry
            /\ SameSignature(last.sig, call[h].sig)
            /\ ~Expired(last)
<1>1. ASSUME TypeOK, HistoryInv, [Next]_vars, NEW h \in Handlers
      PROVE  Justified(h)
  <2> SUFFICES ASSUME pc[h] = "decide", pc'[h] = "idle"
               PROVE  Justified(h)
    OBVIOUS
  <2>1. Suppress(h)
    BY <1>1 DEF Next, Lookup, Suppress, Miss, Store, ReceiveTick, ReceiveToken,
                LoopExit, Cleanup, Stop, Tick, vars, TypeOK
  <2>2. ReadIsHistory(h)
    BY <1>1 DEF HistoryInv
  <2> QED
    BY <2>1, <2>2 DEF Suppress, IsDuplicate, ReadIsHistory
<1>2. TypeOK /\ HistoryInv /\ [Next]_vars => [\A h \in Handlers : Justified(h)]_vars
  BY <1>1
<1> QED
  BY <1>2, HistoryCorrect, PTL DEF Spec, SuppressionJustified

\* When handlers own their keys, an event that repeats the last one of its key
\* within the TTL is let through only if the entry was evicted in between.
THEOREM NoDuplicateIsPassed ==
  ASSUME DisjointKeys
  PROVE  Spec => NoDuplicatePassed
<1> DEFINE Justified(h) ==
      pc[h] = "store" /\ pc'[h] = "idle" =>
        LET last == passed[call[h].key]
        IN  \/ last = NoEntry
            \/ ~SameSignature(last.sig, call[h].sig)
            \/ Expired(last)
            \/ call[h].key \in evicted
<1>1. ASSUME TypeOK, HistoryInv, [Next]_vars, NEW h \in Handlers
      PROVE  Justified(h)
  BY <1>1 DEF HistoryInv, ReadIsHistory, Fresh
<1>2. TypeOK /\ HistoryInv /\ [Next]_vars => [\A h \in Handlers : Justified(h)]_vars
  BY <1>1
<1> QED
  BY <1>2, HistoryCorrect, PTL DEF Spec, NoDuplicatePassed

=============================================================================
