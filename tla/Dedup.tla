------------------------------- MODULE Dedup -------------------------------
(***************************************************************************)
(* The event deduplicator of pkg/dedup: a cache from event key to the      *)
(* signature and time of the last event let through, shared by the         *)
(* goroutines that call ShouldProcess and by one cleanup goroutine.        *)
(*                                                                         *)
(* ShouldProcess is not atomic.  It reads the entry under the read lock,   *)
(* decides with no lock held, and only then takes the write lock to evict  *)
(* and insert, so it is three actions here; cleanup and Stop may fall      *)
(* between any two of them.  A section that holds d.mu never blocks and is *)
(* one action.                                                             *)
(*                                                                         *)
(* Time is kept as the age of each entry, which is all that time.Since and *)
(* the Before of evictOldest look at; an age stops growing at MaxAge.      *)
(***************************************************************************)
EXTENDS Naturals, FiniteSets

CONSTANTS
  Handlers,   \* goroutines that call ShouldProcess (one per informer)
  Keys,       \* cache keys: kind, namespace, name and event type of an event
  KeysOf,     \* the keys of the events a handler receives
  Sigs,       \* signatures: the hash of the event's JSON
  Unhashed,   \* signature of an event that could not be marshalled
  NoEntry,    \* "not in the cache"
  TTL,        \* d.ttl, in ticks
  MaxSize,    \* d.maxSize
  MaxAge      \* bound on ages: older entries are not told apart

\* Config.Validate replaces a TTL or a size that is not positive by a default.  (A
\* TTL that overflows a duration ends the process before: module Reload.)
ASSUME DedupConstants ==
  /\ KeysOf \in [Handlers -> SUBSET Keys]
  /\ IsFiniteSet(Keys)
  /\ TTL \in Nat \ {0}
  /\ MaxSize \in Nat \ {0}
  /\ MaxAge \in Nat /\ MaxAge >= TTL

\* The sentinels are values of their own.
ASSUME DedupSentinels ==
  /\ Unhashed \notin Sigs
  /\ NoEntry \notin [sig : Sigs \cup {Unhashed}, age : 0 .. MaxAge]

Signature == Sigs \cup {Unhashed}
CacheEntry == [sig : Signature, age : 0 .. MaxAge]

VARIABLES
  cache,      \* d.cache, as a total function with NoEntry for an absent key
  cleanupC,   \* d.cleanupC holds a token (a channel of capacity 1)
  tickC,      \* the ticker's channel holds a tick
  phase,      \* ticks since the ticker last fired
  loop,       \* where cleanupLoop is: "select", "cleanup" or "exited"
  stopped,    \* d.stopC is closed
  pc,         \* where each handler is: "idle", "decide" or "store"
  call,       \* the arguments of its call and the entry it read
  passed,     \* history: the last event of each key that was let through
  evicted     \* history: keys evicted since their last event was let through

vars == <<cache, cleanupC, tickC, phase, loop, stopped, pc, call, passed, evicted>>

MaybeEntry == CacheEntry \cup {NoEntry}

Present(c) == {k \in Keys : c[k] # NoEntry}

Expired(e) == e # NoEntry /\ e.age >= TTL

\* entry.Signature == signature: the time-based signature of an event that
\* could not be marshalled never equals another.
SameSignature(s, t) == s = t /\ s # Unhashed

Init ==
  /\ cache = [k \in Keys |-> NoEntry]
  /\ cleanupC = FALSE
  /\ tickC = FALSE
  /\ phase = 0
  /\ loop = "select"
  /\ stopped = FALSE
  /\ pc = [h \in Handlers |-> "idle"]
  /\ call = [h \in Handlers |-> NoEntry]
  /\ passed = [k \in Keys |-> NoEntry]
  /\ evicted = {}

-----------------------------------------------------------------------------
(* ShouldProcess *)

\* generateSignature, makeCacheKey and the lookup under the read lock.
Lookup(h) ==
  /\ pc[h] = "idle"
  /\ \E k \in KeysOf[h], s \in Signature :
       call' = [call EXCEPT ![h] = [key |-> k, sig |-> s, entry |-> cache[k]]]
  /\ pc' = [pc EXCEPT ![h] = "decide"]
  /\ UNCHANGED <<cache, cleanupC, tickC, phase, loop, stopped, passed, evicted>>

\* Faulty variant: the TTL is not looked at.
IsDuplicateForEver(c) ==
  /\ c.entry # NoEntry
  /\ SameSignature(c.entry.sig, c.sig)

\* The test that makes an event a duplicate, on the entry read before.
IsDuplicate(c) ==
  /\ c.entry # NoEntry
  /\ SameSignature(c.entry.sig, c.sig)
  /\ ~Expired(c.entry)

\* Returns false: the event is dropped.
Suppress(h) ==
  /\ pc[h] = "decide"
  /\ IsDuplicate(call[h])
  /\ pc' = [pc EXCEPT ![h] = "idle"]
  /\ call' = [call EXCEPT ![h] = NoEntry]
  /\ UNCHANGED <<cache, cleanupC, tickC, phase, loop, stopped, passed, evicted>>

\* Falls through to wait for the write lock.
Miss(h) ==
  /\ pc[h] = "decide"
  /\ ~IsDuplicate(call[h])
  /\ pc' = [pc EXCEPT ![h] = "store"]
  /\ UNCHANGED <<cache, cleanupC, tickC, phase, loop, stopped, call, passed, evicted>>

\* Faulty variant: the comparison of the times the wrong way round.
Newest(c) == {k \in Present(c) : \A j \in Present(c) : c[k].age <= c[j].age}

\* The keys evictOldest may pick: of several oldest entries, the first in the
\* unspecified order of the map iteration.
Oldest(c) == {k \in Present(c) : \A j \in Present(c) : c[j].age <= c[k].age}

\* Faulty variant: > for >=.
EvictOldestTooLate(c) == IF Cardinality(Present(c)) > MaxSize THEN Oldest(c) ELSE {}

\* The keys one of which is evicted before the insertion, {} for no eviction.
EvictOldest(c) == IF Cardinality(Present(c)) >= MaxSize THEN Oldest(c) ELSE {}

\* The section under the write lock: evict, insert, trigger a cleanup with a
\* non-blocking send, return true.  gone is the set of evicted keys.
Insert(h, gone) ==
  LET k == call[h].key
      fresh == [sig |-> call[h].sig, age |-> 0]
  IN  /\ cache' = [j \in Keys |-> IF j = k THEN fresh
                                  ELSE IF j \in gone THEN NoEntry ELSE cache[j]]
      /\ passed' = [passed EXCEPT ![k] = fresh]
      /\ evicted' = (evicted \cup gone) \ {k}

Store(h) ==
  /\ pc[h] = "store"
  /\ IF EvictOldest(cache) = {}
       THEN Insert(h, {})
       ELSE \E victim \in EvictOldest(cache) : Insert(h, {victim})
  /\ cleanupC' = TRUE
  /\ pc' = [pc EXCEPT ![h] = "idle"]
  /\ call' = [call EXCEPT ![h] = NoEntry]
  /\ UNCHANGED <<tickC, phase, loop, stopped>>

-----------------------------------------------------------------------------
(* The cleanup goroutine *)

\* select: a tick or a cleanup token is received.
ReceiveTick ==
  /\ loop = "select" /\ tickC
  /\ tickC' = FALSE
  /\ loop' = "cleanup"
  /\ UNCHANGED <<cache, cleanupC, phase, stopped, pc, call, passed, evicted>>

ReceiveToken ==
  /\ loop = "select" /\ cleanupC
  /\ cleanupC' = FALSE
  /\ loop' = "cleanup"
  /\ UNCHANGED <<cache, tickC, phase, stopped, pc, call, passed, evicted>>

\* select: stopC is closed.
LoopExit ==
  /\ loop = "select" /\ stopped
  /\ loop' = "exited"
  /\ UNCHANGED <<cache, cleanupC, tickC, phase, stopped, pc, call, passed, evicted>>

\* Faulty variants: the age is not looked at; the loop ends after one cleanup.
CleanupAll ==
  /\ loop = "cleanup"
  /\ cache' = [k \in Keys |-> NoEntry]
  /\ loop' = "select"
  /\ UNCHANGED <<cleanupC, tickC, phase, stopped, pc, call, passed, evicted>>

CleanupOnce ==
  /\ loop = "cleanup"
  /\ cache' = [k \in Keys |-> IF Expired(cache[k]) THEN NoEntry ELSE cache[k]]
  /\ loop' = "exited"
  /\ UNCHANGED <<cleanupC, tickC, phase, stopped, pc, call, passed, evicted>>

\* cleanup, under the write lock.
Cleanup ==
  /\ loop = "cleanup"
  /\ cache' = [k \in Keys |-> IF Expired(cache[k]) THEN NoEntry ELSE cache[k]]
  /\ loop' = "select"
  /\ UNCHANGED <<cleanupC, tickC, phase, stopped, pc, call, passed, evicted>>

\* Stop closes stopC.  A second close would panic: that it is called once per
\* deduplicator is the caller's business (module KubeWatcher).
Stop ==
  /\ ~stopped
  /\ stopped' = TRUE
  /\ UNCHANGED <<cache, cleanupC, tickC, phase, loop, pc, call, passed, evicted>>

-----------------------------------------------------------------------------
(* The clock: everything ages, and the ticker fires once every TTL ticks until
   the loop stops it on its way out. *)

Older(n) == IF n < MaxAge THEN n + 1 ELSE MaxAge

Aged(e) == IF e = NoEntry THEN NoEntry ELSE [e EXCEPT !.age = Older(@)]

\* Faulty variant: the ticker does not start over.
TickNoReset ==
  /\ cache' = [k \in Keys |-> Aged(cache[k])]
  /\ passed' = [k \in Keys |-> Aged(passed[k])]
  /\ call' = call
  /\ phase' = phase + 1
  /\ UNCHANGED <<cleanupC, tickC, loop, stopped, pc, evicted>>

Tick ==
  /\ cache' = [k \in Keys |-> Aged(cache[k])]
  /\ passed' = [k \in Keys |-> Aged(passed[k])]
  /\ call' = [h \in Handlers |->
                IF pc[h] = "idle" THEN call[h]
                ELSE [call[h] EXCEPT !.entry = Aged(@)]]
  /\ phase' = (phase + 1) % TTL
  /\ tickC' = (tickC \/ (phase' = 0 /\ loop # "exited"))
  /\ UNCHANGED <<cleanupC, loop, stopped, pc, evicted>>

-----------------------------------------------------------------------------

Next ==
  \/ \E h \in Handlers : Lookup(h) \/ Suppress(h) \/ Miss(h) \/ Store(h)
  \/ ReceiveTick \/ ReceiveToken \/ LoopExit \/ Cleanup
  \/ Stop
  \/ Tick

Spec == Init /\ [][Next]_vars

\* Time passes and the cleanup goroutine is scheduled.  Nothing is assumed of
\* the handlers: events need not arrive.
FairSpec ==
  /\ Spec
  /\ WF_vars(Tick)
  /\ WF_vars(ReceiveTick \/ ReceiveToken \/ LoopExit)
  /\ WF_vars(Cleanup)

-----------------------------------------------------------------------------
(* Properties *)

Call == [key : Keys, sig : Signature, entry : MaybeEntry]

TypeOK ==
  /\ cache \in [Keys -> MaybeEntry]
  /\ cleanupC \in BOOLEAN /\ tickC \in BOOLEAN
  /\ phase \in 0 .. TTL - 1
  /\ loop \in {"select", "cleanup", "exited"}
  /\ stopped \in BOOLEAN
  /\ pc \in [Handlers -> {"idle", "decide", "store"}]
  /\ call \in [Handlers -> Call \cup {NoEntry}]
  /\ \A h \in Handlers : pc[h] # "idle" => call[h] \in Call
  /\ passed \in [Keys -> MaybeEntry]
  /\ evicted \subseteq Keys

\* The cache never holds more than maxSize entries, whatever the handlers that
\* found it full at the same time do (TestDeduplicator_CacheEviction tries it
\* with one goroutine).
CacheBounded == Cardinality(Present(cache)) <= MaxSize

\* An event is dropped only if the last event of its key that was let through
\* had the same signature and is younger than the TTL: nothing new is ever
\* taken for a duplicate, although the entry was read long before.
SuppressionJustified ==
  [][\A h \in Handlers :
       pc[h] = "decide" /\ pc'[h] = "idle" =>
         LET last == passed[call[h].key]
         IN  /\ last # NoEntry
             /\ SameSignature(last.sig, call[h].sig)
             /\ ~Expired(last)]_vars

\* An event that repeats the last one of its key within the TTL is let through
\* only if that key's entry was evicted in between.  It takes that the handlers
\* share no key: nothing is locked between the look-up and the insertion, and it
\* is the informers, one goroutine per kind, that keep a key to one handler.
NoDuplicatePassed ==
  [][\A h \in Handlers :
       pc[h] = "store" /\ pc'[h] = "idle" =>
         LET last == passed[call[h].key]
         IN  \/ last = NoEntry
             \/ ~SameSignature(last.sig, call[h].sig)
             \/ Expired(last)
             \/ call[h].key \in evicted]_vars

\* An entry that is still valid leaves the cache only when the cache is full
\* and none of its entries is older.
EvictsOldestFirst ==
  [][\A k \in Keys :
       cache[k] # NoEntry /\ ~Expired(cache[k]) /\ cache'[k] = NoEntry =>
         /\ Cardinality(Present(cache)) = MaxSize
         /\ \A j \in Present(cache) : cache[j].age <= cache[k].age]_vars

\* An expired entry does not stay for ever: the ticker alone, with no event
\* arriving, has it removed, unless the deduplicator is stopped.
ExpiredRemoved ==
  \A k \in Keys : Expired(cache[k]) ~> (~Expired(cache[k]) \/ stopped)
=============================================================================
