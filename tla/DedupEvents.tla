---------------------------- MODULE DedupEvents ----------------------------
(***************************************************************************)
(* The deduplicator with the events that main.go hands it.  The signature  *)
(* is the hash of the whole watcher.Event, and convertToEvent puts the     *)
(* time of the conversion into it, with nanoseconds: what an event is      *)
(* about and that time are a pair here.                                    *)
(***************************************************************************)
EXTENDS Dedup

CONSTANTS
  Contents,   \* what an event says of its object
  MaxStamp    \* bound on the conversions: Sigs is Contents \X (1 .. MaxStamp)

VARIABLE now    \* the Timestamp of the latest event

EventsInit == Init /\ now = 0

\* convertToEvent, and ShouldProcess with its result: no two events are
\* converted at the same instant.
Convert(h) ==
  /\ now < MaxStamp
  /\ now' = now + 1
  /\ Lookup(h)
  /\ call'[h].sig \in Contents \X {now'}

EventsNext ==
  \/ \E h \in Handlers : Convert(h)
  \/ /\ \/ \E h \in Handlers : Suppress(h) \/ Miss(h) \/ Store(h)
        \/ ReceiveTick \/ ReceiveToken \/ LoopExit \/ Cleanup
        \/ Stop \/ Tick
     /\ UNCHANGED now

EventsSpec == EventsInit /\ [][EventsNext]_<<vars, now>>

\* The same event is not notified twice within the TTL (README.md:17): an event
\* is let through only if the last one of its key said something else, is older
\* than the TTL or was evicted.  Broken (run dedup_events): the times in the two
\* events differ, and so do their signatures, whatever the events say.
SameEventNotRepeated ==
  [][\A h \in Handlers :
       pc[h] = "store" /\ pc'[h] = "idle" =>
         LET last == passed[call[h].key]
         IN  \/ last = NoEntry
             \/ last.sig[1] # call[h].sig[1]
             \/ Expired(last)
             \/ call[h].key \in evicted]_<<vars, now>>
=============================================================================
