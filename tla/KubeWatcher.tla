---------------------------- MODULE KubeWatcher ----------------------------
(***************************************************************************)
(* The process of cmd/main.go: one goroutine per watched kind runs the     *)
(* event handler, one goroutine reloads the configuration, the batchers'   *)
(* callbacks run in goroutines of their own, and the main goroutine waits  *)
(* for a signal and then runs its deferred calls.  They share the          *)
(* components that a reload replaces, and the lock mu that protects them.  *)
(*                                                                         *)
(* A pass of initComponents is a generation: generation 1 is the start,    *)
(* and the components are named by the generation that made them.  The     *)
(* batcher and the deduplicator are taken at their interface (modules      *)
(* Batcher and Dedup): a batcher takes events, hands a batch of all it     *)
(* holds to its callback when a timer goes off or when it is stopped, and  *)
(* a deduplicator says whether an event repeats another.                   *)
(*                                                                         *)
(* A section that only reads the shared components under mu.RLock, and     *)
(* does nothing else there, is one action that needs mu to be free.        *)
(***************************************************************************)
EXTENDS Naturals, Sequences

CONSTANTS
  Kinds,     \* resource kinds
  Events,    \* what the informers report, each of it once
  KindOf,    \* the kind of each event
  SigOf,     \* its key and signature: what a deduplicator tells events by
  Configs,   \* configurations that LoadConfig accepts and whose TTL a ticker takes
             \* (module Reload has the others)
  NoEvent,   \* what a handler that is not called has for an event
  MaxGen     \* bound on the passes of initComponents

Config == [kinds : SUBSET Kinds, dedup : BOOLEAN, batching : BOOLEAN,
           template : BOOLEAN]   \* whether the template parses

ASSUME KubeWatcherConstants ==
  /\ KindOf \in [Events -> Kinds]
  /\ Configs \subseteq Config
  /\ NoEvent \notin Events
  /\ MaxGen \in Nat \ {0}

Gens == 1 .. MaxGen
None == 0            \* a nil pointer
GenOrNone == 0 .. MaxGen

VARIABLES
  main,      \* the main goroutine: "syncing", "watching", its deferred calls
             \* "stopConfig", "stopBatcher", "flush" and "stopDedup", and the
             \* end of the process: "exited" or "panicked"
  cancelled, \* ctx is cancelled
  mu,        \* initComponents holds mu
  configs,   \* the configuration of each generation so far
  shared,    \* the components that mu protects
  reload,    \* the reload goroutine: "idle", in initComponents at "lock",
             \* "batcher" or "swap", or "exited"
  loaded,    \* the configuration it has loaded, else the one in effect
  handlers,  \* per kind: where the event handler is, its event and snapshot
  buffer,    \* the events each batcher holds
  calls,     \* calls of the batch handlers, the finished ones too
  stopped,   \* the deduplicators and batchers whose stop channel is closed
  outcome,   \* what has become of each event
  passed     \* the events that each deduplicator has let pass

processVars == <<main, cancelled>>
componentVars == <<mu, configs, shared>>
reloadVars == <<reload, loaded>>
handlerVars == <<handlers, outcome, passed>>
batchVars == <<buffer, calls>>
vars == <<processVars, componentVars, reloadVars, handlerVars, batchVars, stopped>>

Components == [fmt : Gens, notifier : Gens, filter : Gens,
               dedup : GenOrNone, batcher : GenOrNone]

Alive == main \notin {"exited", "panicked"}

Enabled(flag, g) == IF flag THEN g ELSE None

\* Faulty variant: no notifier is made.
MadeNoNotifier(c, g) == [fmt |-> g, notifier |-> None, filter |-> g,
                         dedup |-> Enabled(c.dedup, g),
                         batcher |-> Enabled(c.batching, g)]

\* What initComponents makes of configuration c in generation g.
Made(c, g) == [fmt |-> g, notifier |-> g, filter |-> g,
               dedup |-> Enabled(c.dedup, g),
               batcher |-> Enabled(c.batching, g)]

\* A handler that is not called; a call's locals are gone when it returns.
NotCalled ==
  [pc |-> "idle", event |-> NoEvent,
   snap |-> [fmt |-> 1, notifier |-> 1, filter |-> 1, dedup |-> None, batcher |-> None]]

Init ==
  /\ main = "syncing"
  /\ cancelled = FALSE
  /\ mu = FALSE
  /\ \E c \in Configs :
       /\ c.template
       /\ configs = <<c>>
       /\ shared = Made(c, 1)
       /\ loaded = c
  /\ handlers = [k \in Kinds |-> NotCalled]
  /\ reload = "idle"
  /\ buffer = [g \in Gens |-> {}]
  /\ calls = {}
  /\ stopped = [dedup |-> {}, batcher |-> {}]
  /\ outcome = [e \in Events |-> "new"]
  /\ passed = [g \in Gens |-> {}]

-----------------------------------------------------------------------------
(* Batchers *)

\* Faulty variant: the batcher keeps what it hands over.
TakeBatchKeeping(g, by) ==
  /\ calls' = calls \cup
       {[gen |-> g, batch |-> buffer[g], by |-> by, at |-> "lock", notifier |-> None]}
  /\ UNCHANGED buffer

\* The batch handler of generation g called with all that its batcher holds.
TakeBatch(g, by) ==
  /\ calls' = calls \cup
       {[gen |-> g, batch |-> buffer[g], by |-> by, at |-> "lock", notifier |-> None]}
  /\ buffer' = [buffer EXCEPT ![g] = {}]

\* Faulty variant: only the batcher in use has a timer.
TimerFlushCurrent(g) ==
  /\ Alive
  /\ buffer[g] # {} /\ g = shared.batcher
  /\ TakeBatch(g, "timer")
  /\ UNCHANGED <<processVars, componentVars, reloadVars, handlerVars, stopped>>

TimerFlush(g) ==
  /\ Alive
  /\ buffer[g] # {}
  /\ TakeBatch(g, "timer")
  /\ UNCHANGED <<processVars, componentVars, reloadVars, handlerVars, stopped>>

Move(call, to) == calls' = (calls \ {call}) \cup {to}

\* The batch handler reads the formatter and the notifier under mu.RLock.
BatchSnapshot(call) ==
  /\ Alive
  /\ call.at = "lock" /\ ~mu
  /\ Move(call, [call EXCEPT !.at = "send", !.notifier = shared.notifier])
  /\ UNCHANGED <<processVars, componentVars, reloadVars, handlerVars, buffer,
                 stopped>>

\* It sends the message, and returns whether that worked or not.
BatchSend(call) ==
  /\ Alive
  /\ call.at = "send"
  /\ Move(call, [call EXCEPT !.at = "done", !.notifier = None])
  /\ \E result \in {"sent", "failed"} :
       outcome' = [e \in Events |-> IF e \in call.batch THEN result ELSE outcome[e]]
  /\ UNCHANGED <<processVars, componentVars, reloadVars, handlers, passed,
                 buffer, stopped>>

\* The flush of a Stop is over when the batch handler has returned.
Flushed(by) == \A call \in calls : call.by = by => call.at = "done"

-----------------------------------------------------------------------------
(* eventHandler, called by the informer of each kind watched at the start *)

\* Closing stopCh does not wait for the informers: they may go on until the process
\* ends.
Receive(k) ==
  /\ Alive
  /\ k \in configs[1].kinds
  /\ handlers[k].pc = "idle"
  /\ \E e \in Events :
       /\ outcome[e] = "new" /\ KindOf[e] = k
       /\ outcome' = [outcome EXCEPT ![e] = "received"]
       /\ handlers' = [handlers EXCEPT ![k].pc = "lock", ![k].event = e]
  /\ UNCHANGED <<processVars, componentVars, reloadVars, passed, batchVars,
                 stopped>>

\* Faulty variant: the snapshot is taken without mu.
SnapshotUnlocked(k) ==
  /\ Alive
  /\ handlers[k].pc = "lock"
  /\ handlers' = [handlers EXCEPT ![k].pc = "screen", ![k].snap = shared]
  /\ UNCHANGED <<processVars, componentVars, reloadVars, outcome, passed,
                 batchVars, stopped>>

Snapshot(k) ==
  /\ Alive
  /\ handlers[k].pc = "lock" /\ ~mu
  /\ handlers' = [handlers EXCEPT ![k].pc = "screen", ![k].snap = shared]
  /\ UNCHANGED <<processVars, componentVars, reloadVars, outcome, passed,
                 batchVars, stopped>>

\* Faulty variant: the deduplicator is asked before the filter.
DropDedupFirst(k) ==
  LET h == handlers[k]
      memory == h.snap.dedup
  IN  /\ Alive
      /\ h.pc = "screen"
      /\ \/ /\ outcome' = [outcome EXCEPT ![h.event] = "filtered"]
            /\ passed' = IF memory = None THEN passed
                         ELSE [passed EXCEPT ![memory] = @ \cup {h.event}]
         \/ /\ k \in configs[h.snap.filter].kinds
            /\ memory # None /\ \E e \in passed[memory] : SigOf[e] = SigOf[h.event]
            /\ outcome' = [outcome EXCEPT ![h.event] = "duplicate"]
            /\ UNCHANGED passed
      /\ handlers' = [handlers EXCEPT ![k] = NotCalled]
      /\ UNCHANGED <<processVars, componentVars, reloadVars, batchVars,
                     stopped>>

\* The filter drops events of kinds its configuration does not watch, and
\* others by their labels and changes; the deduplicator, if it has let an equal
\* event pass, drops this one, unless the entry has expired or was evicted.
Drop(k) ==
  LET h == handlers[k]
  IN  /\ Alive
      /\ h.pc = "screen"
      /\ \/ outcome' = [outcome EXCEPT ![h.event] = "filtered"]
         \/ /\ k \in configs[h.snap.filter].kinds
            /\ h.snap.dedup # None
            /\ \E e \in passed[h.snap.dedup] : SigOf[e] = SigOf[h.event]
            /\ outcome' = [outcome EXCEPT ![h.event] = "duplicate"]
      /\ handlers' = [handlers EXCEPT ![k] = NotCalled]
      /\ UNCHANGED <<processVars, componentVars, reloadVars, passed, batchVars,
                     stopped>>

\* The event passes both; the deduplicator records it before it is sent.
Pass(k) ==
  LET h == handlers[k]
  IN  /\ Alive
      /\ h.pc = "screen"
      /\ k \in configs[h.snap.filter].kinds
      /\ passed' = IF h.snap.dedup = None THEN passed
                   ELSE [passed EXCEPT ![h.snap.dedup] = @ \cup {h.event}]

\* The event goes to the batcher of the snapshot, which may have been replaced
\* and stopped by now, ...
AddToBatch(k) ==
  LET h == handlers[k]
  IN  /\ Pass(k)
      /\ h.snap.batcher # None
      /\ buffer' = [buffer EXCEPT ![h.snap.batcher] = @ \cup {h.event}]
      /\ outcome' = [outcome EXCEPT ![h.event] = "batched"]
      /\ handlers' = [handlers EXCEPT ![k] = NotCalled]
      /\ UNCHANGED <<processVars, componentVars, reloadVars, calls, stopped>>

\* ... or is sent by the notifier of the snapshot.
Notify(k) ==
  LET h == handlers[k]
  IN  /\ Pass(k)
      /\ h.snap.batcher = None
      /\ handlers' = [handlers EXCEPT ![k].pc = "send"]
      /\ UNCHANGED <<processVars, componentVars, reloadVars, outcome,
                     batchVars, stopped>>

Send(k) ==
  /\ Alive
  /\ handlers[k].pc = "send"
  /\ \E result \in {"sent", "failed"} :
       outcome' = [outcome EXCEPT ![handlers[k].event] = result]
  /\ handlers' = [handlers EXCEPT ![k] = NotCalled]
  /\ UNCHANGED <<processVars, componentVars, reloadVars, passed, batchVars,
                 stopped>>

-----------------------------------------------------------------------------
(* The reload goroutine: watchLoop, reloadConfig and initComponents *)

\* Closing a channel twice panics, and a panic ends the process.
Panic ==
  /\ main' = "panicked"
  /\ UNCHANGED <<cancelled, componentVars, reloadVars, handlerVars, batchVars,
                 stopped>>

Stop(what, g) == stopped' = [stopped EXCEPT ![what] = @ \cup {g}]

\* The file has changed and LoadConfig accepts it.
LoadConfig ==
  /\ Alive
  /\ reload = "idle" /\ Len(configs) < MaxGen
  /\ reload' = "lock"
  /\ loaded' \in Configs
  /\ UNCHANGED <<processVars, componentVars, handlerVars, batchVars, stopped>>

\* Faulty variant: the deduplicator goes before the template is looked at.
BadTemplateApplied ==
  /\ Alive
  /\ reload = "lock" /\ ~mu
  /\ ~loaded.template
  /\ reload' = "idle"
  /\ shared' = [shared EXCEPT !.dedup = None]
  /\ UNCHANGED <<processVars, mu, configs, loaded, handlerVars, batchVars,
                 stopped>>

\* initComponents returns before it has changed anything.
BadTemplate ==
  /\ Alive
  /\ reload = "lock" /\ ~mu
  /\ ~loaded.template
  /\ reload' = "idle"
  /\ loaded' = configs[Len(configs)]
  /\ UNCHANGED <<processVars, componentVars, handlerVars, batchVars, stopped>>

\* Faulty variant: the old deduplicator is not stopped.
ReinitLeaking ==
  LET g == Len(configs) + 1
  IN  /\ configs' = Append(configs, loaded)
      /\ shared' = [Made(loaded, g) EXCEPT !.batcher = shared.batcher]
      /\ mu' = TRUE
      /\ reload' = "batcher"
      /\ UNCHANGED <<processVars, loaded, handlerVars, batchVars, stopped>>

\* mu.Lock, and the components up to the deduplicator, the old one stopped.
Reinit ==
  LET g == Len(configs) + 1
  IN  /\ configs' = Append(configs, loaded)
      /\ shared' = [Made(loaded, g) EXCEPT !.batcher = shared.batcher]
      /\ mu' = TRUE
      /\ reload' = "batcher"
      /\ IF shared.dedup = None THEN UNCHANGED stopped ELSE Stop("dedup", shared.dedup)
      /\ UNCHANGED <<processVars, loaded, handlerVars, batchVars>>

InitComponents ==
  /\ Alive
  /\ reload = "lock" /\ ~mu
  /\ loaded.template
  /\ IF shared.dedup \in stopped.dedup THEN Panic ELSE Reinit

\* Faulty variant: what the old batcher holds is dropped.
StopOldBatcherDropping ==
  /\ Alive
  /\ reload = "batcher"
  /\ IF shared.batcher \in stopped.batcher THEN Panic
     ELSE /\ IF shared.batcher = None THEN UNCHANGED <<stopped, buffer>>
             ELSE /\ Stop("batcher", shared.batcher)
                  /\ buffer' = [buffer EXCEPT ![shared.batcher] = {}]
          /\ reload' = "swap"
          /\ UNCHANGED <<processVars, componentVars, loaded, handlerVars,
                         calls>>

\* eventBatcher.Stop: close stopCh and flush, with mu held.
StopOldBatcher ==
  /\ Alive
  /\ reload = "batcher"
  /\ IF shared.batcher \in stopped.batcher THEN Panic
     ELSE /\ IF shared.batcher = None THEN UNCHANGED stopped
             ELSE Stop("batcher", shared.batcher)
          /\ IF shared.batcher # None /\ buffer[shared.batcher] # {}
               THEN TakeBatch(shared.batcher, "reload")
               ELSE UNCHANGED <<calls, buffer>>
          /\ reload' = "swap"
          /\ UNCHANGED <<processVars, componentVars, loaded, handlerVars>>

\* Once that Stop has returned, the new batcher or nil; mu.Unlock.
SwapBatcher ==
  /\ Alive
  /\ reload = "swap" /\ Flushed("reload")
  /\ shared' = [shared EXCEPT !.batcher = Enabled(loaded.batching, Len(configs))]
  /\ mu' = FALSE
  /\ reload' = "idle"
  /\ UNCHANGED <<processVars, configs, loaded, handlerVars, batchVars, stopped>>

\* watchLoop returns once configWatcher.Stop has closed its channel.
WatchLoopExit ==
  /\ main \in {"stopBatcher", "flush", "stopDedup"}
  /\ reload = "idle"
  /\ reload' = "exited"
  /\ UNCHANGED <<processVars, componentVars, loaded, handlerVars, batchVars,
                 stopped>>

-----------------------------------------------------------------------------
(* The main goroutine *)

Signal ==
  /\ Alive /\ ~cancelled
  /\ cancelled' = TRUE
  /\ UNCHANGED <<main, componentVars, reloadVars, handlerVars, batchVars,
                 stopped>>

\* WaitForCacheSync returns: the API server has listed every kind.
Synced ==
  /\ main = "syncing"
  /\ main' = "watching"
  /\ UNCHANGED <<cancelled, componentVars, reloadVars, handlerVars, batchVars,
                 stopped>>

\* w.Start returns, and the deferred calls run: the last deferred comes first.
StartReturns ==
  /\ main = "watching" /\ cancelled
  /\ main' = "stopConfig"
  /\ UNCHANGED <<cancelled, componentVars, reloadVars, handlerVars, batchVars,
                 stopped>>

StopConfigWatcher ==
  /\ main = "stopConfig"
  /\ main' = "stopBatcher"
  /\ UNCHANGED <<cancelled, componentVars, reloadVars, handlerVars, batchVars,
                 stopped>>

\* Faulty variants: mu is taken first; the batcher is not flushed.
DeferredBatcherStopLocked ==
  /\ main = "stopBatcher" /\ ~mu
  /\ IF configs[1].batching /\ 1 \in stopped.batcher THEN Panic
     ELSE /\ IF configs[1].batching THEN Stop("batcher", 1) ELSE UNCHANGED stopped
          /\ IF buffer[1] # {}
               THEN TakeBatch(1, "main") /\ main' = "flush"
               ELSE UNCHANGED <<calls, buffer>> /\ main' = "stopDedup"
          /\ UNCHANGED <<cancelled, componentVars, reloadVars, handlerVars>>

DeferredBatcherStopNoFlush ==
  /\ main = "stopBatcher"
  /\ IF configs[1].batching /\ 1 \in stopped.batcher THEN Panic
     ELSE /\ IF configs[1].batching THEN Stop("batcher", 1) ELSE UNCHANGED stopped
          /\ main' = "stopDedup"
          /\ UNCHANGED <<cancelled, componentVars, reloadVars, handlerVars,
                         batchVars>>

\* The batcher that the deferred call stops is the one of generation 1.
DeferredBatcherStop ==
  /\ main = "stopBatcher"
  /\ IF configs[1].batching /\ 1 \in stopped.batcher THEN Panic
     ELSE /\ IF configs[1].batching THEN Stop("batcher", 1) ELSE UNCHANGED stopped
          /\ IF buffer[1] # {}
               THEN TakeBatch(1, "main") /\ main' = "flush"
               ELSE UNCHANGED <<calls, buffer>> /\ main' = "stopDedup"
          /\ UNCHANGED <<cancelled, componentVars, reloadVars, handlerVars>>

DeferredFlushed ==
  /\ main = "flush" /\ Flushed("main")
  /\ main' = "stopDedup"
  /\ UNCHANGED <<cancelled, componentVars, reloadVars, handlerVars, batchVars,
                 stopped>>

\* So is the deduplicator; main returns.
DeferredDedupStop ==
  /\ main = "stopDedup"
  /\ IF configs[1].dedup /\ 1 \in stopped.dedup THEN Panic
     ELSE /\ main' = "exited"
          /\ IF configs[1].dedup THEN Stop("dedup", 1) ELSE UNCHANGED stopped
          /\ UNCHANGED <<cancelled, componentVars, reloadVars, handlerVars,
                         batchVars>>

-----------------------------------------------------------------------------

Handler(k) ==
  Snapshot(k) \/ Drop(k) \/ AddToBatch(k) \/ Notify(k) \/ Send(k)

InitComponentsStep ==
  BadTemplate \/ InitComponents \/ StopOldBatcher \/ SwapBatcher

MainStep ==
  \/ StartReturns \/ StopConfigWatcher
  \/ DeferredBatcherStop \/ DeferredFlushed \/ DeferredDedupStop

Next ==
  \/ \E k \in Kinds : Receive(k) \/ Handler(k)
  \/ \E g \in Gens : TimerFlush(g)
  \/ \E call \in calls : BatchSnapshot(call) \/ BatchSend(call)
  \/ LoadConfig \/ InitComponentsStep \/ WatchLoopExit
  \/ Signal \/ Synced \/ MainStep

Spec == Init /\ [][Next]_vars

\* Every goroutine that can go on does, timers go off and HTTP requests end.
\* Events, changes of the file and signals need not come, and the API server
\* need not answer.
FairSpec ==
  /\ Spec
  /\ WF_vars(\E k \in Kinds : Handler(k))
  /\ WF_vars(\E g \in Gens : TimerFlush(g))
  /\ WF_vars(\E call \in calls : BatchSnapshot(call) \/ BatchSend(call))
  /\ WF_vars(InitComponentsStep)
  /\ WF_vars(MainStep)

-----------------------------------------------------------------------------
(* Properties *)

Snapshots == [Kinds -> [pc : {"idle", "lock", "screen", "send"},
                        event : Events \cup {NoEvent}, snap : Components]]

Call == [gen : Gens, batch : SUBSET Events, by : {"timer", "reload", "main"},
         at : {"lock", "send", "done"}, notifier : GenOrNone]

TypeOK ==
  /\ main \in {"syncing", "watching", "stopConfig", "stopBatcher", "flush",
               "stopDedup", "exited", "panicked"}
  /\ cancelled \in BOOLEAN /\ mu \in BOOLEAN
  /\ configs \in Seq(Configs) /\ Len(configs) \in Gens
  /\ shared \in Components
  /\ reload \in {"idle", "lock", "batcher", "swap", "exited"}
  /\ loaded \in Configs
  /\ handlers \in Snapshots
  /\ buffer \in [Gens -> SUBSET Events]
  /\ calls \subseteq Call
  /\ stopped \in [dedup : SUBSET Gens, batcher : SUBSET Gens]
  /\ outcome \in [Events -> {"new", "received", "filtered", "duplicate", "batched",
                             "sent", "failed"}]
  /\ passed \in [Gens -> SUBSET Events]

\* A handler works with the components of one configuration, although a reload
\* replaces them one by one and may come at any point of the handler.
SnapshotConsistent ==
  \A k \in Kinds :
    handlers[k].pc \in {"screen", "send"} =>
      LET s == handlers[k].snap
      IN  s.filter \in 1 .. Len(configs) /\ s = Made(configs[s.filter], s.filter)

PassedOn(e) ==
  \/ outcome[e] \in {"batched", "sent", "failed"}
  \/ \E k \in Kinds : handlers[k].pc = "send" /\ handlers[k].event = e

\* An event is dropped as a duplicate only if an equal event was passed on before
\* it: it is in a batch, sent or being sent, or sending it has failed.  What the
\* filter dropped makes no later event a duplicate.
DuplicatesRepeat ==
  \A e \in Events : outcome[e] = "duplicate" =>
    \E d \in Events : d # e /\ SigOf[d] = SigOf[e] /\ PassedOn(d)

\* A reload takes effect when it is over: what a handler or a batch handler
\* reads from then on is of the last configuration that initComponents accepted;
\* one that it refused for its template leaves no trace.
ReloadTakesEffect ==
  [][/\ \A k \in Kinds :
          handlers[k].pc = "lock" /\ handlers'[k].pc = "screen" =>
            handlers'[k].snap = Made(configs[Len(configs)], Len(configs))
     /\ \A call \in calls' \ calls :
          call.at = "send" => call.notifier = Len(configs)]_vars

MadeDedups == {g \in 1 .. Len(configs) : configs[g].dedup}
MadeBatchers == {g \in 1 .. Len(configs) : configs[g].batching}

\* No goroutine or timer of a replaced component is left running, and none in
\* use is stopped: between reloads, until the process shuts down, exactly the
\* components that are shared are not stopped.
OnlySharedRun ==
  ~mu /\ main \in {"syncing", "watching", "stopConfig"} =>
    /\ MadeDedups \ stopped.dedup = {shared.dedup} \ {None}
    /\ MadeBatchers \ stopped.batcher = {shared.batcher} \ {None}

\* An event is in one place, whatever batchers reloads have made: no two batchers
\* hold it, none holds one that a batch handler was called with, and no two calls
\* are about it.  No batch handler is called without an event.
EventsInOnePlace ==
  /\ \A g, h \in Gens : g # h => buffer[g] \cap buffer[h] = {}
  /\ \A g \in Gens : \A call \in calls : buffer[g] \cap call.batch = {}
  /\ \A c, d \in calls : c # d => c.batch \cap d.batch = {}
  /\ \A call \in calls : call.batch # {}

\* A reload neither loses nor repeats an event of a batcher, even one that a
\* handler with an older snapshot adds after the batcher was replaced.
Sink(g) == INSTANCE EventSink WITH
  pending <- buffer[g],
  sending <- {call.batch : call \in {c \in calls : c.gen = g /\ c.at # "done"}},
  sent <- UNION {call.batch : call \in {c \in calls : c.gen = g /\ c.at = "done"}}

BatchersAreSinks ==
  /\ \A g \in Gens : Sink(g)!Init
  /\ [][\A g \in Gens : [Sink(g)!Next]_(Sink(g)!vars)]_vars

\* "unlock before calling to avoid deadlock" (batcher.go:115).  Broken (run
\* reload_deadlock): b.mu is released, but a reload holds mu while the Stop of
\* the old batcher waits for a batch handler that waits for mu.
NoSelfDeadlock ==
  ~ /\ reload = "swap"
    /\ \E call \in calls : call.by = "reload" /\ call.at = "lock"

Unsettled == {e \in Events : outcome[e] \in {"received", "batched"}}

\* What the handlers receive is settled: filtered, a duplicate, sent or failed,
\* unless a reload is stuck as above or the process ends.  As there are finitely
\* many events, each is settled if again and again all of them are.
EventsSettle == []<>(Unsettled = {} \/ ~NoSelfDeadlock \/ ~Alive)

\* A signal ends the process once the caches are synced, also when a reload is
\* under way or stuck.
ShutdownCompletes == cancelled /\ main = "watching" ~> ~Alive

\* "Received shutdown signal, stopping..." (main.go:229): the process stops, it
\* does not panic.  Broken by a reload (run shutdown_panic): the deferred calls
\* stop the components of the first configuration, which a reload has stopped.
NoPanic == main # "panicked"

\* Without a reload it does not, and the deferred Stop of the batcher flushes
\* (batcher.go:121): it leaves none of the events that the batcher holds by then.
\* Handlers that are still running may add events afterwards; and after a reload the
\* batcher in use may be another one, which nobody stops.
CleanShutdown ==
  [][Len(configs) = 1 =>
       /\ main' # "panicked"
       /\ main = "stopBatcher" /\ main' \in {"flush", "stopDedup"} => buffer'[1] = {}]_vars
=============================================================================
