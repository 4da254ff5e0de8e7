# kube-watcher in TLA+

kube-watcher watches one Kubernetes namespace and posts to Slack when the image
or the environment of a workload changes or a Pod is created.  It is one Go
process: client-go informers call an event handler, which filters, deduplicates
and then batches or sends; a file watcher reloads the configuration and replaces
the components under the handlers.  This directory holds its specification, the
model-checking runs and the proofs.  Paths are relative to the repository.

## Inventory

| component | source | state | operations | talks to |
|---|---|---|---|---|
| watcher | `pkg/watcher/watcher.go` | informers, `stopCh` | `Start`, `registerInformer`, the three callbacks | API server (client-go), event handler |
| change detection | `pkg/watcher/watcher.go` | none | `hasSignificantChange`, `detectImageChange`, `detectEnvChange` | called by the watcher |
| filter | `pkg/filter/filter.go` | configuration | `ShouldProcess` | configuration look-ups |
| deduplicator | `pkg/dedup/dedup.go` | `cache`, `cleanupC`, `stopC`, `mu` | `ShouldProcess`, `cleanup`, `Stop` | its cleanup goroutine |
| batcher | `pkg/batcher/batcher.go` | `events`, `timer`, `stopCh`, `mu` | `Add`, `flush`, `Stop` | timers, the batch handler |
| process | `cmd/main.go` | the five shared components, `mu` | `initComponents`, event handler, batch handler, deferred calls | all of them |
| hot reload | `pkg/reload/reload.go` | fsnotify watcher, callbacks, `stopCh` | `NewConfigWatcher`, `Start`, `watchLoop`, `reloadConfig`, `Stop` | the file system, `LoadConfig`, `initComponents` |
| configuration | `pkg/config/config.go` | none | `LoadConfig`, `Validate` with its defaults, two look-ups | the file |
| notifier | `pkg/notifier/notifier.go` | HTTP client, 10 s timeout | `SendMessage` | Slack |
| formatter | `pkg/formatter/formatter.go` | a template | grouping of a batch, choice of details or a summary, layout | called by the batch handler |
| CEL filter | `pkg/filter/cel.go` | a compiled program | `ShouldProcess` | nothing: `main.go` does not use it |

What is hard about it:

* **Concurrency.** One goroutine per informer, one for the reload, one per expired
  timer, one cleanup goroutine per deduplicator and the main goroutine share
  five pointers under one `RWMutex`.  `ShouldProcess` of the deduplicator gives up
  its lock between reading and storing; `flush` gives up its lock for the callback.
* **Ordering.** A timer that has expired cannot be stopped any more; a handler may
  use a component that a reload has replaced; `defer` keeps the components of the
  start; a file is read after the event that announced its change, when it may have
  changed again.
* **Failure.** The watch of an informer breaks and misses versions and deletions;
  the process restarts and lists everything again; a template does not parse; a
  request to Slack fails or takes its ten seconds; the configuration file is half
  written, missing or refused; a callback of the reload fails; events of the file
  system are merged or lost.
* **Limits.** A full cache, the boundary of the TTL, the boundary of the window, the
  event queue of inotify, the limits that turn details of a batch into a summary.

What makes each component correct: the deduplicator drops exactly what it has
let through within the TTL, and its cache is bounded; the batcher hands every event
to its callback once, when its window has passed, in order; a reload takes effect
as a whole or not at all, leaks nothing and loses nothing; a shutdown ends; an
image or environment change between any two versions an informer has is notified,
and nothing else is; the last content of the configuration file is applied, and what
is in effect is at all times a content that the file had and that is usable; the
message about a batch accounts for each of its events.  `PROJECT.json` lists the
hazards line by line with the properties that cover them.

## Modules

| module | models | notes |
|---|---|---|
| `Dedup` | the deduplicator | `ShouldProcess` is `Lookup`, `Suppress` or `Miss`, `Store`: the section under the read lock, the decision with no lock, the section under the write lock |
| `DedupEvents` | the deduplicator with the events `main.go` hands it | an event carries the time of its conversion |
| `EventSink` | what a batcher promises: every event accepted is handed over once | abstract specification |
| `Batcher` | the batcher | implements `EventSink` (`HandsOverExactlyOnce`) |
| `KubeWatcher` | `main.go` with the reload goroutine and the shutdown | its batchers, one per generation, keep to `EventSink` (`BatchersAreSinks`) |
| `ChangeDetection` | the comparison of two versions of an object | pure |
| `Filter` | the filter and the configuration's look-ups | pure |
| `Watcher` | one object from the API server to the decision to notify | client-go's informer is external |
| `ConfigCheck` | `LoadConfig`: `Validate` and its defaults; the durations that `main` makes of seconds | pure; integers and durations have the width `MaxInt` |
| `ConfigSource` | what hot reload promises: each callback works with a content that the file had and that it accepts, and moves on to later ones only | abstract specification |
| `Reload` | the file, the events of its directory, `watchLoop` and `reloadConfig` | implements `ConfigSource` (`FollowsSource`); the file system is external |
| `BatchMessage` | what the message about a batch says of its events | pure |
| `BatcherMessages` | the batcher with the batch handler's message for its callback | composes `Batcher` and `BatchMessage` |
| `DedupProofs`, `BatcherProofs`, `BatcherMessagesProofs`, `KubeWatcherProofs`, `ReloadProofs`, `WatcherProofs` | theorems about the module of the name | |
| `MC*` | the values of the constants for TLC | |

`Batcher` and `Dedup` are the detailed modules of parts that `KubeWatcher` takes at
their interface.  `Watcher` uses `ChangeDetection` and `Filter`; `DedupEvents` uses
`Dedup`; `Reload` uses `ConfigCheck`; `BatcherMessages` puts `Batcher` and `BatchMessage`
together, so that a message is about a batch that the batcher can make.

`KubeWatcher` takes a reload from the moment a configuration has loaded, with
`initComponents` step by step; `Reload` takes it up to there, with a callback as one step.

Correspondence of state, where names differ: in `Dedup`, `cache` is `d.cache` as a
total function, times are ages; `passed` and `evicted` are history variables.  In
`Batcher`, `timer` says whether the timer `b.timer` points to runs, `expired` counts
the goroutines that expired timers started, `flights` are the running callbacks,
`accepted`, `delivered` and `due` are history variables.  In `KubeWatcher` a
component is named by the pass of `initComponents` (the generation) that made it,
`shared` holds the five pointers, `handlers[k].snap` the snapshot a handler took;
`initComponents` is the steps at `reload = "lock"`, `"batcher"` and `"swap"`, because
it holds `mu` for long while the old batcher flushes.  In `Watcher`, `api`
is the object at the API server, `stream` what is on its way, `seen` the version in
the informer's cache, which follows with gaps; `last` and `told` are history
variables.  In `KubeWatcher`, `SigOf` of an event is what the deduplicator hashes of it,
and `passed` records what each deduplicator let through.  In `Reload`, `versions` is
the history of the file, so that a version is a place in it; `queue` is what inotify
and fsnotify hold for the loop; `loop` is where `watchLoop` and `reloadConfig` are;
`loaded` is the version read last and `applied` the one that each callback took last;
`announced` says that the last change put an event in the queue, or found the loop with a
look at the file still to come, as in a burst that the queue has no room for; `doomed` says that a cleanup goroutine has been
started whose ticker does not take its TTL.  In `Watcher` an event carries the containers that `convertToEvent`
gives it, and `Tells` is what the message about it makes of them.  In `BatchMessage` a
group has the places of its events in the batch, in place of a list of them.

Operators marked "Faulty variant" stand in for plausible bugs.  Each property of a
passing run is broken by at least one of them (`PROJECT.json`, "mutants").

## Runs

### Passing

| run | module, bounds | what it shows |
|---|---|---|
| `dedup` | `MCDedup`: 2 handlers, 3 keys, room for 2, TTL 2 ticks | the cache stays bounded although two handlers find it full at once; nothing new is dropped; a repetition passes only after an eviction; a valid entry goes only from a full cache and only if it is the oldest |
| `dedup_live` | `MCDedup`: 1 handler, 2 keys, room for 1 | expired entries go without an event arriving |
| `batcher` | `MCBatcher`: 4 events in up to 3 groups, window 2, callbacks at most 1, 12 settings of the message | no event is stranded; callbacks do not overlap or overtake; `Stop` flushes; a batch has its full window; `EventSink` is implemented; every event is delivered at last, also one that is added after `Stop`; the message about each batch that occurs accounts for every event once, and shows in detail what is always to be shown |
| `kube_watcher` | `MCKubeWatcher`: 2 kinds, 3 events, two of them equal, 3 configurations, 3 generations | a snapshot is of one configuration; a reload takes effect at once or leaves no trace; no replaced component runs on; an event is dropped as a duplicate only if its equal was passed on; a reload loses and repeats nothing; an event is held by one batcher or one call of a batch handler; without a reload the shutdown does not panic, and its `Stop` of the batcher takes along what the batcher holds (a handler that still runs may add to it afterwards); events are settled and a shutdown ends |
| `watcher` | `MCWatcher`: one object of each of 9 kinds, 18 contents, 2 writes, 1 restart, 12 lists of watches | every image and environment change passes all gates; nothing else does; an image change is notified at the workload's update, and a Pod's creation too; the messages name the images that the object has, StatefulSets aside |
| `reload` | `MCReload`: 6 contents, 2 callbacks, room for 2 events, 4 versions of the file, plain directory | what is in effect is usable if its seconds fit a duration, and only a duration that overflows ends the process; callbacks are independent; an announced change is not forgotten and is applied at last; the loop ends when it is stopped; `ConfigSource` is implemented |

Bounds.  `MaxAge`, `MaxGen`, `MaxWrites`, `MaxRestarts`, `MaxStamp` and `MaxVersions` are
the only bounds the code does not have; `QueueSize` is a limit of the kernel,
`SummaryLimit` and `NamesShown` are literals of the formatter, and `Second` and `MaxInt` are
Go's nanoseconds in a second and largest `int64`.

* `MaxAge >= TTL` tells apart all ages that a comparison with the TTL can; ages
  beyond it are kept equal, so that eviction then chooses among more entries than the
  code would.
* Three generations let a second reload replace what a first one made, under a
  handler with a snapshot of the start.  The three configurations differ in the kinds,
  in having a deduplicator and a batcher, and in a template that does not parse.
  Two equal events and a third let a repetition come before, in between or after a
  reload.
* Two writes let an object be made and changed, or made and deleted, between two
  deliveries.  The 18 contents differ from a first one in one thing each (image,
  number of containers, a value, a reference to a ConfigMap or a Secret, `envFrom`,
  readiness, phase, type of Service, scale, labels, name of a container), so that two versions differ in
  one change or two.  The ninth kind, Ingress, is one the watcher does not know.
* Two handlers are enough for what happens to one of them between its look-up and
  its insertion; two keys of one handler are enough for its own evictions.
* With a window of 2 and callbacks of 1, a batch can be taken by a timer that is
  late, and a timer can expire while a callback runs.  The condition of `OneCallback`
  and `InOrder`, that callbacks end within the window, is what the program has: the
  client's timeout is 10 s (`notifier.go:50`), a window 30 s or more (`config.go:142`).
* The limits of a message are scaled to batches of four: `SummaryLimit` is 20 and
  `NamesShown` 10 in the code, 3 and 1 in the run, where both sides of each limit occur.
* Four versions of the file are two writes in place with the half-written state between,
  or three replacements: enough for a read to come between any two events of them.  With
  room for two events the queue overflows.  The contents are one that callbacks take, one that
  relies on defaults, one that the first callback refuses, one whose TTL overflows, an
  empty file (which `Validate` refuses) and none.  What is half written is empty or valid.
* A duration has 16 bits in the run and a second 100 units, so that the defaults, 300 s and
  30 s, fit, and 400 s come out as -25536.  The proofs are for any width that fits the
  defaults, 64 bits and 10^9 units among them.

The runs of `KubeWatcher`, `Watcher` and `Reload` set `CHECK_DEADLOCK FALSE` because the
system does stop: when the process has exited, panicked or crashed; in `Watcher` when the
writes and restarts are used up and everything is delivered; in `Reload` when hot reload
could not be set up, its loop has ended or the process has panicked, and the file has had
all its versions.

### Where code and documents disagree

Each of these runs checks one property that a comment or document states, and ends
with a counterexample; `PROJECT.json`, "findings", has the lines.

| run | what happens |
|---|---|
| `reload_deadlock` | A reload holds `mu` while the old batcher's `Stop` flushes, and the batch handler waits for `mu`: the process handles no event any more. |
| `shutdown_panic` | After a reload the deferred `Stop` closes a channel that the reload has closed. |
| `configmap_reload` | In a ConfigMap volume the kubelet replaces the link `..data`: no event bears the name of the file, and `watchLoop` ignores all others, so that the update is never loaded. |
| `dedup_events` | The hash covers the time of conversion, so that in the running program no two events are equal and nothing is suppressed. |
| `env_field_ref` | Changes of `fieldRef` and `resourceFieldRef` are not seen. |
| `missed_delete` | A deletion missed by the watch makes the handler panic. |

Two more disagreements are in the behaviours of passing runs:

* `reload`: `Validate` sets no upper bound, and `main.go:68` and `batcher.go:86` multiply by
  `time.Second`.  A TTL of more than 9223372036 s may come out negative; then
  `time.NewTicker` (`dedup.go:136`) panics in a goroutine of its own, and the process ends
  after it has accepted the file (`TickerPanics`).  A batching window that overflows makes
  the timer fire at once, or at another time than the one configured.
  `PanicsOnlyOnOverflow` says that nothing else that `Validate` accepts does this.
* `watcher`: `README.md:99-101` says that an image change of a Deployment, StatefulSet or
  DaemonSet is detected when a new Pod starts, while a change of the environment is when the
  specification is updated.  In the code the workload's own update is notified for both
  (`watcher.go:190`), before there is any new Pod and also if none ever starts; the start of
  a Pod is notified apart, to those who watch Pods, whether or not an image changed.
  `ImageChangeNotified` states what the code does of both.

The passing properties are stated so that they hold around all of these: `EventsSettle`
excepts a stuck reload, `CleanShutdown` speaks of a process that has not reloaded,
`ChangeNotForgotten` and run `reload` of a plain directory, `EffectUsable` of contents
whose seconds fit a duration, and `ToldIsSeen` not of StatefulSets.

Further observations, which are in the models as the code has them and have no run of
their own:

* After a reload that turned batching on or replaced the batcher, no deferred call
  flushes the batcher in use (`main.go:147`).
* A signal during the first cache sync waits for the API server (`watcher.go:129`
  waits on `stopCh`, not on the context).
* A stopped batcher goes on taking events and calling the callback: `stopCh` is
  received from nowhere (`batcher.go:123`).
* The cache evicts by insertion, not by use (`dedup.go:122`), and renewing an entry of
  a full cache evicts one for no need (`dedup.go:80`).
* A second watch of a kind has no effect (`config.go:180`).
* After a restart all Pods are new to the informer and are notified again.
* The total above which a smart batch is summarised is 20 in `formatter.go:219`,
  whatever `maxTotalEvents` says, and it comes before the types that are always shown.
* A kind that a reload adds to the watches has no informer (`watcher.go:119`).
* A file that is read half written and happens to be valid is in effect until the rest
  is written.  A change between `LoadConfig` (`main.go:28`) and `NewConfigWatcher`
  (`main.go:208`) has no event; one whose event the full queue of inotify lost is only
  logged (`reload.go:94`).  Both are loaded with the next change.
* The message about a StatefulSet names no image: `convertToEvent` fills no containers for
  it (`watcher.go:612`), nor for a ReplicaSet, and the formatter lists those only
  (`formatter.go:140`).  `NewImages` of an event is read by nothing.
* Renaming a container counts as a change of its environment (`watcher.go:281`), and
  init containers are not looked at (`watcher.go:306`).
* The chart writes `resources:` and `filters:` (`charts/kube-watcher/templates/configmap.yaml:12`),
  not the `watches:` that `Validate` wants, and nothing expands the
  `${SLACK_WEBHOOK_URL}` of the manifests.
* The details of an event in a batch list three containers at most (`formatter.go:382`), and
  a summary lists none: `ToldIsSeen` is about single messages.

### Fairness

* `Dedup`: time passes and the cleanup goroutine is scheduled.  A weakly fair choice
  between tick, token and stop is enough, since each leads to the same removal or to the
  end.  Handlers need not be called.
* `Batcher`: time passes, the runtime fires timers, goroutines that wait for `b.mu` get
  it, and callbacks return because the HTTP client has a timeout (`notifier.go:50`).
  `Add` and `Stop` need not be called.
* `KubeWatcher`: each informer's handler, the reload, the batch handlers, timers and
  the main goroutine go on when they can.  Nothing is assumed of events, of changes of
  the file, of signals, or of the API server (`Synced`).

* `Reload`: `main` and the loop go on, and callbacks return.  Writers need not write, nor
  end a write, and nobody need stop the loop.  `Exit` is strongly fair: when events keep
  coming, both branches of the `select` (`reload.go:72`) are ready again and again, and Go
  picks one at random.  That callbacks return is what `reload_deadlock` breaks;
  `LatestIsApplied` and `LoopEnds` are about the loop with callbacks that do.  `TickerPanics`
  has no fairness: a panic is allowed at any time after its cause and counted on by nothing.

The handlers of `KubeWatcher` are weakly fair as a group, and so are its timers: less
than what Go's scheduler gives each of them, and enough because there are finitely many
events to work off.  Strong fairness is not needed there: `mu` is not held for ever except in the deadlock that
`reload_deadlock` shows, which `EventsSettle` names.

## Proofs

All theorems are checked by TLAPS to the last leaf.  They assume of the constants
what the modules' named `ASSUME`s say, and nothing else, except where noted.

### Deduplicator (`DedupProofs`)

| theorem | statement |
|---|---|
| `TypeCorrect` | `Spec => []TypeOK` |
| `CacheStaysBounded` | `Spec => []CacheBounded` |
| `SuppressionIsJustified` | `DisjointKeys`, `Spec` imply `SuppressionJustified` |
| `NoDuplicateIsPassed` | `DisjointKeys`, `Spec` imply `NoDuplicatePassed` |
| `EvictionTakesOldest` | `Spec => EvictsOldestFirst` |

`CacheBounded` is inductive on top of `TypeOK`: the bound is tested and the entry
stored in one section under the write lock, so that what a handler saw under the read
lock does not matter.  The proof is about cardinalities: a cache with no room is not
empty, so that there is an oldest entry, and its place is the new one's.

The two action properties rest on `HistoryInv`, of two parts.  `CacheIsHistory`: an
entry of the cache is the last event let through with its key, and where there is none
that event has expired or was evicted, if there was one.  `ReadIsHistory`: the same
holds of what a handler has read, as long as it has not stored, and one that is about to
store has found no repetition.  Without it nothing relates a `Suppress` to an earlier
`Store`, with sections of other handlers and of the cleanup in between.
`DisjointKeys` says that two handlers never share a key: a key is an object's kind,
namespace and name, and each kind has one informer whose callbacks run one after the
other.  Two handlers with a common key would both find it missing, and both let the
event through.

`EvictionTakesOldest` needs the types and the bound: `evictOldest` and the cleanup are the
only steps that empty a place, the cleanup empties those that have expired, and the test
for a full cache is in the section that evicts, so that a cache within its bound is
exactly full then.

### Batcher (`BatcherProofs`)

| theorem | statement |
|---|---|
| `TypeCorrect` | `Spec => []TypeOK` |
| `NoEventIsStranded` | `Spec => []FlushComing` |
| `BatcherIsSink` | `Spec => HandsOverExactlyOnce` |
| `StopFlushesAll` | `Spec => []StopFlushes` |
| `WindowIsFull` | `Spec => FullWindow` |
| `OneCallbackAtATime` | `Spec => []OneCallback` |
| `EventsInOrder` | `Spec => []InOrder` |

`FlushComing` is inductive by itself.  `BatcherIsSink` is a refinement proof: the
buffer, the running batches and the delivered events, as sets, behave as `EventSink`.
It needs `PlaceInv`, of two parts: `Placed`, by which the accepted events are those in
the buffer, in a running batch or delivered (so that an `Add` is of an event the sink
does not have), and `Apart`, by which running batches are not empty and share no event
with the buffer or each other (so that no two are one set, and the return of one takes
one away).  Every action of the batcher is then a step of the sink or a stutter: ticks,
timers that expire, flushes with nothing to send and the closing of `stopCh` stutter.

The other four each have an inductive invariant of their own.  `StopInv`: `Stop` has at
most one batch under way, and once it has flushed, the events due are in running
batches or delivered, so that when its batch returns what is left was taken by timers.
`TimerInv`: before `Stop` at most one of a running timer and an expired one exists, and
an expired one has a batch whose window has passed; a timer that was stopped too late
could otherwise take the next batch early.  `OneInv`, for callbacks that end within the
window, bounds the age of the batch in the buffer by the time the callback before it
has run, so that the next timer cannot expire before that callback has ended.
`OrderInv` then says that the accepted events are the delivered ones, the one batch
under way and the buffer, one after the other.

### Process (`KubeWatcherProofs`)

| theorem | statement |
|---|---|
| `TypeCorrect` | `Spec => []TypeOK` |
| `SnapshotsAreConsistent` | `Spec => []SnapshotConsistent` |
| `ReloadIsEffective` | `Spec => ReloadTakesEffect` |
| `OnlySharedComponentsRun` | `Spec => []OnlySharedRun` |
| `DuplicatesAreRepetitions` | `Spec => []DuplicatesRepeat` |
| `EventsStayInOnePlace` | `Spec => []EventsInOnePlace` |
| `BatchersImplementEventSink` | `Spec => BatchersAreSinks` |
| `ShutdownIsClean` | `Spec => CleanShutdown` |

They hold for any number of kinds, events and configurations, and any bound `MaxGen` on
the generations.  The types need two more facts to be inductive (`TypeInv`): a reload
that waits for `mu` still has a generation to make, and a handler that is called has an
event.  `SharedInv` relates the shared components to the configurations: with `mu` free
they are all of the last generation; with `mu` held the batcher is of the one before.
The steps of a reload pass through states that no handler may see, and `SharedInv` says
that they are all under `mu`.  `SnapshotConsistent` is inductive on top of it, since a
configuration in effect is never changed.  `OnlySharedRun` follows from `StoppedInv`,
which also says what runs in the middle of a reload (two batchers between the
replacement of the deduplicator and the `Stop` of the old batcher) and that only
generations that exist have been stopped, so that a new one is not.

`DuplicatesRepeat` is about the order of the filter and the deduplicator in the handler
(`main.go:161-179`): were the deduplicator asked first, an event that the filter drops
would hide a later one.

`EventsInOnePlace` is inductive on top of `OriginInv`, by which an event that its handler
has not settled yet is in no buffer and in no batch, so that an `Add` is of a new one; a
batch leaves the buffer in the step that calls the batch handler.

`BatchersImplementEventSink` shows each of the batchers, as many as reloads make, to implement `EventSink` on its own.  A step that takes a batch from
one batcher is a step of its sink and a stutter of the others; the return of a batch
handler moves its batch from `sending` to `sent`, and only its own, since no two calls have
equal batches: that is where `EventsInOnePlace` is needed.

`ShutdownIsClean` rests on `FirstInv`: as long as there is one generation, nothing has
stopped the batcher before the deferred call does, nor the deduplicator before the process
ends.  A reload that makes a second generation leaves its scope, and
`shutdown_panic` shows what follows.

### Messages about batches (`BatcherMessagesProofs`)

| theorem | statement |
|---|---|
| `EveryEventIsTold` | `Spec => []EveryEventTold` |
| `AlwaysShownAreShown` | `Spec => []AlwaysShown` |

They hold for any events, kinds, types and settings, for batches of any size and
for any limits, the 20 and the 10 of the code among them.  The message counts places in the
batch and its reader counts events, and the two agree because no event is twice in a
batch: that is `DistinctInv`, of the buffer and of every running batch, which is inductive on top of
`PlaceInv`.  The groups of a batch partition its places: `GroupExists` takes the first place
with a given kind and type, and `GroupUnique` says that there is no second group of these.
That a summary names as many events as it may is `FirstOfCount`: of a finite set
of places, `FirstOf` takes as many as it is asked for, if there are as many.  It is shown
without induction, by a least count for which it fails: the count before it is
right, and `FirstOfNext` adds one place to what is taken.

### Hot reload (`ReloadProofs`)

| theorem | statement |
|---|---|
| `AcceptedIsUsable` | a content that `LoadConfig` accepts, and whose seconds fit a duration with the defaults set, is then `Usable` |
| `TypeCorrect` | `Spec => []TypeOK` |
| `EffectIsUsable` | `Spec => []EffectUsable` |
| `OnlyOverflowPanics` | `Spec => []PanicsOnlyOnOverflow` |
| `CallbacksAreIndependent` | `Spec => []CallbacksIndependent` |
| `NoChangeIsForgotten` | `Spec => []ChangeNotForgotten` |
| `FollowsTheSource` | `Spec => FollowsSource` |

They hold for all contents with any machine integers and strings, any width of these
that fits the defaults, any number of callbacks
and any size of the queue.  `Usable` says what `Dedup` and `Batcher` assume of their
constants, of the durations and not of the seconds in the file, so that `AcceptedIsUsable` is
the link between `Validate` and those modules: a limit that is zero, negative or left out
never reaches them.  It needs `Fits`, which `Validate` does not ask for: `WrapFits` says
that a duration that fits comes out unchanged, and `Seconds` that it then keeps a bound that
its seconds keep.  `OnlyOverflowPanics` is the other side of it: `PanicInv` traces a ticker that does not
take its TTL to a version of the file that was accepted and does not fit, and `AcceptedTicks` says that
no other accepted content makes one.  `TypeOK` needs
`QueueInv`: an overfull queue ends in the report of the overflow, so that no second one is
added.  `EffectInv` says that what was loaded last loads, that no callback is ahead of
it, that each works with a content that it accepts, and that in the middle of a reload the
callbacks before `next` have had their turn.  `EffectUsable` and `CallbacksIndependent` follow; so
does the step of the refinement, where a callback that takes a configuration is an
`Adopt` and any change of the file a `Change`.  `ChangeNotForgotten` is inductive with
the types: an event is taken before the file is read, so that a change is either
before the read or has an event after it; one that finds the queue full is covered by an event
about the file that is in the queue already, since the look for that one comes later.

### Watcher (`WatcherProofs`)

| theorem | statement |
|---|---|
| `TypeCorrect` | `Spec => []TypeOK` |
| `ImageChangesAreNotified` | `Spec => []ImageChangeNotified` |
| `EnvChangesAreNotified` | `Spec => []EnvChangeNotified` |
| `NothingElseIsNotified` | `Spec => []NoSpuriousNotification` |
| `NotificationsTellTheImages` | `Spec => []ToldIsSeen` |

They hold for objects with any number of containers, variables and sources, any
watches, and any bounds.  The first lemmas are about `ChangeDetection`: the comparisons
find any two versions different that differ in an image, or in the environment but for
fields, and find nothing else.  The next carry that through `UpdateCounts` and the filter.
`ImageChangePasses` needs that different versions have different resource versions
(`hasSignificantChange` asks for that first, `watcher.go:409`); `HeldInv` says so of the versions at the API
server, under way and in the cache, and that none is later than the last write.
`LastInv` says it of the last call of the handler, of which the properties speak.
`PodStartPasses` is the part of `ImageChangeNotified` about the start of a Pod.  `UpdateTells` says that
the message about an update has the images of the new version, of a kind whose containers the event
carries.  `ToldInv` is `ToldIsSeen` with what is told of an object that is not there: an update that is
not notified of has, by `ImageChangePasses`, the images that were told already.  The
constants are assumed to be of the types of the API and of the configuration, and `Nil`
and `Absent` not to be among them.

### Only model-checked

Liveness (`ExpiredRemoved`, `AllDelivered`, `EventsSettle`, `ShutdownCompletes`,
`LatestIsApplied`, `LoopEnds`) is out of the prover's reach.  Every other property of a
passing run is stated by one of the theorems above.

## Not modelled

* The texts and fields of messages, the fields of the message about a single event
  other than its containers, and the notifier's request: layout and I/O.  Whether a template parses and whether a message is
  sent are choices in `KubeWatcher`.
* `GroupEvents` and `ShouldShowDetails` of the batcher, twins of what `BatchMessage`
  models, and the CEL filter: nothing in the program calls them.
* The texts of errors of `Validate`, and the order in which it finds them.
* `Stats` of the deduplicator reads only; `Watcher.Stop` is called by nothing.
* The chart and the manifests.

## Plan

In this order; what is done is marked.

1. `Dedup`, `EventSink`, `Batcher`, `KubeWatcher`, `ChangeDetection`, `Filter`,
   `Watcher`, with their runs and proofs (done).
2. `ConfigCheck`, `ConfigSource`, `Reload`, with liveness, refinement and proofs (done).
3. `BatchMessage`, checked on the batches of the batcher (done).
4. Proofs: of `Batcher` and `Watcher`; for `KubeWatcher`, `BatchersAreSinks` and
   `CleanShutdown`; for `Dedup`, `EvictsOldestFirst`; for `BatchMessage`, `Accounts` of
   any batch (done).
5. `Pipeline`: deduplicator, batcher and notifier in detail for one handler, with
   failures of `SendMessage`: what a failed notification does to its repetitions.
