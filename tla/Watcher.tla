------------------------------ MODULE Watcher ------------------------------
(***************************************************************************)
(* The life of one object from the API server to the decision to notify:   *)
(* the informer of its kind (external, client-go), the event handler of    *)
(* pkg/watcher and the filter.  Informers call their handlers one at a     *)
(* time and objects do not interact, so one object of any kind, under any  *)
(* list of watches, is enough.                                             *)
(*                                                                         *)
(* The informer lists, then follows a stream of versions, compares each    *)
(* with the one it has seen, and hands its own version to the handler      *)
(* again every 30 seconds (resync).  When the stream breaks it lists       *)
(* again: it may miss versions, and also the deletion, which it then       *)
(* reports with a tombstone in place of the object.                        *)
(***************************************************************************)
EXTENDS Naturals, Sequences, ChangeDetection, Filter

CONSTANTS
  Name,         \* the name of the object
  Kinds,        \* its possible kinds
  WatchLists,   \* possible values of config.watches
  Contents,     \* what can be written to it: versions, their rv not set yet
  Absent,       \* there is no such object
  MaxWrites,    \* bound on the writes to the object
  MaxRestarts   \* bound on the restarts of the process

\* What is looked at of an object and of a watch.
Source == [to : {"configMap", "secret", "field"}, ref : STRING]
EnvVar == [name : STRING, value : STRING, from : Source \cup {Nil}]
EnvFromSource ==
  [prefix : STRING, configMap : STRING \cup {Nil}, secret : STRING \cup {Nil}]
Container ==
  [name : STRING, image : STRING, env : Seq(EnvVar), envFrom : Seq(EnvFromSource)]
Object ==
  [rv : Nat, containers : Seq(Container), scale : Nat \cup {Nil}, ready : Nat,
   phase : STRING, service : STRING, labels : SUBSET STRING]

WatchConfig ==
  [kind : STRING, name : STRING \cup {NoName}, labels : SUBSET STRING,
   triggers : Seq([imageChange : BOOLEAN, envChange : BOOLEAN])]

\* A Pod template without containers is refused by the API server; the kinds that
\* have no Pod template ignore the field.
ASSUME WatcherConstants ==
  /\ Contents \subseteq Object /\ \A c \in Contents : c.containers # <<>>
  /\ WatchLists \subseteq Seq(WatchConfig)
  /\ Nil \notin STRING \cup Source
  /\ Absent \notin Object
  /\ MaxWrites \in Nat /\ MaxRestarts \in Nat

VARIABLES
  kind,      \* the kind of the object
  watches,   \* w.config.Watches
  api,       \* the object in the API server, or Absent
  writes,    \* number of writes so far: the resource version of the next
  process,   \* "starting", "listing", "watching", "fatal" or "crashed"
  restarts,  \* number of restarts so far
  stream,    \* the versions on their way to the informer
  seen,      \* the version in the informer's cache
  last,      \* history: the last call of the handler and what came of it
  told       \* history: the images the reader of the notifications believes in

vars == <<kind, watches, api, writes, process, restarts, stream, seen, last, told>>

NoCall == [type |-> "none", notified |-> FALSE]

\* The version that the n-th write makes.
Version(n, content) == [content EXCEPT !.rv = n]

Init ==
  /\ watches \in WatchLists
  /\ kind \in Kinds \cap GetWatchedKinds(watches)
  /\ api \in {Absent} \cup {Version(0, c) : c \in Contents}
  /\ writes = 0
  /\ process = "starting"
  /\ restarts = 0
  /\ stream = <<>>
  /\ seen = Absent
  /\ last = NoCall
  /\ told = Absent

-----------------------------------------------------------------------------
(* The API server *)

Put(version) ==
  /\ writes < MaxWrites
  /\ writes' = writes + 1
  /\ api' = version
  /\ stream' = IF process = "watching" THEN Append(stream, version) ELSE stream
  /\ UNCHANGED <<kind, watches, process, restarts, seen, last, told>>

Write(content) == Put(Version(writes + 1, content))

Delete == api # Absent /\ Put(Absent)

-----------------------------------------------------------------------------
(* The handler of createEventHandler, called by the informer *)

\* Faulty variant: the containers of a DaemonSet are left out too.
EventContainersNoDaemonSet(version) ==
  IF kind \in {"Pod", "Deployment", "CronJob"}
    THEN [i \in DOMAIN version.containers |->
            [name |-> version.containers[i].name, image |-> version.containers[i].image]]
    ELSE <<>>

\* The containers that an event names: none for a StatefulSet, nor for a ReplicaSet.
EventContainers(version) ==
  IF kind \in {"Pod", "Deployment", "DaemonSet", "CronJob"}
    THEN [i \in DOMAIN version.containers |->
            [name |-> version.containers[i].name, image |-> version.containers[i].image]]
    ELSE <<>>

\* nil for a kind that convertToEvent does not know.
convertToEvent(version, type) ==
  IF kind \in SupportedKinds
    THEN [kind |-> kind, name |-> Name, eventType |-> type, labels |-> version.labels,
          containers |-> EventContainers(version),
          imageChanged |-> FALSE, envChanged |-> FALSE]
    ELSE Nil

\* AddFunc and DeleteFunc hand over every event, UpdateFunc those of changes
\* that count.
UpdateCounts(old, new) ==
  hasSignificantChange(kind, old, new) \/ detectEnvChange(kind, old, new)

UpdateEvent(old, new) ==
  [convertToEvent(new, "UPDATED") EXCEPT
     !.imageChanged = detectImageChange(kind, old, new),
     !.envChanged = detectEnvChange(kind, old, new)]

EventOf(type, old, new) ==
  IF type = "UPDATED" THEN UpdateEvent(old, new) ELSE convertToEvent(new, type)

Notifies(type, old, new) ==
  /\ type = "UPDATED" => UpdateCounts(old, new)
  /\ ShouldProcess(watches, EventOf(type, old, new))

Images(version) == [i \in DOMAIN version.containers |-> version.containers[i].image]

\* The message about a single event lists its containers, if it has some.
Tells(event) ==
  IF event.containers = <<>> THEN told
  ELSE [i \in DOMAIN event.containers |-> event.containers[i].image]

\* The reader takes the images of an object he hears of for the first time as
\* given, and forgets a deleted object; the others he has from the messages.
Handle(type, old, new) ==
  LET notified == Notifies(type, old, new)
  IN  /\ last' = [type |-> type, old |-> old, new |-> new, notified |-> notified]
      /\ told' = CASE type = "DELETED" -> Absent
                   [] type = "ADDED" /\ told = Absent -> Images(new)
                   [] OTHER -> IF notified THEN Tells(EventOf(type, old, new)) ELSE told

-----------------------------------------------------------------------------
(* The informer *)

\* Start: an unsupported kind among the watched ones ends the process.
Start ==
  /\ process = "starting"
  /\ process' = IF GetWatchedKinds(watches) \subseteq SupportedKinds
                  THEN "listing" ELSE "fatal"
  /\ UNCHANGED <<kind, watches, api, writes, restarts, stream, seen, last, told>>

\* Faulty variant: an update under another name.
ArriveModified(version) ==
  /\ seen' = version
  /\ CASE seen = Absent /\ version = Absent -> UNCHANGED <<last, told>>
       [] seen = Absent /\ version # Absent -> Handle("ADDED", version, version)
       [] seen # Absent /\ version = Absent -> Handle("DELETED", seen, seen)
       [] OTHER -> Handle("MODIFIED", seen, version)

\* A version arrives: the handler that is called depends on the cache.
Arrive(version) ==
  /\ seen' = version
  /\ CASE seen = Absent /\ version = Absent -> UNCHANGED <<last, told>>
       [] seen = Absent /\ version # Absent -> Handle("ADDED", version, version)
       [] seen # Absent /\ version = Absent -> Handle("DELETED", seen, seen)
       [] OTHER -> Handle("UPDATED", seen, version)

Deliver ==
  /\ process = "watching" /\ stream # <<>>
  /\ Arrive(Head(stream))
  /\ stream' = Tail(stream)
  /\ UNCHANGED <<kind, watches, api, writes, process, restarts>>

\* The list brings the version of the moment.  An object that is gone without a
\* deletion having been seen is reported as a cache.DeletedFinalStateUnknown,
\* which is no runtime.Object: the type assertion of convertToEvent panics.
List ==
  /\ process = "listing"
  /\ stream' = <<>>
  /\ IF seen # Absent /\ api = Absent
       THEN process' = "crashed" /\ UNCHANGED <<seen, last, told>>
       ELSE process' = "watching" /\ Arrive(api)
  /\ UNCHANGED <<kind, watches, api, writes, restarts>>

\* The watch ends and cannot be resumed where it was.
StreamBreaks ==
  /\ process = "watching"
  /\ process' = "listing"
  /\ stream' = <<>>
  /\ UNCHANGED <<kind, watches, api, writes, restarts, seen, last, told>>

Resync ==
  /\ process = "watching" /\ seen # Absent
  /\ Handle("UPDATED", seen, seen)
  /\ UNCHANGED <<kind, watches, api, writes, process, restarts, stream, seen>>

\* The process ends, for whatever reason, and is started again.
Restart ==
  /\ restarts < MaxRestarts
  /\ restarts' = restarts + 1
  /\ process' = "starting"
  /\ stream' = <<>>
  /\ seen' = Absent
  /\ UNCHANGED <<kind, watches, api, writes, last, told>>

-----------------------------------------------------------------------------

Next ==
  \/ \E c \in Contents : Write(c)
  \/ Delete
  \/ Start \/ List \/ Deliver \/ StreamBreaks \/ Resync
  \/ Restart

Spec == Init /\ [][Next]_vars

-----------------------------------------------------------------------------
(* Properties *)

Versions == {Version(n, c) : n \in 0 .. MaxWrites, c \in Contents}

TypeOK ==
  /\ kind \in Kinds
  /\ watches \in WatchLists
  /\ api \in Versions \cup {Absent}
  /\ writes \in 0 .. MaxWrites
  /\ process \in {"starting", "listing", "watching", "fatal", "crashed"}
  /\ restarts \in 0 .. MaxRestarts
  /\ stream \in Seq(Versions \cup {Absent})
  /\ seen \in Versions \cup {Absent}
  /\ last.type \in {"none", "ADDED", "UPDATED", "DELETED"}
  /\ last.notified \in BOOLEAN

\* The watch that decides on the object, and the triggers it enables.
Watch == GetWatchForResource(watches, kind)
Enables(trigger) == \E t \in ToSet(Watch.triggers) : t[trigger]
Selected(version) ==
  /\ Watch.name \in {Name, NoName}
  /\ Watch.labels \subseteq version.labels

Updated == last.type = "UPDATED" /\ kind \in Workloads

\* README.md:14 promises a notification when an image of a Deployment,
\* StatefulSet, DaemonSet or CronJob changes: an update with other images passes
\* every gate on its way, whatever else changes with it and however many versions
\* the informer has missed.  The table at README.md:99-101 has the change of the
\* first three kinds detected "when a new Pod starts", not when the specification
\* is updated; so it is with a watch on Pods (README.md:103), but one on the
\* workload is notified of at its update, before there is a new Pod and whether or
\* not there will be one.
ImageChangeNotified ==
  /\ \/ Updated /\ Images(last.old) # Images(last.new)
     \/ kind = "Pod" /\ last.type = "ADDED"
  /\ Enables("imageChange") /\ Selected(last.new)
  => last.notified

\* The same of environment variables whose values, names or references to config
\* maps and secrets change (README.md:15).
Env(version) ==
  [i \in DOMAIN version.containers |->
     [env |-> version.containers[i].env, envFrom |-> version.containers[i].envFrom]]

NoFieldRefs(version) ==
  \A i \in DOMAIN version.containers :
    \A j \in DOMAIN version.containers[i].env :
      LET from == version.containers[i].env[j].from
      IN  from # Nil => from.to # "field"

EnvChangeNotified ==
  /\ Updated
  /\ Env(last.old) # Env(last.new)
  /\ NoFieldRefs(last.old) /\ NoFieldRefs(last.new)
  /\ Enables("envChange") /\ Selected(last.new)
  => last.notified

\* Without the exception for fieldRef and resourceFieldRef it is broken (run
\* env_field_ref): such sources are not compared.
AnyEnvChangeNotified ==
  /\ Updated
  /\ Env(last.old) # Env(last.new)
  /\ Enables("envChange") /\ Selected(last.new)
  => last.notified

Names(version) == [i \in DOMAIN version.containers |-> version.containers[i].name]

\* Nothing but a change that a trigger asks for is notified of a workload, and
\* nothing but its creation of a Pod: no resync, rescaling, relabelling or
\* deletion, and no object that the selector excludes.  A container under another
\* name counts as a change of the environment.
NoSpuriousNotification ==
  last.notified =>
    /\ Selected(last.new)
    /\ \/ kind = "Pod" /\ last.type = "ADDED"
       \/ Updated /\ Enables("imageChange") /\ Images(last.old) # Images(last.new)
       \/ /\ Updated /\ Enables("envChange")
          /\ \/ Env(last.old) # Env(last.new)
             \/ Names(last.old) # Names(last.new)

\* While the process is not restarted, whoever reads the notifications of a watch
\* without labels knows the images the informer has seen, after any sequence of
\* updates, rescalings, missed versions, deletions and new creations.  Every
\* notification is taken to be sent, and by itself: the message about a batch names
\* three containers of an event, or none.  It is not so of a StatefulSet, whose
\* events name no container (watcher.go:612): the reader is told that something has
\* changed, never to what image.
ToldIsSeen ==
  /\ restarts = 0
  /\ seen # Absent /\ kind \in Workloads \ {"StatefulSet"}
  /\ Watch.labels = {} /\ Watch.name \in {Name, NoName} /\ Enables("imageChange")
  => told = Images(seen)

\* "converts a Kubernetes object to an Event" (watcher.go:534): every call of
\* the handlers gives an event or nil.  Broken (run missed_delete): a deletion
\* that was missed ends the process.
NeverCrashes == process # "crashed"
=============================================================================
