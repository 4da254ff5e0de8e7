--------------------------- MODULE WatcherProofs ---------------------------
(***************************************************************************)
(* Theorems about what is notified of an object, for any object, watches,  *)
(* number of writes and number of restarts.                                *)
(***************************************************************************)
EXTENDS Watcher, SequenceTheorems, TLAPS

-----------------------------------------------------------------------------
(* Change detection *)

LEMMA VersionType ==
  ASSUME NEW c \in Contents, NEW n \in Nat
  PROVE  Version(n, c) \in Object /\ Version(n, c).rv = n
BY WatcherConstants DEF Version, Object

LEMMA VersionsType == Versions \subseteq Object /\ Absent \notin Versions
BY VersionType, WatcherConstants DEF Versions

\* The images of two versions of a workload differ only if the code says so, and
\* only then.
LEMMA ImageChangeDetected ==
  ASSUME NEW k \in Workloads, NEW old \in Object, NEW new \in Object
  PROVE  detectImageChange(k, old, new) <=> Images(old) # Images(new)
<1>1. /\ Containers(k, old) = old.containers /\ Containers(k, new) = new.containers
      /\ old.containers \in Seq(Container) /\ new.containers \in Seq(Container)
  BY DEF Containers, Object
<1>2. CASE Images(old) = Images(new)
  <2>1. DOMAIN old.containers = DOMAIN new.containers
    BY <1>2 DEF Images
  <2>2. Len(old.containers) = Len(new.containers)
    BY <1>1, <2>1
  <2>3. \A i \in DOMAIN old.containers :
          old.containers[i].image = new.containers[i].image
    BY <1>2, <2>1 DEF Images
  <2> QED
    BY <1>1, <1>2, <2>2, <2>3 DEF detectImageChange, AllEqual, SameImage
<1>3. CASE Images(old) # Images(new)
  <2>1. ASSUME ~detectImageChange(k, old, new)
        PROVE  FALSE
    <3>1. /\ Len(old.containers) = Len(new.containers)
          /\ \A i \in DOMAIN old.containers :
               old.containers[i].image = new.containers[i].image
      BY <1>1, <2>1 DEF detectImageChange, AllEqual, SameImage
    <3>2. DOMAIN old.containers = DOMAIN new.containers
      BY <1>1, <3>1
    <3> QED
      BY <1>3, <3>1, <3>2 DEF Images
  <2> QED
    BY <1>3, <2>1
<1> QED
  BY <1>2, <1>3

LEMMA SourceEquality ==
  ASSUME NEW s \in Source, NEW t \in Source, s.to # "field", SourcesEqual(s, t)
  PROVE  s = t
<1>1. /\ s.to \in {"configMap", "secret"} /\ s.ref # Nil /\ t.ref # Nil
      /\ s = [to |-> s.to, ref |-> s.ref] /\ t = [to |-> t.to, ref |-> t.ref]
  BY WatcherConstants DEF Source
<1>2. (Refers(s, s.to) = Nil) = (Refers(t, s.to) = Nil)
      /\ (Refers(s, s.to) # Nil => Refers(s, s.to) = Refers(t, s.to))
  BY <1>1 DEF SourcesEqual, PointersEqual, SameRef
<1>3. t.to = s.to /\ t.ref = s.ref
  BY <1>1, <1>2 DEF Refers
<1> QED
  BY <1>1, <1>3

LEMMA EnvVarEquality ==
  ASSUME NEW x \in EnvVar, NEW y \in EnvVar, EnvVarEqual(x, y),
         x.from # Nil => x.from.to # "field"
  PROVE  x = y
<1>1. /\ x = [name |-> x.name, value |-> x.value, from |-> x.from]
      /\ y = [name |-> y.name, value |-> y.value, from |-> y.from]
      /\ x.from \in Source \cup {Nil} /\ y.from \in Source \cup {Nil}
  BY DEF EnvVar
<1>2. /\ x.name = y.name /\ x.value = y.value
      /\ (x.from = Nil) = (y.from = Nil)
      /\ x.from # Nil => SourcesEqual(x.from, y.from)
  BY DEF EnvVarEqual, PointersEqual
<1>3. x.from = y.from
  BY <1>1, <1>2, SourceEquality
<1> QED
  BY <1>1, <1>2, <1>3

LEMMA EnvFromEquality ==
  ASSUME NEW x \in EnvFromSource, NEW y \in EnvFromSource, EnvFromSourceEqual(x, y)
  PROVE  x = y
<1>1. /\ x = [prefix |-> x.prefix, configMap |-> x.configMap, secret |-> x.secret]
      /\ y = [prefix |-> y.prefix, configMap |-> y.configMap, secret |-> y.secret]
  BY DEF EnvFromSource
<1>2. x.prefix = y.prefix /\ x.configMap = y.configMap /\ x.secret = y.secret
  BY DEF EnvFromSourceEqual, PointersEqual, SameRef
<1> QED
  BY <1>1, <1>2

\* What is not seen to differ is equal, sources from fields aside ...
LEMMA ContainerEquality ==
  ASSUME NEW c \in Container, NEW d \in Container, EnvInfoEqual(c, d),
         \A j \in DOMAIN c.env : c.env[j].from # Nil => c.env[j].from.to # "field"
  PROVE  c.env = d.env /\ c.envFrom = d.envFrom
<1>1. /\ c.env \in Seq(EnvVar) /\ d.env \in Seq(EnvVar)
      /\ c.envFrom \in Seq(EnvFromSource) /\ d.envFrom \in Seq(EnvFromSource)
  BY DEF Container
<1>2. /\ Len(c.env) = Len(d.env)
      /\ \A j \in DOMAIN c.env : EnvVarEqual(c.env[j], d.env[j])
      /\ Len(c.envFrom) = Len(d.envFrom)
      /\ \A j \in DOMAIN c.envFrom : EnvFromSourceEqual(c.envFrom[j], d.envFrom[j])
  BY DEF EnvInfoEqual, envVarsEqual, envFromEqual, AllEqual
<1>3. ASSUME NEW j \in 1 .. Len(c.env)
      PROVE  c.env[j] = d.env[j]
  <2>1. /\ c.env[j] \in EnvVar /\ d.env[j] \in EnvVar /\ j \in DOMAIN c.env
    BY <1>1, <1>2
  <2> QED
    BY <1>2, <2>1, EnvVarEquality
<1>4. ASSUME NEW j \in 1 .. Len(c.envFrom)
      PROVE  c.envFrom[j] = d.envFrom[j]
  <2>1. /\ c.envFrom[j] \in EnvFromSource /\ d.envFrom[j] \in EnvFromSource
        /\ j \in DOMAIN c.envFrom
    BY <1>1, <1>2
  <2> QED
    BY <1>2, <2>1, EnvFromEquality
<1> QED
  BY <1>1, <1>2, <1>3, <1>4, SeqEqual

LEMMA EnvChangeDetected ==
  ASSUME NEW k \in Workloads, NEW old \in Object, NEW new \in Object,
         NoFieldRefs(old), Env(old) # Env(new)
  PROVE  detectEnvChange(k, old, new)
<1> SUFFICES ASSUME ~detectEnvChange(k, old, new)
             PROVE  FALSE
  OBVIOUS
<1>1. /\ Containers(k, old) = old.containers /\ Containers(k, new) = new.containers
      /\ old.containers \in Seq(Container) /\ new.containers \in Seq(Container)
  BY DEF Containers, Object
<1>2. /\ Len(old.containers) = Len(new.containers)
      /\ \A i \in DOMAIN old.containers :
           EnvInfoEqual(old.containers[i], new.containers[i])
  BY <1>1 DEF detectEnvChange, AllEqual
<1>3. DOMAIN old.containers = DOMAIN new.containers
  BY <1>1, <1>2
<1>4. ASSUME NEW i \in DOMAIN old.containers
      PROVE  /\ old.containers[i].env = new.containers[i].env
             /\ old.containers[i].envFrom = new.containers[i].envFrom
  <2>1. old.containers[i] \in Container /\ new.containers[i] \in Container
    BY <1>1, <1>3
  <2>2. \A j \in DOMAIN old.containers[i].env :
          old.containers[i].env[j].from # Nil => old.containers[i].env[j].from.to # "field"
    BY DEF NoFieldRefs
  <2> QED
    BY <1>2, <2>1, <2>2, ContainerEquality
<1>5. Env(old) = Env(new)
  BY <1>3, <1>4 DEF Env
<1> QED
  BY <1>5

\* ... and what is equal is not seen to differ.
LEMMA EnvInfoReflexive ==
  ASSUME NEW c, NEW d, c.name = d.name, c.env = d.env, c.envFrom = d.envFrom
  PROVE  EnvInfoEqual(c, d)
<1>1. \A x : EnvVarEqual(x, x)
  BY DEF EnvVarEqual, PointersEqual, SourcesEqual, SameRef
<1>2. \A x : EnvFromSourceEqual(x, x)
  BY DEF EnvFromSourceEqual, PointersEqual, SameRef
<1>3. envVarsEqual(c.env, d.env)
  BY <1>1 DEF envVarsEqual, AllEqual
<1>4. envFromEqual(c.envFrom, d.envFrom)
  BY <1>2 DEF envFromEqual, AllEqual
<1> QED
  BY <1>3, <1>4 DEF EnvInfoEqual

LEMMA EnvChangeJustified ==
  ASSUME NEW k \in Workloads, NEW old \in Object, NEW new \in Object,
         detectEnvChange(k, old, new)
  PROVE  Env(old) # Env(new) \/ Names(old) # Names(new)
<1> SUFFICES ASSUME Env(old) = Env(new), Names(old) = Names(new)
             PROVE  FALSE
  OBVIOUS
<1>1. /\ Containers(k, old) = old.containers /\ Containers(k, new) = new.containers
      /\ old.containers \in Seq(Container) /\ new.containers \in Seq(Container)
  BY DEF Containers, Object
<1>2. DOMAIN old.containers = DOMAIN new.containers
  BY DEF Names
<1>3. Len(old.containers) = Len(new.containers)
  BY <1>1, <1>2
<1>4. ASSUME NEW i \in DOMAIN old.containers
      PROVE  EnvInfoEqual(old.containers[i], new.containers[i])
  <2>1. Names(old)[i] = Names(new)[i] /\ Env(old)[i] = Env(new)[i]
    OBVIOUS
  <2>2. /\ old.containers[i].name = new.containers[i].name
        /\ [env |-> old.containers[i].env, envFrom |-> old.containers[i].envFrom]
             = [env |-> new.containers[i].env, envFrom |-> new.containers[i].envFrom]
    BY <1>2, <2>1 DEF Names, Env
  <2>3. /\ old.containers[i].env = new.containers[i].env
        /\ old.containers[i].envFrom = new.containers[i].envFrom
    BY <2>2
  <2> QED
    BY <2>2, <2>3, EnvInfoReflexive
<1> QED
  BY <1>1, <1>3, <1>4 DEF detectEnvChange, AllEqual

-----------------------------------------------------------------------------
(* The decision *)

Watched == kind \in GetWatchedKinds(watches)

LEMMA UpdateEventFields ==
  ASSUME kind \in SupportedKinds, NEW old \in Object, NEW new \in Object
  PROVE  LET e == UpdateEvent(old, new)
         IN  /\ e.kind = kind /\ e.name = Name /\ e.eventType = "UPDATED"
             /\ e.labels = new.labels
             /\ e.imageChanged = detectImageChange(kind, old, new)
             /\ e.envChanged = detectEnvChange(kind, old, new)
             /\ e.containers = EventContainers(new)
BY DEF UpdateEvent, convertToEvent

LEMMA WorkloadsSupported == Workloads \subseteq SupportedKinds
BY DEF Workloads, SupportedKinds

\* An update that a trigger asks for passes.
LEMMA ImageChangePasses ==
  ASSUME kind \in Workloads, Watched, NEW old \in Object, NEW new \in Object,
         old # new => old.rv # new.rv,
         Images(old) # Images(new), Enables("imageChange"), Selected(new)
  PROVE  Notifies("UPDATED", old, new)
<1> DEFINE e == UpdateEvent(old, new)
<1>1. /\ e.kind = kind /\ e.name = Name /\ e.eventType = "UPDATED"
      /\ e.labels = new.labels /\ e.imageChanged = detectImageChange(kind, old, new)
  BY UpdateEventFields, WorkloadsSupported
<1>2. detectImageChange(kind, old, new)
  BY ImageChangeDetected
<1>3. UpdateCounts(old, new)
  BY <1>2 DEF UpdateCounts, hasSignificantChange
<1> HIDE DEF e
<1>4. isImageChangeEvent(e)
  BY <1>1, <1>2 DEF isImageChangeEvent, IsChangeEvent, Workloads
<1>5. PICK t \in ToSet(Watch.triggers) : t.imageChange
  BY DEF Enables
<1>6. Triggered(e, Watch)
  BY <1>4, <1>5 DEF Triggered
<1>7. matchesSelector(e, Watch)
  BY <1>1 DEF matchesSelector, matchesLabels, Selected
<1>8. ShouldProcess(watches, e)
  BY <1>1, <1>6, <1>7 DEF ShouldProcess, Passes, Watch, Watched
<1> QED
  BY <1>3, <1>8 DEF Notifies, EventOf, e

LEMMA EnvChangePasses ==
  ASSUME kind \in Workloads, Watched, NEW old \in Object, NEW new \in Object,
         Env(old) # Env(new), NoFieldRefs(old), Enables("envChange"), Selected(new)
  PROVE  Notifies("UPDATED", old, new)
<1> DEFINE e == UpdateEvent(old, new)
<1>1. /\ e.kind = kind /\ e.name = Name /\ e.eventType = "UPDATED"
      /\ e.labels = new.labels /\ e.envChanged = detectEnvChange(kind, old, new)
  BY UpdateEventFields, WorkloadsSupported
<1>2. detectEnvChange(kind, old, new)
  BY EnvChangeDetected
<1>3. UpdateCounts(old, new)
  BY <1>2 DEF UpdateCounts
<1> HIDE DEF e
<1>4. isEnvChangeEvent(e)
  BY <1>1, <1>2 DEF isEnvChangeEvent, IsChangeEvent, Workloads
<1>5. PICK t \in ToSet(Watch.triggers) : t.envChange
  BY DEF Enables
<1>6. Triggered(e, Watch)
  BY <1>4, <1>5 DEF Triggered
<1>7. matchesSelector(e, Watch)
  BY <1>1 DEF matchesSelector, matchesLabels, Selected
<1>8. ShouldProcess(watches, e)
  BY <1>1, <1>6, <1>7 DEF ShouldProcess, Passes, Watch, Watched
<1> QED
  BY <1>3, <1>8 DEF Notifies, EventOf, e

\* So does a new Pod, with a watch on Pods.
LEMMA PodStartPasses ==
  ASSUME kind = "Pod", Watched, NEW old, NEW new \in Object,
         Enables("imageChange"), Selected(new)
  PROVE  Notifies("ADDED", old, new)
<1> DEFINE e == convertToEvent(new, "ADDED")
<1>1. e.kind = kind /\ e.name = Name /\ e.eventType = "ADDED" /\ e.labels = new.labels
  BY DEF convertToEvent, SupportedKinds
<1> HIDE DEF e
<1>2. matchesSelector(e, Watch)
  BY <1>1 DEF matchesSelector, matchesLabels, Selected
<1>3. isImageChangeEvent(e)
  BY <1>1 DEF isImageChangeEvent, IsChangeEvent
<1>4. Triggered(e, Watch)
  BY <1>3 DEF Triggered, Enables
<1>5. ShouldProcess(watches, e)
  BY <1>1, <1>2, <1>4 DEF ShouldProcess, Passes, Watch, Watched
<1> QED
  BY <1>5 DEF Notifies, EventOf, e

\* What passes was asked for.
LEMMA PassingUpdate ==
  ASSUME kind \in SupportedKinds, NEW old \in Object, NEW new \in Object,
         Notifies("UPDATED", old, new)
  PROVE  /\ Selected(new) /\ kind \in Workloads
         /\ \/ Enables("imageChange") /\ Images(old) # Images(new)
            \/ /\ Enables("envChange")
               /\ Env(old) # Env(new) \/ Names(old) # Names(new)
<1> DEFINE e == UpdateEvent(old, new)
<1>1. /\ e.kind = kind /\ e.name = Name /\ e.eventType = "UPDATED"
      /\ e.labels = new.labels /\ e.imageChanged = detectImageChange(kind, old, new)
      /\ e.envChanged = detectEnvChange(kind, old, new)
  BY UpdateEventFields
<1>2. ShouldProcess(watches, e)
  BY DEF Notifies, EventOf
<1> HIDE DEF e
<1>3. matchesSelector(e, Watch) /\ Triggered(e, Watch)
  BY <1>1, <1>2 DEF ShouldProcess, Passes, Watch
<1>4. Selected(new)
  BY <1>1, <1>3 DEF matchesSelector, matchesLabels, Selected
<1>5. PICK t \in ToSet(Watch.triggers) :
        \/ t.imageChange /\ isImageChangeEvent(e)
        \/ t.envChange /\ isEnvChangeEvent(e)
  BY <1>3 DEF Triggered
<1>6. CASE t.imageChange /\ isImageChangeEvent(e)
  <2>1. kind \in Workloads /\ detectImageChange(kind, old, new)
    BY <1>1, <1>6 DEF isImageChangeEvent, IsChangeEvent, Workloads
  <2>2. Enables("imageChange")
    BY <1>6 DEF Enables
  <2> QED
    BY <1>4, <2>1, <2>2, ImageChangeDetected
<1>7. CASE t.envChange /\ isEnvChangeEvent(e)
  <2>1. kind \in Workloads /\ detectEnvChange(kind, old, new)
    BY <1>1, <1>7 DEF isEnvChangeEvent, IsChangeEvent, Workloads
  <2>2. Enables("envChange")
    BY <1>7 DEF Enables
  <2> QED
    BY <1>4, <2>1, <2>2, EnvChangeJustified
<1> QED
  BY <1>5, <1>6, <1>7

LEMMA PassingOther ==
  ASSUME kind \in SupportedKinds, NEW old \in Object, NEW new \in Object,
         NEW type \in {"ADDED", "DELETED"}, Notifies(type, old, new)
  PROVE  Selected(new) /\ kind = "Pod" /\ type = "ADDED"
<1> DEFINE e == convertToEvent(new, type)
<1>1. e.kind = kind /\ e.name = Name /\ e.eventType = type /\ e.labels = new.labels
  BY DEF convertToEvent
<1>2. ShouldProcess(watches, e)
  BY DEF Notifies, EventOf
<1> HIDE DEF e
<1>3. matchesSelector(e, Watch) /\ Triggered(e, Watch)
  BY <1>1, <1>2 DEF ShouldProcess, Passes, Watch
<1>4. Selected(new)
  BY <1>1, <1>3 DEF matchesSelector, matchesLabels, Selected
<1>5. kind = "Pod" /\ type = "ADDED"
  BY <1>1, <1>3 DEF Triggered, isImageChangeEvent, isEnvChangeEvent, IsChangeEvent
<1> QED
  BY <1>4, <1>5

-----------------------------------------------------------------------------
(* The invariant *)

\* The versions around.
Held == ({api, seen} \cup ToSet(stream)) \ {Absent}

\* No two of them have the same resource version, and none has a later one than
\* the last write.
HeldInv ==
  /\ \A v \in Held : v.rv <= writes
  /\ \A v, w \in Held : v.rv = w.rv => v = w

ProcessInv ==
  /\ Watched
  /\ process \in {"listing", "watching", "crashed"} => kind \in SupportedKinds

\* The last call was for versions of the object; if they differ, so do their
\* resource versions.
LastInv ==
  last # NoCall =>
    /\ last.type \in {"ADDED", "UPDATED", "DELETED"}
    /\ last.old \in Versions /\ last.new \in Versions
    /\ last.notified = Notifies(last.type, last.old, last.new)
    /\ last.old # last.new => last.old.rv # last.new.rv
    /\ kind \in SupportedKinds

Inv == TypeOK /\ HeldInv /\ ProcessInv /\ LastInv

LEMMA NotifiesBoolean ==
  ASSUME NEW t, NEW o, NEW n
  PROVE  Notifies(t, o, n) \in BOOLEAN
BY Zenon DEF Notifies, UpdateCounts, hasSignificantChange, ShouldProcess, Passes

LEMMA InvInit == Init => Inv
<1> SUFFICES ASSUME Init
             PROVE  Inv
  OBVIOUS
<1>1. api \in Versions \cup {Absent} /\ (api # Absent => api.rv = 0)
  BY VersionType, WatcherConstants DEF Init, Versions
<1>2. stream = <<>> /\ stream \in Seq(Versions \cup {Absent}) /\ ToSet(stream) = {}
  BY DEF Init, ToSet
<1>3. last = NoCall /\ seen = Absent /\ writes = 0 /\ process = "starting"
  BY DEF Init
<1>4. TypeOK
  BY <1>1, <1>2, <1>3, WatcherConstants DEF Init, TypeOK, NoCall
<1>5. Held = {api} \ {Absent}
  BY <1>2, <1>3 DEF Held
<1>6. HeldInv
  BY <1>1, <1>3, <1>5 DEF HeldInv
<1>7. ProcessInv
  BY <1>3 DEF Init, ProcessInv, Watched
<1> QED
  BY <1>3, <1>4, <1>6, <1>7 DEF Inv, LastInv

\* A call of the handler for versions that are around.
LEMMA HandleStep ==
  ASSUME Inv, NEW old \in Held, NEW new \in Held, kind \in SupportedKinds,
         NEW type \in {"ADDED", "UPDATED", "DELETED"},
         Handle(type, old, new), UNCHANGED <<kind, watches>>
  PROVE  LastInv' /\ last'.type \in {"none", "ADDED", "UPDATED", "DELETED"}
         /\ last'.notified \in BOOLEAN
<1>1. old \in Versions /\ new \in Versions
  BY DEF Inv, TypeOK, Held, ToSet
<1>2. /\ last'.type = type /\ last'.old = old /\ last'.new = new
      /\ last'.notified = Notifies(type, old, new)
  BY DEF Handle
<1>3. last'.notified \in BOOLEAN
  BY <1>2, NotifiesBoolean
<1>4. old # new => old.rv # new.rv
  BY DEF Inv, HeldInv
<1>5. Notifies(last.type, last.old, last.new)' = Notifies(type, old, new)
  BY <1>2 DEF Notifies, UpdateCounts, EventOf, UpdateEvent, convertToEvent, EventContainers
<1> QED
  BY <1>1, <1>2, <1>3, <1>4, <1>5 DEF LastInv

\* The handlers are called for the version that arrives, and those around stay
\* around at most.
LEMMA ArriveStep ==
  ASSUME Inv, NEW version \in Held \cup {Absent}, kind \in SupportedKinds,
         Arrive(version), UNCHANGED <<kind, watches>>
  PROVE  /\ LastInv' /\ last'.type \in {"none", "ADDED", "UPDATED", "DELETED"}
         /\ last'.notified \in BOOLEAN /\ seen' = version
<1>1. seen' = version /\ (seen # Absent => seen \in Held)
  BY DEF Arrive, Held
<1>2. CASE seen = Absent /\ version = Absent
  <2>1. last' = last
    BY <1>2 DEF Arrive
  <2>2. Notifies(last.type, last.old, last.new)' = Notifies(last.type, last.old, last.new)
    BY <2>1 DEF Notifies, UpdateCounts, EventOf, UpdateEvent, convertToEvent, EventContainers
  <2> QED
    BY <1>1, <2>1, <2>2 DEF Inv, LastInv, TypeOK
<1>3. CASE seen = Absent /\ version # Absent
  BY <1>1, <1>3, HandleStep DEF Arrive
<1>4. CASE seen # Absent /\ version = Absent
  BY <1>1, <1>4, HandleStep DEF Arrive
<1>5. CASE seen # Absent /\ version # Absent
  BY <1>1, <1>5, HandleStep DEF Arrive
<1> QED
  BY <1>2, <1>3, <1>4, <1>5

\* A step that keeps the last call keeps what is said of it.
LEMMA LastUnchanged ==
  ASSUME Inv, UNCHANGED <<kind, watches, last>>
  PROVE  /\ LastInv' /\ last'.type \in {"none", "ADDED", "UPDATED", "DELETED"}
         /\ last'.notified \in BOOLEAN
<1>1. Notifies(last.type, last.old, last.new)' = Notifies(last.type, last.old, last.new)
  BY DEF Notifies, UpdateCounts, EventOf, UpdateEvent, convertToEvent, EventContainers
<1> QED
  BY <1>1 DEF Inv, LastInv, TypeOK

LEMMA StreamType ==
  ASSUME Inv
  PROVE  /\ stream \in Seq(Versions \cup {Absent})
         /\ \A i \in 1 .. Len(stream) : stream[i] \in Held \cup {Absent}
         /\ api \in Held \cup {Absent} /\ seen \in Held \cup {Absent}
         /\ Held \subseteq Versions /\ ToSet(<<>>) = {}
BY DEF Inv, TypeOK, Held, ToSet

\* A write brings a version that is later than those around.
LEMMA PutStep ==
  ASSUME Inv, NEW version \in Versions \cup {Absent}, Put(version),
         version # Absent => version.rv = writes + 1
  PROVE  Inv'
<1>1. /\ UNCHANGED <<kind, watches, process, restarts, seen, last>>
      /\ writes' = writes + 1 /\ writes < MaxWrites /\ api' = version
      /\ writes \in Nat /\ MaxWrites \in Nat
  BY WatcherConstants DEF Put, Inv, TypeOK
<1>2. stream' = stream \/ stream' = Append(stream, version)
  BY DEF Put
<1>3. stream' \in Seq(Versions \cup {Absent}) /\ ToSet(stream') \subseteq ToSet(stream) \cup {version}
  <2>1. CASE stream' = stream
    BY <2>1, StreamType
  <2>2. CASE stream' = Append(stream, version)
    <3>1. /\ stream' \in Seq(Versions \cup {Absent}) /\ Len(stream') = Len(stream) + 1
          /\ Len(stream) \in Nat
          /\ \A i \in 1 .. Len(stream') :
               stream'[i] = IF i <= Len(stream) THEN stream[i] ELSE version
      BY <2>2, StreamType, AppendProperties, LenProperties
    <3>2. ASSUME NEW i \in 1 .. Len(stream')
          PROVE  stream'[i] \in ToSet(stream) \cup {version}
      <4>1. CASE i <= Len(stream)
        BY <3>1, <4>1, StreamType DEF ToSet
      <4>2. CASE ~(i <= Len(stream))
        BY <3>1, <4>2
      <4> QED
        BY <4>1, <4>2
    <3> QED
      BY <3>1, <3>2 DEF ToSet
  <2> QED
    BY <1>2, <2>1, <2>2
<1>4. Held' \subseteq Held \cup ({version} \ {Absent})
  BY <1>1, <1>3 DEF Held
<1>5. \A v \in Held : v.rv \in Nat /\ v.rv <= writes
  BY StreamType, VersionsType DEF Inv, HeldInv, Object
<1>6. HeldInv'
  BY <1>1, <1>4, <1>5 DEF Inv, HeldInv
<1>7. LastInv' /\ last'.type = last.type /\ last'.notified = last.notified
  BY <1>1, LastUnchanged
<1>8. TypeOK'
  BY <1>1, <1>3 DEF Inv, TypeOK
<1>9. ProcessInv'
  BY <1>1 DEF Inv, ProcessInv, Watched
<1> QED
  BY <1>6, <1>7, <1>8, <1>9 DEF Inv

\* Nothing but a write brings a version that was not around.
LEMMA HeldShrinks ==
  ASSUME Inv, Held' \subseteq Held, writes' = writes
  PROVE  HeldInv'
BY DEF Inv, HeldInv

LEMMA InvStep == Inv /\ [Next]_vars => Inv'
<1> SUFFICES ASSUME Inv, [Next]_vars
             PROVE  Inv'
  OBVIOUS
<1>1. ASSUME NEW c \in Contents, Write(c)
      PROVE  Inv'
  <2>1. writes + 1 \in 0 .. MaxWrites /\ writes + 1 \in Nat
    BY <1>1, WatcherConstants DEF Write, Put, Inv, TypeOK
  <2>2. Version(writes + 1, c) \in Versions /\ Version(writes + 1, c).rv = writes + 1
    BY <2>1, VersionType DEF Versions
  <2> QED
    BY <1>1, <2>2, PutStep DEF Write
<1>2. CASE Delete
  BY <1>2, PutStep DEF Delete
<1>3. CASE Start
  <2>1. /\ UNCHANGED <<kind, watches, api, writes, restarts, stream, seen, last>>
        /\ process' \in {"listing", "fatal"}
        /\ process' = "listing" => GetWatchedKinds(watches) \subseteq SupportedKinds
    BY <1>3 DEF Start
  <2>2. HeldInv' /\ LastInv'
    BY <2>1, HeldShrinks, LastUnchanged DEF Held
  <2>3. TypeOK'
    BY <2>1 DEF Inv, TypeOK
  <2>4. ProcessInv'
    BY <2>1 DEF Inv, ProcessInv, Watched
  <2> QED
    BY <2>2, <2>3, <2>4 DEF Inv
<1>4. CASE List
  <2>1. /\ UNCHANGED <<kind, watches, api, writes, restarts>>
        /\ stream' = <<>> /\ ToSet(stream') = {} /\ process = "listing"
        /\ process' \in {"crashed", "watching"} /\ kind \in SupportedKinds
    BY <1>4, StreamType DEF List, Inv, ProcessInv
  <2>2. /\ LastInv' /\ last'.type \in {"none", "ADDED", "UPDATED", "DELETED"}
        /\ last'.notified \in BOOLEAN /\ seen' \in {seen, api}
    <3>1. CASE seen # Absent /\ api = Absent
      BY <1>4, <2>1, <3>1, LastUnchanged DEF List
    <3>2. CASE ~(seen # Absent /\ api = Absent)
      BY <1>4, <2>1, <3>2, ArriveStep, StreamType DEF List
    <3> QED
      BY <3>1, <3>2
  <2>3. HeldInv'
    BY <2>1, <2>2, HeldShrinks DEF Held
  <2>4. TypeOK'
    BY <2>1, <2>2 DEF Inv, TypeOK
  <2>5. ProcessInv'
    BY <2>1 DEF Inv, ProcessInv, Watched
  <2> QED
    BY <2>2, <2>3, <2>4, <2>5 DEF Inv
<1>5. CASE Deliver
  <2>1. /\ UNCHANGED <<kind, watches, api, writes, process, restarts>>
        /\ stream # <<>> /\ stream' = Tail(stream) /\ kind \in SupportedKinds
    BY <1>5 DEF Deliver, Inv, ProcessInv
  <2>2. /\ stream' \in Seq(Versions \cup {Absent})
        /\ Head(stream) \in Held \cup {Absent} /\ ToSet(stream') \subseteq ToSet(stream)
    <3>1. /\ 1 \in 1 .. Len(stream) /\ Head(stream) = stream[1]
          /\ stream' \in Seq(Versions \cup {Absent})
          /\ \A i \in 1 .. Len(stream') : i + 1 \in 1 .. Len(stream) /\ stream'[i] = stream[i + 1]
      BY <2>1, StreamType
    <3>2. DOMAIN stream = 1 .. Len(stream) /\ DOMAIN stream' = 1 .. Len(stream')
      BY <3>1, StreamType
    <3>3. ToSet(stream') \subseteq ToSet(stream)
      BY <3>1, <3>2 DEF ToSet
    <3>4. Head(stream) \in Held \cup {Absent}
      BY <3>1, StreamType
    <3> QED
      BY <3>1, <3>3, <3>4
  <2>3. /\ LastInv' /\ last'.type \in {"none", "ADDED", "UPDATED", "DELETED"}
        /\ last'.notified \in BOOLEAN /\ seen' = Head(stream)
    BY <1>5, <2>1, <2>2, ArriveStep DEF Deliver
  <2>4. HeldInv'
    BY <2>1, <2>2, <2>3, HeldShrinks DEF Held
  <2>5. TypeOK'
    BY <2>1, <2>2, <2>3, StreamType DEF Inv, TypeOK
  <2>6. ProcessInv'
    BY <2>1 DEF Inv, ProcessInv, Watched
  <2> QED
    BY <2>3, <2>4, <2>5, <2>6 DEF Inv
<1>6. CASE StreamBreaks
  <2>1. /\ UNCHANGED <<kind, watches, api, writes, restarts, seen, last>>
        /\ process = "watching" /\ process' = "listing" /\ stream' = <<>>
    BY <1>6 DEF StreamBreaks
  <2>2. HeldInv' /\ LastInv'
    BY <2>1, StreamType, HeldShrinks, LastUnchanged DEF Held
  <2>3. TypeOK'
    BY <2>1 DEF Inv, TypeOK
  <2>4. ProcessInv'
    BY <2>1 DEF Inv, ProcessInv, Watched
  <2> QED
    BY <2>2, <2>3, <2>4 DEF Inv
<1>7. CASE Resync
  <2>1. /\ UNCHANGED <<kind, watches, api, writes, process, restarts, stream, seen>>
        /\ seen \in Held /\ kind \in SupportedKinds
    BY <1>7 DEF Resync, Held, Inv, ProcessInv
  <2>2. /\ LastInv' /\ last'.type \in {"none", "ADDED", "UPDATED", "DELETED"}
        /\ last'.notified \in BOOLEAN
    BY <1>7, <2>1, HandleStep DEF Resync
  <2>3. HeldInv'
    BY <2>1, HeldShrinks DEF Held
  <2>4. TypeOK'
    BY <2>1, <2>2 DEF Inv, TypeOK
  <2>5. ProcessInv'
    BY <2>1 DEF Inv, ProcessInv, Watched
  <2> QED
    BY <2>2, <2>3, <2>4, <2>5 DEF Inv
<1>8. CASE Restart
  <2>1. /\ UNCHANGED <<kind, watches, api, writes, last>>
        /\ restarts < MaxRestarts /\ restarts' = restarts + 1
        /\ process' = "starting" /\ stream' = <<>> /\ seen' = Absent
    BY <1>8 DEF Restart
  <2>2. HeldInv' /\ LastInv'
    BY <2>1, StreamType, HeldShrinks, LastUnchanged DEF Held
  <2>3. TypeOK'
    BY <2>1, WatcherConstants DEF Inv, TypeOK
  <2>4. ProcessInv'
    BY <2>1 DEF Inv, ProcessInv, Watched
  <2> QED
    BY <2>2, <2>3, <2>4 DEF Inv
<1>9. CASE UNCHANGED vars
  <2>1. HeldInv' /\ LastInv'
    BY <1>9, HeldShrinks, LastUnchanged DEF vars, Held
  <2> QED
    BY <1>9, <2>1 DEF vars, Inv, TypeOK, ProcessInv, Watched
<1> QED
  BY <1>1, <1>2, <1>3, <1>4, <1>5, <1>6, <1>7, <1>8, <1>9 DEF Next

LEMMA Invariant == Spec => []Inv
BY InvInit, InvStep, PTL DEF Spec

-----------------------------------------------------------------------------

\* The variables of the watcher keep their types.
THEOREM TypeCorrect == Spec => []TypeOK
<1>1. Inv => TypeOK
  BY DEF Inv
<1> QED
  BY <1>1, Invariant, PTL

\* An update with other images, of a workload that a trigger selects, passes every
\* gate on its way, whatever else changes and whatever the informer has missed; and
\* so does the start of a Pod.
THEOREM ImageChangesAreNotified == Spec => []ImageChangeNotified
<1>1. Inv => ImageChangeNotified
  <2> SUFFICES ASSUME Inv, Enables("imageChange"), Selected(last.new),
                      \/ Updated /\ Images(last.old) # Images(last.new)
                      \/ kind = "Pod" /\ last.type = "ADDED"
               PROVE  last.notified
    BY DEF ImageChangeNotified
  <2>0. CASE kind = "Pod" /\ last.type = "ADDED"
    <3>1. last # NoCall
      BY <2>0 DEF NoCall
    <3>2. /\ last.old \in Object /\ last.new \in Object /\ Watched
          /\ last.notified = Notifies(last.type, last.old, last.new)
      BY <3>1, VersionsType DEF Inv, LastInv, ProcessInv
    <3>3. Notifies("ADDED", last.old, last.new)
      BY <2>0, <3>2, PodStartPasses
    <3> QED
      BY <2>0, <3>2, <3>3
  <2> SUFFICES ASSUME Updated, Images(last.old) # Images(last.new)
               PROVE  last.notified
    BY <2>0
  <2>1. last # NoCall /\ last.type = "UPDATED" /\ kind \in Workloads
    BY DEF Updated, NoCall
  <2>2. last.old \in Object /\ last.new \in Object
    BY <2>1, VersionsType DEF Inv, LastInv
  <2> QED
    BY <2>1, <2>2, ImageChangePasses DEF Inv, LastInv, ProcessInv
<1> QED
  BY <1>1, Invariant, PTL

\* So does an update with other environment variables, sources from fields aside.
THEOREM EnvChangesAreNotified == Spec => []EnvChangeNotified
<1>1. Inv => EnvChangeNotified
  <2> SUFFICES ASSUME Inv, Updated, Env(last.old) # Env(last.new), NoFieldRefs(last.old),
                      Enables("envChange"), Selected(last.new)
               PROVE  last.notified
    BY DEF EnvChangeNotified
  <2>1. last # NoCall /\ last.type = "UPDATED" /\ kind \in Workloads
    BY DEF Updated, NoCall
  <2>2. last.old \in Object /\ last.new \in Object
    BY <2>1, VersionsType DEF Inv, LastInv
  <2> QED
    BY <2>1, <2>2, EnvChangePasses DEF Inv, LastInv, ProcessInv
<1> QED
  BY <1>1, Invariant, PTL

\* What is notified of was asked for: no resync, rescaling, relabelling or
\* deletion is, and nothing that the selector excludes.
THEOREM NothingElseIsNotified == Spec => []NoSpuriousNotification
<1>1. Inv => NoSpuriousNotification
  <2> SUFFICES ASSUME Inv, last.notified
               PROVE  /\ Selected(last.new)
                      /\ \/ kind = "Pod" /\ last.type = "ADDED"
                         \/ Updated /\ Enables("imageChange")
                              /\ Images(last.old) # Images(last.new)
                         \/ /\ Updated /\ Enables("envChange")
                            /\ \/ Env(last.old) # Env(last.new)
                               \/ Names(last.old) # Names(last.new)
    BY DEF NoSpuriousNotification
  <2>1. last # NoCall
    BY DEF NoCall
  <2>2. /\ last.old \in Object /\ last.new \in Object /\ kind \in SupportedKinds
        /\ last.type \in {"ADDED", "UPDATED", "DELETED"}
        /\ Notifies(last.type, last.old, last.new)
    BY <2>1, VersionsType DEF Inv, LastInv
  <2>3. CASE last.type = "UPDATED"
    BY <2>2, <2>3, PassingUpdate DEF Updated
  <2>4. CASE last.type \in {"ADDED", "DELETED"}
    BY <2>2, <2>4, PassingOther
  <2> QED
    BY <2>2, <2>3, <2>4
<1> QED
  BY <1>1, Invariant, PTL

-----------------------------------------------------------------------------
(* What the reader of the notifications knows *)

\* The conditions under which the reader is told of every other image.
AllTold ==
  /\ restarts = 0 /\ kind \in Workloads \ {"StatefulSet"}
  /\ Watch.labels = {} /\ Watch.name \in {Name, NoName} /\ Enables("imageChange")

\* He knows the images that the informer has seen, and of no object when there is
\* none.
ToldInv == AllTold => told = IF seen = Absent THEN Absent ELSE Images(seen)

LEMMA AllToldUnchanged ==
  ASSUME UNCHANGED <<kind, watches, restarts>>
  PROVE  AllTold' = AllTold
BY DEF AllTold, Watch, Enables

\* The message about an update of a workload other than a StatefulSet lists its
\* images.
LEMMA UpdateTells ==
  ASSUME kind \in Workloads \ {"StatefulSet"}, kind \in SupportedKinds,
         NEW old \in Object, NEW version \in Versions
  PROVE  Tells(UpdateEvent(old, version)) = Images(version)
<1>1. PICK n \in 0 .. MaxWrites, c \in Contents : version = [c EXCEPT !.rv = n]
  BY DEF Versions, Version
<1>2. c \in Object /\ c.containers # <<>>
  BY WatcherConstants
<1>3. version \in Object /\ version.containers = c.containers
  BY <1>1, <1>2, VersionsType DEF Object
<1>4. version.containers # <<>>
  BY <1>2, <1>3
<1>5. version.containers \in Seq(Container)
  BY <1>3 DEF Object
<1> DEFINE cs == EventContainers(version)
<1>6. cs = [i \in DOMAIN version.containers |->
              [name |-> version.containers[i].name, image |-> version.containers[i].image]]
  BY DEF EventContainers, Workloads
<1>7. cs # <<>>
  <2>1. 1 \in DOMAIN version.containers
    BY <1>4, <1>5
  <2>2. DOMAIN cs = DOMAIN version.containers
    BY <1>6
  <2>3. DOMAIN <<>> = {}
    OBVIOUS
  <2> QED
    BY <2>1, <2>2, <2>3
<1>8. [i \in DOMAIN cs |-> cs[i].image] = Images(version)
  BY <1>6 DEF Images
<1>9. UpdateEvent(old, version).containers = cs
  BY <1>3, UpdateEventFields
<1> HIDE DEF cs
<1> QED
  BY <1>7, <1>8, <1>9 DEF Tells

\* An update that is not notified of leaves the images as they were.
LEMMA UpdateTold ==
  ASSUME Inv, AllTold, told = Images(seen), NEW version \in Held, seen \in Held,
         Handle("UPDATED", seen, version)
  PROVE  told' = Images(version)
<1>0. version \in Versions /\ seen \in Object /\ version \in Object
  BY StreamType, VersionsType
<1>1. told' = IF Notifies("UPDATED", seen, version) THEN Images(version) ELSE told
  <2>1. told' = IF Notifies("UPDATED", seen, version)
                THEN Tells(UpdateEvent(seen, version)) ELSE told
    BY DEF Handle, EventOf
  <2>2. kind \in Workloads \ {"StatefulSet"} /\ kind \in SupportedKinds
    BY WorkloadsSupported DEF AllTold
  <2> QED
    BY <1>0, <2>1, <2>2, UpdateTells
<1>2. seen \in Object /\ version \in Object
  BY <1>0
<1>3. seen # version => seen.rv # version.rv
  BY DEF Inv, HeldInv
<1>4. Selected(version)
  BY DEF AllTold, Selected
<1>5. Images(seen) # Images(version) => Notifies("UPDATED", seen, version)
  BY <1>2, <1>3, <1>4, ImageChangePasses DEF AllTold, Inv, ProcessInv
<1> QED
  BY <1>1, <1>5

LEMMA ArriveTold ==
  ASSUME Inv, ToldInv, NEW version \in Held \cup {Absent}, Arrive(version),
         UNCHANGED <<kind, watches, restarts>>
  PROVE  ToldInv'
<1> SUFFICES ASSUME AllTold
             PROVE  told' = IF version = Absent THEN Absent ELSE Images(version)
  <2>1. seen' = version
    BY DEF Arrive
  <2>2. (IF seen = Absent THEN Absent ELSE Images(seen))'
          = IF version = Absent THEN Absent ELSE Images(version)
    BY <2>1 DEF Images
  <2> QED
    BY <2>2, AllToldUnchanged DEF ToldInv
<1>1. told = IF seen = Absent THEN Absent ELSE Images(seen)
  BY DEF ToldInv
<1>2. CASE seen = Absent /\ version = Absent
  BY <1>1, <1>2 DEF Arrive
<1>3. CASE seen = Absent /\ version # Absent
  BY <1>1, <1>3 DEF Arrive, Handle
<1>4. CASE seen # Absent /\ version = Absent
  BY <1>4 DEF Arrive, Handle
<1>5. CASE seen # Absent /\ version # Absent
  <2>1. Handle("UPDATED", seen, version) /\ seen \in Held /\ version \in Held
    BY <1>5 DEF Arrive, Held
  <2> QED
    BY <1>1, <1>5, <2>1, UpdateTold
<1> QED
  BY <1>2, <1>3, <1>4, <1>5

LEMMA ToldUnchanged ==
  ASSUME ToldInv, UNCHANGED <<kind, watches, restarts, seen, told>>
  PROVE  ToldInv'
<1>1. (IF seen = Absent THEN Absent ELSE Images(seen))'
        = IF seen = Absent THEN Absent ELSE Images(seen)
  BY DEF Images
<1> QED
  BY <1>1, AllToldUnchanged DEF ToldInv

LEMMA ToldStep == Inv /\ ToldInv /\ [Next]_vars => ToldInv'
<1> SUFFICES ASSUME Inv, ToldInv, [Next]_vars
             PROVE  ToldInv'
  OBVIOUS
<1>1. ASSUME NEW c \in Contents, Write(c)
      PROVE  ToldInv'
  BY <1>1, ToldUnchanged DEF Write, Put
<1>2. CASE Delete \/ Start \/ StreamBreaks \/ UNCHANGED vars
  BY <1>2, ToldUnchanged DEF Delete, Put, Start, StreamBreaks, vars
<1>3. CASE List
  <2>1. CASE seen # Absent /\ api = Absent
    BY <1>3, <2>1, ToldUnchanged DEF List
  <2>2. CASE ~(seen # Absent /\ api = Absent)
    BY <1>3, <2>2, StreamType, ArriveTold DEF List
  <2> QED
    BY <2>1, <2>2
<1>4. CASE Deliver
  <2>1. Head(stream) \in Held \cup {Absent}
    BY <1>4, StreamType, HeadTailProperties, LenProperties, EmptySeq DEF Deliver
  <2> QED
    BY <1>4, <2>1, ArriveTold DEF Deliver
<1>5. CASE Resync
  <2>1. /\ Arrive(seen) /\ seen \in Held
    BY <1>5 DEF Resync, Arrive, Held
  <2> QED
    BY <1>5, <2>1, ArriveTold DEF Resync
<1>6. CASE Restart
  BY <1>6, WatcherConstants DEF Restart, Inv, TypeOK, ToldInv, AllTold
<1> QED
  BY <1>1, <1>2, <1>3, <1>4, <1>5, <1>6 DEF Next

\* Until the process is restarted, the reader of the notifications of a watch
\* without labels knows the images that the informer has seen.
THEOREM NotificationsTellTheImages == Spec => []ToldIsSeen
<1>1. Init => ToldInv
  BY DEF Init, ToldInv
<1>2. ToldInv => ToldIsSeen
  BY DEF ToldInv, AllTold, ToldIsSeen
<1> QED
  BY <1>1, <1>2, Invariant, ToldStep, PTL DEF Spec
=============================================================================
