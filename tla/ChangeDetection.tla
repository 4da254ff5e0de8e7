-------------------------- MODULE ChangeDetection --------------------------
(***************************************************************************)
(* How pkg/watcher compares two versions of an object: the functions that  *)
(* createEventHandler calls for an update.                                 *)
(*                                                                         *)
(* A version is a record with the fields the code looks at: rv, scale      *)
(* (spec.replicas, Nil when it is not set), ready (status.readyReplicas),  *)
(* phase, service (type and number of ports), labels and containers, a     *)
(* sequence of records name, image, env and envFrom.  A field that a kind  *)
(* does not have never differs.                                            *)
(***************************************************************************)
EXTENDS Naturals, Sequences

CONSTANT Nil   \* a nil pointer

\* The kinds registerInformer knows.
SupportedKinds ==
  {"Pod", "Deployment", "Service", "ConfigMap", "Secret", "ReplicaSet",
   "StatefulSet", "DaemonSet", "CronJob"}

\* The workloads whose spec holds a Pod template.
Workloads == {"Deployment", "StatefulSet", "DaemonSet", "CronJob"}

\* Two slices are equal that have the same length and equal elements.
AllEqual(a, b, Equal(_, _)) ==
  Len(a) = Len(b) /\ \A i \in DOMAIN a : Equal(a[i], b[i])

\* Both pointers are nil or neither is, and what they point to is equal.
PointersEqual(p, q, Equal(_, _)) ==
  (p = Nil) = (q = Nil) /\ (p # Nil => Equal(p, q))

-----------------------------------------------------------------------------
(* Environment variables.  The source of a variable (valueFrom) is a record
   with what it refers to, "configMap", "secret" or "field" (fieldRef or
   resourceFieldRef), and the reference. *)

Refers(source, what) == IF source.to = what THEN source.ref ELSE Nil

SameRef(p, q) == p = q

SourcesEqual(s, t) ==
  \A what \in {"configMap", "secret"} :
    PointersEqual(Refers(s, what), Refers(t, what), SameRef)

EnvVarEqual(x, y) ==
  /\ x.name = y.name /\ x.value = y.value
  /\ PointersEqual(x.from, y.from, SourcesEqual)

envVarsEqual(a, b) == AllEqual(a, b, EnvVarEqual)

EnvFromSourceEqual(x, y) ==
  /\ x.prefix = y.prefix
  /\ PointersEqual(x.configMap, y.configMap, SameRef)
  /\ PointersEqual(x.secret, y.secret, SameRef)

envFromEqual(a, b) == AllEqual(a, b, EnvFromSourceEqual)

\* Faulty variant: envFrom is left out.
EnvInfoEqualNoEnvFrom(c, d) == c.name = d.name /\ envVarsEqual(c.env, d.env)

EnvInfoEqual(c, d) ==
  c.name = d.name /\ envVarsEqual(c.env, d.env) /\ envFromEqual(c.envFrom, d.envFrom)

-----------------------------------------------------------------------------

\* Faulty variant: the Pod template of a CronJob is forgotten.
ContainersNoCronJob(kind, v) ==
  IF kind \in (Workloads \ {"CronJob"}) \cup {"Pod"} THEN v.containers ELSE <<>>

\* The containers of the kinds that have some; not the init containers.
Containers(kind, v) == IF kind \in Workloads \cup {"Pod"} THEN v.containers ELSE <<>>

detectEnvChange(kind, old, new) ==
  ~AllEqual(Containers(kind, old), Containers(kind, new), EnvInfoEqual)

SameImage(c, d) == c.image = d.image

detectImageChange(kind, old, new) ==
  ~AllEqual(Containers(kind, old), Containers(kind, new), SameImage)

Rescaled(old, new) ==
  \/ old.scale # Nil /\ new.scale # Nil /\ old.scale # new.scale
  \/ old.ready # new.ready

hasSignificantChange(kind, old, new) ==
  /\ old.rv # new.rv
  /\ \/ kind = "Pod" /\ old.phase # new.phase
     \/ kind = "Service" /\ old.service # new.service
     \/ kind \in {"Deployment", "ReplicaSet", "StatefulSet"} /\ Rescaled(old, new)
     \/ detectImageChange(kind, old, new)
=============================================================================
