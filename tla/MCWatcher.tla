----------------------------- MODULE MCWatcher -----------------------------
(* One object; its versions differ in one thing each from a first one, so that
   every pair of them has one change or two. *)
EXTENDS Watcher

CONSTANTS i1, i2, app

Var(value, from) == [name |-> "v", value |-> value, from |-> from]
From(to, ref) == [to |-> to, ref |-> ref]

One(image, env, envFrom) ==
  [name |-> "c", image |-> image, env |-> env, envFrom |-> envFrom]

Content(containers, ready, labels) ==
  [rv |-> 0, containers |-> containers, scale |-> 1, ready |-> ready,
   phase |-> "Running", service |-> "ClusterIP", labels |-> labels]

First == One(i1, <<>>, <<>>)
With(env) == Content(<<One(i1, <<env>>, <<>>)>>, 1, {app})
ConfigMaps(ref) == <<[prefix |-> "", configMap |-> ref, secret |-> Nil]>>

Plain == Content(<<First>>, 1, {app})
Unready == Content(<<First>>, 0, {app})
Other == Content(<<One(i2, <<>>, <<>>)>>, 1, {app})
Unlabelled == Content(<<One(i2, <<>>, <<>>)>>, 1, {})
Two == Content(<<First, First>>, 1, {app})

Renamed == Content(<<[First EXCEPT !.name = "d"]>>, 1, {app})
Pending == [Plain EXCEPT !.phase = "Pending"]
LoadBalancer == [Plain EXCEPT !.service = "LoadBalancer"]
DoubleScale == [Plain EXCEPT !.scale = 2]
Unscaled == [Plain EXCEPT !.scale = Nil]

MCContents ==
  {Plain, Unready, Other, Unlabelled, Two, Pending, LoadBalancer, Unscaled,
   DoubleScale, Renamed,
   With(Var("1", Nil)), With(Var("2", Nil)),
   With(Var("", From("configMap", "r"))), With(Var("", From("configMap", "s"))),
   With(Var("", From("secret", "r"))), With(Var("", From("secret", "s"))),
   Content(<<One(i1, <<>>, ConfigMaps("r"))>>, 1, {app}),
   Content(<<One(i1, <<>>, ConfigMaps("s"))>>, 1, {app})}

MCFieldContents ==
  {Plain, With(Var("", From("field", "r"))), With(Var("", From("field", "s")))}

MCFewContents == {Plain, Other, Unlabelled}

Trigger(image, env) == [imageChange |-> image, envChange |-> env]
WatchOn(k, labels, triggers) ==
  [kind |-> k, name |-> NoName, labels |-> labels, triggers |-> triggers]

BothTriggers == <<Trigger(FALSE, TRUE), Trigger(TRUE, FALSE)>>

MCEveryKind == {<<WatchOn(k, {}, BothTriggers)>> : k \in Kinds}

MCWatchLists ==
  MCEveryKind \cup
  {<<WatchOn("Deployment", {app, "tier"}, BothTriggers)>>,
   <<WatchOn("Deployment", {app}, <<Trigger(TRUE, FALSE)>>)>>,
   <<[WatchOn("Deployment", {}, BothTriggers) EXCEPT !.name = "other"]>>}
=============================================================================
