------------------------------- MODULE Filter -------------------------------
(***************************************************************************)
(* Which events pass the filter of pkg/filter, with the look-ups of        *)
(* pkg/config it uses.                                                     *)
(*                                                                         *)
(* A watch is a record kind, name (NoName for any), labels and triggers, a *)
(* sequence of records imageChange and envChange.  Labels are sets of      *)
(* key-value pairs.                                                        *)
(***************************************************************************)
EXTENDS Naturals, Sequences, SequencesExt

CONSTANT NoName   \* the empty name of a selector

GetWatchedKinds(watches) == {watches[i].kind : i \in DOMAIN watches}

\* The watches of a kind; the code uses the first one only.
WatchesOf(watches, kind) == {i \in DOMAIN watches : watches[i].kind = kind}

GetWatchForResource(watches, kind) ==
  watches[CHOOSE i \in WatchesOf(watches, kind) :
            \A j \in WatchesOf(watches, kind) : i <= j]

matchesLabels(eventLabels, requiredLabels) == requiredLabels \subseteq eventLabels

\* Faulty variant: one label is enough.
matchesSelectorAny(event, watch) ==
  /\ watch.name = NoName \/ event.name = watch.name
  /\ watch.labels = {} \/ event.labels \cap watch.labels # {}

matchesSelector(event, watch) ==
  /\ watch.name = NoName \/ event.name = watch.name
  /\ matchesLabels(event.labels, watch.labels)

\* A new Pod stands for a new image and a new environment.
IsChangeEvent(event, changed) ==
  \/ event.kind = "Pod" /\ event.eventType = "ADDED"
  \/ /\ event.kind \in {"Deployment", "StatefulSet", "DaemonSet", "CronJob"}
     /\ event.eventType = "UPDATED" /\ changed

isImageChangeEvent(event) == IsChangeEvent(event, event.imageChanged)
isEnvChangeEvent(event) == IsChangeEvent(event, event.envChanged)

\* Faulty variant: only the first trigger is looked at.
TriggeredByFirst(event, watch) ==
  \/ Head(watch.triggers).imageChange /\ isImageChangeEvent(event)
  \/ Head(watch.triggers).envChange /\ isEnvChangeEvent(event)

Triggered(event, watch) ==
  \E t \in ToSet(watch.triggers) :
    \/ t.imageChange /\ isImageChangeEvent(event)
    \/ t.envChange /\ isEnvChangeEvent(event)

Passes(event, watch) == matchesSelector(event, watch) /\ Triggered(event, watch)

ShouldProcess(watches, event) ==
  /\ event.kind \in GetWatchedKinds(watches)
  /\ Passes(event, GetWatchForResource(watches, event.kind))
=============================================================================
