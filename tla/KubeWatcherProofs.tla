------------------------- MODULE KubeWatcherProofs -------------------------
(***************************************************************************)
(* Theorems about the process of cmd/main.go, for any kinds, events and    *)
(* configurations, and any number of reloads.                              *)
(***************************************************************************)
EXTENDS KubeWatcher, TLAPS

\* A reload that waits for mu has a generation to make.
RoomInv == reload = "lock" => Len(configs) < MaxGen

\* A handler that is called has an event.
EventInv == \A k \in Kinds : handlers[k].pc # "idle" => handlers[k].event \in Events

TypeInv == TypeOK /\ RoomInv /\ EventInv

-----------------------------------------------------------------------------
(* Type correctness *)

LEMMA MadeType ==
  ASSUME NEW c \in Config, NEW g \in Gens
  PROVE  Made(c, g) \in Components
<1>1. \A flag \in BOOLEAN : Enabled(flag, g) \in GenOrNone
  BY KubeWatcherConstants DEF Enabled, GenOrNone, Gens, None
<1>2. c.dedup \in BOOLEAN /\ c.batching \in BOOLEAN
  BY DEF Config
<1> QED
  BY <1>1, <1>2 DEF Made, Components

HandlerState == [pc : {"idle", "lock", "screen", "send"},
                 event : Events \cup {NoEvent}, snap : Components]

LEMMA NotCalledType ==
  /\ NotCalled \in HandlerState
  /\ NotCalled.pc = "idle" /\ NotCalled.event = NoEvent
<1>1. 1 \in Gens /\ None \in GenOrNone
  BY KubeWatcherConstants DEF Gens, GenOrNone, None
<1> QED
  BY <1>1 DEF NotCalled, HandlerState, Components

LEMMA TypeInit == Init => TypeInv
<1> SUFFICES ASSUME Init
             PROVE  TypeInv
  OBVIOUS
<1>1. PICK c \in Configs :
        /\ configs = <<c>>
        /\ shared = Made(c, 1)
        /\ loaded = c
  BY DEF Init
<1>2. Made(c, 1) \in Components
  BY MadeType, KubeWatcherConstants DEF Gens
<1>3. shared \in Components /\ loaded \in Configs /\ handlers \in Snapshots
  BY <1>1, <1>2, NotCalledType DEF Init, Snapshots, HandlerState
<1>4. configs \in Seq(Configs) /\ Len(configs) \in Gens
  BY <1>1, KubeWatcherConstants DEF Gens
<1>5. EventInv
  BY NotCalledType DEF Init, EventInv
<1> QED
  BY <1>3, <1>4, <1>5 DEF Init, TypeInv, TypeOK, RoomInv

LEMMA TakeBatchType ==
  ASSUME TypeOK, NEW g \in Gens, NEW by \in {"timer", "reload", "main"},
         TakeBatch(g, by)
  PROVE  calls' \subseteq Call /\ buffer' \in [Gens -> SUBSET Events]
<1>1. [gen |-> g, batch |-> buffer[g], by |-> by, at |-> "lock", notifier |-> None]
        \in Call
  BY KubeWatcherConstants DEF TypeOK, Call, GenOrNone, None
<1> QED
  BY <1>1 DEF TakeBatch, TypeOK

LEMMA StopType ==
  ASSUME TypeOK, NEW what \in {"dedup", "batcher"}, NEW g \in Gens, Stop(what, g)
  PROVE  stopped' \in [dedup : SUBSET Gens, batcher : SUBSET Gens]
<1>1. stopped[what] \cup {g} \in SUBSET Gens
  BY DEF TypeOK
<1> QED
  BY <1>1 DEF Stop, TypeOK

Outcomes == {"new", "received", "filtered", "duplicate", "batched", "sent", "failed"}

HandlerStates == [Kinds -> HandlerState]

\* An update of one field of a handler.
LEMMA SetPc ==
  ASSUME NEW H \in HandlerStates, NEW k \in Kinds, NEW v \in {"idle", "lock", "screen", "send"}
  PROVE  LET G == [H EXCEPT ![k].pc = v]
         IN  /\ G \in HandlerStates
             /\ G[k].pc = v
             /\ G[k].event = H[k].event
             /\ G[k].snap = H[k].snap
             /\ \A j \in Kinds \ {k} : G[j] = H[j]
BY DEF HandlerStates, HandlerState

LEMMA SetEvent ==
  ASSUME NEW H \in HandlerStates, NEW k \in Kinds, NEW v \in Events \cup {NoEvent}
  PROVE  LET G == [H EXCEPT ![k].event = v]
         IN  /\ G \in HandlerStates
             /\ G[k].event = v
             /\ G[k].pc = H[k].pc
             /\ G[k].snap = H[k].snap
             /\ \A j \in Kinds \ {k} : G[j] = H[j]
BY DEF HandlerStates, HandlerState

LEMMA SetSnap ==
  ASSUME NEW H \in HandlerStates, NEW k \in Kinds, NEW v \in Components
  PROVE  LET G == [H EXCEPT ![k].snap = v]
         IN  /\ G \in HandlerStates
             /\ G[k].snap = v
             /\ G[k].pc = H[k].pc
             /\ G[k].event = H[k].event
             /\ \A j \in Kinds \ {k} : G[j] = H[j]
BY DEF HandlerStates, HandlerState

\* What an action of the handler of kind k may do to the state of the handlers.
HandlerMoves(k, pc, e, s) ==
  /\ handlers' \in HandlerStates
  /\ handlers'[k].pc = pc /\ handlers'[k].event = e /\ handlers'[k].snap = s
  /\ \A j \in Kinds \ {k} : handlers'[j] = handlers[j]

LEMMA HandlerMoveCases ==
  ASSUME TypeOK, NEW k \in Kinds, Receive(k) \/ Handler(k)
  PROVE  LET h == handlers[k]
         IN  \/ /\ Receive(k) /\ h.pc = "idle"
                /\ \E e \in Events : HandlerMoves(k, "lock", e, h.snap)
             \/ /\ Snapshot(k) /\ h.pc = "lock"
                /\ HandlerMoves(k, "screen", h.event, shared)
             \/ /\ Notify(k) /\ h.pc = "screen"
                /\ HandlerMoves(k, "send", h.event, h.snap)
             \/ /\ Drop(k) \/ AddToBatch(k) \/ Send(k)
                /\ h.pc \in {"screen", "send"}
                /\ HandlerMoves(k, "idle", NoEvent, NotCalled.snap)
<1> USE DEF HandlerMoves
<1>1. handlers \in HandlerStates /\ shared \in Components
  BY DEF TypeOK, Snapshots, HandlerStates, HandlerState
<1>2. CASE Receive(k)
  <2>1. PICK e \in Events :
          handlers' = [handlers EXCEPT ![k].pc = "lock", ![k].event = e]
    BY <1>2 DEF Receive
  <2> DEFINE G == [handlers EXCEPT ![k].pc = "lock"]
  <2>2. /\ G \in HandlerStates
        /\ G[k].pc = "lock" /\ G[k].snap = handlers[k].snap
        /\ \A j \in Kinds \ {k} : G[j] = handlers[j]
    BY <1>1, SetPc
  <2>3. handlers' = [G EXCEPT ![k].event = e]
    BY <2>1
  <2> HIDE DEF G
  <2> DEFINE F == [G EXCEPT ![k].event = e]
  <2>4. /\ F \in HandlerStates
        /\ F[k].event = e /\ F[k].pc = G[k].pc /\ F[k].snap = G[k].snap
        /\ \A j \in Kinds \ {k} : F[j] = G[j]
    BY <2>2, SetEvent
  <2>5. handlers' = F
    BY <2>3
  <2> HIDE DEF F
  <2>6. HandlerMoves(k, "lock", e, handlers[k].snap)
    BY <2>2, <2>4, <2>5
  <2> QED
    BY <1>2, <2>6 DEF Receive
<1>3. CASE Snapshot(k)
  <2> DEFINE G == [handlers EXCEPT ![k].pc = "screen"]
  <2>1. /\ G \in HandlerStates
        /\ G[k].pc = "screen" /\ G[k].event = handlers[k].event
        /\ \A j \in Kinds \ {k} : G[j] = handlers[j]
    BY <1>1, SetPc
  <2>2. handlers' = [G EXCEPT ![k].snap = shared]
    BY <1>3 DEF Snapshot
  <2> HIDE DEF G
  <2> DEFINE F == [G EXCEPT ![k].snap = shared]
  <2>3. /\ F \in HandlerStates
        /\ F[k].snap = shared /\ F[k].pc = G[k].pc /\ F[k].event = G[k].event
        /\ \A j \in Kinds \ {k} : F[j] = G[j]
    BY <1>1, <2>1, SetSnap
  <2>4. handlers' = F
    BY <2>2
  <2> HIDE DEF F
  <2>5. HandlerMoves(k, "screen", handlers[k].event, shared)
    BY <2>1, <2>3, <2>4
  <2> QED
    BY <1>3, <2>5 DEF Snapshot
<1>4. CASE Notify(k)
  <2> DEFINE G == [handlers EXCEPT ![k].pc = "send"]
  <2>1. /\ G \in HandlerStates
        /\ G[k].pc = "send" /\ G[k].event = handlers[k].event
        /\ G[k].snap = handlers[k].snap
        /\ \A j \in Kinds \ {k} : G[j] = handlers[j]
    BY <1>1, SetPc
  <2>2. handlers' = G
    BY <1>4 DEF Notify, Pass
  <2> HIDE DEF G
  <2>3. HandlerMoves(k, "send", handlers[k].event, handlers[k].snap)
    BY <2>1, <2>2
  <2> QED
    BY <1>4, <2>3 DEF Notify, Pass
<1>5. CASE Drop(k) \/ AddToBatch(k) \/ Send(k)
  <2>1. handlers' = [handlers EXCEPT ![k] = NotCalled]
    BY <1>5 DEF Drop, AddToBatch, Send
  <2>2. /\ handlers' \in HandlerStates
        /\ handlers'[k] = NotCalled
        /\ \A j \in Kinds \ {k} : handlers'[j] = handlers[j]
    BY <1>1, <2>1, NotCalledType DEF HandlerStates
  <2>3. HandlerMoves(k, "idle", NoEvent, NotCalled.snap)
    BY <2>2, NotCalledType
  <2> QED
    BY <1>5, <2>3 DEF Drop, AddToBatch, Send, Pass
<1> QED
  BY <1>2, <1>3, <1>4, <1>5 DEF Handler

LEMMA HandlerType ==
  ASSUME TypeInv, NEW k \in Kinds, Receive(k) \/ Handler(k)
  PROVE  /\ handlers' \in Snapshots /\ EventInv'
         /\ outcome' \in [Events -> Outcomes]
         /\ buffer' \in [Gens -> SUBSET Events]
         /\ passed' \in [Gens -> SUBSET Events]
         /\ UNCHANGED <<processVars, componentVars, reloadVars, calls, stopped>>
<1>1. /\ handlers \in HandlerStates /\ outcome \in [Events -> Outcomes]
      /\ buffer \in [Gens -> SUBSET Events] /\ passed \in [Gens -> SUBSET Events]
  BY DEF TypeInv, TypeOK, Snapshots, HandlerStates, HandlerState, Outcomes
<1>2. handlers' \in HandlerStates /\ EventInv'
  BY HandlerMoveCases DEF HandlerMoves, EventInv, TypeInv
<1>3. handlers' \in Snapshots
  BY <1>2 DEF Snapshots, HandlerStates, HandlerState
<1>4. UNCHANGED <<processVars, componentVars, reloadVars, calls, stopped>>
  BY HandlerMoveCases
     DEF Receive, Handler, Snapshot, Drop, AddToBatch, Notify, Send, batchVars
<1>5. outcome' \in [Events -> Outcomes]
  BY <1>1 DEF Receive, Handler, Snapshot, Drop, AddToBatch, Notify, Send, Outcomes
<1>6. buffer' \in [Gens -> SUBSET Events]
  <2>1. CASE AddToBatch(k)
    <3>1. handlers[k].event \in Events
      BY <2>1 DEF AddToBatch, Pass, TypeInv, EventInv
    <3> QED
      BY <1>1, <2>1, <3>1 DEF AddToBatch
  <2>2. CASE ~AddToBatch(k)
    BY <1>1, <2>2 DEF Receive, Handler, Snapshot, Drop, Notify, Send, batchVars
  <2> QED
    BY <2>1, <2>2
<1>7. passed' \in [Gens -> SUBSET Events]
  <2>1. CASE Pass(k)
    <3>1. handlers[k].event \in Events
      BY <2>1 DEF Pass, TypeInv, EventInv
    <3> QED
      BY <1>1, <2>1, <3>1 DEF Pass
  <2>2. CASE ~Pass(k)
    BY <1>1, <2>2 DEF Receive, Handler, Snapshot, Drop, AddToBatch, Notify, Send
  <2> QED
    BY <2>1, <2>2
<1> QED
  BY <1>2, <1>3, <1>4, <1>5, <1>6, <1>7

LEMMA BatchType ==
  ASSUME TypeOK,
         \/ \E g \in Gens : TimerFlush(g)
         \/ \E call \in calls : BatchSnapshot(call) \/ BatchSend(call)
  PROVE  /\ buffer' \in [Gens -> SUBSET Events] /\ calls' \subseteq Call
         /\ outcome' \in [Events -> Outcomes]
         /\ UNCHANGED <<processVars, componentVars, reloadVars, handlers, passed,
                      stopped>>
<1>1. outcome \in [Events -> Outcomes]
  BY DEF TypeOK, Outcomes
<1>2. CASE \E g \in Gens : TimerFlush(g)
  BY <1>1, <1>2, TakeBatchType DEF TimerFlush, handlerVars
<1>3. ASSUME NEW call \in calls, BatchSnapshot(call)
      PROVE  calls' \subseteq Call
  <2>1. call \in Call /\ shared.notifier \in GenOrNone
    BY KubeWatcherConstants DEF TypeOK, Components, GenOrNone, Gens
  <2>2. [call EXCEPT !.at = "send", !.notifier = shared.notifier] \in Call
    BY <2>1 DEF Call
  <2> QED
    BY <1>3, <2>2 DEF BatchSnapshot, Move, TypeOK
<1>4. ASSUME NEW call \in calls, BatchSend(call)
      PROVE  calls' \subseteq Call /\ outcome' \in [Events -> Outcomes]
  <2>0. call \in Call /\ None \in GenOrNone
    BY KubeWatcherConstants DEF TypeOK, GenOrNone, None
  <2>1. [call EXCEPT !.at = "done", !.notifier = None] \in Call
    BY <2>0 DEF Call
  <2>2. calls' \subseteq Call
    BY <1>4, <2>1 DEF BatchSend, Move, TypeOK
  <2>3. outcome' \in [Events -> Outcomes]
    BY <1>1, <1>4 DEF BatchSend, Outcomes
  <2> QED
    BY <2>2, <2>3
<1>5. CASE \E call \in calls : BatchSnapshot(call)
  <2>1. UNCHANGED <<processVars, componentVars, reloadVars, handlerVars, buffer, stopped>>
    BY <1>5 DEF BatchSnapshot
  <2> QED
    BY <1>1, <1>3, <1>5, <2>1 DEF handlerVars, TypeOK
<1>6. CASE \E call \in calls : BatchSend(call)
  <2>1. UNCHANGED <<processVars, componentVars, reloadVars, handlers, passed, buffer,
                    stopped>>
    BY <1>6 DEF BatchSend
  <2> QED
    BY <1>4, <1>6, <2>1 DEF TypeOK
<1> QED
  BY <1>2, <1>5, <1>6

ReloadStep == LoadConfig \/ InitComponentsStep \/ WatchLoopExit

\* A panic changes nothing but main.
LEMMA PanicType ==
  ASSUME TypeInv, Panic
  PROVE  TypeInv'
BY DEF Panic, TypeInv, TypeOK, RoomInv, EventInv, processVars, componentVars,
       reloadVars, handlerVars, batchVars

LEMMA ReinitType ==
  ASSUME TypeInv, reload = "lock", Reinit
  PROVE  /\ configs' \in Seq(Configs) /\ Len(configs') = Len(configs) + 1
         /\ shared' \in Components
         /\ stopped' \in [dedup : SUBSET Gens, batcher : SUBSET Gens]
<1>1. configs' = Append(configs, loaded) /\ loaded \in Configs /\ configs \in Seq(Configs)
  BY DEF Reinit, TypeInv, TypeOK
<1>2. configs' \in Seq(Configs) /\ Len(configs') = Len(configs) + 1
  BY <1>1
<1>3. Len(configs) + 1 \in Gens
  BY KubeWatcherConstants DEF TypeInv, TypeOK, RoomInv, Gens
<1>4. Made(loaded, Len(configs) + 1) \in Components /\ shared \in Components
  BY <1>1, <1>3, MadeType, KubeWatcherConstants DEF TypeInv, TypeOK
<1>5. shared' \in Components
  BY <1>4 DEF Reinit, Components
<1>6. CASE shared.dedup = None
  BY <1>2, <1>5, <1>6 DEF Reinit, TypeInv, TypeOK
<1>7. CASE shared.dedup # None
  <2>1. shared.dedup \in Gens
    BY <1>4, <1>7, KubeWatcherConstants DEF Components, GenOrNone, Gens, None
  <2> QED
    BY <1>2, <1>5, <1>7, <2>1, StopType DEF Reinit, TypeInv
<1> QED
  BY <1>6, <1>7

LEMMA ReloadType == TypeInv /\ ReloadStep => TypeInv'
<1> SUFFICES ASSUME TypeInv, ReloadStep
             PROVE  TypeInv'
  OBVIOUS
<1> USE DEF processVars, componentVars, reloadVars, handlerVars, batchVars
<1>1. CASE LoadConfig
  BY <1>1 DEF LoadConfig, TypeInv, TypeOK, RoomInv, EventInv
<1>2. CASE BadTemplate
  <2>1. configs[Len(configs)] \in Configs
    BY KubeWatcherConstants DEF TypeInv, TypeOK, Gens
  <2> QED
    BY <1>2, <2>1 DEF BadTemplate, TypeInv, TypeOK, RoomInv, EventInv
<1>3. CASE InitComponents
  <2>1. CASE Panic
    BY <2>1, PanicType
  <2>2. CASE Reinit
    <3>1. Len(configs') \in Gens
      BY <1>3, <2>2, ReinitType, KubeWatcherConstants
         DEF InitComponents, TypeInv, TypeOK, RoomInv, Gens
    <3> QED
      BY <1>3, <2>2, <3>1, ReinitType
         DEF InitComponents, Reinit, TypeInv, TypeOK, RoomInv, EventInv
  <2> QED
    BY <1>3, <2>1, <2>2 DEF InitComponents
<1>4. CASE StopOldBatcher
  <2>1. CASE Panic
    BY <2>1, PanicType
  <2>2. CASE ~Panic
    <3>1. shared.batcher # None => shared.batcher \in Gens
      BY KubeWatcherConstants DEF TypeInv, TypeOK, Components, GenOrNone, Gens, None
    <3>2. stopped' \in [dedup : SUBSET Gens, batcher : SUBSET Gens]
      BY <1>4, <2>2, <3>1, StopType DEF StopOldBatcher, TypeInv, TypeOK
    <3>3. calls' \subseteq Call /\ buffer' \in [Gens -> SUBSET Events]
      BY <1>4, <2>2, <3>1, TakeBatchType DEF StopOldBatcher, TypeInv, TypeOK
    <3> QED
      BY <1>4, <2>2, <3>2, <3>3
         DEF StopOldBatcher, TypeInv, TypeOK, RoomInv, EventInv
  <2> QED
    BY <2>1, <2>2
<1>5. CASE SwapBatcher
  <2>1. Enabled(loaded.batching, Len(configs)) \in GenOrNone
    BY KubeWatcherConstants
       DEF Enabled, TypeInv, TypeOK, GenOrNone, Gens, None, Config
  <2>2. shared' \in Components
    BY <1>5, <2>1 DEF SwapBatcher, TypeInv, TypeOK, Components
  <2> QED
    BY <1>5, <2>2 DEF SwapBatcher, TypeInv, TypeOK, RoomInv, EventInv
<1>6. CASE WatchLoopExit
  BY <1>6 DEF WatchLoopExit, TypeInv, TypeOK, RoomInv, EventInv
<1> QED
  BY <1>1, <1>2, <1>3, <1>4, <1>5, <1>6 DEF ReloadStep, InitComponentsStep

LEMMA MainType == TypeInv /\ (Signal \/ Synced \/ MainStep) => TypeInv'
<1> SUFFICES ASSUME TypeInv, Signal \/ Synced \/ MainStep
             PROVE  TypeInv'
  OBVIOUS
<1> USE DEF processVars, componentVars, reloadVars, handlerVars, batchVars
<1>1. 1 \in Gens
  BY KubeWatcherConstants DEF Gens
<1>2. CASE Signal \/ Synced \/ StartReturns \/ StopConfigWatcher \/ DeferredFlushed
  BY <1>2 DEF Signal, Synced, StartReturns, StopConfigWatcher, DeferredFlushed,
              TypeInv, TypeOK, RoomInv, EventInv
<1>3. CASE Panic
  BY <1>3, PanicType
<1>4. CASE DeferredBatcherStop /\ ~Panic
  <2>1. stopped' \in [dedup : SUBSET Gens, batcher : SUBSET Gens]
    BY <1>1, <1>4, StopType DEF DeferredBatcherStop, TypeInv, TypeOK
  <2>2. calls' \subseteq Call /\ buffer' \in [Gens -> SUBSET Events]
    BY <1>1, <1>4, TakeBatchType DEF DeferredBatcherStop, TypeInv, TypeOK
  <2> QED
    BY <1>4, <2>1, <2>2 DEF DeferredBatcherStop, TypeInv, TypeOK, RoomInv, EventInv
<1>5. CASE DeferredDedupStop /\ ~Panic
  <2>1. stopped' \in [dedup : SUBSET Gens, batcher : SUBSET Gens]
    BY <1>1, <1>5, StopType DEF DeferredDedupStop, TypeInv, TypeOK
  <2> QED
    BY <1>5, <2>1 DEF DeferredDedupStop, TypeInv, TypeOK, RoomInv, EventInv
<1> QED
  BY <1>2, <1>3, <1>4, <1>5 DEF MainStep

LEMMA TypeStep == TypeInv /\ [Next]_vars => TypeInv'
<1> SUFFICES ASSUME TypeInv, [Next]_vars
             PROVE  TypeInv'
  OBVIOUS
<1> USE DEF processVars, componentVars, reloadVars, handlerVars, batchVars
<1>1. ASSUME NEW k \in Kinds, Receive(k) \/ Handler(k)
      PROVE  TypeInv'
  BY <1>1, HandlerType DEF TypeInv, TypeOK, RoomInv, Outcomes
<1>2. CASE \/ \E g \in Gens : TimerFlush(g)
           \/ \E call \in calls : BatchSnapshot(call) \/ BatchSend(call)
  BY <1>2, BatchType DEF TypeInv, TypeOK, RoomInv, EventInv, Outcomes
<1>3. CASE ReloadStep
  BY <1>3, ReloadType
<1>4. CASE Signal \/ Synced \/ MainStep
  BY <1>4, MainType
<1>5. CASE UNCHANGED vars
  BY <1>5 DEF vars, TypeInv, TypeOK, RoomInv, EventInv
<1> QED
  BY <1>1, <1>2, <1>3, <1>4, <1>5 DEF Next, ReloadStep

\* The variables keep their types; in particular a batcher holds only events that
\* a handler received, and a reload never makes a generation too many.
THEOREM TypeCorrect == Spec => []TypeOK
<1>1. TypeInv => TypeOK
  BY DEF TypeInv
<1> QED
  BY <1>1, TypeInit, TypeStep, PTL DEF Spec

-----------------------------------------------------------------------------
(* What a reload makes visible *)

Current == Len(configs)

\* mu is free exactly when no reload is between its steps.  Then the shared
\* components are all of the last generation; under mu the batcher is still of
\* the one before.
SharedInv ==
  /\ mu <=> reload \in {"batcher", "swap"}
  /\ ~mu => shared = Made(configs[Current], Current)
  /\ mu => /\ Current > 1
           /\ loaded = configs[Current]
           /\ shared = [Made(configs[Current], Current) EXCEPT
                          !.batcher = Enabled(configs[Current - 1].batching,
                                              Current - 1)]

LEMMA SharedInit == Init => SharedInv
BY DEF Init, SharedInv, Current

LEMMA SharedStep == TypeInv /\ SharedInv /\ [Next]_vars => SharedInv'
<1> SUFFICES ASSUME TypeInv, SharedInv, [Next]_vars
             PROVE  SharedInv'
  OBVIOUS
<1> USE DEF processVars, componentVars, reloadVars, handlerVars, batchVars
<1>1. CASE UNCHANGED <<componentVars, reloadVars>>
  BY <1>1 DEF SharedInv, Current
<1>2. CASE LoadConfig \/ BadTemplate \/ WatchLoopExit
  BY <1>2 DEF LoadConfig, BadTemplate, WatchLoopExit, SharedInv, Current
<1>3. CASE InitComponents /\ ~Panic
  <2>1. Reinit /\ reload = "lock" /\ ~mu
    BY <1>3 DEF InitComponents
  <2>2. /\ configs \in Seq(Configs) /\ Current \in Nat /\ Current > 0
        /\ loaded \in Configs
    BY KubeWatcherConstants DEF TypeInv, TypeOK, Gens, Current
  <2>3. configs' = Append(configs, loaded)
    BY <2>1 DEF Reinit
  <2>4. /\ Current' = Current + 1
        /\ configs'[Current'] = loaded /\ configs'[Current' - 1] = configs[Current]
    BY <2>2, <2>3 DEF Current
  <2>5. shared.batcher = Enabled(configs[Current].batching, Current)
    BY <2>1 DEF SharedInv, Made
  <2>6. shared' = [Made(loaded, Current + 1) EXCEPT !.batcher = shared.batcher]
    BY <2>1 DEF Reinit, Current
  <2>7. mu' /\ reload' = "batcher" /\ loaded' = loaded
    BY <2>1 DEF Reinit
  <2> QED
    BY <2>2, <2>4, <2>5, <2>6, <2>7 DEF SharedInv
<1>4. CASE StopOldBatcher /\ ~Panic
  BY <1>4 DEF StopOldBatcher, SharedInv, Current
<1>5. CASE SwapBatcher
  <2>1. shared = [Made(loaded, Current) EXCEPT
                    !.batcher = Enabled(configs[Current - 1].batching, Current - 1)]
    BY <1>5 DEF SwapBatcher, SharedInv
  <2>2. shared' = [shared EXCEPT !.batcher = Enabled(loaded.batching, Current)]
    BY <1>5 DEF SwapBatcher, Current
  <2>3. shared' = Made(loaded, Current)
    BY <2>1, <2>2 DEF Made
  <2> QED
    BY <1>5, <2>3 DEF SwapBatcher, SharedInv, Current
<1>6. CASE Panic
  BY <1>6, <1>1 DEF Panic
<1>7. CASE Signal \/ Synced \/ MainStep
  BY <1>7, <1>1, <1>6
     DEF Signal, Synced, MainStep, StartReturns, StopConfigWatcher,
         DeferredBatcherStop, DeferredFlushed, DeferredDedupStop
<1>8. ASSUME NEW k \in Kinds, Receive(k) \/ Handler(k)
      PROVE  SharedInv'
  BY <1>1, <1>8, HandlerType
<1>9. CASE \/ \E g \in Gens : TimerFlush(g)
           \/ \E call \in calls : BatchSnapshot(call) \/ BatchSend(call)
  BY <1>1, <1>9, BatchType DEF TypeInv
<1>10. CASE UNCHANGED vars
  BY <1>1, <1>10 DEF vars
<1> QED
  BY <1>2, <1>3, <1>4, <1>5, <1>6, <1>7, <1>8, <1>9, <1>10
     DEF Next, InitComponentsStep

\* A snapshot of the shared components taken while mu is free is of the last
\* generation.
LEMMA SnapshotIsCurrent ==
  ASSUME TypeInv, SharedInv, NEW k \in Kinds, Snapshot(k)
  PROVE  /\ shared = Made(configs[Current], Current)
         /\ shared.filter = Current /\ Current \in 1 .. Current
<1>1. shared = Made(configs[Current], Current)
  BY DEF Snapshot, SharedInv
<1>2. Current \in Nat /\ Current >= 1
  BY KubeWatcherConstants DEF TypeInv, TypeOK, Gens, Current
<1> QED
  BY <1>1, <1>2 DEF Made

\* A configuration is never changed once it is in effect.
LEMMA ConfigsGrow ==
  ASSUME TypeInv, [Next]_vars
  PROVE  /\ configs' \in Seq(Configs) /\ Current <= Current'
         /\ \A g \in 1 .. Current : configs'[g] = configs[g]
<1> USE DEF processVars, componentVars, reloadVars, handlerVars, batchVars
<1>1. configs \in Seq(Configs) /\ Current \in Nat /\ loaded \in Configs
  BY DEF TypeInv, TypeOK, Current
<1>2. configs' = configs \/ configs' = Append(configs, loaded)
  <2>1. ASSUME NEW k \in Kinds, Receive(k) \/ Handler(k)
        PROVE  configs' = configs
    BY <2>1, HandlerType
  <2>2. CASE \/ \E g \in Gens : TimerFlush(g)
             \/ \E call \in calls : BatchSnapshot(call) \/ BatchSend(call)
    BY <2>2, BatchType DEF TypeInv
  <2>3. CASE ReloadStep
    BY <2>3 DEF ReloadStep, InitComponentsStep, LoadConfig, BadTemplate,
         InitComponents, Reinit, StopOldBatcher, SwapBatcher, WatchLoopExit, Panic
  <2>4. CASE Signal \/ Synced \/ MainStep
    BY <2>4 DEF Signal, Synced, MainStep, StartReturns, StopConfigWatcher,
         DeferredBatcherStop, DeferredFlushed, DeferredDedupStop, Panic
  <2>5. CASE UNCHANGED vars
    BY <2>5 DEF vars
  <2> QED
    BY <2>1, <2>2, <2>3, <2>4, <2>5 DEF Next, ReloadStep
<1> QED
  BY <1>1, <1>2 DEF Current

\* The handlers change by steps of their own only.
LEMMA HandlersMove ==
  ASSUME TypeInv, [Next]_vars
  PROVE  \/ handlers' = handlers
         \/ \E k \in Kinds : Receive(k) \/ Handler(k)
<1> USE DEF processVars, componentVars, reloadVars, handlerVars, batchVars
<1>1. CASE \/ \E g \in Gens : TimerFlush(g)
           \/ \E call \in calls : BatchSnapshot(call) \/ BatchSend(call)
  BY <1>1, BatchType DEF TypeInv
<1>2. CASE ReloadStep
  BY <1>2 DEF ReloadStep, InitComponentsStep, LoadConfig, BadTemplate,
       InitComponents, Reinit, StopOldBatcher, SwapBatcher, WatchLoopExit, Panic
<1>3. CASE Signal \/ Synced \/ MainStep
  BY <1>3 DEF Signal, Synced, MainStep, StartReturns, StopConfigWatcher,
       DeferredBatcherStop, DeferredFlushed, DeferredDedupStop, Panic
<1>4. CASE UNCHANGED vars
  BY <1>4 DEF vars
<1> QED
  BY <1>1, <1>2, <1>3, <1>4 DEF Next, ReloadStep

LEMMA SnapshotStep ==
  TypeInv /\ SharedInv /\ SnapshotConsistent /\ [Next]_vars => SnapshotConsistent'
<1> SUFFICES ASSUME TypeInv, SharedInv, SnapshotConsistent, [Next]_vars,
                    NEW k \in Kinds, handlers'[k].pc \in {"screen", "send"}
             PROVE  LET s == handlers'[k].snap
                    IN  /\ s.filter \in 1 .. Current'
                        /\ s = Made(configs'[s.filter], s.filter)
  BY DEF SnapshotConsistent, Current
<1>1. /\ Current \in Nat /\ Current' \in Nat /\ Current <= Current'
      /\ \A g \in 1 .. Current : configs'[g] = configs[g]
  BY ConfigsGrow DEF TypeInv, TypeOK, Current
<1>2. \/ /\ handlers[k].pc \in {"screen", "send"}
         /\ handlers'[k].snap = handlers[k].snap
      \/ Snapshot(k) /\ handlers'[k].snap = shared
  <2>1. CASE handlers' = handlers
    BY <2>1
  <2>2. ASSUME NEW j \in Kinds, Receive(j) \/ Handler(j)
        PROVE  <1>2!1 \/ <1>2!2
    BY <2>2, HandlerMoveCases DEF HandlerMoves, TypeInv
  <2> QED
    BY <2>1, <2>2, HandlersMove
<1>3. CASE <1>2!1
  <2>1. /\ handlers[k].snap.filter \in 1 .. Current
        /\ handlers[k].snap = Made(configs[handlers[k].snap.filter],
                                   handlers[k].snap.filter)
    BY <1>3 DEF SnapshotConsistent, Current
  <2> QED
    BY <1>1, <1>3, <2>1
<1>4. CASE <1>2!2
  BY <1>1, <1>4, SnapshotIsCurrent
<1> QED
  BY <1>2, <1>3, <1>4

\* A handler works with the components of one configuration, at whatever point of
\* a reload it takes its snapshot and however many reloads come after.
THEOREM SnapshotsAreConsistent == Spec => []SnapshotConsistent
<1>1. Init => SnapshotConsistent
  BY NotCalledType DEF Init, SnapshotConsistent
<1> QED
  BY <1>1, TypeInit, TypeStep, SharedInit, SharedStep, SnapshotStep, PTL DEF Spec

\* The batch handlers read the notifier of the last generation.
LEMMA NotifierIsCurrent ==
  ASSUME TypeInv, SharedInv, [Next]_vars,
         NEW call \in calls' \ calls, call.at = "send"
  PROVE  call.notifier = Current
<1> USE DEF processVars, componentVars, reloadVars, handlerVars, batchVars
<1>1. ASSUME NEW g \in Gens, NEW by \in {"timer", "reload", "main"}, TakeBatch(g, by)
      PROVE  FALSE
  BY <1>1 DEF TakeBatch
<1>2. PICK c \in calls : BatchSnapshot(c) \/ BatchSend(c)
  <2>1. ASSUME NEW k \in Kinds, Receive(k) \/ Handler(k)
        PROVE  FALSE
    BY <2>1, HandlerType
  <2>2. ASSUME NEW g \in Gens, TimerFlush(g)
        PROVE  FALSE
    BY <2>2, <1>1 DEF TimerFlush
  <2>3. CASE StopOldBatcher
    <3>1. shared.batcher # None => shared.batcher \in Gens
      BY KubeWatcherConstants DEF TypeInv, TypeOK, Components, GenOrNone, Gens, None
    <3> QED
      BY <2>3, <3>1, <1>1 DEF StopOldBatcher, Panic
  <2>4. CASE LoadConfig \/ BadTemplate \/ InitComponents \/ SwapBatcher \/ WatchLoopExit
    BY <2>4 DEF LoadConfig, BadTemplate, InitComponents, Reinit, SwapBatcher,
         WatchLoopExit, Panic
  <2>5. CASE DeferredBatcherStop
    <3>1. 1 \in Gens
      BY KubeWatcherConstants DEF Gens
    <3> QED
      BY <2>5, <3>1, <1>1 DEF DeferredBatcherStop, Panic
  <2>6. CASE Signal \/ Synced \/ StartReturns \/ StopConfigWatcher
             \/ DeferredFlushed \/ DeferredDedupStop
    BY <2>6 DEF Signal, Synced, StartReturns, StopConfigWatcher, DeferredFlushed,
         DeferredDedupStop, Panic
  <2>7. CASE UNCHANGED vars
    BY <2>7 DEF vars
  <2> QED
    BY <2>1, <2>2, <2>3, <2>4, <2>5, <2>6, <2>7
       DEF Next, InitComponentsStep, MainStep
<1>3. c \in Call /\ shared.notifier \in GenOrNone
  BY DEF TypeInv, TypeOK, Components, GenOrNone, Gens
<1>4. CASE BatchSnapshot(c)
  <2>1. call = [c EXCEPT !.at = "send", !.notifier = shared.notifier]
    BY <1>4 DEF BatchSnapshot, Move
  <2>2. call.notifier = shared.notifier
    BY <2>1, <1>3 DEF Call
  <2>3. shared.notifier = Current
    BY <1>4 DEF BatchSnapshot, SharedInv, Made, Current
  <2> QED
    BY <2>2, <2>3
<1>5. CASE BatchSend(c)
  <2>1. call = [c EXCEPT !.at = "done", !.notifier = None]
    BY <1>5 DEF BatchSend, Move
  <2> QED
    BY <2>1, <1>3 DEF Call
<1> QED
  BY <1>2, <1>4, <1>5

\* What a handler or a batch handler reads after a reload is of the configuration
\* that initComponents accepted last.
THEOREM ReloadIsEffective == Spec => ReloadTakesEffect
<1>1. ASSUME TypeInv, SharedInv, [Next]_vars, NEW k \in Kinds,
             handlers[k].pc = "lock", handlers'[k].pc = "screen"
      PROVE  handlers'[k].snap = Made(configs[Len(configs)], Len(configs))
  <2>1. PICK j \in Kinds : Receive(j) \/ Handler(j)
    BY <1>1, HandlersMove
  <2>2. Snapshot(k) /\ handlers'[k].snap = shared
    BY <1>1, <2>1, HandlerMoveCases DEF HandlerMoves, TypeInv
  <2> QED
    BY <1>1, <2>2, SnapshotIsCurrent DEF Current
<1>2. ASSUME TypeInv, SharedInv, [Next]_vars,
             NEW call \in calls' \ calls, call.at = "send"
      PROVE  call.notifier = Len(configs)
  BY <1>2, NotifierIsCurrent DEF Current
<1>3. TypeInv /\ SharedInv /\ [Next]_vars =>
        [/\ \A k \in Kinds :
              handlers[k].pc = "lock" /\ handlers'[k].pc = "screen" =>
                handlers'[k].snap = Made(configs[Len(configs)], Len(configs))
         /\ \A call \in calls' \ calls :
              call.at = "send" => call.notifier = Len(configs)]_vars
  BY <1>1, <1>2
<1> QED
  BY <1>3, TypeInit, TypeStep, SharedInit, SharedStep, PTL
     DEF Spec, ReloadTakesEffect

-----------------------------------------------------------------------------
(* What a reload leaves running *)

Early == main \in {"syncing", "watching", "stopConfig"}

\* The batchers in use: the one of the last generation, and before it is stopped
\* by the reload also the one it replaces.
BatchersInUse ==
  {Enabled(configs[Current].batching, Current)} \cup
  (IF reload = "batcher" THEN {shared.batcher} ELSE {})

StoppedInv ==
  /\ stopped.dedup \subseteq 1 .. Current
  /\ stopped.batcher \subseteq 1 .. Current
  /\ Early => /\ MadeDedups \ stopped.dedup = {shared.dedup} \ {None}
              /\ MadeBatchers \ stopped.batcher = BatchersInUse \ {None}

LEMMA StoppedInit == Init => StoppedInv
<1> SUFFICES ASSUME Init
             PROVE  StoppedInv
  OBVIOUS
<1>1. PICK c \in Configs : configs = <<c>> /\ shared = Made(c, 1)
  BY DEF Init
<1>2. Current = 1 /\ configs[1] = c
  BY <1>1 DEF Current
<1>3. 1 .. Current = {1}
  BY <1>2
<1>4. stopped.dedup = {} /\ stopped.batcher = {} /\ reload = "idle"
  BY DEF Init
<1>5. MadeDedups = {shared.dedup} \ {None}
  BY <1>1, <1>2, <1>3 DEF MadeDedups, Current, Made, Enabled, None
<1>6. MadeBatchers = BatchersInUse \ {None}
  BY <1>1, <1>2, <1>3, <1>4 DEF MadeBatchers, BatchersInUse, Current, Enabled, None
<1> QED
  BY <1>4, <1>5, <1>6 DEF StoppedInv

\* Steps that stop nothing, make nothing and do not go back to an earlier part
\* of main.
LEMMA StoppedKeep ==
  ASSUME StoppedInv, UNCHANGED <<configs, shared, stopped>>,
         reload' = reload \/ (reload # "batcher" /\ reload' # "batcher"),
         Early' => Early
  PROVE  StoppedInv'
BY DEF StoppedInv, MadeDedups, MadeBatchers, BatchersInUse, Current

LEMMA StoppedReinit ==
  ASSUME TypeInv, SharedInv, StoppedInv, reload = "lock", ~mu, Reinit
  PROVE  StoppedInv'
<1> USE DEF None
<1> DEFINE n == Current
<1>1. /\ configs \in Seq(Configs) /\ n \in Nat \ {0} /\ n' = n + 1
      /\ configs' = Append(configs, loaded) /\ reload' = "batcher"
      /\ stopped \in [dedup : SUBSET Gens, batcher : SUBSET Gens]
      /\ loaded \in Configs
  BY KubeWatcherConstants DEF Reinit, TypeInv, TypeOK, Gens, Current
<1>2. configs'[n + 1] = loaded /\ \A g \in 1 .. n : configs'[g] = configs[g]
  BY <1>1 DEF Current
<1>3. 1 .. n' = (1 .. n) \cup {n + 1} /\ n + 1 \notin 1 .. n
  BY <1>1
<1>4. shared = Made(configs[n], n)
  BY DEF SharedInv
<1>5. /\ shared' = [Made(loaded, n + 1) EXCEPT !.batcher = shared.batcher]
      /\ shared'.dedup = Enabled(loaded.dedup, n + 1)
      /\ shared'.batcher = Enabled(configs[n].batching, n)
  BY <1>4 DEF Reinit, Made, Current
<1>6. /\ stopped'.batcher = stopped.batcher
      /\ stopped'.dedup = stopped.dedup \cup ({shared.dedup} \ {None})
  BY <1>1 DEF Reinit, Stop
<1>7. {shared.dedup} \ {None} \subseteq 1 .. n
  BY <1>1, <1>4 DEF Made, Enabled
<1>8. /\ MadeDedups' = MadeDedups \cup ({shared'.dedup} \ {None})
      /\ MadeBatchers' =
           MadeBatchers \cup ({Enabled(loaded.batching, n + 1)} \ {None})
  <2>1. 1 .. Len(configs') = (1 .. n) \cup {n + 1} /\ n = Len(configs)
    BY <1>3 DEF Current
  <2>2. MadeDedups' = MadeDedups \cup (IF loaded.dedup THEN {n + 1} ELSE {})
    BY <1>2, <2>1 DEF MadeDedups
  <2>3. MadeBatchers' = MadeBatchers \cup (IF loaded.batching THEN {n + 1} ELSE {})
    BY <1>2, <2>1 DEF MadeBatchers
  <2>4. {shared'.dedup} \ {None} = IF loaded.dedup THEN {n + 1} ELSE {}
    BY <1>1, <1>5 DEF Enabled
  <2>5. {Enabled(loaded.batching, n + 1)} \ {None} =
          IF loaded.batching THEN {n + 1} ELSE {}
    BY <1>1 DEF Enabled
  <2> QED
    BY <2>2, <2>3, <2>4, <2>5
<1>9. BatchersInUse' = {Enabled(loaded.batching, n + 1), shared'.batcher}
  BY <1>1, <1>2 DEF BatchersInUse, Current
<1>10. BatchersInUse = {shared'.batcher}
  BY <1>5 DEF BatchersInUse
<1>11. /\ stopped'.dedup \subseteq 1 .. n' /\ n + 1 \notin stopped'.dedup
       /\ stopped'.batcher \subseteq 1 .. n' /\ n + 1 \notin stopped'.batcher
  BY <1>3, <1>6, <1>7 DEF StoppedInv
<1>12. Enabled(loaded.batching, n + 1) \in {n + 1, None}
       /\ shared'.dedup \in {n + 1, None}
  BY <1>5 DEF Enabled
<1>13. Early' => Early
  BY DEF Reinit, Early, processVars
<1>14. ASSUME Early
       PROVE  /\ MadeDedups' \ stopped'.dedup = {shared'.dedup} \ {None}
              /\ MadeBatchers' \ stopped'.batcher = BatchersInUse' \ {None}
  <2>1. /\ MadeDedups \ stopped.dedup = {shared.dedup} \ {None}
        /\ MadeBatchers \ stopped.batcher = BatchersInUse \ {None}
    BY <1>14 DEF StoppedInv
  <2> QED
    BY <2>1, <1>6, <1>8, <1>9, <1>10, <1>11, <1>12
<1> QED
  BY <1>11, <1>13, <1>14 DEF StoppedInv

LEMMA StoppedBatcher ==
  ASSUME TypeInv, SharedInv, StoppedInv, StopOldBatcher, ~Panic
  PROVE  StoppedInv'
<1> USE DEF None
<1>1. /\ Current \in Nat /\ Current > 1 /\ Current' = Current
      /\ reload = "batcher" /\ reload' = "swap" /\ mu
      /\ stopped \in [dedup : SUBSET Gens, batcher : SUBSET Gens]
      /\ configs' = configs /\ shared' = shared /\ main' = main
  <2>1. reload = "batcher" /\ reload' = "swap"
    BY DEF StopOldBatcher
  <2>2. configs' = configs /\ shared' = shared /\ main' = main
    BY DEF StopOldBatcher, processVars, componentVars
  <2>3. mu /\ Current > 1
    BY <2>1 DEF SharedInv
  <2> QED
    BY <2>1, <2>2, <2>3 DEF TypeInv, TypeOK, Current
<1>2. shared.batcher = Enabled(configs[Current - 1].batching, Current - 1)
  BY <1>1 DEF SharedInv, Made
<1>3. shared.batcher \in {Current - 1, None}
  BY <1>2 DEF Enabled
<1>4. /\ stopped'.dedup = stopped.dedup
      /\ stopped'.batcher = stopped.batcher \cup ({shared.batcher} \ {None})
  BY <1>1 DEF StopOldBatcher, Stop
<1>5. Enabled(configs[Current].batching, Current) \in {Current, None}
  BY DEF Enabled
<1>6. stopped'.batcher \subseteq 1 .. Current
  BY <1>1, <1>3, <1>4 DEF StoppedInv
<1>7. MadeDedups' = MadeDedups /\ MadeBatchers' = MadeBatchers
  BY <1>1 DEF MadeDedups, MadeBatchers
<1>8. /\ BatchersInUse = {Enabled(configs[Current].batching, Current), shared.batcher}
      /\ BatchersInUse' = {Enabled(configs[Current].batching, Current)}
  BY <1>1 DEF BatchersInUse
<1>9. BatchersInUse' \ {None} = (BatchersInUse \ {None}) \ ({shared.batcher} \ {None})
  BY <1>1, <1>3, <1>5, <1>8
<1>10. Early' = Early
  BY <1>1 DEF Early
<1> QED
  BY <1>1, <1>4, <1>6, <1>7, <1>9, <1>10 DEF StoppedInv

LEMMA StoppedStep ==
  TypeInv /\ SharedInv /\ StoppedInv /\ [Next]_vars => StoppedInv'
<1> SUFFICES ASSUME TypeInv, SharedInv, StoppedInv, [Next]_vars
             PROVE  StoppedInv'
  OBVIOUS
<1> USE DEF processVars, componentVars, reloadVars, handlerVars, batchVars
<1>1. ASSUME NEW k \in Kinds, Receive(k) \/ Handler(k)
      PROVE  StoppedInv'
  BY <1>1, HandlerType, StoppedKeep DEF Early
<1>2. CASE \/ \E g \in Gens : TimerFlush(g)
           \/ \E call \in calls : BatchSnapshot(call) \/ BatchSend(call)
  BY <1>2, BatchType, StoppedKeep DEF TypeInv, Early
<1>3. CASE LoadConfig \/ BadTemplate \/ WatchLoopExit
  BY <1>3, StoppedKeep DEF LoadConfig, BadTemplate, WatchLoopExit, Early
<1>4. CASE Panic
  BY <1>4, StoppedKeep DEF Panic, Early
<1>5. CASE InitComponents /\ ~Panic
  BY <1>5, StoppedReinit DEF InitComponents
<1>6. CASE StopOldBatcher /\ ~Panic
  BY <1>6, StoppedBatcher
<1>7. CASE SwapBatcher
  <2>1. Enabled(loaded.batching, Current) = Enabled(configs[Current].batching, Current)
    BY <1>7 DEF SwapBatcher, SharedInv
  <2>2. /\ stopped' = stopped /\ configs' = configs /\ main' = main
        /\ reload = "swap" /\ reload' = "idle" /\ shared'.dedup = shared.dedup
    BY <1>7 DEF SwapBatcher, TypeInv, TypeOK, Components
  <2> QED
    BY <2>2 DEF StoppedInv, MadeDedups, MadeBatchers, BatchersInUse, Early, Current
<1>8. CASE Signal \/ Synced \/ StartReturns \/ StopConfigWatcher \/ DeferredFlushed
  BY <1>8, StoppedKeep
     DEF Signal, Synced, StartReturns, StopConfigWatcher, DeferredFlushed, Early
<1>9. CASE (DeferredBatcherStop \/ DeferredDedupStop) /\ ~Panic
  <2>1. ~Early' /\ configs' = configs
    BY <1>9 DEF DeferredBatcherStop, DeferredDedupStop, Early
  <2>2. 1 \in 1 .. Current
    BY KubeWatcherConstants DEF TypeInv, TypeOK, Gens, Current
  <2>3. /\ stopped'.dedup \subseteq stopped.dedup \cup {1}
        /\ stopped'.batcher \subseteq stopped.batcher \cup {1}
    BY <1>9 DEF DeferredBatcherStop, DeferredDedupStop, Stop, TypeInv, TypeOK
  <2> QED
    BY <2>1, <2>2, <2>3 DEF StoppedInv, Current
<1>10. CASE UNCHANGED vars
  BY <1>10, StoppedKeep DEF vars, Early
<1> QED
  BY <1>1, <1>2, <1>3, <1>4, <1>5, <1>6, <1>7, <1>8, <1>9, <1>10
     DEF Next, InitComponentsStep, MainStep

\* Until the process shuts down, and outside of reloads, the components that are
\* shared run and no others: a reload leaks no goroutine and no timer, and stops
\* nothing that is in use.
THEOREM OnlySharedComponentsRun == Spec => []OnlySharedRun
<1>1. TypeInv /\ SharedInv /\ StoppedInv => OnlySharedRun
  <2> SUFFICES ASSUME TypeInv, SharedInv, StoppedInv, ~mu, Early
               PROVE  /\ MadeDedups \ stopped.dedup = {shared.dedup} \ {None}
                      /\ MadeBatchers \ stopped.batcher = {shared.batcher} \ {None}
    BY DEF OnlySharedRun, Early
  <2>1. BatchersInUse = {Enabled(configs[Current].batching, Current)}
    BY DEF SharedInv, BatchersInUse
  <2>2. shared.batcher = Enabled(configs[Current].batching, Current)
    BY DEF SharedInv, Made
  <2> QED
    BY <2>1, <2>2 DEF StoppedInv
<1> QED
  BY <1>1, TypeInit, TypeStep, SharedInit, SharedStep, StoppedInit, StoppedStep,
     PTL DEF Spec

-----------------------------------------------------------------------------
(* A shutdown that no reload came before *)

\* While there is one generation nothing is stopped but by the deferred calls, each
\* once, so no channel is closed twice.
FirstInv ==
  Current = 1 =>
    /\ main # "panicked"
    /\ Early \/ main = "stopBatcher" => stopped.batcher = {}
    /\ main # "exited" => stopped.dedup = {}

LEMMA FirstInit == Init => FirstInv
BY DEF Init, FirstInv

\* Steps of the other goroutines: they stop nothing and do not change main.
LEMMA FirstKeep ==
  ASSUME FirstInv, Current = 1, UNCHANGED <<main, stopped>>
  PROVE  main' # "panicked" /\ FirstInv'
BY DEF FirstInv, Early

LEMMA FirstStep ==
  ASSUME TypeInv, SharedInv, FirstInv, [Next]_vars, Current = 1
  PROVE  main' # "panicked" /\ FirstInv'
<1> USE DEF processVars, componentVars, reloadVars, handlerVars, batchVars
<1>1. ASSUME NEW k \in Kinds, Receive(k) \/ Handler(k)
      PROVE  main' # "panicked" /\ FirstInv'
  BY <1>1, HandlerType, FirstKeep
<1>2. CASE \/ \E g \in Gens : TimerFlush(g)
           \/ \E call \in calls : BatchSnapshot(call) \/ BatchSend(call)
  BY <1>2, BatchType, FirstKeep DEF TypeInv
<1>3. CASE LoadConfig \/ BadTemplate \/ WatchLoopExit \/ Signal
  BY <1>3, FirstKeep DEF LoadConfig, BadTemplate, WatchLoopExit, Signal
<1>4. CASE InitComponents
  <2>1. shared.dedup \notin stopped.dedup /\ main # "panicked"
    BY <1>4 DEF InitComponents, Alive, FirstInv
  <2>2. Reinit
    BY <1>4, <2>1 DEF InitComponents
  <2>3. Current' # 1 /\ main' = main
    BY <2>2 DEF Reinit, TypeInv, TypeOK, Current
  <2> QED
    BY <2>1, <2>3 DEF FirstInv
<1>5. CASE StopOldBatcher \/ SwapBatcher
  BY <1>5 DEF StopOldBatcher, SwapBatcher, SharedInv
<1>6. CASE Synced \/ StartReturns \/ StopConfigWatcher \/ DeferredFlushed
  BY <1>6 DEF Synced, StartReturns, StopConfigWatcher, DeferredFlushed, FirstInv, Early,
              Current
<1>7. CASE DeferredBatcherStop
  <2>1. stopped.batcher = {} /\ stopped.dedup = {}
    BY <1>7 DEF DeferredBatcherStop, FirstInv
  <2>2. main' \in {"flush", "stopDedup"} /\ stopped'.dedup = {}
    BY <1>7, <2>1 DEF DeferredBatcherStop, Stop, TypeInv, TypeOK
  <2> QED
    BY <2>2 DEF FirstInv, Early
<1>8. CASE DeferredDedupStop
  BY <1>8 DEF DeferredDedupStop, FirstInv, Early
<1>9. CASE UNCHANGED vars
  BY <1>9, FirstKeep DEF vars, FirstInv
<1> QED
  BY <1>1, <1>2, <1>3, <1>4, <1>5, <1>6, <1>7, <1>8, <1>9
     DEF Next, InitComponentsStep, MainStep

\* The configurations in effect only become more.
LEMMA FirstInvStep ==
  TypeInv /\ SharedInv /\ FirstInv /\ [Next]_vars => FirstInv'
<1> SUFFICES ASSUME TypeInv, SharedInv, FirstInv, [Next]_vars, Current' = 1
             PROVE  FirstInv'
  BY DEF FirstInv
<1>1. Current = 1
  BY ConfigsGrow, KubeWatcherConstants DEF TypeInv, TypeOK, Current, Gens
<1> QED
  BY <1>1, FirstStep

\* The first batcher holds nothing once the deferred Stop of it has flushed.
LEMMA FlushEmpties ==
  ASSUME TypeInv, [Next]_vars, main = "stopBatcher", main' \in {"flush", "stopDedup"}
  PROVE  buffer'[1] = {}
<1> USE DEF processVars, componentVars, reloadVars, handlerVars, batchVars
<1>1. 1 \in Gens
  BY KubeWatcherConstants DEF Gens
<1>2. DeferredBatcherStop
  <2>1. ASSUME NEW k \in Kinds, Receive(k) \/ Handler(k)
        PROVE  FALSE
    BY <2>1, HandlerType
  <2>2. ~ \/ \E g \in Gens : TimerFlush(g)
          \/ \E call \in calls : BatchSnapshot(call) \/ BatchSend(call)
    BY BatchType DEF TypeInv
  <2>3. ~ReloadStep
    BY DEF ReloadStep, InitComponentsStep, LoadConfig, BadTemplate, InitComponents,
           Reinit, StopOldBatcher, SwapBatcher, WatchLoopExit, Panic
  <2> QED
    BY <2>1, <2>2, <2>3
       DEF Next, ReloadStep, MainStep, Signal, Synced, StartReturns, StopConfigWatcher,
           DeferredFlushed, DeferredDedupStop, vars
<1> QED
  BY <1>1, <1>2 DEF DeferredBatcherStop, Panic, TakeBatch, TypeInv, TypeOK

\* A process that shuts down before any reload does not panic, and the deferred
\* Stop of its batcher leaves no event behind.
THEOREM ShutdownIsClean == Spec => CleanShutdown
<1>1. TypeInv /\ SharedInv /\ FirstInv /\ [Next]_vars =>
        [Len(configs) = 1 =>
           /\ main' # "panicked"
           /\ main = "stopBatcher" /\ main' \in {"flush", "stopDedup"} =>
                buffer'[1] = {}]_vars
  BY FirstStep, FlushEmpties DEF Current
<1> QED
  BY <1>1, TypeInit, TypeStep, SharedInit, SharedStep, FirstInit, FirstInvStep, PTL
     DEF Spec, CleanShutdown

-----------------------------------------------------------------------------
(* What a deduplicator drops *)

Told == {"batched", "sent", "failed"}

\* The event of a handler is its own and not settled.
HandledInv ==
  \A k \in Kinds : handlers[k].pc # "idle" =>
    outcome[handlers[k].event] = "received" /\ KindOf[handlers[k].event] = k

\* What a batcher or a batch handler has was batched.
BatchedInv ==
  /\ \A g \in Gens : \A e \in buffer[g] : outcome[e] \in Told
  /\ \A call \in calls : \A e \in call.batch : outcome[e] \in Told

PassedInv == \A g \in Gens : \A e \in passed[g] : PassedOn(e)

OriginInv == HandledInv /\ BatchedInv /\ PassedInv /\ DuplicatesRepeat

LEMMA OriginInit == Init => OriginInv
BY NotCalledType
   DEF Init, OriginInv, HandledInv, BatchedInv, PassedInv, DuplicatesRepeat

\* The batch handlers may move events between them when nothing else changes.
LEMMA OriginKeep ==
  ASSUME OriginInv, UNCHANGED <<handlers, outcome, passed>>, BatchedInv'
  PROVE  OriginInv'
BY DEF OriginInv, HandledInv, PassedInv, DuplicatesRepeat, PassedOn

LEMMA TakeBatchOrigin ==
  ASSUME TypeInv, OriginInv, UNCHANGED <<handlers, outcome, passed>>,
         NEW g \in Gens, NEW by \in {"timer", "reload", "main"}, TakeBatch(g, by)
  PROVE  OriginInv'
<1>1. buffer \in [Gens -> SUBSET Events]
  BY DEF TypeInv, TypeOK
<1>2. \A j \in Gens : buffer'[j] \subseteq buffer[j]
  BY <1>1 DEF TakeBatch
<1>3. \A call \in calls' : call \in calls \/ call.batch = buffer[g]
  BY DEF TakeBatch
<1> QED
  BY <1>2, <1>3, OriginKeep DEF OriginInv, BatchedInv

\* Only the event that handler k has, or receives, changes.
LEMMA HandlerOutcome ==
  ASSUME TypeInv, OriginInv, NEW k \in Kinds, Receive(k) \/ Handler(k)
  PROVE  \/ outcome' = outcome
         \/ \E e \in Events :
              /\ \A d \in Events \ {e} : outcome'[d] = outcome[d]
              /\ \/ /\ Receive(k) /\ handlers'[k].event = e
                    /\ outcome[e] = "new" /\ outcome'[e] = "received" /\ KindOf[e] = k
                 \/ /\ handlers[k].pc \in {"screen", "send"} /\ handlers[k].event = e
                    /\ outcome[e] = "received"
<1>1. outcome \in [Events -> Outcomes]
  BY DEF TypeInv, TypeOK, Outcomes
<1>2. CASE Receive(k)
  <2>1. PICK e \in Events :
          /\ outcome[e] = "new" /\ KindOf[e] = k
          /\ outcome' = [outcome EXCEPT ![e] = "received"]
          /\ handlers' = [handlers EXCEPT ![k].pc = "lock", ![k].event = e]
    BY <1>2 DEF Receive
  <2>2. handlers'[k].event = e
    BY <2>1 DEF TypeInv, TypeOK, Snapshots
  <2> QED
    BY <1>1, <1>2, <2>1, <2>2
<1>3. CASE Snapshot(k) \/ Notify(k)
  BY <1>3 DEF Snapshot, Notify
<1>4. CASE Drop(k) \/ AddToBatch(k) \/ Send(k)
  <2>1. handlers[k].pc \in {"screen", "send"}
    BY <1>4 DEF Drop, AddToBatch, Send, Pass
  <2>2. handlers[k].event \in Events /\ outcome[handlers[k].event] = "received"
    BY <2>1 DEF TypeInv, EventInv, OriginInv, HandledInv
  <2>3. \A d \in Events \ {handlers[k].event} : outcome'[d] = outcome[d]
    BY <1>1, <1>4, <2>2 DEF Drop, AddToBatch, Send
  <2> QED
    BY <2>1, <2>2, <2>3
<1> QED
  BY <1>2, <1>3, <1>4 DEF Handler

LEMMA ToldStays ==
  ASSUME TypeInv, OriginInv, NEW k \in Kinds, Receive(k) \/ Handler(k),
         NEW e \in Events, outcome[e] \in Told
  PROVE  outcome'[e] = outcome[e]
BY HandlerOutcome DEF Told

\* What was passed on stays so while handlers run.
LEMMA PassedOnStays ==
  ASSUME TypeInv, OriginInv, NEW k \in Kinds, Receive(k) \/ Handler(k),
         NEW e \in Events, PassedOn(e)
  PROVE  PassedOn(e)'
<1>1. CASE outcome[e] \in Told
  BY <1>1, ToldStays DEF PassedOn, Told
<1>2. ASSUME NEW j \in Kinds, handlers[j].pc = "send", handlers[j].event = e
      PROVE  PassedOn(e)'
  <2>1. CASE j # k
    <3>1. handlers'[j] = handlers[j]
      BY <2>1, HandlerMoveCases DEF HandlerMoves, TypeInv
    <3> QED
      BY <1>2, <3>1 DEF PassedOn
  <2>2. CASE j = k
    <3>1. Send(k)
      BY <1>2, <2>2, HandlerMoveCases DEF TypeInv, Drop, AddToBatch, Pass
    <3>2. outcome'[e] \in {"sent", "failed"}
      BY <1>2, <2>2, <3>1 DEF Send, TypeInv, TypeOK
    <3> QED
      BY <3>2 DEF PassedOn
  <2> QED
    BY <2>1, <2>2
<1> QED
  BY <1>1, <1>2 DEF PassedOn, Told

LEMMA HandledStep ==
  ASSUME TypeInv, OriginInv, NEW k \in Kinds, Receive(k) \/ Handler(k)
  PROVE  HandledInv'
<1> SUFFICES ASSUME NEW j \in Kinds, handlers'[j].pc # "idle"
             PROVE  outcome'[handlers'[j].event] = "received" /\ KindOf[handlers'[j].event] = j
  BY DEF HandledInv
<1>1. CASE j # k
  <2>1. handlers'[j] = handlers[j]
    BY <1>1, HandlerMoveCases DEF HandlerMoves, TypeInv
  <2>2. /\ handlers[j].event \in Events
        /\ outcome[handlers[j].event] = "received" /\ KindOf[handlers[j].event] = j
    BY <2>1 DEF OriginInv, HandledInv, TypeInv, EventInv
  <2>3. handlers[k].pc # "idle" => handlers[k].event # handlers[j].event
    BY <1>1, <2>2 DEF OriginInv, HandledInv
  <2>4. outcome'[handlers[j].event] = outcome[handlers[j].event]
    BY <2>2, <2>3, HandlerOutcome
  <2> QED
    BY <2>1, <2>2, <2>4
<1>2. CASE j = k
  <2>0. handlers \in Snapshots
    BY DEF TypeInv, TypeOK
  <2>1. CASE Receive(k)
    <3>1. PICK e \in Events :
            /\ outcome[e] = "new" /\ KindOf[e] = k
            /\ outcome' = [outcome EXCEPT ![e] = "received"]
            /\ handlers' = [handlers EXCEPT ![k].pc = "lock", ![k].event = e]
      BY <2>1 DEF Receive
    <3>2. outcome'[e] = "received"
      BY <3>1 DEF TypeInv, TypeOK
    <3>3. handlers'[k].event = e
      BY <2>0, <3>1 DEF Snapshots
    <3> QED
      BY <1>2, <3>1, <3>2, <3>3
  <2>2. CASE Snapshot(k) \/ Notify(k)
    <3>1. handlers[k].pc # "idle" /\ handlers'[k].event = handlers[k].event
      <4>1. CASE Snapshot(k)
        BY <2>0, <4>1 DEF Snapshot, Snapshots
      <4>2. CASE Notify(k)
        BY <2>0, <4>2 DEF Notify, Pass, Snapshots
      <4> QED
        BY <2>2, <4>1, <4>2
    <3>2. outcome' = outcome
      BY <2>2 DEF Snapshot, Notify
    <3> QED
      BY <1>2, <3>1, <3>2 DEF OriginInv, HandledInv
  <2>3. CASE Drop(k) \/ AddToBatch(k) \/ Send(k)
    <3>1. handlers' = [handlers EXCEPT ![k] = NotCalled]
      BY <2>3 DEF Drop, AddToBatch, Send
    <3>2. handlers'[k].pc = "idle"
      BY <3>1, NotCalledType DEF TypeInv, TypeOK, Snapshots
    <3> QED
      BY <1>2, <3>2
  <2> QED
    BY <2>1, <2>2, <2>3 DEF Handler
<1> QED
  BY <1>1, <1>2

LEMMA BatchedStep ==
  ASSUME TypeInv, OriginInv, NEW k \in Kinds, Receive(k) \/ Handler(k)
  PROVE  BatchedInv'
<1>1. /\ buffer \in [Gens -> SUBSET Events] /\ calls \subseteq Call
      /\ outcome \in [Events -> Outcomes]
  BY DEF TypeInv, TypeOK, Outcomes
<1>2. calls' = calls
  BY HandlerType
<1>3. \A call \in calls : \A e \in call.batch : outcome'[e] \in Told
  BY <1>1, ToldStays DEF OriginInv, BatchedInv, Call
<1>4. ASSUME NEW g \in Gens, NEW e \in buffer'[g]
      PROVE  outcome'[e] \in Told
  <2>1. CASE e \in buffer[g]
    BY <1>1, <2>1, ToldStays DEF OriginInv, BatchedInv
  <2>2. CASE e \notin buffer[g]
    <3>1. AddToBatch(k)
      BY <1>4, <2>2 DEF Receive, Handler, Snapshot, Drop, Notify, Send, batchVars
    <3>2. e = handlers[k].event /\ handlers[k].event \in Events
      BY <1>1, <1>4, <2>2, <3>1 DEF AddToBatch, Pass, TypeInv, EventInv
    <3> QED
      BY <1>1, <3>1, <3>2 DEF AddToBatch, Told
  <2> QED
    BY <2>1, <2>2
<1> QED
  BY <1>2, <1>3, <1>4 DEF BatchedInv

LEMMA PassedStep ==
  ASSUME TypeInv, OriginInv, NEW k \in Kinds, Receive(k) \/ Handler(k)
  PROVE  PassedInv'
<1>1. /\ passed \in [Gens -> SUBSET Events] /\ outcome \in [Events -> Outcomes]
      /\ passed' \in [Gens -> SUBSET Events]
  BY HandlerType DEF TypeInv, TypeOK, Outcomes
<1> SUFFICES ASSUME NEW g \in Gens, NEW e \in passed'[g]
             PROVE  PassedOn(e)'
  BY DEF PassedInv
<1>2. CASE e \in passed[g]
  BY <1>1, <1>2, PassedOnStays DEF OriginInv, PassedInv
<1>3. CASE e \notin passed[g]
  <2>1. Pass(k) /\ (AddToBatch(k) \/ Notify(k))
    BY <1>3 DEF Receive, Handler, Snapshot, Drop, Send, AddToBatch, Notify
  <2>2. e = handlers[k].event /\ e \in Events
    BY <1>1, <1>3, <2>1 DEF Pass
  <2>3. CASE AddToBatch(k)
    <3>1. outcome'[e] = "batched"
      BY <1>1, <2>2, <2>3 DEF AddToBatch
    <3> QED
      BY <3>1 DEF PassedOn
  <2>4. CASE Notify(k)
    <3>1. handlers'[k].pc = "send" /\ handlers'[k].event = e
      BY <2>2, <2>4 DEF Notify, TypeInv, TypeOK, Snapshots
    <3> QED
      BY <3>1 DEF PassedOn
  <2> QED
    BY <2>1, <2>3, <2>4
<1> QED
  BY <1>2, <1>3

\* A new duplicate is told from an event that was passed on, which is not itself:
\* that one would be its handler's, and still be screened.
LEMMA DuplicateStep ==
  ASSUME TypeInv, OriginInv, NEW k \in Kinds, Receive(k) \/ Handler(k)
  PROVE  DuplicatesRepeat'
<1> SUFFICES ASSUME NEW e \in Events, outcome'[e] = "duplicate"
             PROVE  \E d \in Events : d # e /\ SigOf[d] = SigOf[e] /\ PassedOn(d)'
  BY DEF DuplicatesRepeat
<1>1. CASE outcome[e] = "duplicate"
  <2>1. PICK d \in Events : d # e /\ SigOf[d] = SigOf[e] /\ PassedOn(d)
    BY <1>1 DEF OriginInv, DuplicatesRepeat
  <2> QED
    BY <2>1, PassedOnStays
<1>2. CASE outcome[e] # "duplicate"
  <2>1. handlers[k].event = e /\ outcome[e] = "received"
    BY <1>2, HandlerOutcome
  <2>2. Drop(k) /\ handlers[k].pc = "screen"
    BY <1>2, <2>1 DEF Receive, Handler, Snapshot, Drop, AddToBatch, Notify, Send, Pass,
                     TypeInv, TypeOK
  <2>3. PICK d \in passed[handlers[k].snap.dedup] :
          /\ handlers[k].snap.dedup # None /\ SigOf[d] = SigOf[e]
    BY <2>1, <2>2 DEF Drop, TypeInv, TypeOK
  <2>4. handlers[k].snap.dedup \in Gens
    BY <2>3, KubeWatcherConstants
       DEF TypeInv, TypeOK, Snapshots, Components, GenOrNone, Gens, None
  <2>5. d \in Events /\ PassedOn(d)
    BY <2>3, <2>4 DEF TypeInv, TypeOK, OriginInv, PassedInv
  <2>6. d # e
    <3> SUFFICES ASSUME PassedOn(e)
                 PROVE  FALSE
      BY <2>5
    <3>1. PICK j \in Kinds : handlers[j].pc = "send" /\ handlers[j].event = e
      BY <2>1 DEF PassedOn
    <3>2. j = k
      BY <2>1, <2>2, <3>1 DEF OriginInv, HandledInv
    <3> QED
      BY <2>2, <3>1, <3>2
  <2> QED
    BY <2>3, <2>5, <2>6, PassedOnStays
<1> QED
  BY <1>1, <1>2

LEMMA SendOrigin ==
  ASSUME TypeInv, OriginInv, NEW call \in calls, BatchSend(call)
  PROVE  OriginInv'
<1>1. /\ handlers' = handlers /\ passed' = passed /\ buffer' = buffer
      /\ outcome \in [Events -> Outcomes] /\ call \in Call /\ calls \subseteq Call
      /\ buffer \in [Gens -> SUBSET Events] /\ passed \in [Gens -> SUBSET Events]
  BY DEF BatchSend, TypeInv, TypeOK, Outcomes
<1>2. \A e \in Events : IF e \in call.batch THEN outcome'[e] \in {"sent", "failed"}
                                          ELSE outcome'[e] = outcome[e]
  BY <1>1 DEF BatchSend
<1>3. \A e \in Events : outcome[e] \in Told => outcome'[e] \in Told
  BY <1>2 DEF Told
<1>4. HandledInv'
  BY <1>1, <1>2 DEF OriginInv, HandledInv, BatchedInv, TypeInv, EventInv, Told
<1>5. BatchedInv'
  <2>1. [call EXCEPT !.at = "done", !.notifier = None].batch = call.batch
    BY <1>1 DEF Call
  <2>2. \A c \in calls' : c \in calls \/ c.batch = call.batch
    BY <2>1 DEF BatchSend, Move
  <2> QED
    BY <1>1, <1>3, <2>2 DEF OriginInv, BatchedInv, Call
<1>6. \A e \in Events : PassedOn(e) => PassedOn(e)'
  BY <1>1, <1>3 DEF PassedOn, Told
<1>7. PassedInv'
  BY <1>1, <1>6 DEF OriginInv, PassedInv
<1>8. DuplicatesRepeat'
  BY <1>2, <1>6 DEF OriginInv, DuplicatesRepeat
<1> QED
  BY <1>4, <1>5, <1>7, <1>8 DEF OriginInv

LEMMA OriginStep == TypeInv /\ OriginInv /\ [Next]_vars => OriginInv'
<1> SUFFICES ASSUME TypeInv, OriginInv, [Next]_vars
             PROVE  OriginInv'
  OBVIOUS
<1> USE DEF processVars, componentVars, reloadVars, handlerVars, batchVars
<1>0. BatchedInv
  BY DEF OriginInv
<1>1. ASSUME NEW k \in Kinds, Receive(k) \/ Handler(k)
      PROVE  OriginInv'
  BY <1>1, HandledStep, BatchedStep, PassedStep, DuplicateStep DEF OriginInv
<1>2. ASSUME NEW g \in Gens, TimerFlush(g)
      PROVE  OriginInv'
  BY <1>2, TakeBatchOrigin DEF TimerFlush
<1>3. ASSUME NEW call \in calls, BatchSnapshot(call)
      PROVE  OriginInv'
  <2>1. call \in Call
    BY DEF TypeInv, TypeOK
  <2>2. [call EXCEPT !.at = "send", !.notifier = shared.notifier].batch = call.batch
    BY <2>1 DEF Call
  <2>3. \A c \in calls' : c \in calls \/ c.batch = call.batch
    BY <1>3, <2>2 DEF BatchSnapshot, Move
  <2>4. BatchedInv'
    BY <1>0, <1>3, <2>3 DEF BatchSnapshot, BatchedInv
  <2> QED
    BY <1>3, <2>4, OriginKeep DEF BatchSnapshot
<1>4. ASSUME NEW call \in calls, BatchSend(call)
      PROVE  OriginInv'
  BY <1>4, SendOrigin
<1>5. CASE UNCHANGED <<handlers, outcome, passed, buffer, calls>>
  <2>1. BatchedInv'
    BY <1>0, <1>5 DEF BatchedInv
  <2> QED
    BY <1>5, <2>1, OriginKeep
<1>6. CASE StopOldBatcher
  <2>1. shared.batcher # None => shared.batcher \in Gens
    BY KubeWatcherConstants DEF TypeInv, TypeOK, Components, GenOrNone, Gens, None
  <2> QED
    BY <1>5, <1>6, <2>1, TakeBatchOrigin DEF StopOldBatcher, Panic
<1>7. CASE DeferredBatcherStop
  <2>1. 1 \in Gens
    BY KubeWatcherConstants DEF Gens
  <2> QED
    BY <1>5, <1>7, <2>1, TakeBatchOrigin DEF DeferredBatcherStop, Panic
<1>8. CASE LoadConfig \/ BadTemplate \/ InitComponents \/ SwapBatcher \/ WatchLoopExit
  BY <1>5, <1>8 DEF LoadConfig, BadTemplate, InitComponents, Reinit, SwapBatcher,
                   WatchLoopExit, Panic
<1>9. CASE Signal \/ Synced \/ StartReturns \/ StopConfigWatcher
             \/ DeferredFlushed \/ DeferredDedupStop
  BY <1>5, <1>9 DEF Signal, Synced, StartReturns, StopConfigWatcher, DeferredFlushed,
                   DeferredDedupStop, Panic
<1>10. CASE UNCHANGED vars
  BY <1>5, <1>10 DEF vars
<1> QED
  BY <1>1, <1>2, <1>3, <1>4, <1>6, <1>7, <1>8, <1>9, <1>10
     DEF Next, InitComponentsStep, MainStep

\* Whatever reloads come between them, an event is dropped as a duplicate only if
\* the deduplicator has seen an equal one pass the filter, which then went to a
\* batcher or to the notifier.
THEOREM DuplicatesAreRepetitions == Spec => []DuplicatesRepeat
<1>1. OriginInv => DuplicatesRepeat
  BY DEF OriginInv
<1> QED
  BY <1>1, TypeInit, TypeStep, OriginInit, OriginStep, PTL DEF Spec

-----------------------------------------------------------------------------
(* Where the events of the batchers are *)

LEMMA PlaceInit == Init => EventsInOnePlace
BY DEF Init, EventsInOnePlace

\* A batch that is taken from a batcher is nowhere else any more.
LEMMA TakePlace ==
  ASSUME TypeInv, EventsInOnePlace, NEW g \in Gens, NEW by, TakeBatch(g, by),
         buffer[g] # {}
  PROVE  EventsInOnePlace'
<1>1. buffer \in [Gens -> SUBSET Events]
  BY DEF TypeInv, TypeOK
<1>2. buffer'[g] = {} /\ \A j \in Gens : j # g => buffer'[j] = buffer[j]
  BY <1>1 DEF TakeBatch
<1>3. PICK new : new.batch = buffer[g] /\ calls' = calls \cup {new}
  <2> DEFINE new == [gen |-> g, batch |-> buffer[g], by |-> by, at |-> "lock",
                     notifier |-> None]
  <2>1. new.batch = buffer[g] /\ calls' = calls \cup {new}
    BY DEF TakeBatch
  <2> HIDE DEF new
  <2> QED
    BY <2>1
<1> QED
  BY <1>2, <1>3 DEF EventsInOnePlace

\* A call that goes on keeps its batch.
LEMMA MovePlace ==
  ASSUME EventsInOnePlace, UNCHANGED buffer, NEW call \in calls, NEW to,
         to.batch = call.batch, Move(call, to)
  PROVE  EventsInOnePlace'
BY DEF EventsInOnePlace, Move

\* An event that its handler adds to a batcher was in no batch before.
LEMMA AddIsNew ==
  ASSUME TypeInv, OriginInv, NEW k \in Kinds, AddToBatch(k)
  PROVE  /\ handlers[k].event \in Events
         /\ \A g \in Gens : handlers[k].event \notin buffer[g]
         /\ \A call \in calls : handlers[k].event \notin call.batch
<1>1. handlers[k].event \in Events /\ outcome[handlers[k].event] = "received"
  BY DEF AddToBatch, Pass, TypeInv, EventInv, OriginInv, HandledInv
<1> QED
  BY <1>1 DEF OriginInv, BatchedInv, Told

LEMMA AddPlace ==
  ASSUME TypeInv, OriginInv, EventsInOnePlace, NEW k \in Kinds, AddToBatch(k)
  PROVE  EventsInOnePlace'
<1>1. buffer \in [Gens -> SUBSET Events] /\ calls' = calls
  BY DEF TypeInv, TypeOK, AddToBatch
<1>2. PICK b \in GenOrNone : b = handlers[k].snap.batcher
  BY DEF TypeInv, TypeOK, Snapshots, Components
<1>3. PICK e \in Events : e = handlers[k].event
  BY AddIsNew
<1>4. \A j \in Gens : buffer'[j] \subseteq buffer[j] \cup (IF j = b THEN {e} ELSE {})
  BY <1>1, <1>2, <1>3 DEF AddToBatch
<1>5. /\ \A g \in Gens : e \notin buffer[g]
      /\ \A call \in calls : e \notin call.batch
  BY <1>3, AddIsNew
<1>6. \A g, h \in Gens : g # h => buffer'[g] \cap buffer'[h] = {}
  BY <1>4, <1>5 DEF EventsInOnePlace
<1>7. \A g \in Gens : \A call \in calls' : buffer'[g] \cap call.batch = {}
  BY <1>1, <1>4, <1>5 DEF EventsInOnePlace
<1> QED
  BY <1>1, <1>6, <1>7 DEF EventsInOnePlace

-----------------------------------------------------------------------------
(* Each batcher is an EventSink *)

Sending(g) == {call.batch : call \in {c \in calls : c.gen = g /\ c.at # "done"}}

Sent(g) == UNION {call.batch : call \in {c \in calls : c.gen = g /\ c.at = "done"}}

SinkStep(g) == [Sink(g)!Next]_(Sink(g)!vars)

LEMMA SinkKeep ==
  ASSUME NEW g, buffer'[g] = buffer[g], Sending(g)' = Sending(g), Sent(g)' = Sent(g)
  PROVE  SinkStep(g)
BY DEF SinkStep, Sink!vars, Sending, Sent

\* TakeBatch is Take of the batcher's sink.
LEMMA TakeSinks ==
  ASSUME TypeInv, NEW g \in Gens, NEW by, TakeBatch(g, by), buffer[g] # {},
         NEW j \in Gens
  PROVE  SinkStep(j)
<1>1. buffer \in [Gens -> SUBSET Events]
  BY DEF TypeInv, TypeOK
<1>2. buffer'[g] = {} /\ (j # g => buffer'[j] = buffer[j])
  BY <1>1 DEF TakeBatch
<1>3. PICK new : /\ new.batch = buffer[g] /\ new.gen = g /\ new.at = "lock"
                 /\ calls' = calls \cup {new}
  <2> DEFINE new == [gen |-> g, batch |-> buffer[g], by |-> by, at |-> "lock",
                     notifier |-> None]
  <2>1. /\ new.batch = buffer[g] /\ new.gen = g /\ new.at = "lock"
        /\ calls' = calls \cup {new}
    BY DEF TakeBatch
  <2> HIDE DEF new
  <2> QED
    BY <2>1
<1>4. Sent(j)' = Sent(j)
  BY <1>3 DEF Sent
<1>5. CASE j = g
  <2>1. Sending(g)' = Sending(g) \cup {buffer[g]}
    BY <1>3 DEF Sending
  <2> QED
    BY <1>2, <1>4, <1>5, <2>1 DEF SinkStep, Sink!Next, Sink!Take, Sending, Sent
<1>6. CASE j # g
  <2>1. Sending(j)' = Sending(j)
    BY <1>3, <1>6 DEF Sending
  <2> QED
    BY <1>2, <1>4, <1>6, <2>1, SinkKeep
<1> QED
  BY <1>5, <1>6

\* A sink does not see its callback read the notifier.
LEMMA SnapshotSinks ==
  ASSUME TypeInv, NEW call \in calls, BatchSnapshot(call), NEW j \in Gens
  PROVE  SinkStep(j)
<1>1. PICK to : /\ to.batch = call.batch /\ to.gen = call.gen /\ to.at = "send"
                /\ calls' = (calls \ {call}) \cup {to}
  <2> DEFINE to == [call EXCEPT !.at = "send", !.notifier = shared.notifier]
  <2>1. /\ to.batch = call.batch /\ to.gen = call.gen /\ to.at = "send"
        /\ calls' = (calls \ {call}) \cup {to}
    BY DEF BatchSnapshot, Move, TypeInv, TypeOK, Call
  <2> HIDE DEF to
  <2> QED
    BY <2>1
<1>2. call.at = "lock" /\ buffer' = buffer
  BY DEF BatchSnapshot
<1>3. Sending(j)' = Sending(j)
  BY <1>1, <1>2 DEF Sending
<1>4. Sent(j)' = Sent(j)
  BY <1>1, <1>2 DEF Sent
<1> QED
  BY <1>2, <1>3, <1>4, SinkKeep

\* BatchSend is Deliver of the sink of the call: no other call has its batch.
LEMMA SendSinks ==
  ASSUME TypeInv, EventsInOnePlace, NEW call \in calls, BatchSend(call), NEW j \in Gens
  PROVE  SinkStep(j)
<1>1. PICK to : /\ to.batch = call.batch /\ to.gen = call.gen /\ to.at = "done"
                /\ calls' = (calls \ {call}) \cup {to}
  <2> DEFINE to == [call EXCEPT !.at = "done", !.notifier = None]
  <2>1. /\ to.batch = call.batch /\ to.gen = call.gen /\ to.at = "done"
        /\ calls' = (calls \ {call}) \cup {to}
    BY DEF BatchSend, Move, TypeInv, TypeOK, Call
  <2> HIDE DEF to
  <2> QED
    BY <2>1
<1>2. call.at = "send" /\ buffer' = buffer
  BY DEF BatchSend
<1>3. CASE j = call.gen
  <2>1. call.batch \in Sending(j)
    BY <1>2, <1>3 DEF Sending
  <2>2. \A c \in calls : c.batch = call.batch => c = call
    BY DEF EventsInOnePlace
  <2>3. Sending(j)' = Sending(j) \ {call.batch}
    BY <1>1, <1>2, <2>2 DEF Sending
  <2>4. Sent(j)' = Sent(j) \cup call.batch
    BY <1>1, <1>2, <1>3 DEF Sent
  <2> QED
    BY <1>2, <2>1, <2>3, <2>4 DEF SinkStep, Sink!Next, Sink!Deliver, Sending, Sent
<1>4. CASE j # call.gen
  <2>1. Sending(j)' = Sending(j)
    BY <1>1, <1>4 DEF Sending
  <2>2. Sent(j)' = Sent(j)
    BY <1>1, <1>4 DEF Sent
  <2> QED
    BY <1>2, <2>1, <2>2, SinkKeep
<1> QED
  BY <1>3, <1>4

\* AddToBatch is Accept of the sink of the snapshot's batcher.
LEMMA AddSinks ==
  ASSUME TypeInv, OriginInv, NEW k \in Kinds, AddToBatch(k), NEW j \in Gens
  PROVE  SinkStep(j)
<1>1. buffer \in [Gens -> SUBSET Events] /\ calls' = calls
  BY DEF TypeInv, TypeOK, AddToBatch
<1>2. PICK e \in Events : e = handlers[k].event
  BY AddIsNew
<1>3. buffer' = [buffer EXCEPT ![handlers[k].snap.batcher] = @ \cup {e}]
  BY <1>2 DEF AddToBatch
<1>4. Sending(j)' = Sending(j) /\ Sent(j)' = Sent(j)
  BY <1>1 DEF Sending, Sent
<1>5. CASE handlers[k].snap.batcher = j
  <2>1. /\ \A g \in Gens : e \notin buffer[g]
        /\ \A call \in calls : e \notin call.batch
    BY <1>2, AddIsNew
  <2>2. e \notin buffer[j] \cup (UNION Sending(j)) \cup Sent(j)
    BY <2>1 DEF Sending, Sent
  <2>3. buffer'[j] = buffer[j] \cup {e}
    BY <1>1, <1>3, <1>5
  <2> QED
    BY <1>4, <2>2, <2>3
       DEF SinkStep, Sink!Next, Sink!Accept, Sink!Accepted, Sending, Sent
<1>6. CASE handlers[k].snap.batcher # j
  <2>1. buffer'[j] = buffer[j]
    BY <1>1, <1>3, <1>6
  <2> QED
    BY <1>4, <2>1, SinkKeep
<1> QED
  BY <1>5, <1>6

SinksStep == EventsInOnePlace' /\ \A j \in Gens : SinkStep(j)

\* A batcher that is stopped with events in it hands them over.
LEMMA StopSinks ==
  ASSUME TypeInv, EventsInOnePlace, NEW g \in Gens, NEW by,
         IF buffer[g] # {} THEN TakeBatch(g, by) ELSE UNCHANGED <<calls, buffer>>
  PROVE  SinksStep
<1>1. CASE buffer[g] # {}
  BY <1>1, TakePlace, TakeSinks DEF SinksStep
<1>2. CASE UNCHANGED <<calls, buffer>>
  BY <1>2, SinkKeep DEF SinksStep, EventsInOnePlace, Sending, Sent
<1> QED
  BY <1>1, <1>2

LEMMA BatcherStep ==
  ASSUME TypeInv, OriginInv, EventsInOnePlace, [Next]_vars
  PROVE  SinksStep
<1> USE DEF processVars, componentVars, reloadVars, handlerVars, batchVars
<1>1. CASE UNCHANGED <<calls, buffer>>
  BY <1>1, SinkKeep DEF SinksStep, EventsInOnePlace, Sending, Sent
<1>2. ASSUME NEW k \in Kinds, Receive(k) \/ Handler(k)
      PROVE  SinksStep
  <2>1. CASE AddToBatch(k)
    BY <2>1, AddPlace, AddSinks DEF SinksStep
  <2>2. CASE Receive(k) \/ Snapshot(k) \/ Drop(k) \/ Notify(k) \/ Send(k)
    BY <1>1, <2>2 DEF Receive, Snapshot, Drop, Notify, Send
  <2> QED
    BY <1>2, <2>1, <2>2 DEF Handler
<1>3. ASSUME NEW g \in Gens, TimerFlush(g)
      PROVE  SinksStep
  BY <1>3, StopSinks DEF TimerFlush
<1>4. ASSUME NEW call \in calls, BatchSnapshot(call) \/ BatchSend(call)
      PROVE  SinksStep
  <2>1. call \in Call
    BY DEF TypeInv, TypeOK
  <2>2. EventsInOnePlace'
    <3>1. CASE BatchSnapshot(call)
      BY <2>1, <3>1, MovePlace DEF BatchSnapshot, Call
    <3>2. CASE BatchSend(call)
      BY <2>1, <3>2, MovePlace DEF BatchSend, Call
    <3> QED
      BY <1>4, <3>1, <3>2
  <2> QED
    BY <1>4, <2>2, SnapshotSinks, SendSinks DEF SinksStep
<1>5. CASE StopOldBatcher
  <2>1. shared.batcher \in GenOrNone
    BY DEF TypeInv, TypeOK, Components
  <2>2. CASE shared.batcher = None \/ Panic
    BY <1>1, <1>5, <2>2 DEF StopOldBatcher, Panic
  <2>3. CASE shared.batcher # None /\ ~Panic
    <3>1. shared.batcher \in Gens
      BY <2>1, <2>3, KubeWatcherConstants DEF GenOrNone, Gens, None
    <3> QED
      BY <1>5, <2>3, <3>1, StopSinks DEF StopOldBatcher
  <2> QED
    BY <2>2, <2>3
<1>6. CASE DeferredBatcherStop
  <2>1. 1 \in Gens
    BY KubeWatcherConstants DEF Gens
  <2> QED
    BY <1>1, <1>6, <2>1, StopSinks DEF DeferredBatcherStop, Panic
<1>7. CASE LoadConfig \/ BadTemplate \/ InitComponents \/ SwapBatcher \/ WatchLoopExit
  BY <1>1, <1>7 DEF LoadConfig, BadTemplate, InitComponents, Reinit, SwapBatcher,
                   WatchLoopExit, Panic
<1>8. CASE Signal \/ Synced \/ StartReturns \/ StopConfigWatcher
             \/ DeferredFlushed \/ DeferredDedupStop
  BY <1>1, <1>8 DEF Signal, Synced, StartReturns, StopConfigWatcher, DeferredFlushed,
                   DeferredDedupStop, Panic
<1>9. CASE UNCHANGED vars
  BY <1>1, <1>9 DEF vars
<1> QED
  BY <1>2, <1>3, <1>4, <1>5, <1>6, <1>7, <1>8, <1>9
     DEF Next, InitComponentsStep, MainStep

\* Whatever batchers reloads make, and whatever their old ones still hold, no event
\* is in two batchers, in two batches or in a batch and a batcher.
THEOREM EventsStayInOnePlace == Spec => []EventsInOnePlace
BY TypeInit, TypeStep, OriginInit, OriginStep, PlaceInit, BatcherStep, PTL
   DEF Spec, SinksStep

\* The batcher of every generation implements EventSink: reloads, late handlers and
\* the shutdown lose no event of it and hand none over twice.
THEOREM BatchersImplementEventSink == Spec => BatchersAreSinks
<1>1. Init => \A g \in Gens : Sink(g)!Init
  BY DEF Init, Sink!Init
<1>2. TypeInv /\ OriginInv /\ EventsInOnePlace /\ [Next]_vars =>
        [\A g \in Gens : [Sink(g)!Next]_(Sink(g)!vars)]_vars
  BY BatcherStep DEF SinksStep, SinkStep
<1> QED
  BY <1>1, <1>2, TypeInit, TypeStep, OriginInit, OriginStep, EventsStayInOnePlace, PTL
     DEF Spec, BatchersAreSinks
=============================================================================
