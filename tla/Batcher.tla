------------------------------ MODULE Batcher ------------------------------
(***************************************************************************)
(* The batcher of pkg/batcher: handlers add events, a timer started by the *)
(* first event of a batch flushes the batch when its window has passed,    *)
(* and Stop flushes what is left.                                          *)
(*                                                                         *)
(* Add, and flush up to the callback, hold b.mu and are one action each.   *)
(* flush calls the callback with b.mu released, so several callbacks can   *)
(* run at once, and Add and Stop may come in while one runs.  The timer is *)
(* a time.AfterFunc: when it expires it starts a goroutine that waits for  *)
(* b.mu, and the timer's Stop no longer reaches that goroutine.            *)
(*                                                                         *)
(* Time is the age of the current batch and of each callback.              *)
(***************************************************************************)
EXTENDS Naturals, Sequences, Functions

CONSTANTS
  Events,         \* the events handed to Add, each of them once
  Window,         \* b.config.WindowSeconds, in ticks
  CallbackBound   \* ticks a callback takes at most: it ends with an HTTP
                  \* request that times out (notifier.go:50)

\* Config.Validate wants a window of at least 30 s (config.go:142); one that does not
\* fit a duration, 292 years, is left out.
ASSUME BatcherConstants == Window \in Nat \ {0} /\ CallbackBound \in Nat

VARIABLES
  events,      \* b.events
  age,         \* ticks since b.startTime, up to Window
  timer,       \* the timer that b.timer points to is running
  expired,     \* goroutines of expired timers that have not had b.mu yet
  stop,        \* Stop: "no", "closed" (before its flush), "sending", "returned"
  flights,     \* running callbacks: who flushed, the batch, and its age
  accepted,    \* history: the events added, in the order they were
  delivered,   \* history: the events of finished callbacks, in that order
  due          \* history: how many events Add had taken when Stop was called

vars == <<events, age, timer, expired, stop, flights, accepted, delivered, due>>

Flight == [by : {"timer", "stop"}, batch : Seq(Events), age : 0 .. CallbackBound]

Init ==
  /\ events = <<>>
  /\ age = 0
  /\ timer = FALSE
  /\ expired = 0
  /\ stop = "no"
  /\ flights = {}
  /\ accepted = <<>>
  /\ delivered = <<>>
  /\ due = 0

-----------------------------------------------------------------------------

\* Faulty variants: the timer starts with the second event; a new event goes to
\* the front.
AddSecond(e) ==
  /\ e \notin Range(accepted)
  /\ events' = Append(events, e)
  /\ accepted' = Append(accepted, e)
  /\ IF Len(events') = 2
       THEN age' = 0 /\ timer' = TRUE
       ELSE UNCHANGED <<age, timer>>
  /\ UNCHANGED <<expired, stop, flights, delivered, due>>

AddInFront(e) ==
  /\ e \notin Range(accepted)
  /\ events' = <<e>> \o events
  /\ accepted' = Append(accepted, e)
  /\ IF Len(events') = 1
       THEN age' = 0 /\ timer' = TRUE
       ELSE UNCHANGED <<age, timer>>
  /\ UNCHANGED <<expired, stop, flights, delivered, due>>

\* The first event of a batch sets startTime and starts the timer.
Add(e) ==
  /\ e \notin Range(accepted)
  /\ events' = Append(events, e)
  /\ accepted' = Append(accepted, e)
  /\ IF Len(events') = 1
       THEN age' = 0 /\ timer' = TRUE
       ELSE UNCHANGED <<age, timer>>
  /\ UNCHANGED <<expired, stop, flights, delivered, due>>

\* Faulty variant: the window is a tick short.
TimerDueEarly == timer /\ age + 1 >= Window

TimerDue == timer /\ age >= Window

\* The runtime starts the timer's goroutine.
Fire ==
  /\ TimerDue
  /\ timer' = FALSE
  /\ expired' = expired + 1
  /\ UNCHANGED <<events, age, stop, flights, accepted, delivered, due>>

\* Faulty variant: b.events is not reset.
TakeKeeping(by) ==
  /\ flights' = flights \cup {[by |-> by, batch |-> events, age |-> 0]}
  /\ timer' = FALSE
  /\ UNCHANGED <<events, age, accepted, delivered, due>>

\* flush with events to send: take them all, stop the timer, release the lock
\* and call the callback.
Take(by) ==
  /\ flights' = flights \cup {[by |-> by, batch |-> events, age |-> 0]}
  /\ events' = <<>>
  /\ timer' = FALSE
  /\ UNCHANGED <<age, accepted, delivered, due>>

\* flush with nothing to send returns at once.
Skip == UNCHANGED <<events, age, timer, flights, accepted, delivered, due>>

\* Faulty variant: a stopped batcher does not flush.
TimerFlushUnlessStopped ==
  /\ expired > 0
  /\ expired' = expired - 1
  /\ IF events = <<>> \/ stop = "returned" THEN Skip ELSE Take("timer")
  /\ UNCHANGED stop

TimerFlush ==
  /\ expired > 0
  /\ expired' = expired - 1
  /\ IF events = <<>> THEN Skip ELSE Take("timer")
  /\ UNCHANGED stop

\* Stop closes stopCh, which nothing receives from ...
StopClose ==
  /\ stop = "no"
  /\ stop' = "closed"
  /\ due' = Len(accepted)
  /\ UNCHANGED <<events, age, timer, expired, flights, accepted, delivered>>

\* Faulty variant: Stop starts the flush and does not wait for it.
StopFlushAsync ==
  /\ stop = "closed"
  /\ stop' = "returned"
  /\ IF events = <<>> THEN Skip ELSE Take("stop")
  /\ UNCHANGED expired

\* ... and flushes.
StopFlush ==
  /\ stop = "closed"
  /\ IF events = <<>>
       THEN stop' = "returned" /\ Skip
       ELSE stop' = "sending" /\ Take("stop")
  /\ UNCHANGED expired

\* The callback returns, and with it the flush that called it.
Return(f) ==
  /\ f \in flights
  /\ flights' = flights \ {f}
  /\ delivered' = delivered \o f.batch
  /\ stop' = IF f.by = "stop" THEN "returned" ELSE stop
  /\ UNCHANGED <<events, age, timer, expired, accepted, due>>

\* Faulty variant: the HTTP client has no timeout.
TickNoTimeout ==
  /\ age' = IF age < Window THEN age + 1 ELSE Window
  /\ flights' = {[f EXCEPT !.age = @ + 1] : f \in flights}
  /\ UNCHANGED <<events, timer, expired, stop, accepted, delivered, due>>

\* Time passes, but not beyond the time a callback can take.
Tick ==
  /\ \A f \in flights : f.age < CallbackBound
  /\ age' = IF age < Window THEN age + 1 ELSE Window
  /\ flights' = {[f EXCEPT !.age = @ + 1] : f \in flights}
  /\ UNCHANGED <<events, timer, expired, stop, accepted, delivered, due>>

Next ==
  \/ \E e \in Events : Add(e)
  \/ Fire \/ TimerFlush
  \/ StopClose \/ StopFlush
  \/ \E f \in flights : Return(f)
  \/ Tick

Spec == Init /\ [][Next]_vars

\* Time passes, timers go off and goroutines are scheduled; nobody has to call
\* Add or Stop.
FairSpec ==
  /\ Spec
  /\ WF_vars(Tick)
  /\ WF_vars(Fire) /\ WF_vars(TimerFlush) /\ WF_vars(StopFlush)
  /\ WF_vars(\E f \in flights : Return(f))

-----------------------------------------------------------------------------
(* Properties *)

TypeOK ==
  /\ events \in Seq(Events)
  /\ age \in 0 .. Window
  /\ timer \in BOOLEAN
  /\ expired \in Nat
  /\ stop \in {"no", "closed", "sending", "returned"}
  /\ flights \subseteq Flight
  /\ accepted \in Seq(Events)
  /\ delivered \in Seq(Events)
  /\ due \in 0 .. Len(accepted)

\* No event is stranded in the buffer: whenever it is not empty, a timer is
\* running or a goroutine that will flush it is on its way, although Add
\* starts a timer only for the first event and Stop and stale timers flush at
\* any time.
FlushComing == events # <<>> => timer \/ expired > 0

\* Until Stop is called a batch is sent only when its window has passed: no
\* timer of an earlier batch cuts a later one short.
FullWindow ==
  [][stop = "no" /\ flights' # flights /\ events # <<>> /\ events' = <<>>
       => age >= Window]_vars

\* While callbacks end within the window, one runs at a time until Stop is
\* called: the notifications of two batches never overtake each other.
OneCallback ==
  stop = "no" /\ CallbackBound < Window => \A f, g \in flights : f = g

\* Under the same conditions the events reach the callback in the order in
\* which Add took them.
InOrder ==
  stop = "no" /\ CallbackBound < Window =>
    /\ delivered = SubSeq(accepted, 1, Len(delivered))
    /\ \A f \in flights :
         delivered \o f.batch = SubSeq(accepted, 1, Len(delivered) + Len(f.batch))

\* "Stop stops the batcher and flushes remaining events" (batcher.go:121), the
\* second half: when Stop returns, every event added before it was called has
\* been through the callback or is in a batch that the timer flushed.
StopFlushes ==
  stop = "returned" =>
    \A i \in 1 .. due :
      \/ accepted[i] \in Range(delivered)
      \/ \E f \in flights : f.by = "timer" /\ accepted[i] \in Range(f.batch)

\* Every event added is at last in a batch whose callback returned, with or
\* without Stop, and also when it is added after Stop.
AllDelivered ==
  \A e \in Events : e \in Range(accepted) ~> e \in Range(delivered)

\* The batcher hands every event to the callback exactly once.
Sink == INSTANCE EventSink WITH
  pending <- Range(events),
  sending <- {Range(f.batch) : f \in flights},
  sent <- Range(delivered)

HandsOverExactlyOnce == Sink!Spec
=============================================================================
