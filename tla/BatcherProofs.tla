--------------------------- MODULE BatcherProofs ---------------------------
(***************************************************************************)
(* Theorems about the batcher, for any events, window and duration of the  *)
(* callbacks.                                                              *)
(***************************************************************************)
EXTENDS Batcher, SequenceTheorems, TLAPS

(* Ranges of sequences of events *)

LEMMA RangeOfEmpty == Range(<<>>) = {}
BY DEF Range

LEMMA RangeOfNonEmpty ==
  ASSUME NEW s \in Seq(Events), s # <<>>
  PROVE  Range(s) # {}
<1>1. 1 \in 1 .. Len(s)
  BY EmptySeq
<1> QED
  BY <1>1, RangeEquality

LEMMA RangeOfAppend ==
  ASSUME NEW s \in Seq(Events), NEW e \in Events
  PROVE  Range(Append(s, e)) = Range(s) \cup {e}
<1>1. PICK t \in Seq(Events) : t = Append(s, e)
  BY AppendProperties
<1>2. /\ Len(s) \in Nat /\ Len(t) = Len(s) + 1
      /\ \A i \in 1 .. Len(s) : t[i] = s[i]
      /\ t[Len(s) + 1] = e
  BY <1>1, AppendProperties, LenProperties
<1>3. Range(t) = {t[i] : i \in 1 .. Len(t)} /\ Range(s) = {s[i] : i \in 1 .. Len(s)}
  BY RangeEquality
<1>4. 1 .. Len(t) = (1 .. Len(s)) \cup {Len(s) + 1}
  BY <1>2
<1>5. Range(t) = Range(s) \cup {e}
  BY <1>2, <1>3, <1>4
<1> QED
  BY <1>1, <1>5

-----------------------------------------------------------------------------
(* Type correctness *)

LEMMA FlightType ==
  ASSUME NEW f \in Flight
  PROVE  /\ f.by \in {"timer", "stop"}
         /\ f.batch \in Seq(Events)
         /\ f.age \in 0 .. CallbackBound
BY DEF Flight

LEMMA NewFlightType ==
  ASSUME NEW by \in {"timer", "stop"}, NEW batch \in Seq(Events)
  PROVE  [by |-> by, batch |-> batch, age |-> 0] \in Flight
BY BatcherConstants DEF Flight

LEMMA AgedFlightType ==
  ASSUME NEW f \in Flight, f.age < CallbackBound
  PROVE  /\ [f EXCEPT !.age = @ + 1] \in Flight
         /\ [f EXCEPT !.age = @ + 1].age = f.age + 1
         /\ [f EXCEPT !.age = @ + 1].by = f.by
         /\ [f EXCEPT !.age = @ + 1].batch = f.batch
BY BatcherConstants DEF Flight

LEMMA TypeInit == Init => TypeOK
<1> SUFFICES ASSUME Init
             PROVE  TypeOK
  OBVIOUS
<1>1. timer \in BOOLEAN
  BY Zenon DEF Init
<1> QED
  BY <1>1, BatcherConstants, EmptySeq DEF Init, TypeOK

LEMMA TakeType ==
  ASSUME TypeOK, NEW by \in {"timer", "stop"}, Take(by)
  PROVE  events' \in Seq(Events) /\ flights' \subseteq Flight
<1>1. [by |-> by, batch |-> events, age |-> 0] \in Flight
  BY NewFlightType DEF TypeOK
<1> QED
  BY <1>1, EmptySeq DEF Take, TypeOK

LEMMA TimerType == TypeOK /\ [Next]_vars => timer' \in BOOLEAN
BY Zenon DEF Next, Add, Fire, TimerFlush, StopClose, StopFlush, Return, Tick, Take,
             Skip, vars, TypeOK

LEMMA TypeStep == TypeOK /\ [Next]_vars => TypeOK'
<1> SUFFICES ASSUME TypeOK, [Next]_vars
             PROVE  TypeOK'
  OBVIOUS
<1>0. timer' \in BOOLEAN
  BY TimerType
<1>1. ASSUME NEW e \in Events, Add(e)
      PROVE  TypeOK'
  <2>1. events' \in Seq(Events) /\ accepted' \in Seq(Events)
    BY <1>1, AppendProperties DEF Add, TypeOK
  <2>2. Len(accepted) \in Nat /\ Len(accepted') = Len(accepted) + 1
    BY <1>1, AppendProperties, LenProperties DEF Add, TypeOK
  <2>3. age' \in 0 .. Window
    BY <1>1, BatcherConstants DEF Add, TypeOK
  <2>4. due' \in 0 .. Len(accepted')
    BY <1>1, <2>2 DEF Add, TypeOK
  <2> QED
    BY <1>0, <1>1, <2>1, <2>3, <2>4 DEF Add, TypeOK
<1>2. CASE Fire
  BY <1>0, <1>2 DEF Fire, TypeOK
<1>3. CASE TimerFlush
  <2>1. expired' \in Nat /\ stop' = stop
    BY <1>3 DEF TimerFlush, TypeOK
  <2>2. CASE Skip
    BY <1>0, <2>1, <2>2 DEF Skip, TypeOK
  <2>3. CASE Take("timer")
    <3>1. events' \in Seq(Events) /\ flights' \subseteq Flight
      BY <2>3, TakeType
    <3> QED
      BY <1>0, <2>1, <2>3, <3>1 DEF Take, TypeOK
  <2> QED
    BY <1>3, <2>2, <2>3 DEF TimerFlush
<1>4. CASE StopClose
  BY <1>0, <1>4, LenProperties DEF StopClose, TypeOK
<1>5. CASE StopFlush
  <2>1. expired' = expired /\ stop' \in {"sending", "returned"}
    BY <1>5 DEF StopFlush
  <2>2. CASE Skip
    BY <1>0, <2>1, <2>2 DEF Skip, TypeOK
  <2>3. CASE Take("stop")
    <3>1. events' \in Seq(Events) /\ flights' \subseteq Flight
      BY <2>3, TakeType
    <3> QED
      BY <1>0, <2>1, <2>3, <3>1 DEF Take, TypeOK
  <2> QED
    BY <1>5, <2>2, <2>3 DEF StopFlush
<1>6. ASSUME NEW f \in flights, Return(f)
      PROVE  TypeOK'
  <2>1. delivered' \in Seq(Events)
    BY <1>6, FlightType, ConcatProperties DEF Return, TypeOK
  <2> QED
    BY <1>0, <1>6, <2>1 DEF Return, TypeOK
<1>7. CASE Tick
  <2>1. flights' \subseteq Flight
    BY <1>7, AgedFlightType DEF Tick, TypeOK
  <2>2. age' \in 0 .. Window
    BY <1>7, BatcherConstants DEF Tick, TypeOK
  <2> QED
    BY <1>0, <1>7, <2>1, <2>2 DEF Tick, TypeOK
<1>8. CASE UNCHANGED vars
  BY <1>8 DEF vars, TypeOK
<1> QED
  BY <1>1, <1>2, <1>3, <1>4, <1>5, <1>6, <1>7, <1>8 DEF Next

\* The variables of the batcher keep their types.
THEOREM TypeCorrect == Spec => []TypeOK
BY TypeInit, TypeStep, PTL DEF Spec

-----------------------------------------------------------------------------
(* No event is stranded: FlushComing is inductive. *)

LEMMA FlushComingStep ==
  TypeOK /\ FlushComing /\ [Next]_vars => FlushComing'
<1> SUFFICES ASSUME TypeOK, FlushComing, [Next]_vars
             PROVE  FlushComing'
  OBVIOUS
<1>1. ASSUME NEW e \in Events, Add(e)
      PROVE  FlushComing'
  <2>1. CASE events = <<>>
    <3>1. Len(events') = 1
      BY <1>1, <2>1, AppendProperties, EmptySeq DEF Add, TypeOK
    <3> QED
      BY <1>1, <3>1 DEF Add, FlushComing
  <2>2. CASE events # <<>>
    BY <1>1, <2>2 DEF Add, FlushComing
  <2> QED
    BY <2>1, <2>2
<1>2. CASE Fire
  BY <1>2 DEF Fire, FlushComing, TypeOK
<1>3. CASE TimerFlush
  BY <1>3 DEF TimerFlush, Take, Skip, FlushComing
<1>4. CASE StopFlush
  BY <1>4 DEF StopFlush, Take, Skip, FlushComing
<1>5. CASE StopClose \/ Tick \/ UNCHANGED vars
  BY <1>5 DEF StopClose, Tick, vars, FlushComing
<1>6. ASSUME NEW f \in flights, Return(f)
      PROVE  FlushComing'
  BY <1>6 DEF Return, FlushComing
<1> QED
  BY <1>1, <1>2, <1>3, <1>4, <1>5, <1>6 DEF Next

\* Whenever the buffer holds an event, a timer runs or a goroutine that will
\* flush it is on its way.
THEOREM NoEventIsStranded == Spec => []FlushComing
<1>1. Init => FlushComing
  BY DEF Init, FlushComing
<1> QED
  BY <1>1, FlushComingStep, TypeInit, TypeStep, PTL DEF Spec

-----------------------------------------------------------------------------
(* Every event added is in one place: the buffer, one running callback, or
   delivered.  This is what the implementation of EventSink rests on. *)

Sending == {Range(f.batch) : f \in flights}
InFlight == UNION Sending

Placed == Range(accepted) = Range(events) \cup InFlight \cup Range(delivered)

Apart ==
  /\ \A f \in flights : f.batch # <<>> /\ Range(f.batch) \cap Range(events) = {}
  /\ \A f, g \in flights : Range(f.batch) \cap Range(g.batch) # {} => f = g

PlaceInv == Placed /\ Apart

LEMMA PlaceInit == Init => PlaceInv
<1> SUFFICES ASSUME Init
             PROVE  PlaceInv
  OBVIOUS
<1>1. Range(events) = {} /\ Range(accepted) = {} /\ Range(delivered) = {}
  BY RangeOfEmpty DEF Init
<1>2. flights = {}
  BY DEF Init
<1> QED
  BY <1>1, <1>2 DEF PlaceInv, Placed, Apart, InFlight, Sending

\* A flush does nothing or takes a buffer that is not empty.
LEMMA FlushCases ==
  ASSUME TimerFlush \/ StopFlush
  PROVE  \/ Skip
         \/ \E by \in {"timer", "stop"} : Take(by) /\ events # <<>>
BY DEF TimerFlush, StopFlush

LEMMA PlaceTake ==
  ASSUME TypeOK, PlaceInv, NEW by \in {"timer", "stop"}, Take(by), events # <<>>
  PROVE  PlaceInv'
<1> DEFINE n == [by |-> by, batch |-> events, age |-> 0]
<1>1. flights' = flights \cup {n} /\ n.batch = events
  BY DEF Take
<1>2. Range(events') = {} /\ accepted' = accepted /\ delivered' = delivered
  BY RangeOfEmpty DEF Take
<1>3. InFlight' = InFlight \cup Range(events)
  BY <1>1 DEF InFlight, Sending
<1>4. Placed'
  BY <1>2, <1>3 DEF PlaceInv, Placed
<1>5. \A f \in flights' : f.batch # <<>> /\ Range(f.batch) \cap Range(events') = {}
  BY <1>1, <1>2 DEF PlaceInv, Apart
<1>6. ASSUME NEW f \in flights', NEW g \in flights',
             Range(f.batch) \cap Range(g.batch) # {}
      PROVE  f = g
  BY <1>1, <1>6 DEF PlaceInv, Apart
<1> QED
  BY <1>4, <1>5, <1>6 DEF PlaceInv, Apart

\* The clock leaves the batches of the flights as they are.
LEMMA TickFlights ==
  ASSUME TypeOK, Tick
  PROVE  /\ \A f \in flights : \E g \in flights' : g.batch = f.batch
         /\ \A g \in flights' : \E f \in flights :
              g = [f EXCEPT !.age = @ + 1] /\ g.batch = f.batch
<1>1. flights' = {[f EXCEPT !.age = @ + 1] : f \in flights}
  BY DEF Tick
<1>2. \A f \in flights : [f EXCEPT !.age = @ + 1].batch = f.batch
  BY AgedFlightType DEF Tick, TypeOK
<1> QED
  BY <1>1, <1>2

LEMMA PlaceStep == TypeOK /\ PlaceInv /\ [Next]_vars => PlaceInv'
<1> SUFFICES ASSUME TypeOK, PlaceInv, [Next]_vars
             PROVE  PlaceInv'
  OBVIOUS
<1>1. ASSUME NEW e \in Events, Add(e)
      PROVE  PlaceInv'
  <2>1. /\ Range(events') = Range(events) \cup {e}
        /\ Range(accepted') = Range(accepted) \cup {e}
    BY <1>1, RangeOfAppend DEF Add, TypeOK
  <2>2. flights' = flights /\ delivered' = delivered /\ e \notin Range(accepted)
    BY <1>1 DEF Add
  <2>3. \A f \in flights : e \notin Range(f.batch)
    BY <2>2 DEF PlaceInv, Placed, InFlight, Sending
  <2>4. Placed'
    BY <2>1, <2>2 DEF PlaceInv, Placed, InFlight, Sending
  <2>5. Apart'
    BY <2>1, <2>2, <2>3 DEF PlaceInv, Apart
  <2> QED
    BY <2>4, <2>5 DEF PlaceInv
<1>2. CASE TimerFlush \/ StopFlush
  <2>1. CASE Skip
    BY <2>1 DEF Skip, PlaceInv, Placed, Apart, InFlight, Sending
  <2> QED
    BY <1>2, <2>1, FlushCases, PlaceTake
<1>3. ASSUME NEW f \in flights, Return(f)
      PROVE  PlaceInv'
  <2>1. Range(delivered') = Range(delivered) \cup Range(f.batch)
    BY <1>3, FlightType, RangeConcatenation DEF Return, TypeOK
  <2>2. flights' = flights \ {f} /\ events' = events /\ accepted' = accepted
    BY <1>3 DEF Return
  <2>3. InFlight = InFlight' \cup Range(f.batch)
    BY <2>2 DEF InFlight, Sending
  <2>4. Placed'
    BY <2>1, <2>2, <2>3 DEF PlaceInv, Placed
  <2>5. Apart'
    BY <2>2 DEF PlaceInv, Apart
  <2> QED
    BY <2>4, <2>5 DEF PlaceInv
<1>4. CASE Tick
  <2>1. events' = events /\ accepted' = accepted /\ delivered' = delivered
    BY <1>4 DEF Tick
  <2>2. InFlight' = InFlight
    BY <1>4, TickFlights DEF InFlight, Sending
  <2>3. Placed'
    BY <2>1, <2>2 DEF PlaceInv, Placed
  <2>4. \A g \in flights' : g.batch # <<>> /\ Range(g.batch) \cap Range(events') = {}
    BY <1>4, <2>1, TickFlights DEF PlaceInv, Apart
  <2>5. ASSUME NEW g \in flights', NEW k \in flights',
               Range(g.batch) \cap Range(k.batch) # {}
        PROVE  g = k
    BY <1>4, <2>5, TickFlights DEF PlaceInv, Apart
  <2> QED
    BY <2>3, <2>4, <2>5 DEF PlaceInv, Apart
<1>5. CASE Fire \/ StopClose \/ UNCHANGED vars
  BY <1>5 DEF Fire, StopClose, vars, PlaceInv, Placed, Apart, InFlight, Sending
<1> QED
  BY <1>1, <1>2, <1>3, <1>4, <1>5 DEF Next

-----------------------------------------------------------------------------
(* The batcher implements EventSink. *)

LEMMA SinkStep ==
  TypeOK /\ PlaceInv /\ [Next]_vars => [Sink!Next]_(Sink!vars)
<1> SUFFICES ASSUME TypeOK, PlaceInv, [Next]_vars
             PROVE  Sink!Next \/ UNCHANGED Sink!vars
  OBVIOUS
<1> USE DEF Sending
<1>1. ASSUME NEW e \in Events, Add(e)
      PROVE  Sink!Next
  <2>1. Range(events') = Range(events) \cup {e}
    BY <1>1, RangeOfAppend DEF Add, TypeOK
  <2>2. flights' = flights /\ delivered' = delivered /\ e \notin Range(accepted)
    BY <1>1 DEF Add
  <2>3. e \notin Range(events) \cup (UNION Sending) \cup Range(delivered)
    BY <2>2 DEF PlaceInv, Placed, InFlight
  <2>4. Sink!Accept(e)
    BY <2>1, <2>2, <2>3 DEF Sink!Accept, Sink!Accepted
  <2> QED
    BY <2>4 DEF Sink!Next
<1>2. CASE TimerFlush \/ StopFlush
  <2>1. CASE Skip
    BY <2>1 DEF Skip, Sink!vars
  <2>2. ASSUME NEW by \in {"timer", "stop"}, Take(by), events # <<>>
        PROVE  Sink!Next
    <3>1. Range(events) # {} /\ Range(events') = {} /\ delivered' = delivered
      BY <2>2, RangeOfNonEmpty, RangeOfEmpty DEF Take, TypeOK
    <3> DEFINE n == [by |-> by, batch |-> events, age |-> 0]
    <3>4. flights' = flights \cup {n} /\ n.batch = events
      BY <2>2 DEF Take
    <3>2. Sending' = Sending \cup {Range(events)}
      BY <3>4
    <3>3. Sink!Take
      BY <3>1, <3>2 DEF Sink!Take
    <3> QED
      BY <3>3 DEF Sink!Next
  <2> QED
    BY <1>2, <2>1, <2>2, FlushCases
<1>3. ASSUME NEW f \in flights, Return(f)
      PROVE  Sink!Next
  <2>1. Range(delivered') = Range(delivered) \cup Range(f.batch)
    BY <1>3, FlightType, RangeConcatenation DEF Return, TypeOK
  <2>2. flights' = flights \ {f} /\ events' = events
    BY <1>3 DEF Return
  <2>3. Range(f.batch) # {}
    BY FlightType, RangeOfNonEmpty DEF PlaceInv, Apart, TypeOK
  <2>4. \A g \in flights : Range(g.batch) = Range(f.batch) => g = f
    BY <2>3 DEF PlaceInv, Apart
  <2>5. Sending' = Sending \ {Range(f.batch)}
    BY <2>2, <2>4
  <2>6. Sink!Deliver(Range(f.batch))
    BY <2>1, <2>2, <2>5 DEF Sink!Deliver
  <2> QED
    BY <2>6 DEF Sink!Next
<1>4. CASE Tick
  <2>1. events' = events /\ delivered' = delivered
    BY <1>4 DEF Tick
  <2>2. Sending' = Sending
    BY <1>4, TickFlights
  <2> QED
    BY <2>1, <2>2 DEF Sink!vars
<1>5. CASE Fire \/ StopClose \/ UNCHANGED vars
  BY <1>5 DEF Fire, StopClose, vars, Sink!vars
<1> QED
  BY <1>1, <1>2, <1>3, <1>4, <1>5 DEF Next

LEMMA Invariants == Spec => [](TypeOK /\ PlaceInv)
BY TypeInit, TypeStep, PlaceInit, PlaceStep, PTL DEF Spec

\* The batcher hands every event it is given to the callback exactly once, in
\* batches of all that it holds.
THEOREM BatcherIsSink == Spec => HandsOverExactlyOnce
<1>1. Init => Sink!Init
  BY RangeOfEmpty DEF Init, Sink!Init
<1> QED
  BY <1>1, SinkStep, Invariants, PTL DEF Spec, HandsOverExactlyOnce, Sink!Spec

-----------------------------------------------------------------------------
(* Stop flushes: what had been added is in the callback that Stop waits for, or
   in one of a timer, or delivered. *)

StopInv ==
  /\ \A f \in flights : f.by = "stop" => stop = "sending"
  /\ \A f, g \in flights : f.by = "stop" /\ g.by = "stop" => f = g
  /\ stop \in {"sending", "returned"} =>
       \A i \in 1 .. due : accepted[i] \in InFlight \cup Range(delivered)

LEMMA DueAccepted ==
  ASSUME TypeOK
  PROVE  \A i \in 1 .. due : i \in 1 .. Len(accepted) /\ accepted[i] \in Range(accepted)
<1>1. \A i \in 1 .. due : i \in 1 .. Len(accepted)
  BY LenProperties DEF TypeOK
<1> QED
  BY <1>1, RangeEquality DEF TypeOK

LEMMA StopStep == TypeOK /\ PlaceInv /\ StopInv /\ [Next]_vars => StopInv'
<1> SUFFICES ASSUME TypeOK, PlaceInv, StopInv, [Next]_vars
             PROVE  StopInv'
  OBVIOUS
<1>1. ASSUME NEW e \in Events, Add(e)
      PROVE  StopInv'
  <2>1. \A i \in 1 .. due : accepted'[i] = accepted[i]
    BY <1>1, DueAccepted, AppendProperties DEF Add, TypeOK
  <2>2. UNCHANGED <<flights, stop, due, delivered>> /\ InFlight' = InFlight
    BY <1>1 DEF Add, InFlight, Sending
  <2> QED
    BY <2>1, <2>2 DEF StopInv
<1>2. CASE TimerFlush
  <2>1. UNCHANGED <<stop, due, delivered, accepted>>
    BY <1>2 DEF TimerFlush, Take, Skip
  <2>2. CASE Skip
    BY <2>1, <2>2 DEF Skip, StopInv, InFlight, Sending
  <2>3. CASE Take("timer")
    <3>1. /\ flights' = flights \cup {[by |-> "timer", batch |-> events, age |-> 0]}
          /\ InFlight \subseteq InFlight'
      BY <2>3 DEF Take, InFlight, Sending
    <3> QED
      BY <2>1, <3>1 DEF StopInv
  <2> QED
    BY <1>2, <2>2, <2>3 DEF TimerFlush
<1>3. CASE StopFlush
  <2>1. stop = "closed" /\ UNCHANGED <<due, delivered, accepted>>
    BY <1>3 DEF StopFlush, Take, Skip
  <2>2. \A f \in flights : f.by # "stop"
    BY <2>1 DEF StopInv
  <2>3. CASE events = <<>> /\ stop' = "returned" /\ Skip
    <3>1. Range(accepted) = InFlight \cup Range(delivered)
      BY <2>3, RangeOfEmpty DEF PlaceInv, Placed
    <3>2. flights' = flights /\ InFlight' = InFlight
      BY <2>3 DEF Skip, InFlight, Sending
    <3> QED
      BY <2>1, <2>2, <3>1, <3>2, DueAccepted DEF StopInv
  <2>4. CASE stop' = "sending" /\ Take("stop")
    <3> DEFINE n == [by |-> "stop", batch |-> events, age |-> 0]
    <3>1. flights' = flights \cup {n} /\ n.by = "stop" /\ n.batch = events
      BY <2>4 DEF Take
    <3>2. InFlight' = InFlight \cup Range(events)
      BY <3>1 DEF InFlight, Sending
    <3>3. Range(accepted) = InFlight' \cup Range(delivered)
      BY <3>2 DEF PlaceInv, Placed
    <3> QED
      BY <2>1, <2>2, <2>4, <3>1, <3>3, DueAccepted DEF StopInv
  <2> QED
    BY <1>3, <2>3, <2>4 DEF StopFlush
<1>4. ASSUME NEW f \in flights, Return(f)
      PROVE  StopInv'
  <2>1. /\ flights' = flights \ {f} /\ UNCHANGED <<due, accepted>>
        /\ stop' = IF f.by = "stop" THEN "returned" ELSE stop
    BY <1>4 DEF Return
  <2>2. Range(delivered') = Range(delivered) \cup Range(f.batch)
    BY <1>4, FlightType, RangeConcatenation DEF Return, TypeOK
  <2>3. InFlight = InFlight' \cup Range(f.batch)
    BY <2>1 DEF InFlight, Sending
  <2>4. stop' \in {"sending", "returned"} => stop \in {"sending", "returned"}
    BY <2>1 DEF StopInv
  <2> QED
    BY <2>1, <2>2, <2>3, <2>4 DEF StopInv
<1>5. CASE Tick
  <2>0. UNCHANGED <<stop, due, accepted, delivered>>
    BY <1>5 DEF Tick
  <2>1. InFlight' = InFlight
    BY <1>5, TickFlights DEF InFlight, Sending
  <2>2. \A g \in flights' : \E f \in flights : g = [f EXCEPT !.age = @ + 1] /\ g.by = f.by
    BY <1>5, AgedFlightType DEF Tick, TypeOK
  <2> QED
    BY <2>0, <2>1, <2>2 DEF StopInv
<1>6. CASE StopClose
  BY <1>6 DEF StopClose, StopInv
<1>7. CASE Fire \/ UNCHANGED vars
  BY <1>7 DEF Fire, vars, StopInv, InFlight, Sending
<1> QED
  BY <1>1, <1>2, <1>3, <1>4, <1>5, <1>6, <1>7 DEF Next

LEMMA StopInvariant == Spec => [](TypeOK /\ PlaceInv /\ StopInv)
<1>1. Init => StopInv
  BY DEF Init, StopInv
<1> QED
  BY <1>1, StopStep, TypeInit, TypeStep, PlaceInit, PlaceStep, PTL DEF Spec

\* When Stop returns, every event added before it was called has been through the
\* callback or is in a batch that the timer flushed.
THEOREM StopFlushesAll == Spec => []StopFlushes
<1>1. TypeOK /\ PlaceInv /\ StopInv => StopFlushes
  BY DEF StopInv, StopFlushes, InFlight, Sending, TypeOK, Flight
<1> QED
  BY <1>1, StopInvariant, PTL

-----------------------------------------------------------------------------
(* Until Stop is called the timer belongs to the batch in the buffer, and its
   goroutine finds that batch and no other. *)

TimerInv ==
  stop = "no" =>
    /\ timer => events # <<>> /\ expired = 0
    /\ expired > 0 => expired = 1 /\ events # <<>> /\ age >= Window

LEMMA TimerStep == TypeOK /\ TimerInv /\ [Next]_vars => TimerInv'
<1> SUFFICES ASSUME TypeOK, TimerInv, [Next]_vars, stop' = "no"
             PROVE  TimerInv'
  BY DEF TimerInv
<1>0. expired \in Nat /\ age \in 0 .. Window /\ Window \in Nat
  BY BatcherConstants DEF TypeOK
<1>1. ASSUME NEW e \in Events, Add(e)
      PROVE  TimerInv'
  <2>1. events' # <<>> /\ (Len(events') = 1 => events = <<>>)
    BY <1>1, AppendProperties, EmptySeq DEF Add, TypeOK
  <2> QED
    BY <1>0, <1>1, <2>1 DEF Add, TimerInv
<1>2. CASE Fire
  BY <1>0, <1>2 DEF Fire, TimerDue, TimerInv
<1>3. CASE TimerFlush
  BY <1>0, <1>3 DEF TimerFlush, Take, Skip, TimerInv
<1>4. CASE StopClose \/ StopFlush
  BY <1>4 DEF StopClose, StopFlush
<1>5. ASSUME NEW f \in flights, Return(f)
      PROVE  TimerInv'
  BY <1>5 DEF Return, TimerInv
<1>6. CASE Tick
  BY <1>0, <1>6 DEF Tick, TimerInv
<1>7. CASE UNCHANGED vars
  BY <1>7 DEF vars, TimerInv
<1> QED
  BY <1>1, <1>2, <1>3, <1>4, <1>5, <1>6, <1>7 DEF Next

LEMMA TimerInvariant == Spec => [](TypeOK /\ TimerInv)
<1>1. Init => TimerInv
  BY DEF Init, TimerInv
<1> QED
  BY <1>1, TimerStep, TypeInit, TypeStep, PTL DEF Spec

\* Until Stop is called a batch is sent only when its window has passed.
THEOREM WindowIsFull == Spec => FullWindow
<1>1. TypeOK /\ TimerInv /\ [Next]_vars
        => [stop = "no" /\ flights' # flights /\ events # <<>> /\ events' = <<>>
              => age >= Window]_vars
  <2> SUFFICES ASSUME TypeOK, TimerInv, Next, stop = "no", events # <<>>, events' = <<>>
               PROVE  age >= Window
    BY DEF vars
  <2>1. ASSUME NEW e \in Events, Add(e)
        PROVE  FALSE
    BY <2>1, AppendProperties DEF Add, TypeOK
  <2>2. CASE TimerFlush
    BY <2>2 DEF TimerFlush, TimerInv
  <2>3. CASE Fire \/ StopClose \/ StopFlush \/ Tick
    BY <2>3 DEF Fire, StopClose, StopFlush, Tick
  <2>4. ASSUME NEW f \in flights, Return(f)
        PROVE  FALSE
    BY <2>4 DEF Return
  <2> QED
    BY <2>1, <2>2, <2>3, <2>4 DEF Next
<1> QED
  BY <1>1, TimerInvariant, PTL DEF Spec, FullWindow

-----------------------------------------------------------------------------
(* While callbacks end within the window: a batch waits for no longer than the
   callback that runs has been running, so the next one comes after it. *)

Short == stop = "no" /\ CallbackBound < Window

OneInv ==
  Short =>
    /\ \A f, g \in flights : f = g
    /\ \A f \in flights : expired = 0 /\ (events # <<>> => age <= f.age)

LEMMA OneStep == TypeOK /\ TimerInv /\ OneInv /\ [Next]_vars => OneInv'
<1> SUFFICES ASSUME TypeOK, TimerInv, OneInv, [Next]_vars, Short'
             PROVE  OneInv'
  BY DEF OneInv
<1>0. /\ expired \in Nat /\ age \in 0 .. Window /\ Window \in Nat /\ CallbackBound \in Nat
      /\ CallbackBound < Window /\ stop' = "no"
      /\ \A f \in flights : f.age \in 0 .. CallbackBound
  BY BatcherConstants, FlightType DEF TypeOK, Short
<1>1. ASSUME NEW e \in Events, Add(e)
      PROVE  OneInv'
  <2>1. Short /\ flights' = flights /\ expired' = expired
    BY <1>0, <1>1 DEF Add, Short
  <2>2. age' = 0 \/ (events # <<>> /\ age' = age)
    BY <1>1, AppendProperties, EmptySeq DEF Add, TypeOK
  <2> QED
    BY <1>0, <2>1, <2>2 DEF OneInv
<1>2. CASE Fire
  <2>1. Short /\ events # <<>> /\ age >= Window /\ flights' = flights
    BY <1>0, <1>2 DEF Fire, TimerDue, TimerInv, Short
  <2>2. flights = {}
    BY <1>0, <2>1 DEF OneInv
  <2> QED
    BY <2>1, <2>2 DEF OneInv
<1>3. CASE TimerFlush
  <2>1. Short /\ expired = 1 /\ events # <<>> /\ flights = {}
    BY <1>0, <1>3 DEF TimerFlush, TimerInv, OneInv, Short
  <2>2. expired' = 0 /\ events' = <<>>
    BY <1>3, <2>1 DEF TimerFlush, Take
  <2>3. flights' = {[by |-> "timer", batch |-> events, age |-> 0]}
    BY <1>3, <2>1 DEF TimerFlush, Take
  <2> QED
    BY <2>2, <2>3 DEF OneInv
<1>4. CASE StopClose \/ StopFlush
  BY <1>0, <1>4 DEF StopClose, StopFlush
<1>5. ASSUME NEW f \in flights, Return(f)
      PROVE  OneInv'
  BY <1>0, <1>5 DEF Return, OneInv, Short
<1>6. CASE Tick
  <2>1. /\ Short /\ UNCHANGED <<events, expired>>
        /\ age' = IF age < Window THEN age + 1 ELSE Window
    BY <1>0, <1>6 DEF Tick, Short
  <2>2. \A g \in flights' : \E f \in flights :
          g = [f EXCEPT !.age = @ + 1] /\ g.age = f.age + 1
    BY <1>6, AgedFlightType DEF Tick, TypeOK
  <2>3. \A g, h \in flights' : g = h
    BY <2>1, <2>2 DEF OneInv
  <2>4. ASSUME NEW g \in flights'
        PROVE  expired' = 0 /\ (events' # <<>> => age' <= g.age)
    <3>1. PICK f \in flights : g.age = f.age + 1
      BY <2>2
    <3> QED
      BY <1>0, <2>1, <3>1 DEF OneInv
  <2> QED
    BY <2>3, <2>4 DEF OneInv
<1>7. CASE UNCHANGED vars
  BY <1>7 DEF vars, OneInv, Short
<1> QED
  BY <1>1, <1>2, <1>3, <1>4, <1>5, <1>6, <1>7 DEF Next

LEMMA OneInvariant == Spec => [](TypeOK /\ TimerInv /\ OneInv)
<1>1. Init => OneInv
  BY DEF Init, OneInv
<1> QED
  BY <1>1, OneStep, TimerInvariant, PTL DEF Spec

\* While callbacks end within the window, one runs at a time until Stop is called.
THEOREM OneCallbackAtATime == Spec => []OneCallback
<1>1. OneInv => OneCallback
  BY DEF OneInv, Short, OneCallback
<1> QED
  BY <1>1, OneInvariant, PTL

-----------------------------------------------------------------------------
(* Order: what was added is what is delivered, then the batch in the callback,
   then the buffer. *)

OrderInv ==
  Short =>
    /\ flights = {} => accepted = delivered \o events
    /\ \A f \in flights : accepted = (delivered \o f.batch) \o events

LEMMA AppendToConcat ==
  ASSUME NEW s \in Seq(Events), NEW t \in Seq(Events), NEW e \in Events
  PROVE  Append(s \o t, e) = s \o Append(t, e)
<1>1. s \o t \in Seq(Events) /\ <<e>> \in Seq(Events)
  BY ConcatProperties
<1>2. Append(s \o t, e) = (s \o t) \o <<e>> /\ Append(t, e) = t \o <<e>>
  BY <1>1, AppendIsConcat
<1> QED
  BY <1>1, <1>2, ConcatAssociative

LEMMA PrefixOfConcat ==
  ASSUME NEW s \in Seq(Events), NEW t \in Seq(Events)
  PROVE  s = SubSeq(s \o t, 1, Len(s))
<1>1. CASE s = <<>>
  <2>1. Len(s) = 0
    BY <1>1, EmptySeq
  <2> QED
    BY <1>1, <2>1, SubSeqEmpty
<1>2. CASE s # <<>>
  <2>1. Len(s) \in Nat /\ Len(s) # 0
    BY <1>2, EmptySeq, LenProperties
  <2>2. 1 \in 1 .. Len(s) /\ Len(s) \in 1 .. Len(s)
    BY <2>1
  <2>3. SubSeq(s \o t, 1, Len(s)) = SubSeq(s, 1, Len(s))
    BY <2>2, SubSeqOfConcat1
  <2> QED
    BY <2>3, SubSeqFull
<1> QED
  BY <1>1, <1>2

LEMMA PrefixOfConcat3 ==
  ASSUME NEW s \in Seq(Events), NEW t \in Seq(Events), NEW u \in Seq(Events)
  PROVE  s = SubSeq((s \o t) \o u, 1, Len(s))
<1>1. t \o u \in Seq(Events)
  BY ConcatProperties
<1>2. (s \o t) \o u = s \o (t \o u)
  BY ConcatAssociative
<1>3. s = SubSeq(s \o (t \o u), 1, Len(s))
  BY <1>1, PrefixOfConcat
<1> QED
  BY <1>2, <1>3

LEMMA OrderStep ==
  TypeOK /\ TimerInv /\ OneInv /\ OrderInv /\ [Next]_vars => OrderInv'
<1> SUFFICES ASSUME TypeOK, TimerInv, OneInv, OrderInv, [Next]_vars, Short'
             PROVE  OrderInv'
  BY DEF OrderInv
<1>0. /\ events \in Seq(Events) /\ delivered \in Seq(Events) /\ expired \in Nat
      /\ \A f \in flights : f.batch \in Seq(Events) /\ delivered \o f.batch \in Seq(Events)
  BY FlightType, ConcatProperties DEF TypeOK
<1>1. ASSUME NEW e \in Events, Add(e)
      PROVE  OrderInv'
  <2>1. /\ Short /\ UNCHANGED <<flights, delivered>>
        /\ events' = Append(events, e) /\ accepted' = Append(accepted, e)
    BY <1>1 DEF Add, Short
  <2>2. flights = {} => accepted' = delivered \o events'
    BY <1>0, <2>1, AppendToConcat DEF OrderInv
  <2>3. \A f \in flights : accepted' = (delivered \o f.batch) \o events'
    BY <1>0, <2>1, AppendToConcat DEF OrderInv
  <2> QED
    BY <2>1, <2>2, <2>3 DEF OrderInv
<1>2. CASE TimerFlush
  <2>1. Short /\ expired > 0 /\ events # <<>> /\ stop = "no"
    BY <1>2 DEF TimerFlush, TimerInv, Short
  <2>2. flights = {}
    BY <1>0, <2>1 DEF OneInv
  <2>3. accepted = delivered \o events
    BY <2>1, <2>2 DEF OrderInv
  <2> DEFINE n == [by |-> "timer", batch |-> events, age |-> 0]
  <2>4. /\ flights' = {n} /\ n.batch = events
        /\ events' = <<>> /\ UNCHANGED <<accepted, delivered>>
    BY <1>2, <2>1, <2>2 DEF TimerFlush, Take
  <2>5. (delivered \o events) \o <<>> = delivered \o events
    BY <1>0, ConcatProperties, ConcatEmptySeq
  <2> QED
    BY <2>3, <2>4, <2>5 DEF OrderInv
<1>3. CASE StopClose \/ StopFlush
  BY <1>3 DEF StopClose, StopFlush, Short
<1>4. ASSUME NEW f \in flights, Return(f)
      PROVE  OrderInv'
  <2>1. /\ Short /\ flights' = flights \ {f} /\ delivered' = delivered \o f.batch
        /\ UNCHANGED <<events, accepted>>
    BY <1>4 DEF Return, Short
  <2>2. flights' = {}
    BY <2>1 DEF OneInv
  <2> QED
    BY <2>1, <2>2 DEF OrderInv
<1>5. CASE Tick
  <2>1. Short /\ UNCHANGED <<events, accepted, delivered>>
    BY <1>5 DEF Tick, Short
  <2> QED
    BY <1>5, <2>1, TickFlights DEF OrderInv
<1>6. CASE Fire \/ UNCHANGED vars
  BY <1>6 DEF Fire, vars, OrderInv, Short
<1> QED
  BY <1>1, <1>2, <1>3, <1>4, <1>5, <1>6 DEF Next

\* Under the same conditions the events reach the callback in the order in which
\* Add took them.
THEOREM EventsInOrder == Spec => []InOrder
<1>1. Init => OrderInv
  <2> SUFFICES ASSUME Init
               PROVE  OrderInv
    OBVIOUS
  <2>1. <<>> \in Seq(Events) /\ <<>> \o <<>> = <<>>
    BY EmptySeq, ConcatEmptySeq
  <2> QED
    BY <2>1 DEF Init, OrderInv
<1>2. TypeOK /\ OrderInv => InOrder
  <2> SUFFICES ASSUME TypeOK, OrderInv, Short
               PROVE  /\ delivered = SubSeq(accepted, 1, Len(delivered))
                      /\ \A f \in flights : delivered \o f.batch =
                           SubSeq(accepted, 1, Len(delivered) + Len(f.batch))
    BY DEF InOrder, Short
  <2>1. events \in Seq(Events) /\ delivered \in Seq(Events)
    BY DEF TypeOK
  <2>2. ASSUME NEW f \in flights
        PROVE  /\ delivered \o f.batch = SubSeq(accepted, 1, Len(delivered) + Len(f.batch))
               /\ delivered = SubSeq(accepted, 1, Len(delivered))
    <3>0. f.batch \in Seq(Events)
      BY FlightType DEF TypeOK
    <3>1. /\ f.batch \in Seq(Events) /\ delivered \o f.batch \in Seq(Events)
          /\ f.batch \o events \in Seq(Events)
          /\ Len(delivered \o f.batch) = Len(delivered) + Len(f.batch)
      BY <2>1, <3>0, ConcatProperties
    <3>2. accepted = (delivered \o f.batch) \o events
      BY DEF OrderInv
    <3>3. delivered \o f.batch = SubSeq(accepted, 1, Len(delivered \o f.batch))
      BY <2>1, <3>1, <3>2, PrefixOfConcat
    <3>4. delivered = SubSeq(accepted, 1, Len(delivered))
      BY <2>1, <3>0, <3>2, PrefixOfConcat3
    <3> QED
      BY <3>1, <3>3, <3>4
  <2>3. flights = {} => delivered = SubSeq(accepted, 1, Len(delivered))
    BY <2>1, PrefixOfConcat DEF OrderInv
  <2> QED
    BY <2>2, <2>3
<1> QED
  BY <1>1, <1>2, OrderStep, OneInvariant, PTL DEF Spec
=============================================================================
