----------------------- MODULE BatcherMessagesProofs -----------------------
(***************************************************************************)
(* Theorems about the messages: every batch that the batcher makes is told *)
(* of in full, for any events, kinds, types, settings and limits.          *)
(***************************************************************************)
EXTENDS BatcherMessages, BatcherProofs, FiniteSetTheorems, WellFoundedInduction

(* Finite sets of places *)

\* A set of naturals that is not empty has a least element.
LEMMA LeastExists ==
  ASSUME NEW S, S \subseteq Nat, S # {}
  PROVE  \E m \in S : \A i \in S : m <= i
<1>1. \E m \in S : \A i \in S : ~ (<<i, m>> \in OpToRel(<, Nat))
  BY WFMin, NatLessThanWellFounded, Zenon
<1>2. PICK m \in S : \A i \in S : ~ (i < m)
  BY <1>1 DEF OpToRel
<1> QED
  BY <1>2

LEMMA BeforeFinite ==
  ASSUME NEW P, P \subseteq Nat, IsFiniteSet(P), NEW i
  PROVE  /\ Before(P, i) \subseteq P /\ IsFiniteSet(Before(P, i))
         /\ Cardinality(Before(P, i)) \in Nat
         /\ \A S : S \subseteq Before(P, i) => Cardinality(S) <= Cardinality(Before(P, i))
<1>1. Before(P, i) \subseteq P
  BY DEF Before
<1>2. IsFiniteSet(Before(P, i))
  BY <1>1, FS_Subset
<1> QED
  BY <1>1, <1>2, FS_Subset, FS_CardinalityType

LEMMA BeforeGrows ==
  ASSUME NEW P, P \subseteq Nat, NEW i \in P, NEW j \in P, i <= j
  PROVE  Before(P, i) \subseteq Before(P, j)
<1> SUFFICES ASSUME NEW h \in Before(P, i)
             PROVE  h \in Before(P, j)
  OBVIOUS
<1>1. h \in P /\ h < i
  BY DEF Before
<1>2. h \in Nat /\ i \in Nat /\ j \in Nat
  BY <1>1
<1>3. h < j
  BY <1>1, <1>2
<1> QED
  BY <1>1, <1>3 DEF Before

LEMMA FirstOfFinite ==
  ASSUME NEW P, P \subseteq Nat, IsFiniteSet(P), NEW n \in Nat
  PROVE  /\ FirstOf(P, n) \subseteq P /\ IsFiniteSet(FirstOf(P, n))
         /\ Cardinality(FirstOf(P, n)) \in Nat
<1>1. FirstOf(P, n) \subseteq P
  BY DEF FirstOf
<1>2. IsFiniteSet(FirstOf(P, n))
  BY <1>1, FS_Subset
<1> QED
  BY <1>1, <1>2, FS_CardinalityType

\* What comes before the least place that is not among the first n is those.
LEMMA BeforeNext ==
  ASSUME NEW P, P \subseteq Nat, IsFiniteSet(P), NEW n \in Nat,
         NEW m \in P \ FirstOf(P, n), \A i \in P \ FirstOf(P, n) : m <= i
  PROVE  Before(P, m) = FirstOf(P, n)
<1>1. ASSUME NEW j \in Before(P, m)
      PROVE  j \in FirstOf(P, n)
  <2>1. j \in P /\ j < m
    BY DEF Before
  <2> QED
    BY <2>1
<1>2. ASSUME NEW q \in FirstOf(P, n)
      PROVE  q \in Before(P, m)
  <2>1. q \in P /\ Cardinality(Before(P, q)) < n
    BY DEF FirstOf
  <2>2. ~ (Cardinality(Before(P, m)) < n)
    BY DEF FirstOf
  <2>3. ~ (m <= q)
    <3> SUFFICES ASSUME m <= q
                 PROVE  FALSE
      OBVIOUS
    <3>1. Before(P, m) \subseteq Before(P, q)
      BY <2>1, BeforeGrows
    <3>2. Cardinality(Before(P, m)) <= Cardinality(Before(P, q))
      BY <3>1, BeforeFinite
    <3>3. Cardinality(Before(P, m)) \in Nat /\ Cardinality(Before(P, q)) \in Nat
      BY BeforeFinite
    <3> QED
      BY <2>1, <2>2, <3>2, <3>3
  <2> QED
    BY <2>1, <2>3 DEF Before
<1> QED
  BY <1>1, <1>2

\* One place more: the least of those that are not among the first n.
LEMMA FirstOfNext ==
  ASSUME NEW P, P \subseteq Nat, IsFiniteSet(P), NEW n \in Nat, n < Cardinality(P),
         Cardinality(FirstOf(P, n)) = n
  PROVE  Cardinality(FirstOf(P, n + 1)) = n + 1
<1> DEFINE F == FirstOf(P, n)
<1>1. F \subseteq P /\ IsFiniteSet(F) /\ Cardinality(F) = n
  BY FirstOfFinite
<1>2. P \ F # {}
  BY <1>1
<1>3. PICK m \in P \ F : \A i \in P \ F : m <= i
  BY <1>2, LeastExists
<1>4. Before(P, m) = F
  BY <1>3, BeforeNext
<1>5. Cardinality(F \cup {m}) = n + 1
  <2> HIDE DEF F
  <2> QED
    BY <1>1, <1>3, FS_AddElement
<1>6. ASSUME NEW i \in P \ F, i # m
      PROVE  ~ (Cardinality(Before(P, i)) < n + 1)
  <2>1. m < i
    BY <1>3, <1>6
  <2>2. F \cup {m} \subseteq Before(P, i)
    <3>0. m \in P /\ i \in P /\ m <= i
      BY <1>3, <2>1
    <3>1. F \subseteq Before(P, i)
      BY <1>4, <3>0, BeforeGrows
    <3>2. m \in Before(P, i)
      BY <2>1 DEF Before
    <3> QED
      BY <3>1, <3>2
  <2>3. Cardinality(F \cup {m}) <= Cardinality(Before(P, i))
    BY <2>2, BeforeFinite
  <2>4. Cardinality(Before(P, i)) \in Nat
    BY BeforeFinite
  <2> QED
    BY <1>5, <2>3, <2>4
<1>7. ASSUME NEW i \in F
      PROVE  Cardinality(Before(P, i)) < n + 1
  <2>1. Cardinality(Before(P, i)) < n
    BY DEF FirstOf
  <2>2. Cardinality(Before(P, i)) \in Nat
    BY BeforeFinite
  <2> QED
    BY <2>1, <2>2
<1>8. Cardinality(Before(P, m)) < n + 1
  BY <1>1, <1>4
<1>9. FirstOf(P, n + 1) = F \cup {m}
  <2> HIDE DEF F
  <2> QED
    BY <1>1, <1>3, <1>6, <1>7, <1>8 DEF FirstOf
<1> QED
  BY <1>5, <1>9

\* All places are among the first n if there are not more.
LEMMA FirstOfAll ==
  ASSUME NEW P, P \subseteq Nat, IsFiniteSet(P), NEW n \in Nat, Cardinality(P) <= n
  PROVE  FirstOf(P, n) = P
<1> SUFFICES ASSUME NEW i \in P
             PROVE  Cardinality(Before(P, i)) < n
  BY DEF FirstOf
<1>1. Before(P, i) \subseteq P /\ i \notin Before(P, i)
  BY DEF Before
<1>2. /\ IsFiniteSet(Before(P, i)) /\ Cardinality(Before(P, i)) <= Cardinality(P)
      /\ Cardinality(P) = Cardinality(Before(P, i)) => P = Before(P, i)
  BY <1>1, FS_Subset
<1>3. Cardinality(P) \in Nat /\ Cardinality(Before(P, i)) \in Nat
  BY <1>2, FS_CardinalityType
<1> QED
  BY <1>1, <1>2, <1>3

\* The first n places are n, unless there are fewer.
LEMMA FirstOfCount ==
  ASSUME NEW P, P \subseteq Nat, IsFiniteSet(P), NEW n \in Nat, n <= Cardinality(P)
  PROVE  Cardinality(FirstOf(P, n)) = n
<1> DEFINE Wrong == {k \in Nat : k <= Cardinality(P) /\ Cardinality(FirstOf(P, k)) # k}
<1> SUFFICES ASSUME Wrong # {}
             PROVE  FALSE
  OBVIOUS
<1>1. PICK k \in Wrong : \A i \in Wrong : k <= i
  <2> HIDE DEF Wrong
  <2>1. Wrong \subseteq Nat
    BY DEF Wrong
  <2> QED
    BY <2>1, LeastExists
<1>2. Cardinality(P) \in Nat
  BY FS_CardinalityType
<1>3. CASE k = 0
  <2>1. FirstOf(P, 0) = {}
    <3> SUFFICES ASSUME NEW i \in P
                 PROVE  ~ (Cardinality(Before(P, i)) < 0)
      BY DEF FirstOf
    <3>1. Cardinality(Before(P, i)) \in Nat
      BY BeforeFinite
    <3> QED
      BY <3>1
  <2> QED
    BY <1>3, <2>1, FS_EmptySet
<1>4. CASE k # 0
  <2>1. k - 1 \in Nat /\ k - 1 < Cardinality(P) /\ ~ (k <= k - 1)
    BY <1>2, <1>4
  <2>2. k - 1 \notin Wrong
    <3> HIDE DEF Wrong
    <3> QED
      BY <1>1, <2>1
  <2>3. k - 1 <= Cardinality(P)
    BY <1>2, <2>1
  <2>4. Cardinality(FirstOf(P, k - 1)) = k - 1
    BY <2>1, <2>2, <2>3
  <2>5. Cardinality(FirstOf(P, (k - 1) + 1)) = (k - 1) + 1
    BY <2>1, <2>4, FirstOfNext
  <2>6. (k - 1) + 1 = k
    BY <2>1
  <2> QED
    BY <2>5, <2>6
<1> QED
  BY <1>3, <1>4

-----------------------------------------------------------------------------
(* Batches without repetitions *)

Distinct(batch) ==
  \A i, j \in 1 .. Len(batch) : batch[i] = batch[j] => i = j

\* Then a set of places has as many events.
LEMMA PlacesCount ==
  ASSUME NEW batch \in Seq(Events), Distinct(batch), NEW P, P \subseteq 1 .. Len(batch)
  PROVE  /\ P \subseteq Nat /\ IsFiniteSet(P)
         /\ Cardinality({batch[i] : i \in P}) = Cardinality(P)
<1> DEFINE T == {batch[i] : i \in P}
           f == [i \in P |-> batch[i]]
<1>1. Len(batch) \in Nat
  BY LenProperties
<1>2. P \subseteq Nat /\ IsFiniteSet(P)
  <2>1. IsFiniteSet(1 .. Len(batch))
    BY <1>1, FS_Interval
  <2>2. IsFiniteSet(P)
    BY <2>1, FS_Subset
  <2> QED
    BY <1>1, <2>2
<1>3. f \in Bijection(P, T)
  <2>1. f \in [P -> T] /\ \A t \in T : \E i \in P : f[i] = t
    OBVIOUS
  <2>2. \A i, j \in P : f[i] = f[j] => i = j
    BY DEF Distinct
  <2> QED
    BY <2>1, <2>2 DEF Bijection, Injection, Surjection, IsInjective
<1>4. ExistsBijection(P, T)
  BY <1>3 DEF ExistsBijection
<1> HIDE DEF T
<1>5. Cardinality(T) = Cardinality(P)
  BY <1>2, <1>4, FS_Bijection
<1> QED
  BY <1>2, <1>5 DEF T

LEMMA BatchCount ==
  ASSUME NEW batch \in Seq(Events), Distinct(batch)
  PROVE  Cardinality(Range(batch)) = Len(batch)
<1>1. Len(batch) \in Nat
  BY LenProperties
<1>2. Cardinality(1 .. Len(batch)) = Len(batch)
  BY <1>1, FS_Interval
<1>3. Cardinality({batch[i] : i \in 1 .. Len(batch)}) = Cardinality(1 .. Len(batch))
  BY PlacesCount
<1> QED
  BY <1>2, <1>3, RangeEquality

-----------------------------------------------------------------------------
(* Groups *)

PlacesOf(batch, kind, type) ==
  {i \in 1 .. Len(batch) : KindOf[batch[i]] = kind /\ TypeOf[batch[i]] = type}

LEMMA SameGroupMeans ==
  ASSUME NEW batch, NEW i, NEW j
  PROVE  SameGroup(batch, i, j) <=>
           KindOf[batch[i]] = KindOf[batch[j]] /\ TypeOf[batch[i]] = TypeOf[batch[j]]
BY DEF SameGroup, GroupKey

LEMMA DomainOfBatch ==
  ASSUME NEW batch \in Seq(Events)
  PROVE  /\ DOMAIN batch = 1 .. Len(batch) /\ Len(batch) \in Nat
         /\ Range(batch) = {batch[i] : i \in 1 .. Len(batch)}
BY LenProperties, RangeEquality

\* A group has all the events of its kind and type, and one at least.
LEMMA GroupShape ==
  ASSUME NEW batch \in Seq(Events), NEW g \in groupEvents(batch)
  PROVE  /\ g = [kind |-> g.kind, type |-> g.type,
                 places |-> PlacesOf(batch, g.kind, g.type)]
         /\ g.places = PlacesOf(batch, g.kind, g.type)
         /\ g.places # {} /\ g.places \subseteq 1 .. Len(batch)
<1>1. PICK i \in Starts(batch) :
        g = [kind |-> KindOf[batch[i]], type |-> TypeOf[batch[i]],
             places |-> {j \in DOMAIN batch : SameGroup(batch, i, j)}]
  BY DEF groupEvents
<1>2. i \in 1 .. Len(batch)
  BY DomainOfBatch DEF Starts
<1>3. g.kind = KindOf[batch[i]] /\ g.type = TypeOf[batch[i]]
  BY <1>1
<1>4. {j \in DOMAIN batch : SameGroup(batch, i, j)} = PlacesOf(batch, g.kind, g.type)
  BY <1>3, DomainOfBatch, SameGroupMeans DEF PlacesOf
<1>5. i \in PlacesOf(batch, g.kind, g.type)
  BY <1>2, <1>3 DEF PlacesOf
<1> QED
  BY <1>1, <1>3, <1>4, <1>5 DEF PlacesOf

\* A kind and type have one group at most ...
LEMMA GroupUnique ==
  ASSUME NEW batch \in Seq(Events), NEW g \in groupEvents(batch),
         NEW h \in groupEvents(batch), g.kind = h.kind, g.type = h.type
  PROVE  g = h
BY GroupShape

\* ... and one if they have an event: the first of them starts it.
LEMMA GroupExists ==
  ASSUME NEW batch \in Seq(Events), NEW i \in 1 .. Len(batch)
  PROVE  \E g \in groupEvents(batch) :
           g.kind = KindOf[batch[i]] /\ g.type = TypeOf[batch[i]]
<1> DEFINE S == {j \in 1 .. Len(batch) : SameGroup(batch, i, j)}
<1>1. S \subseteq Nat /\ i \in S
  BY SameGroupMeans
<1>2. PICK m \in S : \A j \in S : m <= j
  <2> HIDE DEF S
  <2> QED
    BY <1>1, LeastExists
<1>3. m \in 1 .. Len(batch) /\ SameGroup(batch, i, m)
  OBVIOUS
<1>4. ASSUME NEW j \in 1 .. m - 1, SameGroup(batch, m, j)
      PROVE  FALSE
  <2>1. j \in 1 .. Len(batch) /\ ~ (m <= j)
    BY <1>3, DomainOfBatch
  <2>2. SameGroup(batch, i, j)
    BY <1>3, <1>4, SameGroupMeans
  <2> QED
    BY <1>2, <2>1, <2>2
<1>5. m \in Starts(batch)
  BY <1>3, <1>4, DomainOfBatch DEF Starts
<1> DEFINE g == [kind |-> KindOf[batch[m]], type |-> TypeOf[batch[m]],
                 places |-> {j \in DOMAIN batch : SameGroup(batch, m, j)}]
<1>6. g \in groupEvents(batch)
  BY <1>5 DEF groupEvents
<1>7. g.kind = KindOf[batch[i]] /\ g.type = TypeOf[batch[i]]
  BY <1>3, SameGroupMeans
<1> QED
  BY <1>6, <1>7

\* The events of a group.
LEMMA GroupEvents ==
  ASSUME NEW batch \in Seq(Events), NEW g \in groupEvents(batch)
  PROVE  Alike(batch, g.kind, g.type) = {batch[i] : i \in g.places}
BY GroupShape, DomainOfBatch DEF Alike, PlacesOf

-----------------------------------------------------------------------------
(* Messages *)

\* A summary counts the events of its group and names the first of them; if not all
\* are named there are others.
LEMMA SummaryIsRight ==
  ASSUME NEW batch \in Seq(Events), Distinct(batch), NEW g \in groupEvents(batch)
  PROVE  LET s == Summary(batch, g)
         IN  /\ s.kind = g.kind /\ s.type = g.type
             /\ SumsUp(s, batch)
             /\ \A e \in Alike(batch, g.kind, g.type) : e \in s.named \/ s.others > 0
<1> DEFINE P == g.places
           F == FirstOf(P, NamesShown)
           count == Cardinality(P)
           named == {batch[i] : i \in F}
           others == IF count > NamesShown THEN count - NamesShown ELSE 0
           alike == Alike(batch, g.kind, g.type)
<1> PICK s : s = Summary(batch, g)
  OBVIOUS
<1>1. /\ s.kind = g.kind /\ s.type = g.type
      /\ s.count = count /\ s.named = named /\ s.others = others
  BY DEF Summary
<1>2. P \subseteq 1 .. Len(batch) /\ P # {}
  BY GroupShape
<1>3. P \subseteq Nat /\ IsFiniteSet(P) /\ NamesShown \in Nat /\ count \in Nat
  BY <1>2, PlacesCount, FS_CardinalityType, BatchMessageConstants
<1>4. alike = {batch[i] : i \in P}
  BY GroupEvents
<1>5. Cardinality(alike) = count
  BY <1>2, <1>4, PlacesCount
<1>6. F \subseteq P
  BY DEF FirstOf
<1>7. Cardinality(named) = Cardinality(F)
  <2>1. F \subseteq 1 .. Len(batch)
    BY <1>2, <1>6
  <2> HIDE DEF F
  <2> QED
    BY <2>1, PlacesCount
<1>8. named \subseteq alike /\ alike # {}
  BY <1>2, <1>4, <1>6
<1>9. CASE count > NamesShown
  <2>1. Cardinality(F) = NamesShown
    BY <1>3, <1>9, FirstOfCount
  <2> QED
    BY <1>1, <1>3, <1>5, <1>7, <1>8, <1>9, <2>1 DEF SumsUp
<1>10. CASE ~ (count > NamesShown)
  <2>1. F = P
    BY <1>3, <1>10, FirstOfAll
  <2>2. named = alike /\ others = 0 /\ Cardinality(named) = count
    BY <1>4, <1>5, <1>10, <2>1
  <2> QED
    BY <1>1, <1>3, <1>5, <1>8, <2>2 DEF SumsUp
<1> QED
  BY <1>9, <1>10

\* The message about a batch accounts for each event once.
LEMMA MessageAccounts ==
  ASSUME NEW batch \in Seq(Events), Distinct(batch), NEW settings
  PROVE  Accounts(FormatBatchSlackMessage(batch, settings), batch)
<1> DEFINE message == FormatBatchSlackMessage(batch, settings)
           detailed == Detailed(batch, settings)
<1>1. /\ message.total = Len(batch)
      /\ message.details = UNION {Details(batch, g) : g \in detailed}
      /\ message.summaries = {Summary(batch, g) : g \in groupEvents(batch) \ detailed}
      /\ detailed \subseteq groupEvents(batch)
  BY DEF FormatBatchSlackMessage, Detailed
<1> HIDE DEF message, detailed
<1>2. message.total = Cardinality(Range(batch))
  BY <1>1, BatchCount
<1>3. ASSUME NEW d \in message.details
      PROVE  \E g \in detailed : \E i \in g.places :
               d = [event |-> batch[i], kind |-> KindOf[batch[i]], type |-> TypeOf[batch[i]]]
  BY <1>1 DEF Details
<1>4. ASSUME NEW d \in message.details
      PROVE  d.event \in Range(batch)
  BY <1>1, <1>3, GroupShape, DomainOfBatch
<1>5. ASSUME NEW s \in message.summaries
      PROVE  \E g \in groupEvents(batch) \ detailed :
               s = Summary(batch, g) /\ s.kind = g.kind /\ s.type = g.type /\ SumsUp(s, batch)
  BY <1>1, SummaryIsRight
<1>6. ASSUME NEW e \in Range(batch)
      PROVE  LET own == {d \in message.details : d.event = e}
                 of == {s \in message.summaries :
                          s.kind = KindOf[e] /\ s.type = TypeOf[e]}
             IN  \/ /\ of = {}
                    /\ own = {[event |-> e, kind |-> KindOf[e], type |-> TypeOf[e]]}
                 \/ /\ own = {}
                    /\ \E s \in of : of = {s} /\ (e \in s.named \/ s.others > 0)
  <2> DEFINE own == {d \in message.details : d.event = e}
             of == {s \in message.summaries : s.kind = KindOf[e] /\ s.type = TypeOf[e]}
             detail == [event |-> e, kind |-> KindOf[e], type |-> TypeOf[e]]
  <2>1. PICK i \in 1 .. Len(batch) : e = batch[i]
    BY DomainOfBatch
  <2>2. PICK g \in groupEvents(batch) : g.kind = KindOf[e] /\ g.type = TypeOf[e]
    BY <2>1, GroupExists
  <2>3. \A h \in groupEvents(batch) : h.kind = KindOf[e] /\ h.type = TypeOf[e] => h = g
    BY <2>2, GroupUnique
  <2>4. i \in g.places
    BY <2>1, <2>2, GroupShape DEF PlacesOf
  <2>5. \A h \in groupEvents(batch) : \A j \in h.places :
          h.kind = KindOf[batch[j]] /\ h.type = TypeOf[batch[j]]
    BY GroupShape DEF PlacesOf
  <2>6. CASE g \in detailed
    <3>1. detail \in own
      BY <1>1, <2>1, <2>4, <2>6 DEF Details
    <3>2. \A d \in own : d = detail
      BY <1>3
    <3>3. of = {}
      BY <1>5, <2>3, <2>6
    <3> QED
      BY <3>1, <3>2, <3>3
  <2>7. CASE g \notin detailed
    <3>1. own = {}
      BY <1>1, <1>3, <2>3, <2>5, <2>7
    <3>2. Summary(batch, g) \in of
      BY <1>1, <2>2, <2>7, SummaryIsRight
    <3>3. \A s \in of : s = Summary(batch, g)
      BY <1>5, <2>3
    <3>4. e \in Alike(batch, g.kind, g.type)
      BY <2>2 DEF Alike
    <3>5. e \in Summary(batch, g).named \/ Summary(batch, g).others > 0
      BY <3>4, SummaryIsRight
    <3> QED
      BY <3>1, <3>2, <3>3, <3>5
  <2> QED
    BY <2>6, <2>7
<1> QED
  BY <1>2, <1>4, <1>5, <1>6 DEF Accounts, message

\* Events of the types that are always shown have attachments of their own.
LEMMA MessageShows ==
  ASSUME NEW batch \in Seq(Events), NEW settings
  PROVE  ShowsAlways(FormatBatchSlackMessage(batch, settings), batch, settings)
<1> SUFFICES ASSUME NEW e \in Range(batch), TypeOf[e] \in Range(settings.always),
                    \/ settings.mode = "detailed"
                    \/ settings.mode = "smart" /\ Len(batch) <= SummaryLimit
             PROVE  \E d \in FormatBatchSlackMessage(batch, settings).details :
                      d.event = e
  BY DEF ShowsAlways
<1>1. ~useSummary(batch, settings)
  BY DomainOfBatch, BatchMessageConstants DEF useSummary
<1>2. PICK i \in 1 .. Len(batch) : e = batch[i]
  BY DomainOfBatch
<1>3. PICK g \in groupEvents(batch) : g.kind = KindOf[e] /\ g.type = TypeOf[e]
  BY <1>2, GroupExists
<1>4. g \in Detailed(batch, settings)
  BY <1>1, <1>3 DEF Detailed, shouldShowDetailsForGroup
<1>5. i \in g.places
  BY <1>2, <1>3, GroupShape DEF PlacesOf
<1>6. [event |-> e, kind |-> KindOf[e], type |-> TypeOf[e]] \in Details(batch, g)
  BY <1>2, <1>5 DEF Details
<1> QED
  BY <1>4, <1>6 DEF FormatBatchSlackMessage

-----------------------------------------------------------------------------
(* The batches of the batcher *)

\* No event is twice in the buffer or in a batch.
DistinctInv == Distinct(events) /\ \A f \in flights : Distinct(f.batch)

LEMMA DistinctInit == Init => DistinctInv
<1>1. Distinct(<<>>)
  BY EmptySeq DEF Distinct
<1> QED
  BY <1>1 DEF Init, DistinctInv

LEMMA DistinctAppend ==
  ASSUME NEW batch \in Seq(Events), Distinct(batch), NEW e \in Events, e \notin Range(batch)
  PROVE  Distinct(Append(batch, e))
<1>1. PICK t \in Seq(Events) : t = Append(batch, e)
  BY AppendProperties
<1>2. /\ Len(batch) \in Nat /\ Len(t) = Len(batch) + 1
      /\ \A i \in 1 .. Len(batch) : t[i] = batch[i] /\ t[i] # e
      /\ t[Len(batch) + 1] = e
  BY <1>1, AppendProperties, DomainOfBatch
<1>3. \A i \in 1 .. Len(t) : i \in 1 .. Len(batch) \/ i = Len(batch) + 1
  BY <1>2
<1> QED
  BY <1>1, <1>2, <1>3 DEF Distinct

LEMMA DistinctStep == TypeOK /\ PlaceInv /\ DistinctInv /\ [Next]_vars => DistinctInv'
<1> SUFFICES ASSUME TypeOK, PlaceInv, DistinctInv, [Next]_vars
             PROVE  DistinctInv'
  OBVIOUS
<1>1. ASSUME NEW e \in Events, Add(e)
      PROVE  DistinctInv'
  <2>1. e \notin Range(events) /\ events \in Seq(Events)
    BY <1>1 DEF Add, PlaceInv, Placed, TypeOK
  <2>2. Distinct(events')
    BY <1>1, <2>1, DistinctAppend DEF Add, DistinctInv
  <2> QED
    BY <1>1, <2>2 DEF Add, DistinctInv
<1>2. CASE TimerFlush \/ StopFlush
  <2>1. CASE Skip
    BY <2>1 DEF Skip, DistinctInv
  <2>2. ASSUME NEW by \in {"timer", "stop"}, Take(by)
        PROVE  DistinctInv'
    <3>1. Distinct(events')
      BY <2>2, EmptySeq DEF Take, Distinct
    <3>2. \A f \in flights' : f \in flights \/ f.batch = events
      BY <2>2 DEF Take
    <3> QED
      BY <3>1, <3>2 DEF DistinctInv
  <2> QED
    BY <1>2, <2>1, <2>2, FlushCases
<1>3. ASSUME NEW f \in flights, Return(f)
      PROVE  DistinctInv'
  BY <1>3 DEF Return, DistinctInv
<1>4. CASE Tick
  <2>1. events' = events
    BY <1>4 DEF Tick
  <2>2. \A g \in flights' : \E f \in flights : g.batch = f.batch
    BY <1>4, TickFlights
  <2> QED
    BY <2>1, <2>2 DEF DistinctInv
<1>5. CASE Fire \/ StopClose \/ UNCHANGED vars
  BY <1>5 DEF Fire, StopClose, vars, DistinctInv
<1> QED
  BY <1>1, <1>2, <1>3, <1>4, <1>5 DEF Next

LEMMA DistinctBatches == Spec => [](TypeOK /\ DistinctInv)
BY TypeInit, TypeStep, PlaceInit, PlaceStep, DistinctInit, DistinctStep, PTL DEF Spec

\* Every batch that the callback is called with is told of in full, whatever the
\* configuration, the events and their order: each event in an attachment of its
\* own, or counted once in the summary of its kind and type.
THEOREM EveryEventIsTold == Spec => []EveryEventTold
<1>1. TypeOK /\ DistinctInv => EveryEventTold
  BY FlightType, MessageAccounts DEF TypeOK, DistinctInv, EveryEventTold
<1> QED
  BY <1>1, DistinctBatches, PTL

\* In each, events of the types that are always shown have attachments of their
\* own, unless the message is a summary as a whole.
THEOREM AlwaysShownAreShown == Spec => []AlwaysShown
<1>1. TypeOK => AlwaysShown
  BY FlightType, MessageShows DEF TypeOK, AlwaysShown
<1> QED
  BY <1>1, TypeCorrect, PTL
=============================================================================
