---------------------------- MODULE BatchMessage ----------------------------
(***************************************************************************)
(* What the message about a batch tells (pkg/formatter,                    *)
(* FormatBatchSlackMessage), called by the batch handler of main.go.       *)
(*                                                                         *)
(* The attachments of a message are a set: the code goes through a map.    *)
(* An attachment is about one event, or sums up a group of events.  A      *)
(* group has the places of its events in the batch, whose order its events *)
(* are in.                                                                 *)
(***************************************************************************)
EXTENDS Naturals, Sequences, Functions, FiniteSets

CONSTANTS
  KindOf,        \* kind and event type of each event
  TypeOf,
  SummaryLimit,  \* events of a smart batch beyond which it is summed up: 20
  NamesShown     \* events that a summary names: 10

ASSUME BatchMessageConstants == SummaryLimit \in Nat /\ NamesShown \in Nat

\* What the batch handler passes on of the configuration.
Settings == [mode : STRING, perGroup : Nat, always : Seq(STRING)]

\* Faulty variant: events of a kind are one group.
GroupKeyKind(event) == <<KindOf[event]>>

GroupKey(event) == <<KindOf[event], TypeOf[event]>>

SameGroup(batch, i, j) == GroupKey(batch[i]) = GroupKey(batch[j])

\* The places of the events that start a group: none before has their key.
Starts(batch) ==
  {i \in DOMAIN batch : \A j \in 1 .. i - 1 : ~SameGroup(batch, i, j)}

\* A group has the kind and the type of its first event.
groupEvents(batch) ==
  {[kind |-> KindOf[batch[i]], type |-> TypeOf[batch[i]],
    places |-> {j \in DOMAIN batch : SameGroup(batch, i, j)}] : i \in Starts(batch)}

\* Faulty variant: the limit comes before the types that are always shown.
ShowDetailsLimitFirst(settings, type, count) ==
  \/ settings.mode = "detailed"
  \/ settings.mode = "smart" /\ count <= settings.perGroup

shouldShowDetailsForGroup(settings, type, count) ==
  \/ settings.mode = "detailed"
  \/ type \in Range(settings.always)
  \/ settings.mode = "smart" /\ count <= settings.perGroup

useSummary(batch, settings) ==
  \/ settings.mode = "summary"
  \/ settings.mode = "smart" /\ Len(batch) > SummaryLimit

\* One attachment for each event of a group.
Details(batch, group) ==
  {[event |-> batch[i], kind |-> KindOf[batch[i]], type |-> TypeOf[batch[i]]] :
     i \in group.places}

\* The first n places of a group.
Before(places, i) == {j \in places : j < i}
FirstOf(places, n) == {i \in places : Cardinality(Before(places, i)) < n}

\* Faulty variant: the events that are not named are one too many.
SummaryOffByOne(batch, group) ==
  LET count == Cardinality(group.places)
  IN  [kind |-> group.kind, type |-> group.type, count |-> count,
       named |-> {batch[i] : i \in FirstOf(group.places, NamesShown)},
       others |-> IF count >= NamesShown THEN count - NamesShown + 1 ELSE 0]

\* One for all of them: kind and type of the group, the number of events, the
\* first few by name and, if there are more, how many.
Summary(batch, group) ==
  LET count == Cardinality(group.places)
  IN  [kind |-> group.kind, type |-> group.type, count |-> count,
       named |-> {batch[i] : i \in FirstOf(group.places, NamesShown)},
       others |-> IF count > NamesShown THEN count - NamesShown ELSE 0]

Detailed(batch, settings) ==
  {group \in groupEvents(batch) :
     /\ ~useSummary(batch, settings)
     /\ shouldShowDetailsForGroup(settings, group.type, Cardinality(group.places))}

FormatBatchSlackMessage(batch, settings) ==
  LET detailed == Detailed(batch, settings)
  IN  [total |-> Len(batch),
       details |-> UNION {Details(batch, group) : group \in detailed},
       summaries |-> {Summary(batch, group) : group \in groupEvents(batch) \ detailed}]

-----------------------------------------------------------------------------
(* Properties of a message, stated from what its reader sees *)

Alike(batch, kind, type) ==
  {e \in Range(batch) : KindOf[e] = kind /\ TypeOf[e] = type}

\* A summary is about events of its kind and type, counts all of them, and each is
\* named or one of the others.
SumsUp(s, batch) ==
  LET alike == Alike(batch, s.kind, s.type)
  IN  /\ alike # {} /\ s.count = Cardinality(alike)
      /\ s.named \subseteq alike
      /\ s.count = Cardinality(s.named) + s.others

\* The message accounts for every event of the batch once, under its own kind
\* and type: in an attachment of its own or in the count of a summary, and there
\* by name or among the others.  It has nothing else.
Accounts(message, batch) ==
  /\ message.total = Cardinality(Range(batch))
  /\ \A d \in message.details : d.event \in Range(batch)
  /\ \A s \in message.summaries : SumsUp(s, batch)
  /\ \A e \in Range(batch) :
       LET own == {d \in message.details : d.event = e}
           of == {s \in message.summaries : s.kind = KindOf[e] /\ s.type = TypeOf[e]}
       IN  \/ /\ of = {}
              /\ own = {[event |-> e, kind |-> KindOf[e], type |-> TypeOf[e]]}
           \/ /\ own = {}
              /\ \E s \in of : of = {s} /\ (e \in s.named \/ s.others > 0)

\* "Event types to always show details" (batcher.go:28): they have attachments of
\* their own, however many there are, unless the whole message is a summary.
ShowsAlways(message, batch, settings) ==
  \A e \in Range(batch) :
    /\ TypeOf[e] \in Range(settings.always)
    /\ \/ settings.mode = "detailed"
       \/ settings.mode = "smart" /\ Len(batch) <= SummaryLimit
    => \E d \in message.details : d.event = e
=============================================================================
