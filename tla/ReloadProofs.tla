---------------------------- MODULE ReloadProofs ----------------------------
(***************************************************************************)
(* Theorems about hot reload, for any contents, callbacks and size of the  *)
(* queue, and about what LoadConfig makes of any configuration.            *)
(***************************************************************************)
EXTENDS Reload, TLAPS

-----------------------------------------------------------------------------
(* LoadConfig *)

DedupSection == [enabled : BOOLEAN, ttl : MachineInt, size : MachineInt]

BatchingSection ==
  [enabled : BOOLEAN, window : MachineInt, mode : STRING,
   perGroup : MachineInt, total : MachineInt, always : Seq(STRING)]

\* The section once that its mode is set.
ModedSection ==
  [enabled : BOOLEAN, window : MachineInt, mode : STRING \cup {"smart"},
   perGroup : MachineInt, total : MachineInt, always : Seq(STRING)]

\* A duration that is a machine integer is not changed.
LEMMA WrapFits ==
  ASSUME NEW n \in Nat, n <= MaxInt
  PROVE  Wrap(n) = n
<1>1. n + MaxInt + 1 \in Nat /\ 2 * MaxInt + 2 \in Nat \ {0} /\ n + MaxInt + 1 < 2 * MaxInt + 2
  BY ConfigCheckConstants
<1>2. \A a \in Nat, m \in Nat \ {0} : a < m => a % m = a
  BY SMTT(20)
<1>3. (n + MaxInt + 1) % (2 * MaxInt + 2) = n + MaxInt + 1
  BY <1>1, <1>2
<1> QED
  BY <1>3, ConfigCheckConstants DEF Wrap

LEMMA WrapType ==
  ASSUME NEW n \in Int
  PROVE  Wrap(n) \in Int
<1>1. n + MaxInt + 1 \in Int /\ 2 * MaxInt + 2 \in Nat \ {0}
  BY ConfigCheckConstants
<1>2. \A a \in Int, m \in Nat \ {0} : a % m \in Int
  OBVIOUS
<1>3. (n + MaxInt + 1) % (2 * MaxInt + 2) \in Int
  BY <1>1, <1>2
<1> QED
  BY <1>3, ConfigCheckConstants DEF Wrap

\* Of seconds that fit, a duration is what they say, and no less than that of fewer.
LEMMA Seconds ==
  ASSUME NEW n \in Nat, n * Second <= MaxInt, NEW k \in Nat, k <= n
  PROVE  Wrap(n * Second) >= k * Second
<1>1. n * Second \in Nat /\ k * Second <= n * Second
  BY ConfigCheckConstants, SMTT(20)
<1> QED
  BY <1>1, WrapFits, ConfigCheckConstants

LEMMA DedupDefaultsUsable ==
  ASSUME NEW d \in DedupSection
  PROVE  DedupDefaults(d).enabled =>
           /\ DedupDefaults(d).ttl \in Nat \ {0}
           /\ DedupDefaults(d).size > 0
<1>1. CASE d.enabled
  <2> DEFINE e == [d EXCEPT !.ttl = DefaultTo(@, 300), !.size = DefaultTo(@, 1000)]
  <2>1. DedupDefaults(d) = e
    BY <1>1 DEF DedupDefaults
  <2>2. e.ttl = DefaultTo(d.ttl, 300) /\ e.size = DefaultTo(d.size, 1000)
    BY DEF DedupSection
  <2>3. d.ttl \in Int /\ d.size \in Int
    BY DEF DedupSection, MachineInt
  <2> HIDE DEF e
  <2> QED
    BY <2>1, <2>2, <2>3 DEF DefaultTo
<1>2. CASE ~d.enabled
  BY <1>2 DEF DedupDefaults
<1> QED
  BY <1>1, <1>2

LEMMA SmartDefaultsUsable ==
  ASSUME NEW b \in ModedSection
  PROVE  LET s == SmartDefaults(b)
         IN  /\ s.window = b.window /\ s.mode = b.mode
             /\ s.perGroup > 0 /\ s.total > 0 /\ s.always # <<>>
<1> DEFINE s == SmartDefaults(b)
<1>1. /\ s.window = b.window /\ s.mode = b.mode
      /\ s.perGroup = DefaultTo(b.perGroup, 5) /\ s.total = DefaultTo(b.total, 20)
      /\ s.always = IF b.always = <<>> THEN <<"DELETED">> ELSE b.always
  BY DEF SmartDefaults, ModedSection
<1>2. b.perGroup \in Int /\ b.total \in Int
  BY DEF ModedSection, MachineInt
<1>3. <<"DELETED">> # <<>>
  OBVIOUS
<1> HIDE DEF s
<1>4. /\ s.window = b.window /\ s.mode = b.mode
      /\ s.perGroup > 0 /\ s.total > 0 /\ s.always # <<>>
  BY <1>1, <1>2, <1>3 DEF DefaultTo
<1> QED
  BY <1>4 DEF s

LEMMA BatchingDefaultsUsable ==
  ASSUME NEW b \in BatchingSection, ValidBatching(b)
  PROVE  LET s == BatchingDefaults(b)
         IN  s.enabled =>
               /\ s.window \in Nat /\ s.window >= 30 /\ s.mode \in Modes
               /\ s.mode = "smart" => s.perGroup > 0 /\ s.total > 0 /\ s.always # <<>>
<1> DEFINE moded == [b EXCEPT !.mode = IF @ = "" THEN "smart" ELSE @]
<1>0. (IF b.mode = "" THEN "smart" ELSE b.mode) \in STRING \cup {"smart"}
  BY DEF BatchingSection
<1>1. /\ moded \in ModedSection
      /\ moded.window = b.window
      /\ moded.mode = IF b.mode = "" THEN "smart" ELSE b.mode
  BY <1>0 DEF BatchingSection, ModedSection
<1>2. BatchingDefaults(b) = IF ~b.enabled THEN b
                            ELSE IF moded.mode = "smart" THEN SmartDefaults(moded) ELSE moded
  BY DEF BatchingDefaults
<1>3. b.enabled => b.window \in Nat /\ b.window >= 30 /\ b.mode \in Modes \cup {""}
  <2>1. b.window \in MachineInt
    BY DEF BatchingSection
  <2>2. b.window \in Int
    BY <2>1, ConfigCheckConstants DEF MachineInt
  <2>3. b.enabled => b.window >= 30 /\ b.mode \in Modes \cup {""}
    BY DEF ValidBatching
  <2>4. b.window >= 30 => b.window \in Nat
    BY <2>2
  <2> QED
    BY <2>3, <2>4
<1>4. "smart" \in Modes
  BY DEF Modes
<1> HIDE DEF moded
<1>5. CASE ~b.enabled
  BY <1>2, <1>5
<1>6. CASE b.enabled /\ moded.mode = "smart"
  BY <1>1, <1>2, <1>3, <1>4, <1>6, SmartDefaultsUsable
<1>7. CASE b.enabled /\ moded.mode # "smart"
  BY <1>1, <1>2, <1>3, <1>4, <1>7
<1>8. b.enabled \in BOOLEAN
  BY DEF BatchingSection
<1> QED
  BY <1>5, <1>6, <1>7, <1>8

\* A configuration that Validate accepts has, with its defaults, what the
\* deduplicator, the batcher and the formatter are built on, if its seconds fit a
\* duration.
THEOREM AcceptedIsUsable ==
  \A c \in RawConfig :
    Valid(c) /\ Fits(WithDefaults(c)) => Usable(WithDefaults(c))
<1> SUFFICES ASSUME NEW c \in RawConfig, Valid(c), Fits(WithDefaults(c))
             PROVE  Usable(WithDefaults(c))
  OBVIOUS
<1> DEFINE u == WithDefaults(c)
<1>1. c.dedup \in DedupSection /\ c.batching \in BatchingSection
  BY DEF RawConfig, DedupSection, BatchingSection
<1>2. /\ u.url = c.url
      /\ u.template = IF c.template = "" THEN "default" ELSE c.template
      /\ u.dedup = DedupDefaults(c.dedup)
      /\ u.batching = BatchingDefaults(c.batching)
  BY DEF WithDefaults, RawConfig
<1>3. c.url # "" /\ ValidBatching(c.batching)
  BY DEF Valid
<1> HIDE DEF u
<1>4. u.dedup.enabled => u.dedup.ttl \in Nat \ {0} /\ u.dedup.size > 0
  BY <1>1, <1>2, DedupDefaultsUsable
<1>5. u.batching.enabled =>
        /\ u.batching.window \in Nat /\ u.batching.window >= 30
        /\ u.batching.mode \in Modes
        /\ u.batching.mode = "smart" =>
             u.batching.perGroup > 0 /\ u.batching.total > 0 /\ u.batching.always # <<>>
  BY <1>1, <1>2, <1>3, BatchingDefaultsUsable
<1>6. /\ u.dedup.enabled => u.dedup.ttl * Second <= MaxInt
      /\ u.batching.enabled => u.batching.window * Second <= MaxInt
  BY DEF Fits, u
<1>7. u.dedup.enabled => TTL(u) >= Second
  <2> SUFFICES ASSUME u.dedup.enabled
               PROVE  TTL(u) >= Second
    OBVIOUS
  <2>1. Wrap(u.dedup.ttl * Second) >= 1 * Second
    BY <1>4, <1>6, Seconds
  <2> QED
    BY <2>1, ConfigCheckConstants DEF TTL
<1>8. u.batching.enabled => Window(u) >= 30 * Second
  BY <1>5, <1>6, Seconds DEF Window
<1>9. Usable(u)
  BY <1>2, <1>3, <1>4, <1>5, <1>7, <1>8 DEF Usable
<1> QED
  BY <1>9 DEF u

-----------------------------------------------------------------------------
(* Type correctness *)

Entry == Event \cup {Overflow}

\* The queue is longer than QueueSize only by an overflow at its end.
QueueInv == Len(queue) = QueueSize + 1 => queue[Len(queue)] = Overflow

TypeInv == TypeOK /\ QueueInv

LEMMA TypeInit == Init => TypeInv
<1> SUFFICES ASSUME Init
             PROVE  TypeInv
  OBVIOUS
<1>1. PICK c \in Contents : versions = <<c>>
  BY DEF Init
<1>2. versions \in Seq(Contents) /\ Len(versions) = 1 /\ versions # <<>>
  BY <1>1
<1>3. /\ queue \in Seq(Entry) /\ Len(queue) = 0
      /\ Len(queue) <= QueueSize + 1 /\ Len(queue) # QueueSize + 1
  BY ReloadConstants DEF Init
<1>4. next \in Callbacks /\ loaded \in 1 .. Len(versions)
  BY <1>2, ReloadConstants DEF Init, Callbacks
<1>5. applied \in [Callbacks -> 1 .. Len(versions)]
  BY <1>2 DEF Init
<1>6. doomed \in BOOLEAN
  BY DEF Init, TickerTakes
<1>7. TypeOK
  BY <1>2, <1>3, <1>4, <1>5, <1>6 DEF Init, TypeOK, Entry
<1> QED
  BY <1>3, <1>7 DEF TypeInv, QueueInv

\* An event that finds room is in the queue afterwards, and nothing is lost.
LEMMA EnqueueType ==
  ASSUME TypeInv, NEW event \in Event, Enqueue(event)
  PROVE  /\ queue' \in Seq(Entry) /\ Len(queue') <= QueueSize + 1 /\ QueueInv'
         /\ \A i \in 1 .. Len(queue) : i \in 1 .. Len(queue') /\ queue'[i] = queue[i]
         /\ Watching /\ HasRoom => \E i \in 1 .. Len(queue') : queue'[i] = event
<1>1. /\ queue \in Seq(Entry) /\ Len(queue) \in Nat /\ Len(queue) <= QueueSize + 1
      /\ QueueSize \in Nat \ {0} /\ event \in Entry /\ Overflow \in Entry
  BY ReloadConstants DEF TypeInv, TypeOK, Entry
<1>2. ASSUME NEW entry \in Entry, queue' = Append(queue, entry)
      PROVE  /\ queue' \in Seq(Entry) /\ Len(queue') = Len(queue) + 1
             /\ queue'[Len(queue')] = entry
             /\ \A i \in 1 .. Len(queue) : i \in 1 .. Len(queue') /\ queue'[i] = queue[i]
  BY <1>1, <1>2
<1>3. CASE ~Watching \/ (queue # <<>> /\ queue[Len(queue)] = event /\ UNCHANGED queue)
  <2>1. UNCHANGED queue
    BY <1>3 DEF Enqueue
  <2>2. Watching => Len(queue) \in 1 .. Len(queue) /\ queue[Len(queue)] = event
    BY <1>1, <1>3
  <2> QED
    BY <1>1, <2>1, <2>2 DEF TypeInv, QueueInv
<1>4. CASE Watching /\ HasRoom /\ queue' = Append(queue, event)
  <2>1. Len(queue) < QueueSize
    BY <1>4 DEF HasRoom
  <2>2. Len(queue') \in 1 .. Len(queue') /\ queue'[Len(queue')] = event
    BY <1>1, <1>2, <1>4
  <2> QED
    BY <1>1, <1>2, <1>4, <2>1, <2>2 DEF QueueInv
<1>5. CASE Watching /\ ~HasRoom
  <2>1. ~(Len(queue) < QueueSize)
    BY <1>5 DEF HasRoom
  <2>2. CASE queue[Len(queue)] = Overflow
    <3>1. queue' = queue
      BY <1>5, <2>2 DEF Enqueue
    <3> QED
      BY <1>1, <1>5, <3>1 DEF TypeInv, QueueInv
  <2>3. CASE queue[Len(queue)] # Overflow
    <3>1. queue' = Append(queue, Overflow)
      BY <1>5, <2>3 DEF Enqueue
    <3>2. Len(queue) = QueueSize
      BY <1>1, <2>1, <2>3 DEF TypeInv, QueueInv
    <3> QED
      BY <1>1, <1>2, <1>5, <3>1, <3>2 DEF QueueInv
  <2> QED
    BY <2>2, <2>3
<1> QED
  BY <1>3, <1>4, <1>5 DEF Enqueue

\* A change adds a version and leaves the earlier ones alone.
LEMMA ChangeType ==
  ASSUME TypeInv, NEW c \in Contents, NEW name \in {"config", "..data", "other"},
         NEW op \in {"Write", "Create", "Remove"}, Change(c, name, op)
  PROVE  /\ versions' \in Seq(Contents) /\ Len(versions') = Len(versions) + 1
         /\ versions'[Len(versions')] = c
         /\ \A i \in 1 .. Len(versions) : versions'[i] = versions[i]
         /\ Enqueue([name |-> name, op |-> op]) /\ [name |-> name, op |-> op] \in Event
         /\ announced' = (Watching /\ (HasRoom \/ WillLook)) /\ announced' \in BOOLEAN
         /\ UNCHANGED <<loopVars, stopped>>
<1>1. versions \in Seq(Contents) /\ versions' = Append(versions, c)
  BY DEF TypeInv, TypeOK, Change
<1>2. /\ versions' \in Seq(Contents) /\ Len(versions') = Len(versions) + 1
      /\ versions'[Len(versions')] = c
      /\ \A i \in 1 .. Len(versions) : versions'[i] = versions[i]
  BY <1>1
<1>3. announced' = (Watching /\ (HasRoom \/ WillLook))
  BY DEF Change
<1>4. announced' \in BOOLEAN
  BY <1>3, Zenon
<1>5. [name |-> name, op |-> op] \in Event
  BY DEF Event
<1> QED
  BY <1>2, <1>3, <1>4, <1>5 DEF Change

\* Every change of the file is one of these.
FileChange ==
  \E c \in Contents, name \in {"config", "..data", "other"},
     op \in {"Write", "Create", "Remove"} :
    /\ Change(c, name, op)
    /\ Volume = "plain" => name = "config"
    /\ op = "Remove" => c = Missing

LEMMA WriterCases ==
  ASSUME TypeInv, Writers
  PROVE  (FileChange /\ writing' \in Contents \cup {NoWrite}) \/ OtherFile
<1>1. writing \in Contents \cup {NoWrite} /\ Missing \in Contents
  BY ReloadConstants DEF TypeInv, TypeOK
<1>2. ASSUME NEW c \in Contents, WriteStart(c)
      PROVE  FileChange /\ writing' \in Contents \cup {NoWrite}
  <2>1. PICK part \in Prefixes[c] :
          Change(part, "config", IF File = Missing THEN "Create" ELSE "Write")
    BY <1>2 DEF WriteStart
  <2>2. part \in Contents
    BY ReloadConstants
  <2> QED
    BY <1>2, <2>1, <2>2 DEF WriteStart, FileChange
<1>3. ASSUME NEW c \in Contents, Replace(c)
      PROVE  FileChange /\ writing' \in Contents \cup {NoWrite}
  BY <1>1, <1>3 DEF Replace, FileChange
<1>4. CASE WriteEnd
  BY <1>1, <1>4 DEF WriteEnd, FileChange
<1>5. CASE Remove
  BY <1>1, <1>5 DEF Remove, FileChange
<1> QED
  BY <1>2, <1>3, <1>4, <1>5 DEF Writers

LEMMA TypeStep == TypeInv /\ [Next]_vars => TypeInv'
<1> SUFFICES ASSUME TypeInv, [Next]_vars
             PROVE  TypeInv'
  OBVIOUS
<1> USE DEF fileVars, loopVars
<1>1. /\ versions \in Seq(Contents) /\ Len(versions) \in Nat \ {0}
      /\ queue \in Seq(Entry) /\ Len(queue) \in Nat
      /\ NumCallbacks \in Nat \ {0}
  BY ReloadConstants DEF TypeInv, TypeOK, Entry
<1>2. CASE FileChange /\ writing' \in Contents \cup {NoWrite}
  <2>1. PICK c \in Contents, name \in {"config", "..data", "other"},
             op \in {"Write", "Create", "Remove"} : Change(c, name, op)
    BY <1>2 DEF FileChange
  <2>2. /\ versions' \in Seq(Contents) /\ Len(versions') = Len(versions) + 1
        /\ announced' \in BOOLEAN /\ UNCHANGED <<loopVars, stopped>>
        /\ queue' \in Seq(Entry) /\ Len(queue') <= QueueSize + 1 /\ QueueInv'
    BY <2>1, ChangeType, EnqueueType
  <2>3. versions' # <<>> /\ 1 .. Len(versions) \subseteq 1 .. Len(versions')
    BY <1>1, <2>2
  <2> QED
    BY <1>2, <2>2, <2>3 DEF TypeInv, TypeOK, Entry
<1>3. CASE OtherFile
  <2>1. [name |-> "other", op |-> "Write"] \in Event
    BY DEF Event
  <2>2. queue' \in Seq(Entry) /\ Len(queue') <= QueueSize + 1 /\ QueueInv'
    BY <1>3, <2>1, EnqueueType DEF OtherFile
  <2> QED
    BY <1>3, <2>2 DEF OtherFile, TypeInv, TypeOK, Entry
<1>4. CASE NewConfigWatcher \/ Start \/ Stop \/ Exit \/ TickerPanics
  BY <1>4 DEF NewConfigWatcher, Start, Stop, Exit, TickerPanics, TypeInv, TypeOK, QueueInv
<1>5. CASE Take
  <2>1. queue' = Tail(queue) /\ queue # <<>>
    BY <1>5 DEF Take
  <2>2. queue' \in Seq(Entry) /\ Len(queue') = Len(queue) - 1
    BY <1>1, <2>1
  <2>3. Len(queue') <= QueueSize
    BY <1>1, <2>2, ReloadConstants DEF TypeInv, TypeOK
  <2>4. Len(queue') # QueueSize + 1 /\ Len(queue') <= QueueSize + 1
    BY <1>1, <2>2, <2>3, ReloadConstants
  <2>5. loop' \in {"select", "load"}
    BY <1>5 DEF Take
  <2> QED
    BY <1>5, <2>2, <2>4, <2>5 DEF Take, TypeInv, TypeOK, QueueInv, Entry
<1>6. CASE Load
  <2>1. 1 \in Callbacks /\ Len(versions) \in 1 .. Len(versions)
    BY <1>1 DEF Callbacks
  <2> QED
    BY <1>6, <2>1 DEF Load, TypeInv, TypeOK, QueueInv
<1>7. CASE Call
  <2>1. next # NumCallbacks => next + 1 \in Callbacks
    BY <1>1 DEF TypeInv, TypeOK, Callbacks
  <2>2. applied' \in [Callbacks -> 1 .. Len(versions)] /\ doomed' \in BOOLEAN
    BY <1>7 DEF Call, Takes, TickerTakes, TypeInv, TypeOK
  <2> QED
    BY <1>7, <2>1, <2>2 DEF Call, TypeInv, TypeOK, QueueInv
<1>8. CASE UNCHANGED vars
  BY <1>8 DEF vars, TypeInv, TypeOK, QueueInv
<1> QED
  BY <1>2, <1>3, <1>4, <1>5, <1>6, <1>7, <1>8, WriterCases DEF Next

\* The variables keep their types; in particular a callback that is called exists,
\* and what it takes is a version of the file.
THEOREM TypeCorrect == Spec => []TypeOK
<1>1. TypeInv => TypeOK
  BY DEF TypeInv
<1> QED
  BY <1>1, TypeInit, TypeStep, PTL DEF Spec

-----------------------------------------------------------------------------
(* What is in effect *)

\* What is loaded loads, no callback is ahead of it or uses what it refuses, and
\* the callbacks that have had their turn have taken it.
EffectInv ==
  /\ Loads(versions[loaded])
  /\ \A cb \in Callbacks : applied[cb] <= loaded /\ versions[applied[cb]] \in Accepts[cb]
  /\ \A cb \in Callbacks :
       loop \notin {"call", "panicked"} \/ (loop = "call" /\ cb < next) =>
         versions[loaded] \in Refused[cb] \/ applied[cb] = loaded

LEMMA EffectInit == Init => EffectInv
<1> SUFFICES ASSUME Init
             PROVE  EffectInv
  OBVIOUS
<1>1. PICK c \in Contents : versions = <<c>> /\ \A cb \in Callbacks : c \in Accepts[cb]
  BY DEF Init
<1>2. 1 \in Callbacks
  BY ReloadConstants DEF Callbacks
<1>3. versions[1] = c /\ Loads(c)
  BY <1>1, <1>2 DEF Accepts
<1>4. loaded = 1 /\ \A cb \in Callbacks : applied[cb] = 1
  BY DEF Init
<1> QED
  BY <1>1, <1>3, <1>4 DEF EffectInv

LEMMA EffectStep == TypeInv /\ EffectInv /\ [Next]_vars => EffectInv'
<1> SUFFICES ASSUME TypeInv, EffectInv, [Next]_vars
             PROVE  EffectInv'
  OBVIOUS
<1> USE DEF fileVars, loopVars
<1>1. /\ versions \in Seq(Contents) /\ Len(versions) \in Nat \ {0}
      /\ loaded \in 1 .. Len(versions) /\ applied \in [Callbacks -> 1 .. Len(versions)]
      /\ NumCallbacks \in Nat \ {0} /\ next \in Callbacks
  BY ReloadConstants DEF TypeInv, TypeOK
<1>2. CASE FileChange
  <2>1. /\ \A i \in 1 .. Len(versions) : versions'[i] = versions[i]
        /\ UNCHANGED loopVars
    BY <1>2, ChangeType DEF FileChange
  <2>2. /\ versions'[loaded] = versions[loaded]
        /\ \A cb \in Callbacks : versions'[applied[cb]] = versions[applied[cb]]
    BY <1>1, <2>1
  <2> QED
    BY <2>1, <2>2 DEF EffectInv
<1>3. CASE OtherFile \/ NewConfigWatcher \/ Start \/ Take \/ Stop \/ Exit \/ TickerPanics
  <2>1. /\ UNCHANGED <<versions, next, loaded, applied>>
        /\ \/ loop' = "panicked" \/ UNCHANGED loop
           \/ loop \notin {"call", "panicked"} /\ loop' # "call"
    BY <1>3 DEF OtherFile, NewConfigWatcher, Start, Take, Stop, Exit, TickerPanics
  <2> QED
    BY <2>1 DEF EffectInv
<1>4. CASE Load /\ Loads(File)
  <2>1. /\ loaded' = Len(versions) /\ next' = 1 /\ loop' = "call"
        /\ UNCHANGED <<versions, applied>>
    BY <1>4 DEF Load
  <2>2. \A cb \in Callbacks : ~(cb < next')
    BY <2>1 DEF Callbacks
  <2>3. \A cb \in Callbacks : applied[cb] <= Len(versions)
    BY <1>1
  <2> QED
    BY <1>4, <2>1, <2>2, <2>3 DEF EffectInv, File
<1>5. CASE Load /\ ~Loads(File)
  <2>1. UNCHANGED <<versions, applied, loaded, next>> /\ loop = "load"
    BY <1>5 DEF Load
  <2> QED
    BY <2>1 DEF EffectInv
<1>6. CASE Call
  <2>1. UNCHANGED <<versions, loaded>>
    BY <1>6 DEF Call
  <2>2. versions[loaded] \in Contents
    BY <1>1
  <2>3. versions[loaded] \in Refused[next] \/ versions[loaded] \in Accepts[next]
    BY <1>1, <2>2 DEF EffectInv, Accepts
  <2>4. /\ \A cb \in Callbacks : cb # next => applied'[cb] = applied[cb]
        /\ \/ versions[loaded] \in Refused[next] /\ applied'[next] = applied[next]
           \/ versions[loaded] \in Accepts[next] /\ applied'[next] = loaded
    BY <1>1, <1>6, <2>3 DEF Call, Takes
  <2>5. \A cb \in Callbacks : applied'[cb] <= loaded' /\ versions'[applied'[cb]] \in Accepts[cb]
    BY <1>1, <2>1, <2>4 DEF EffectInv
  <2>6. /\ loop = "call"
        /\ \A cb \in Callbacks : loop' # "call" \/ cb < next' => cb < next \/ cb = next
    BY <1>1, <1>6 DEF Call, Callbacks
  <2> QED
    BY <2>1, <2>4, <2>5, <2>6 DEF EffectInv
<1>7. CASE UNCHANGED vars
  BY <1>7 DEF vars, EffectInv
<1> QED
  BY <1>2, <1>3, <1>4, <1>5, <1>6, <1>7, WriterCases DEF Next

LEMMA EffectInvariant == Spec => [](TypeInv /\ EffectInv)
  BY TypeInit, TypeStep, EffectInit, EffectStep, PTL DEF Spec

\* What is in effect always satisfies what the components are built on, whatever
\* the file holds or held while it was written, if its seconds fit a duration.
THEOREM EffectIsUsable == Spec => []EffectUsable
<1>1. TypeInv /\ EffectInv => EffectUsable
  <2> SUFFICES ASSUME EffectInv, NEW cb \in Callbacks,
                      Fits(WithDefaults(versions[applied[cb]]))
               PROVE  Usable(WithDefaults(versions[applied[cb]]))
    BY DEF EffectUsable
  <2>1. versions[applied[cb]] \in Contents /\ Loads(versions[applied[cb]])
    BY DEF EffectInv, Accepts
  <2>2. versions[applied[cb]] \in RawConfig /\ Valid(versions[applied[cb]])
    BY <2>1, ReloadConstants DEF Loads
  <2> QED
    BY <2>2, AcceptedIsUsable
<1> QED
  BY <1>1, EffectInvariant, PTL

\* An error of one callback leaves the others the configuration that was loaded.
THEOREM CallbacksAreIndependent == Spec => []CallbacksIndependent
<1>1. TypeInv /\ EffectInv => CallbacksIndependent
  BY DEF EffectInv, CallbacksIndependent
<1> QED
  BY <1>1, EffectInvariant, PTL

-----------------------------------------------------------------------------
(* The ticker *)

\* The file has had a content that was accepted and whose seconds overflow.
HadOverflow ==
  \E v \in 1 .. Len(versions) : Loads(versions[v]) /\ ~Fits(WithDefaults(versions[v]))

PanicInv == (doomed \/ loop = "panicked") => HadOverflow

\* A content that was accepted has a TTL that the ticker takes, if it fits.
LEMMA AcceptedTicks ==
  ASSUME NEW c \in Contents, Loads(c), Fits(WithDefaults(c))
  PROVE  TickerTakes(WithDefaults(c))
<1>1. Usable(WithDefaults(c))
  BY AcceptedIsUsable, ReloadConstants DEF Loads
<1> DEFINE u == WithDefaults(c)
<1>2. u.dedup.enabled => TTL(u) >= Second
  BY <1>1 DEF Usable
<1>3. u.dedup.enabled => TTL(u) \in Int
  <2>1. c \in RawConfig
    BY ReloadConstants DEF Loads
  <2>2. c.dedup \in DedupSection /\ u.dedup = DedupDefaults(c.dedup)
    BY <2>1 DEF RawConfig, DedupSection, WithDefaults
  <2> HIDE DEF u
  <2>3. u.dedup.enabled => u.dedup.ttl * Second \in Int
    BY <2>2, DedupDefaultsUsable, ConfigCheckConstants
  <2> QED
    BY <2>3, WrapType DEF TTL
<1> HIDE DEF u
<1>4. TickerTakes(u)
  BY <1>2, <1>3, ConfigCheckConstants DEF TickerTakes
<1> QED
  BY <1>4 DEF u

\* The process ends in a panic only once that a configuration was accepted whose
\* seconds overflow.
THEOREM OnlyOverflowPanics == Spec => []PanicsOnlyOnOverflow
<1>1. Init => PanicInv
  <2> SUFFICES ASSUME Init, doomed
               PROVE  HadOverflow
    BY DEF Init, PanicInv
  <2>1. PICK c \in Contents :
          /\ versions = <<c>> /\ doomed = ~TickerTakes(WithDefaults(c))
          /\ \A cb \in Callbacks : c \in Accepts[cb]
    BY DEF Init
  <2>2. 1 \in Callbacks
    BY ReloadConstants DEF Callbacks
  <2>3. Loads(c)
    BY <2>1, <2>2 DEF Accepts
  <2>4. 1 \in 1 .. Len(versions) /\ versions[1] = c
    BY <2>1
  <2> QED
    BY <2>1, <2>3, <2>4, AcceptedTicks DEF HadOverflow
<1>2. TypeInv /\ EffectInv /\ PanicInv /\ [Next]_vars => PanicInv'
  <2> SUFFICES ASSUME TypeInv, EffectInv, PanicInv, [Next]_vars
               PROVE  PanicInv'
    OBVIOUS
  <2> USE DEF fileVars, loopVars
  <2>1. /\ versions \in Seq(Contents) /\ Len(versions) \in Nat
        /\ loaded \in 1 .. Len(versions)
    BY DEF TypeInv, TypeOK
  <2>2. CASE FileChange
    <3>1. /\ \A i \in 1 .. Len(versions) : versions'[i] = versions[i]
          /\ Len(versions') = Len(versions) + 1 /\ UNCHANGED loopVars
      BY <2>2, ChangeType DEF FileChange
    <3>2. \A i \in 1 .. Len(versions) : i \in 1 .. Len(versions')
      BY <2>1, <3>1
    <3>3. HadOverflow => HadOverflow'
      BY <3>1, <3>2 DEF HadOverflow
    <3> QED
      BY <3>1, <3>3 DEF PanicInv
  <2>3. CASE Call
    <3>1. versions[loaded] \in Contents /\ Loads(versions[loaded]) /\ UNCHANGED versions
      BY <2>1, <2>3 DEF EffectInv, Call
    <3>2. doomed' => doomed \/ ~TickerTakes(WithDefaults(versions[loaded]))
      BY <2>3 DEF Call, Takes
    <3>3. ~TickerTakes(WithDefaults(versions[loaded])) => HadOverflow
      BY <2>1, <3>1, AcceptedTicks DEF HadOverflow
    <3>4. loop' # "panicked"
      BY <2>3 DEF Call
    <3>5. HadOverflow => HadOverflow'
      BY <3>1 DEF HadOverflow
    <3> QED
      BY <3>2, <3>3, <3>4, <3>5 DEF PanicInv
  <2>4. CASE OtherFile \/ NewConfigWatcher \/ Start \/ Take \/ Load \/ Stop \/ Exit \/ TickerPanics
             \/ UNCHANGED vars
    <3>1. UNCHANGED <<versions, doomed>> /\ (loop' = "panicked" => doomed \/ loop = "panicked")
      BY <2>4 DEF OtherFile, NewConfigWatcher, Start, Take, Load, Stop, Exit, TickerPanics, vars
    <3> QED
      BY <3>1 DEF PanicInv, HadOverflow
  <2> QED
    BY <2>2, <2>3, <2>4, WriterCases DEF Next
<1>3. PanicInv => PanicsOnlyOnOverflow
  BY DEF PanicInv, HadOverflow, PanicsOnlyOnOverflow
<1> QED
  BY <1>1, <1>2, <1>3, EffectInit, EffectStep, TypeInit, TypeStep, PTL DEF Spec

-----------------------------------------------------------------------------
(* No change is forgotten *)

LEMMA NotForgottenStep ==
  TypeInv /\ ChangeNotForgotten /\ [Next]_vars => ChangeNotForgotten'
<1> SUFFICES ASSUME TypeInv, ChangeNotForgotten, [Next]_vars,
                    announced', Loads(File)', loop' \notin {"exited", "panicked"},
                    Volume = "plain"
             PROVE  (loaded = Len(versions))' \/ WillLook'
  BY DEF ChangeNotForgotten
<1> USE DEF fileVars, loopVars
<1> DEFINE Pending == \E i \in 1 .. Len(queue) : ReloadsOn(queue[i])
<1>1. queue \in Seq(Entry) /\ Len(queue) \in Nat
  BY DEF TypeInv, TypeOK, Entry
<1>2. CASE FileChange
  <2>1. PICK c \in Contents, name \in {"config", "..data", "other"},
             op \in {"Write", "Create", "Remove"} :
          Change(c, name, op) /\ name = "config" /\ (op = "Remove" => c = Missing)
    BY <1>2 DEF FileChange
  <2> DEFINE event == [name |-> name, op |-> op]
  <2>2. /\ versions'[Len(versions')] = c /\ Enqueue(event) /\ event \in Event
        /\ Watching /\ (HasRoom \/ WillLook) /\ UNCHANGED loop
    BY <2>1, ChangeType
  <2>3. op # "Remove"
    BY <2>1, <2>2 DEF File, Loads
  <2>4. ReloadsOn(event)
    BY <2>1, <2>3 DEF ReloadsOn
  <2> HIDE DEF event
  <2>5. CASE HasRoom
    <3>1. \E i \in 1 .. Len(queue') : queue'[i] = event
      BY <2>2, <2>5, EnqueueType
    <3> QED
      BY <2>4, <3>1 DEF WillLook
  <2>6. CASE WillLook
    <3>1. \A i \in 1 .. Len(queue) : i \in 1 .. Len(queue') /\ queue'[i] = queue[i]
      BY <2>2, EnqueueType
    <3> QED
      BY <2>2, <2>6, <3>1 DEF WillLook
  <2> QED
    BY <2>2, <2>5, <2>6
<1>3. CASE OtherFile
  <2>1. [name |-> "other", op |-> "Write"] \in Event
    BY DEF Event
  <2>2. \A i \in 1 .. Len(queue) : i \in 1 .. Len(queue') /\ queue'[i] = queue[i]
    BY <1>3, <2>1, EnqueueType DEF OtherFile
  <2>3. Pending => Pending'
    BY <2>2
  <2> QED
    BY <1>3, <2>3 DEF OtherFile, ChangeNotForgotten, File, WillLook
<1>4. CASE NewConfigWatcher \/ Start \/ Stop \/ Exit \/ TickerPanics
  BY <1>4 DEF NewConfigWatcher, Start, Stop, Exit, TickerPanics, ChangeNotForgotten, File, WillLook
<1>5. CASE Take
  <2>1. queue # <<>> /\ queue' = Tail(queue) /\ loop = "select"
    BY <1>5 DEF Take
  <2>2. CASE ReloadsOn(Head(queue))
    BY <1>5, <2>2 DEF Take, WillLook
  <2>3. CASE ~ReloadsOn(Head(queue))
    <3>1. ASSUME NEW i \in 1 .. Len(queue), ReloadsOn(queue[i])
          PROVE  i - 1 \in 1 .. Len(queue') /\ queue'[i - 1] = queue[i]
      <4>1. queue[1] = Head(queue)
        BY <1>1, <2>1
      <4>2. i # 1
        BY <2>3, <3>1, <4>1
      <4> QED
        BY <1>1, <2>1, <4>2
    <3>2. Pending => Pending'
      BY <3>1
    <3> QED
      BY <1>5, <2>1, <3>2 DEF Take, ChangeNotForgotten, File, WillLook
  <2> QED
    BY <2>2, <2>3
<1>6. CASE Load
  BY <1>6 DEF Load, File
<1>7. CASE Call
  BY <1>7 DEF Call, ChangeNotForgotten, File, WillLook
<1>8. CASE UNCHANGED vars
  BY <1>8 DEF vars, ChangeNotForgotten, File, WillLook
<1> QED
  BY <1>2, <1>3, <1>4, <1>5, <1>6, <1>7, <1>8, WriterCases DEF Next

\* A change that had an event, or came when the loop was still to look, is loaded or
\* still to be looked at until the loop ends: no order of events, reads and writes loses it.
THEOREM NoChangeIsForgotten == Spec => []ChangeNotForgotten
<1>1. Init => ChangeNotForgotten
  BY DEF Init, ChangeNotForgotten
<1> QED
  BY <1>1, TypeInit, TypeStep, NotForgottenStep, PTL DEF Spec

-----------------------------------------------------------------------------
(* Refinement *)

\* What the callbacks work with follows the file as ConfigSource says.
THEOREM FollowsTheSource == Spec => FollowsSource
<1>1. Init => Source!Init
  BY DEF Init, Source!Init
<1>2. TypeInv /\ EffectInv /\ [Next]_vars => [Source!Next]_Source!vars
  <2> SUFFICES ASSUME TypeInv, EffectInv, [Next]_vars
               PROVE  [Source!Next]_Source!vars
    OBVIOUS
  <2> USE DEF fileVars, loopVars
  <2>1. CASE FileChange
    BY <2>1 DEF FileChange, Change, Source!Next, Source!Change
  <2>2. CASE UNCHANGED <<versions, applied>>
    BY <2>2 DEF Source!vars
  <2>3. CASE OtherFile \/ NewConfigWatcher \/ Start \/ Take \/ Load \/ Stop \/ Exit \/ TickerPanics
    BY <2>2, <2>3 DEF OtherFile, NewConfigWatcher, Start, Take, Load, Stop, Exit, TickerPanics
  <2>4. CASE Call
    <3>1. /\ versions \in Seq(Contents) /\ loaded \in 1 .. Len(versions)
          /\ applied \in [Callbacks -> 1 .. Len(versions)] /\ next \in Callbacks
          /\ Len(versions) \in Nat
      BY DEF TypeInv, TypeOK
    <3>2. UNCHANGED versions
      BY <2>4 DEF Call
    <3>3. CASE versions[loaded] \in Refused[next] \/ applied[next] = loaded
      <4>1. applied' = applied
        BY <2>4, <3>1, <3>3 DEF Call, Takes
      <4> QED
        BY <2>2, <3>2, <4>1
    <3>4. CASE versions[loaded] \notin Refused[next] /\ applied[next] # loaded
      <4>1. versions[loaded] \in Accepts[next]
        BY <3>1, <3>4 DEF EffectInv, Accepts
      <4>2. applied' = [applied EXCEPT ![next] = loaded]
        BY <2>4, <3>4 DEF Call, Takes
      <4>3. loaded \in applied[next] + 1 .. Len(versions)
        BY <3>1, <3>4 DEF EffectInv
      <4>4. Source!Adopt(next)
        BY <3>2, <4>1, <4>2, <4>3 DEF Source!Adopt
      <4> QED
        BY <3>1, <4>4 DEF Source!Next
    <3> QED
      BY <3>3, <3>4
  <2>5. CASE UNCHANGED vars
    BY <2>2, <2>5 DEF vars
  <2> QED
    BY <2>1, <2>3, <2>4, <2>5, WriterCases DEF Next
<1> QED
  BY <1>1, <1>2, EffectInvariant, PTL DEF Spec, FollowsSource, Source!Spec
=============================================================================
