---------------------------- MODULE ConfigCheck ----------------------------
(***************************************************************************)
(* What LoadConfig of pkg/config makes of the content of the file.         *)
(*                                                                         *)
(* A content is what os.ReadFile and yaml.Unmarshal find: Missing, when    *)
(* there is no file to read, Garbled, when it does not parse, or a raw     *)
(* configuration, in which a setting that the file leaves out has the zero *)
(* value of its type.  Settings that nothing here depends on (the          *)
(* selectors' names and labels) are left out; module Filter has them.      *)
(*                                                                         *)
(* The integers of the file are machine integers, and so are the durations *)
(* that main makes of them: a time.Duration is an int64 of nanoseconds.    *)
(***************************************************************************)
EXTENDS Integers, Sequences

CONSTANTS
  Missing, Garbled,
  Second,   \* time.Second: a second as a duration, 10^9
  MaxInt    \* the largest int and the largest duration, 2^63 - 1

\* The defaults are machine integers, and so is the default TTL as a duration.
ASSUME ConfigCheckConstants ==
  /\ Second \in Nat \ {0}
  /\ MaxInt \in Nat /\ MaxInt >= 1000 /\ MaxInt >= 300 * Second

MachineInt == -MaxInt - 1 .. MaxInt

Watch == [kind : STRING, triggers : Seq([imageChange : BOOLEAN, envChange : BOOLEAN])]

RawConfig ==
  [namespace : STRING, watches : Seq(Watch), url : STRING, template : STRING,
   dedup : [enabled : BOOLEAN, ttl : MachineInt, size : MachineInt],
   batching : [enabled : BOOLEAN, window : MachineInt, mode : STRING,
               perGroup : MachineInt, total : MachineInt, always : Seq(STRING)]]

\* What an empty file parses to.
ZeroConfig ==
  [namespace |-> "", watches |-> <<>>, url |-> "", template |-> "",
   dedup |-> [enabled |-> FALSE, ttl |-> 0, size |-> 0],
   batching |-> [enabled |-> FALSE, window |-> 0, mode |-> "",
                 perGroup |-> 0, total |-> 0, always |-> <<>>]]

Modes == {"detailed", "summary", "smart"}

-----------------------------------------------------------------------------

ValidWatch(w) ==
  /\ w.kind # ""
  /\ \E i \in DOMAIN w.triggers : w.triggers[i].imageChange \/ w.triggers[i].envChange

ValidBatching(b) == b.enabled => b.window >= 30 /\ b.mode \in Modes \cup {""}

\* Validate finds nothing to refuse.
Valid(c) ==
  /\ c.namespace # ""
  /\ c.watches # <<>> /\ \A i \in DOMAIN c.watches : ValidWatch(c.watches[i])
  /\ c.url # ""
  /\ ValidBatching(c.batching)

\* Faulty variant: < for <=.
DefaultToNegative(value, default) == IF value < 0 THEN default ELSE value

DefaultTo(value, default) == IF value <= 0 THEN default ELSE value

DedupDefaults(d) ==
  IF d.enabled
    THEN [d EXCEPT !.ttl = DefaultTo(@, 300), !.size = DefaultTo(@, 1000)]
    ELSE d

SmartDefaults(b) ==
  [b EXCEPT !.perGroup = DefaultTo(@, 5), !.total = DefaultTo(@, 20),
            !.always = IF @ = <<>> THEN <<"DELETED">> ELSE @]

\* Faulty variant: the mode is set last.
BatchingDefaultsModeLast(b) ==
  IF ~b.enabled THEN b
  ELSE [(IF b.mode = "smart" THEN SmartDefaults(b) ELSE b)
          EXCEPT !.mode = IF @ = "" THEN "smart" ELSE @]

\* The mode is set first: a batching section without one is a smart one, and
\* only a smart one gets the other defaults.
BatchingDefaults(b) ==
  LET moded == [b EXCEPT !.mode = IF @ = "" THEN "smart" ELSE @]
  IN  IF ~b.enabled THEN b
      ELSE IF moded.mode = "smart" THEN SmartDefaults(moded) ELSE moded

\* Validate sets the defaults in place.
WithDefaults(c) ==
  [c EXCEPT !.template = IF @ = "" THEN "default" ELSE @,
            !.dedup = DedupDefaults(@),
            !.batching = BatchingDefaults(@)]

\* LoadConfig succeeds.
Loads(content) ==
  /\ content # Missing /\ content # Garbled
  /\ Valid(content)

-----------------------------------------------------------------------------
(* Durations *)

\* What is left of a result that is not a machine integer.
Wrap(n) == ((n + MaxInt + 1) % (2 * MaxInt + 2)) - MaxInt - 1

\* The TTL that the deduplicator is built on, and the window of the batcher.
TTL(c) == Wrap(c.dedup.ttl * Second)
Window(c) == Wrap(c.batching.window * Second)

\* time.NewTicker takes the TTL; it panics on one that is not positive.
TickerTakes(c) == c.dedup.enabled => TTL(c) > 0

-----------------------------------------------------------------------------
(* Properties *)

\* Both durations are machine integers before they are wrapped, as they are of any
\* number of seconds up to 292 years.  Validate does not ask for it.
Fits(c) ==
  /\ c.dedup.enabled => c.dedup.ttl * Second <= MaxInt
  /\ c.batching.enabled => c.batching.window * Second <= MaxInt

\* What the components are built on (BatcherConstants of module Batcher, and
\* DedupConstants of module Dedup): a deduplicator has a TTL of at least a second
\* and room for an entry, a batcher waits at least 30 s, and a smart batch has
\* limits to go by.
Usable(c) ==
  /\ c.url # "" /\ c.template # ""
  /\ c.dedup.enabled => TTL(c) >= Second /\ c.dedup.size > 0
  /\ c.batching.enabled =>
       /\ Window(c) >= 30 * Second /\ c.batching.mode \in Modes
       /\ c.batching.mode = "smart" =>
            c.batching.perGroup > 0 /\ c.batching.total > 0 /\ c.batching.always # <<>>
=============================================================================
