------------------------------- MODULE Reload -------------------------------
(***************************************************************************)
(* Hot reload of the configuration (pkg/reload, set up by cmd/main.go):    *)
(* the directory of the file is watched with inotify, a loop takes the     *)
(* events, loads the file and calls the callbacks in turn.                 *)
(*                                                                         *)
(* The file has other writers: somebody with an editor or a script, or,    *)
(* when the file is in a ConfigMap volume, the kubelet.  Those, and the    *)
(* queue of inotify with the reader of fsnotify, are external; of the      *)
(* events only what the loop looks at is modelled.                         *)
(*                                                                         *)
(* A callback is one step here; module KubeWatcher has initComponents, the *)
(* callback of main.go, step by step.                                      *)
(***************************************************************************)
EXTENDS ConfigCheck

CONSTANTS
  Contents,      \* what the file can hold
  Prefixes,      \* what a content can look like while it is being written
  NumCallbacks,  \* how many callbacks were added
  Refused,       \* the contents that each callback returns an error for
  Volume,        \* "plain" directory, or "projected" from a ConfigMap
  QueueSize,     \* events that the queue of inotify takes
  MaxVersions,   \* bound on the contents that the file has in turn
  NoWrite        \* what is being written when nothing is

Callbacks == 1 .. NumCallbacks

ASSUME ReloadConstants ==
  /\ Contents \subseteq RawConfig \cup {Missing, Garbled}
  /\ Prefixes \in [Contents -> SUBSET Contents]
  /\ NumCallbacks \in Nat \ {0}
  /\ Refused \in [Callbacks -> SUBSET Contents]
  /\ Volume \in {"plain", "projected"}
  /\ QueueSize \in Nat \ {0} /\ MaxVersions \in Nat
  /\ Missing \in Contents /\ NoWrite \notin Contents

VARIABLES
  versions,   \* history: the contents that the file has had; the last is there
  writing,    \* the content that is being written in place, or NoWrite
  queue,      \* the events that the loop has not taken yet
  announced,  \* history: the last change of the file has put an event in queue,
              \* or found the loop about to look at the file anyway
  loop,       \* "off", "watching" (before Start), then watchLoop at "select" or
              \* in reloadConfig at "load" or "call"; "exited"; or "disabled";
              \* "panicked" once the process has ended in a panic
  next,       \* the next callback
  loaded,     \* the version that was last loaded
  applied,    \* history: the version that each callback last took
  doomed,     \* a cleanup goroutine has started whose ticker does not take the TTL
  stopped     \* stopCh is closed

fileVars == <<versions, writing, announced>>
loopVars == <<loop, next, loaded, applied, doomed>>
vars == <<fileVars, queue, loopVars, stopped>>

File == versions[Len(versions)]

\* The contents that a callback gets to see and takes.
Accepts == [cb \in Callbacks |-> {c \in Contents : Loads(c) /\ c \notin Refused[cb]}]

\* main.go loads the file, initialises the components and stops the process if
\* either fails.
Init ==
  /\ \E c \in Contents :
       /\ \A cb \in Callbacks : c \in Accepts[cb]
       /\ versions = <<c>>
       /\ doomed = ~TickerTakes(WithDefaults(c))
  /\ writing = NoWrite
  /\ queue = <<>>
  /\ announced = FALSE
  /\ loop = "off"
  /\ next = 1
  /\ loaded = 1
  /\ applied = [cb \in Callbacks |-> 1]
  /\ stopped = FALSE

-----------------------------------------------------------------------------
(* The file and its events *)

Event == [name : {"config", "..data", "other"}, op : {"Write", "Create", "Remove"}]
Overflow == [name |-> "none", op |-> "Overflow"]

\* The directory is watched from NewConfigWatcher on.
Watching == loop \notin {"off", "disabled", "panicked"}

HasRoom == Len(queue) < QueueSize

\* Faulty variant: a file that is renamed to the configuration is overlooked.
ReloadsOnWrite(event) == event.name = "config" /\ event.op = "Write"

ReloadsOn(event) == event.name = "config" /\ event.op \in {"Write", "Create"}

\* The loop is going to load the file, whatever else happens to it.
WillLook == loop = "load" \/ \E i \in 1 .. Len(queue) : ReloadsOn(queue[i])

\* An event that equals the last one in the queue may be merged with it; one
\* that finds the queue full is lost, and an overflow takes its place.
Enqueue(event) ==
  IF ~Watching THEN UNCHANGED queue
  ELSE IF HasRoom
    THEN \/ queue' = Append(queue, event)
         \/ queue # <<>> /\ queue[Len(queue)] = event /\ UNCHANGED queue
    ELSE queue' = IF queue[Len(queue)] = Overflow THEN queue ELSE Append(queue, Overflow)

Change(content, name, op) ==
  /\ Len(versions) < MaxVersions
  /\ versions' = Append(versions, content)
  /\ Enqueue([name |-> name, op |-> op])
  /\ announced' = (Watching /\ (HasRoom \/ WillLook))
  /\ UNCHANGED <<loopVars, stopped>>

\* The files of a ConfigMap volume are written by the kubelet alone.
Idle == Volume = "plain" /\ writing = NoWrite

\* Written in place: the file is truncated, or created, and then written to, one
\* or several times.
WriteStart(content) ==
  /\ Idle
  /\ writing' = content
  /\ \E part \in Prefixes[content] :
       Change(part, "config", IF File = Missing THEN "Create" ELSE "Write")

WriteEnd ==
  /\ writing # NoWrite
  /\ writing' = NoWrite
  /\ Change(writing, "config", "Write")

\* Another file is renamed to it.  In a ConfigMap volume the file is a link
\* through the link ..data, and that is what the kubelet replaces.
Replace(content) ==
  /\ writing = NoWrite
  /\ Change(content, IF Volume = "plain" THEN "config" ELSE "..data", "Create")
  /\ UNCHANGED writing

Remove ==
  /\ Idle /\ File # Missing
  /\ Change(Missing, "config", "Remove")
  /\ UNCHANGED writing

\* Something happens to another file of the directory.
OtherFile ==
  /\ Watching
  /\ Enqueue([name |-> "other", op |-> "Write"])
  /\ UNCHANGED <<fileVars, loopVars, stopped>>

-----------------------------------------------------------------------------
(* main and the loop *)

\* It may fail, and the process goes on without hot reload.
NewConfigWatcher ==
  /\ loop = "off"
  /\ loop' \in {"watching", "disabled"}
  /\ UNCHANGED <<fileVars, queue, next, loaded, applied, doomed, stopped>>

Start ==
  /\ loop = "watching"
  /\ loop' = "select"
  /\ UNCHANGED <<fileVars, queue, next, loaded, applied, doomed, stopped>>

\* An event or an error is taken.  When the loop has been stopped too, select
\* takes either.
Take ==
  /\ loop = "select" /\ queue # <<>>
  /\ queue' = Tail(queue)
  /\ loop' = IF ReloadsOn(Head(queue)) THEN "load" ELSE "select"
  /\ UNCHANGED <<fileVars, next, loaded, applied, doomed, stopped>>

\* Faulty variants: what the file parses to is used unchecked; a configuration
\* that does not load ends the loop.
LoadUnchecked ==
  /\ loop = "load"
  /\ IF File \notin {Missing, Garbled}
       THEN loaded' = Len(versions) /\ next' = 1 /\ loop' = "call"
       ELSE UNCHANGED <<loaded, next>> /\ loop' = "select"
  /\ UNCHANGED <<fileVars, queue, applied, doomed, stopped>>

LoadOrGiveUp ==
  /\ loop = "load"
  /\ IF Loads(File)
       THEN loaded' = Len(versions) /\ next' = 1 /\ loop' = "call"
       ELSE UNCHANGED <<loaded, next>> /\ loop' = "exited"
  /\ UNCHANGED <<fileVars, queue, applied, doomed, stopped>>

\* The file is read as it is now, whatever it was when the event came.
Load ==
  /\ loop = "load"
  /\ IF Loads(File)
       THEN loaded' = Len(versions) /\ next' = 1 /\ loop' = "call"
       ELSE UNCHANGED <<loaded, next>> /\ loop' = "select"
  /\ UNCHANGED <<fileVars, queue, applied, doomed, stopped>>

\* A callback builds its components on what was loaded.  A deduplicator starts the
\* goroutine that makes its ticker; stopping the deduplicator does not stop that.
Takes(cb) ==
  /\ applied' = [applied EXCEPT ![cb] = loaded]
  /\ doomed' = (doomed \/ ~TickerTakes(WithDefaults(versions[loaded])))

\* Faulty variants: the first error ends the reload; there is one more callback.
CallUntilError ==
  /\ loop = "call"
  /\ IF versions[loaded] \in Refused[next]
       THEN loop' = "select" /\ UNCHANGED <<next, applied, doomed>>
       ELSE /\ Takes(next)
            /\ IF next = NumCallbacks
                 THEN loop' = "select" /\ UNCHANGED next
                 ELSE next' = next + 1 /\ UNCHANGED loop
  /\ UNCHANGED <<fileVars, queue, loaded, stopped>>

CallOneTooMany ==
  /\ loop = "call"
  /\ IF versions[loaded] \in Refused[next] THEN UNCHANGED <<applied, doomed>>
     ELSE Takes(next)
  /\ IF next > NumCallbacks
       THEN loop' = "select" /\ UNCHANGED next
       ELSE next' = next + 1 /\ UNCHANGED loop
  /\ UNCHANGED <<fileVars, queue, loaded, stopped>>

\* A callback's error is logged, and the next one is called.
Call ==
  /\ loop = "call"
  /\ IF versions[loaded] \in Refused[next] THEN UNCHANGED <<applied, doomed>>
     ELSE Takes(next)
  /\ IF next = NumCallbacks
       THEN loop' = "select" /\ UNCHANGED next
       ELSE next' = next + 1 /\ UNCHANGED loop
  /\ UNCHANGED <<fileVars, queue, loaded, stopped>>

\* The deferred Stop of main; it does not wait for the loop.
Stop ==
  /\ Watching /\ loop # "watching" /\ ~stopped
  /\ stopped' = TRUE
  /\ UNCHANGED <<fileVars, queue, loopVars>>

\* Faulty variant: the loop ends when there is nothing left to take.
ExitWhenIdle ==
  /\ loop = "select" /\ stopped /\ queue = <<>>
  /\ loop' = "exited"
  /\ UNCHANGED <<fileVars, queue, next, loaded, applied, doomed, stopped>>

Exit ==
  /\ loop = "select" /\ stopped
  /\ loop' = "exited"
  /\ UNCHANGED <<fileVars, queue, next, loaded, applied, doomed, stopped>>

\* The cleanup goroutine gets to make its ticker: its panic ends the process.
TickerPanics ==
  /\ doomed /\ loop # "panicked"
  /\ loop' = "panicked"
  /\ UNCHANGED <<fileVars, queue, next, loaded, applied, doomed, stopped>>

-----------------------------------------------------------------------------

Writers ==
  \/ \E c \in Contents : WriteStart(c) \/ Replace(c)
  \/ WriteEnd \/ Remove \/ OtherFile

Next ==
  \/ Writers
  \/ NewConfigWatcher \/ Start
  \/ Take \/ Load \/ Call
  \/ Stop \/ Exit \/ TickerPanics

Spec == Init /\ [][Next]_vars

\* main and the loop go on, and the callbacks return; select does not pass over
\* a closed stopCh for ever.  A file need not be written to, or written to the
\* end, and nobody need stop the process.
FairSpec ==
  /\ Spec
  /\ WF_vars(NewConfigWatcher) /\ WF_vars(Start)
  /\ WF_vars(Take) /\ WF_vars(Load) /\ WF_vars(Call)
  /\ SF_vars(Exit)

-----------------------------------------------------------------------------
(* Properties *)

TypeOK ==
  /\ versions \in Seq(Contents) /\ versions # <<>>
  /\ writing \in Contents \cup {NoWrite}
  /\ queue \in Seq(Event \cup {Overflow}) /\ Len(queue) <= QueueSize + 1
  /\ announced \in BOOLEAN /\ doomed \in BOOLEAN /\ stopped \in BOOLEAN
  /\ loop \in {"off", "watching", "select", "load", "call", "exited",
              "disabled", "panicked"}
  /\ next \in Callbacks
  /\ loaded \in 1 .. Len(versions)
  /\ applied \in [Callbacks -> 1 .. Len(versions)]

\* What is in effect satisfies what the components are built on (DedupConstants,
\* BatcherConstants), whatever the file holds or held while it was written, as
\* long as its numbers of seconds fit a duration.
EffectUsable ==
  \A cb \in Callbacks :
    LET c == WithDefaults(versions[applied[cb]]) IN Fits(c) => Usable(c)

\* "Validate checks if the configuration is valid" (config.go:91), but sets no limit
\* to the seconds of a TTL, which main.go:68 makes a duration of, and a ticker
\* panics on one that is not positive (dedup.go:136).  A content that was accepted
\* and whose seconds overflow is the one way there: whatever else the file leaves
\* out, or holds while it is written, the process survives.
PanicsOnlyOnOverflow ==
  loop = "panicked" =>
    \E v \in 1 .. Len(versions) :
      Loads(versions[v]) /\ ~Fits(WithDefaults(versions[v]))

\* Whatever another callback makes of a configuration, between reloads every
\* callback works with the one that was last loaded, unless it refused it.
CallbacksIndependent ==
  loop \notin {"call", "panicked"} =>
    \A cb \in Callbacks : versions[loaded] \in Refused[cb] \/ applied[cb] = loaded

\* A change that had an event, or came while an earlier one was still to be looked
\* at (in a burst that the queue has no room for), is not forgotten, however many
\* changes and events there are and however the reads of the file fall between
\* them: until the loop ends, what is loaded is what the file holds, or the loop is
\* about to look.
ChangeNotForgotten ==
  announced /\ Loads(File) /\ loop \notin {"exited", "panicked"} /\ Volume = "plain" =>
    loaded = Len(versions) \/ WillLook

\* "Kubernetes ConfigMap updates" (reload.go:33) and other changes of the file
\* come into effect without a restart (README.md:16): the content that a change
\* with an event leaves behind is applied by every callback that does not refuse
\* it, if nothing changes it again and the process does not end.  True of a
\* plain directory; broken in a ConfigMap volume (run configmap_reload), where no
\* event bears the name of the file.
LatestIsApplied ==
  \A cb \in Callbacks :
    LET Due == announced /\ File \in Accepts[cb]
    IN  Due ~> applied[cb] = Len(versions) \/ ~Due \/ stopped \/ doomed

\* The loop ends when it is stopped, also when events keep coming.
LoopEnds == stopped ~> loop \in {"exited", "panicked"}

\* Every callback works with a content that the file has had and that it accepts,
\* and never goes back to an earlier one, also when a write is under way, the file
\* is gone or does not load, and events are merged, lost or late.
Source == INSTANCE ConfigSource WITH Readers <- Callbacks, current <- applied

FollowsSource == Source!Spec
=============================================================================
