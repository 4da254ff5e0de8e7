---------------------------- MODULE ConfigSource ----------------------------
(***************************************************************************)
(* What hot reload promises to those who use the configuration: each of    *)
(* them works with a content that the file has had and that it can use,    *)
(* and moves on to later contents only.                                    *)
(***************************************************************************)
EXTENDS Naturals, Sequences

CONSTANTS
  Contents,     \* what the file can hold
  Readers,      \* those who use the configuration
  Accepts       \* the contents that each of them can use

VARIABLES
  versions,     \* the contents that the file has had
  current       \* the version that each reader works with

vars == <<versions, current>>

Init ==
  /\ \E c \in Contents : versions = <<c>> /\ \A r \in Readers : c \in Accepts[r]
  /\ current = [r \in Readers |-> 1]

Change ==
  /\ \E c \in Contents : versions' = Append(versions, c)
  /\ UNCHANGED current

Adopt(r) ==
  /\ \E v \in current[r] + 1 .. Len(versions) :
       versions[v] \in Accepts[r] /\ current' = [current EXCEPT ![r] = v]
  /\ UNCHANGED versions

Next == Change \/ \E r \in Readers : Adopt(r)

Spec == Init /\ [][Next]_vars
=============================================================================
