----------------------------- MODULE EventSink -----------------------------
(***************************************************************************)
(* What the batcher of pkg/batcher promises to the handlers that call Add  *)
(* and to the callback: every event accepted is handed to the callback     *)
(* exactly once, in a batch of all the events that were pending.           *)
(***************************************************************************)
EXTENDS Naturals

CONSTANT Events

VARIABLES
  pending,   \* events accepted and not yet in a batch
  sending,   \* batches the callback is busy with
  sent       \* events of the batches it has returned from

vars == <<pending, sending, sent>>

Init == pending = {} /\ sending = {} /\ sent = {}

Accepted == pending \cup (UNION sending) \cup sent

Accept(e) ==
  /\ e \notin Accepted
  /\ pending' = pending \cup {e}
  /\ UNCHANGED <<sending, sent>>

Take ==
  /\ pending # {}
  /\ sending' = sending \cup {pending}
  /\ pending' = {}
  /\ UNCHANGED sent

Deliver(batch) ==
  /\ batch \in sending
  /\ sending' = sending \ {batch}
  /\ sent' = sent \cup batch
  /\ UNCHANGED pending

Next ==
  \/ \E e \in Events : Accept(e)
  \/ Take
  \/ \E batch \in sending : Deliver(batch)

Spec == Init /\ [][Next]_vars

-----------------------------------------------------------------------------

\* Every event is in one place: pending, in one batch, or sent; a batch is
\* never empty.
ExactlyOnce ==
  /\ pending \cap (UNION sending) = {}
  /\ pending \cap sent = {}
  /\ (UNION sending) \cap sent = {}
  /\ \A b, c \in sending : b # c => b \cap c = {}
  /\ {} \notin sending
=============================================================================
