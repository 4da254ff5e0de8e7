-------------------------- MODULE BatcherMessages --------------------------
(***************************************************************************)
(* The batcher with the batch handler of main.go for its callback: what is *)
(* told about the batches that the batcher makes.                          *)
(***************************************************************************)
EXTENDS Batcher, BatchMessage

CONSTANT Configured   \* what configurations may say of the messages

ASSUME ConfiguredSettings == Configured \subseteq Settings

\* The callback that runs for a batch sends a message about it that accounts for
\* every event of it, whatever the settings: as no event is twice in a batch, none
\* is counted twice.
EveryEventTold ==
  \A f \in flights, s \in Configured :
    Accounts(FormatBatchSlackMessage(f.batch, s), f.batch)

\* It shows events of the types that are always shown in detail.
AlwaysShown ==
  \A f \in flights, s \in Configured :
    ShowsAlways(FormatBatchSlackMessage(f.batch, s), f.batch, s)
=============================================================================
