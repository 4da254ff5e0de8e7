--------------------------- MODULE MCDedupEvents ---------------------------
(* One goroutine with one key, and room for two entries. *)
EXTENDS DedupEvents

CONSTANTS h1, k1, image

MCKeysOf == [h \in {h1} |-> {k1}]
MCSigs == Contents \X (1 .. MaxStamp)
=============================================================================
