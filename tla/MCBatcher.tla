----------------------------- MODULE MCBatcher -----------------------------
(* Four events: a batch in the callback, another in the buffer, and more to come.
   Their kinds and types make groups of one to three events; the limits of the
   messages are scaled to batches of this size. *)
EXTENDS BatcherMessages

CONSTANTS e1, e2, e3, e4

MCKindOf == [e \in Events |-> IF e = e4 THEN "Pod" ELSE "Deployment"]
MCTypeOf == [e \in Events |-> IF e = e3 THEN "DELETED" ELSE "ADDED"]

MCConfigured ==
  [mode : {"detailed", "summary", "smart"}, perGroup : {1, 2}, always : {<<"DELETED">>, <<"ADDED">>}]
=============================================================================
