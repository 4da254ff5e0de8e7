--------------------------- MODULE MCKubeWatcher ---------------------------
(* Two kinds, three events, two of them equal, and configurations that turn the deduplicator and
   the batcher on and off, add a kind, or have a template that does not parse. *)
EXTENDS KubeWatcher

CONSTANTS pod, secret, e1, e2, e3

MCKindOf == [e \in {e1, e2, e3} |-> IF e = e3 THEN secret ELSE pod]
MCSigOf == [e \in {e1, e2, e3} |-> IF e = e3 THEN e3 ELSE e1]

Conf(kinds, dedup, batching, template) ==
  [kinds |-> kinds, dedup |-> dedup, batching |-> batching, template |-> template]

Both == {pod, secret}
MCConfigs ==
  {Conf(Both, TRUE, TRUE, TRUE), Conf({pod}, FALSE, FALSE, TRUE),
   Conf(Both, TRUE, FALSE, FALSE)}
MCSmallConfigs ==
  {Conf(Both, TRUE, TRUE, TRUE), Conf(Both, FALSE, FALSE, TRUE)}
=============================================================================
