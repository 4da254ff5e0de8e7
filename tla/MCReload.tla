------------------------------ MODULE MCReload ------------------------------
(* A configuration, the same with a batching section that relies on defaults,
   one with a template that does not parse, one with a TTL that is no duration,
   an empty and a missing file.  A half-written batching section may leave the
   first of them. *)
EXTENDS Reload

Config(template, enabled, window) ==
  [ZeroConfig EXCEPT
     !.namespace = "ns", !.url = "url", !.template = template,
     !.watches = <<[kind |-> "Pod", triggers |-> <<[imageChange |-> FALSE, envChange |-> TRUE]>>]>>,
     !.dedup.enabled = enabled,
     !.batching.enabled = enabled, !.batching.window = window]

Base == Config("", FALSE, 0)
Batching == Config("", TRUE, 30)
BadTemplate == Config("{{", FALSE, 0)

\* With a Second of 100 and durations of 16 bits, 400 s are -25536.
LongTTL == [Base EXCEPT !.dedup.enabled = TRUE, !.dedup.ttl = 400]

MCContents == {Base, Batching, BadTemplate, LongTTL, ZeroConfig, Missing}
MCPrefixes ==
  [c \in MCContents |-> IF c = Batching THEN {ZeroConfig, Base} ELSE {ZeroConfig}]
MCRefused == [cb \in 1 .. 2 |-> IF cb = 1 THEN {BadTemplate} ELSE {}]
=============================================================================
