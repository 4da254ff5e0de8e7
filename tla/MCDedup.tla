------------------------------ MODULE MCDedup ------------------------------
(* Two informer goroutines, the first with two keys of its own and the second
   with one, and a cache that is full with two entries. *)
EXTENDS Dedup

CONSTANTS h1, h2, k1, k2, k3

MCHandlers == {h1, h2}
MCKeys == {k1, k2, k3}
\* Each informer owns the keys of its kind.
MCKeysOf == [h \in {h1, h2} |-> IF h = h1 THEN {k1, k2} ELSE {k3}]
\* One goroutine with two keys.
MCKeysOfOne == [h \in {h1} |-> {k1, k2}]
=============================================================================
