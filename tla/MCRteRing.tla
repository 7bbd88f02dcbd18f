------------------------------ MODULE MCRteRing ------------------------------
EXTENDS RteRing

Call(k, b) == [n |-> k, behavior |-> b]

\* rte_ring_enqueue and _dequeue of one object, and bursts of up to two.
OneOrBurst == {Call(1, "fixed"), Call(2, "variable")}
=============================================================================
