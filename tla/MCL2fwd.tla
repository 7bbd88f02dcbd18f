------------------------------ MODULE MCL2fwd ------------------------------
(* Command lines for the instances of L2fwd.                               *)
EXTENDS L2fwdLink

\* ./l2fwd -- -p 3 -T 1 (with and without --no-mac-updating)
TwoPorts == {[p |-> {0, 1}, q |-> 1, T |-> 1, mac |-> TRUE]}

TwoPortsNoStats == {[p |-> {0, 1}, q |-> 1, T |-> 0, mac |-> m] : m \in BOOLEAN}

\* Every subset of three ports, every queue number, no -p and the rejected values.
AllArgs ==
    [p : (SUBSET {0, 1, 2}) \cup {BadMask, NoMask, {3}}, q : 0 .. 4, T : {-1, 0, 1}, mac : {TRUE}]
=============================================================================
