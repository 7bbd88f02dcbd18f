----------------------------- MODULE LossyPath -----------------------------
(***************************************************************************)
(* What a chain of forwarding elements promises for the traffic of one     *)
(* direction: packets, numbered as they come in, may be lost anywhere on   *)
(* the way; the others leave once, the oldest that is under way first.     *)
(***************************************************************************)
EXTENDS Naturals, Sequences

VARIABLES
    in,       \* number of packets offered so far
    pending,  \* the packets under way
    lost,     \* the packets that are lost
    out       \* the packets that left, in the order they did

vars == <<in, pending, lost, out>>

Init == in = 0 /\ pending = {} /\ lost = {} /\ out = <<>>

\* A packet is offered: it is accepted, or lost at once.
Arrive ==
    /\ in' = in + 1
    /\ \/ pending' = pending \cup {in + 1} /\ UNCHANGED lost
       \/ lost' = lost \cup {in + 1} /\ UNCHANGED pending
    /\ UNCHANGED out

\* A packet is lost, the oldest or another one.
Lose ==
    /\ \E id \in pending :
        /\ pending' = pending \ {id}
        /\ lost' = lost \cup {id}
    /\ UNCHANGED <<in, out>>

\* The oldest packet leaves.
Deliver ==
    /\ \E id \in pending :
        /\ \A other \in pending : id <= other
        /\ pending' = pending \ {id}
        /\ out' = Append(out, id)
    /\ UNCHANGED <<in, lost>>

Next == Arrive \/ Lose \/ Deliver

Spec == Init /\ [][Next]_vars
=============================================================================
