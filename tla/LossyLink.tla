----------------------------- MODULE LossyLink -----------------------------
(***************************************************************************)
(* What a forwarding element promises for the traffic of one direction:    *)
(* packets, numbered as they come in, may be lost on the way in or on the  *)
(* way out, and leave at most once, in the order they came.                *)
(***************************************************************************)
EXTENDS Naturals, Sequences

VARIABLES
    in,     \* number of packets offered so far
    queue,  \* accepted, neither sent nor lost
    out     \* sent, oldest first

vars == <<in, queue, out>>

Init == in = 0 /\ queue = <<>> /\ out = <<>>

\* A packet is offered: it is accepted, or lost at once.
Arrive ==
    /\ in' = in + 1
    /\ queue' \in {queue, Append(queue, in + 1)}
    /\ UNCHANGED out

\* The k oldest packets leave the queue; the first j of them are sent.
Depart ==
    /\ \E k \in 1 .. Len(queue) : \E j \in 0 .. k :
        /\ out' = out \o SubSeq(queue, 1, j)
        /\ queue' = SubSeq(queue, k + 1, Len(queue))
    /\ UNCHANGED in

Next == Arrive \/ Depart

Spec == Init /\ [][Next]_vars
=============================================================================
