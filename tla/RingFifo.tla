------------------------------ MODULE RingFifo ------------------------------
(***************************************************************************)
(* What librte_ring promises: a first-in first-out queue of bounded size,  *)
(* whose operations on a batch of objects happen at one moment each.       *)
(***************************************************************************)
EXTENDS Naturals, Sequences

CONSTANTS Consumers, Capacity, MaxObjs

VARIABLES
    queue,   \* the objects in the ring, oldest first
    got      \* got[c]: the batch that c dequeued last

vars == <<queue, got>>

Init ==
    /\ queue = <<>>
    /\ got = [c \in Consumers |-> <<>>]

\* A batch is numbered consecutively: the objects of one obj_table.
Put ==
    \E first \in 1 .. MaxObjs, k \in 1 .. Capacity :
        /\ Len(queue) + k <= Capacity
        /\ queue' = queue \o [j \in 1 .. k |-> first + j - 1]
        /\ UNCHANGED got

Take(c) ==
    \E k \in 1 .. Capacity :
        /\ k <= Len(queue)
        /\ got' = [got EXCEPT ![c] = SubSeq(queue, 1, k)]
        /\ queue' = SubSeq(queue, k + 1, Len(queue))

Next == Put \/ \E c \in Consumers : Take(c)

Spec == Init /\ [][Next]_vars
=============================================================================
