---------------------------- MODULE ChainPath ------------------------------
(***************************************************************************)
(* Each direction of a service chain is one lossy path: what is spread     *)
(* over the receive rings, the vhost rings and the VMs, some of them not   *)
(* started yet, is delivered oldest first or lost and counted.             *)
(***************************************************************************)
EXTENDS ServiceChain

\* The packets of a direction in a queue.
Queued(q, nic) == {q[j].id : j \in {j \in DOMAIN q : q[j].src = nic}}

InTransit(nic) ==
    (UNION {Queued(rxq[p], nic) : p \in Ports})
      \cup (UNION {Queued(txq[p], nic) : p \in Ports \ NICs})

\* What MoonGen got back from the other NIC.
Back(nic) == [j \in DOMAIN txq[1 - nic] |-> txq[1 - nic][j].id]

Path(nic) == INSTANCE LossyPath WITH
    in      <- sent[nic],
    pending <- InTransit(nic),
    lost    <- lost[nic],
    out     <- Back(nic)

PathStep(nic) == Path(nic)!Next \/ UNCHANGED Path(nic)!vars

\* The chain implements a lossy path in each direction (Path(nic)!Spec for
\* both NICs): a step of the switch or of a VM is no step of the path unless
\* it drops a packet that was under way (Lose) or sends the oldest one of its
\* direction to the other NIC (Deliver).
ImplementsPath ==
    /\ \A nic \in NICs : Path(nic)!Init
    /\ [][\A nic \in NICs : PathStep(nic)]_vars
=============================================================================
