---------------------------- MODULE L2fwdLink ------------------------------
(***************************************************************************)
(* Each enabled port of l2fwd, with its partner, is a lossy link that      *)
(* never reorders and never duplicates: what is between the receive ring   *)
(* of the port and the wire of its partner, spread over a device ring, the *)
(* burst an lcore holds and a transmit buffer, is one queue.               *)
(***************************************************************************)
EXTENDS L2fwd

\* The port has a partner.
Linked(p) == p \in EnabledPorts /\ phase \notin {"args", "pair"}

Queue(p) ==
    IF Linked(p) THEN Ids(tx_buffer[dst_ports[p]] \o Held(p) \o rx_ring[p]) ELSE <<>>

Link(p) == INSTANCE LossyLink WITH
    in    <- arrived[p],
    queue <- Queue(p),
    out   <- IF Linked(p) THEN Ids(wire[dst_ports[p]]) ELSE <<>>

LinkStep(p) == Link(p)!Next \/ UNCHANGED Link(p)!vars

\* l2fwd implements a lossy link in each direction (Link(p)!Spec for every p):
\* a receive burst, a store in a transmit buffer and the MAC rewriting are no
\* steps of the link, and a flush takes packets from the front of its queue.
ImplementsLink ==
    /\ \A p \in Devs : Link(p)!Init
    /\ [][\A p \in Devs : LinkStep(p)]_vars
=============================================================================
