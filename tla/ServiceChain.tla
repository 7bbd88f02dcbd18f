--------------------------- MODULE ServiceChain ----------------------------
(***************************************************************************)
(* The loopback experiments: MoonGen is wired to the two NICs of a         *)
(* software switch, the switch is wired to N virtual machines by pairs of  *)
(* vhost-user ports, and every VM runs a forwarder between its two ports.  *)
(* A packet sent into one NIC has to come back from the other after a      *)
(* visit to every VM.  What steers it is one configuration file per        *)
(* switch: a list of in/out pairs (BESS, FastClick, Snabb, OVS-DPDK, VPP)  *)
(* or a table of destination MAC addresses (t4p4s).                        *)
(*                                                                         *)
(* Ports carry device numbers: 0 and 1 are the NICs, 2k and 2k+1 are the   *)
(* first and the second port of VM k (loopback-vmK.sh).  The files that    *)
(* number them otherwise are translated by V, Vi and OfPort.               *)
(***************************************************************************)
EXTENDS Naturals, Sequences, FiniteSets

CONSTANTS
    N,        \* length of the chain (loopback, loopback-2-vm ... loopback-5-vm)
    Setups,   \* the experiments: [switch, bi, guest]
    RingLen,  \* slots of a receive ring and of a vhost ring
    MaxSent   \* bound on the packets MoonGen sends into each NIC

ASSUME NAssumption == N \in Nat \ {0}
ASSUME BoundAssumption == RingLen \in Nat \ {0} /\ MaxSent \in Nat

NICs == {0, 1}
VMs == 1 .. N
Ports == 0 .. 2 * N + 1

Switches == {"bess", "fastclick", "snabb", "ovs", "vpp", "t4p4s"}
AllSetups == [switch : Switches, bi : BOOLEAN, guest : {"l2fwd", "testpmd"}]

ASSUME SetupAssumption == Setups \subseteq AllSetups

-----------------------------------------------------------------------------
(* Destination MAC addresses, as the pair of bytes that tells them apart:  *)
(* aa:cc:dd:cc:00:01, aa:bb:bb:aa:00:01 and 0b:00:00:00:00:0i.             *)
ETH_DST == <<170, 204>>
ETH_DST1 == <<170, 187>>

\* MoonGen addresses a packet by the NIC it is sent into.
MoonGenDst(nic) == IF nic = 0 THEN ETH_DST ELSE ETH_DST1

\* l2fwd writes 02:00:00:00:00:<its own destination port>, in every VM.
l2fwd_dst(k, port) == <<2, port>>

\* testpmd writes the --eth-peer it was given for the port: VM k has the
\* peers (k+1):00:00:00:00:00 and (k+1):00:00:00:00:01.
testpmd_dst(k, port) == <<k + 1, port>>

Macs == {ETH_DST, ETH_DST1} \cup ((2 .. N + 1) \X {0, 1})

-----------------------------------------------------------------------------
(* The configuration files.                                                *)
Reversed(pairs) == {<<x[2], x[1]>> : x \in pairs}

\* BESS and Snabb name the vhost ports v1, v2 ... and vi1, vi2 ...
V(j) == j + 1
Vi(j) == j + 1

BessForward ==
    {<<0, V(1)>>, <<V(2 * N), 1>>} \cup {<<V(2 * k), V(2 * k + 1)>> : k \in 1 .. N - 1}

BessReverse ==
    {<<1, V(2 * N)>>, <<V(1), 0>>} \cup {<<V(2 * k + 1), V(2 * k)>> : k \in 1 .. N - 1}

BessRules(bi) == IF bi THEN BessForward \cup BessReverse ELSE BessForward

ClickForward ==
    {<<0, 2>>, <<2 * N + 1, 1>>} \cup {<<2 * k + 1, 2 * k + 2>> : k \in 1 .. N - 1}

ClickRules(bi) == IF bi THEN ClickForward \cup Reversed(ClickForward) ELSE ClickForward

\* Mutant: the link from the last VM to the second NIC is missing.
SnabbForward_open ==
    {<<0, Vi(1)>>} \cup {<<Vi(2 * k), Vi(2 * k + 1)>> : k \in 1 .. N - 1}

SnabbForward ==
    {<<0, Vi(1)>>, <<Vi(2 * N), 1>>} \cup {<<Vi(2 * k), Vi(2 * k + 1)>> : k \in 1 .. N - 1}

SnabbLinks(bi) == IF bi THEN SnabbForward \cup Reversed(SnabbForward) ELSE SnabbForward

\* OpenFlow ports start from 1; every add-flow has its reverse.
OfPort(i) == i - 1
OvsForward ==
    {<<OfPort(1), OfPort(3)>>, <<OfPort(2 * N + 2), OfPort(2)>>}
      \cup {<<OfPort(2 * k + 2), OfPort(2 * k + 3)>> : k \in 1 .. N - 1}

OvsFlows == OvsForward \cup Reversed(OvsForward)

\* Mutant: the first NIC is patched to the last VM.
VppForward_short ==
    {<<0, 2 * N>>, <<2 * N + 1, 1>>} \cup {<<2 * k + 1, 2 * k + 2>> : k \in 1 .. N - 1}

\* xconnect and l2patch install the same pairs.
VppForward ==
    {<<0, 2>>, <<2 * N + 1, 1>>} \cup {<<2 * k + 1, 2 * k + 2>> : k \in 1 .. N - 1}

VppPatches == VppForward \cup Reversed(VppForward)

\* Mutant: the last VM's traffic is sent to the last VM, not to the NIC.
T4p4sTable_own ==
    [m \in Macs |->
        CASE m = ETH_DST  -> 2
          [] m = ETH_DST1 -> 2 * N + 1
          [] m \notin {ETH_DST, ETH_DST1} /\ m[2] = 1 ->
                IF m[1] = N + 1 THEN 2 * N ELSE 2 * m[1]
          [] m \notin {ETH_DST, ETH_DST1} /\ m[2] = 0 ->
                IF m[1] = 2 THEN 0 ELSE 2 * m[1] - 3]

\* loopback[-N-vm]_table.txt, loaded into the dmac table of l2fwd.p4.
T4p4sTable ==
    [m \in Macs |->
        CASE m = ETH_DST  -> 2
          [] m = ETH_DST1 -> 2 * N + 1
          [] m \notin {ETH_DST, ETH_DST1} /\ m[2] = 1 ->
                IF m[1] = N + 1 THEN 1 ELSE 2 * m[1]
          [] m \notin {ETH_DST, ETH_DST1} /\ m[2] = 0 ->
                IF m[1] = 2 THEN 0 ELSE 2 * m[1] - 3]

-----------------------------------------------------------------------------
VARIABLES
    setup,  \* the experiment that runs
    up,     \* up[k]: VM k has connected to its sockets and its forwarder polls
    rxq,    \* rxq[p]: what the switch has still to receive from port p
    txq,    \* txq[p]: what the switch sent to port p; MoonGen keeps a NIC's
    sent,   \* sent[nic]: number of packets MoonGen sent into the NIC
    lost    \* lost[nic]: which of them were dropped

vars == <<setup, up, rxq, txq, sent, lost>>

\* A packet remembers the NIC it was sent into and the VMs it went through.
Packets == [id : Nat, src : NICs, dst : Macs, hops : Seq(VMs)]

\* The in/out pairs of the switches that match on the port.
Rules ==
    CASE setup.switch = "bess"      -> BessRules(setup.bi)
      [] setup.switch = "fastclick" -> ClickRules(setup.bi)
      [] setup.switch = "snabb"     -> SnabbLinks(setup.bi)
      [] setup.switch = "ovs"       -> OvsFlows
      [] OTHER                      -> VppPatches

\* Where the switch sends pkt, received from port p.
OutPorts(p, pkt) ==
    IF setup.switch = "t4p4s"
      THEN {T4p4sTable[pkt.dst]}
      ELSE {q \in Ports : <<p, q>> \in Rules}

GuestDst(k, port) ==
    IF setup.guest = "l2fwd" THEN l2fwd_dst(k, port) ELSE testpmd_dst(k, port)

\* The VM behind a vhost port.
VMof(p) == p \div 2

\* MoonGen never stops receiving; a vhost ring is there once its VM is.
Accepts(q) == q \in NICs \/ (up[VMof(q)] /\ Len(txq[q]) < RingLen)

Drop(pkt) == lost' = [lost EXCEPT ![pkt.src] = @ \cup {pkt.id}]

-----------------------------------------------------------------------------
Init ==
    /\ setup \in Setups
    /\ up = [k \in VMs |-> FALSE]
    /\ rxq = [p \in Ports |-> <<>>]
    /\ txq = [p \in Ports |-> <<>>]
    /\ sent = [nic \in NICs |-> 0]
    /\ lost = [nic \in NICs |-> {}]

\* loopback-vmK.sh starts the VM, and the forwarder is launched inside it.
\* The VMs are started by hand, in any order, before or under traffic.
StartVM(k) ==
    /\ ~up[k]
    /\ up' = [up EXCEPT ![k] = TRUE]
    /\ UNCHANGED <<setup, rxq, txq, sent, lost>>

\* MoonGen sends a packet into a NIC: into the second one only when it runs
\* the bidirectional test.  The NIC drops it when its receive ring is full.
Send(nic) ==
    LET pkt == [id |-> sent[nic] + 1, src |-> nic, dst |-> MoonGenDst(nic), hops |-> <<>>]
    IN  /\ nic = 0 \/ setup.bi
        /\ sent[nic] < MaxSent
        /\ sent' = [sent EXCEPT ![nic] = @ + 1]
        /\ IF Len(rxq[nic]) < RingLen
             THEN rxq' = [rxq EXCEPT ![nic] = Append(@, pkt)] /\ UNCHANGED lost
             ELSE Drop(pkt) /\ UNCHANGED rxq
        /\ UNCHANGED <<setup, up, txq>>

\* The switch takes the oldest packet of port p and sends it on, or drops it
\* when the VM is not there or does not keep up.
Switch(p) ==
    /\ rxq[p] # <<>>
    /\ \E q \in OutPorts(p, Head(rxq[p])) :
        /\ rxq' = [rxq EXCEPT ![p] = Tail(@)]
        /\ IF Accepts(q)
             THEN txq' = [txq EXCEPT ![q] = Append(@, Head(rxq[p]))] /\ UNCHANGED lost
             ELSE Drop(Head(rxq[p])) /\ UNCHANGED txq
        /\ UNCHANGED <<setup, up, sent>>

\* The port of the VM a packet received on its port i leaves from.
Partner(i) == 1 - i

\* Mutant: a burst is walked from its end.
Guest_last(k, i) ==
    LET in  == 2 * k + i
        out == 2 * k + Partner(i)
        len == Len(txq[in])
        fwd == [txq[in][len] EXCEPT !.dst = GuestDst(k, Partner(i)), !.hops = Append(@, k)]
    IN  /\ up[k]
        /\ txq[in] # <<>> /\ Len(rxq[out]) < RingLen
        /\ txq' = [txq EXCEPT ![in] = SubSeq(@, 1, len - 1)]
        /\ rxq' = [rxq EXCEPT ![out] = Append(@, fwd)]
        /\ UNCHANGED <<setup, up, sent, lost>>

\* The forwarder of VM k moves a packet from its port i to the other one and
\* rewrites its destination, or loses it (L2fwdLink: a lossy FIFO link).
Guest(k, i) ==
    LET in  == 2 * k + i
        out == 2 * k + Partner(i)
        pkt == Head(txq[in])
        fwd == [pkt EXCEPT !.dst = GuestDst(k, Partner(i)), !.hops = Append(@, k)]
    IN  /\ up[k]
        /\ txq[in] # <<>>
        /\ txq' = [txq EXCEPT ![in] = Tail(@)]
        /\ \/ /\ Len(rxq[out]) < RingLen
              /\ rxq' = [rxq EXCEPT ![out] = Append(@, fwd)]
              /\ UNCHANGED lost
           \/ Drop(pkt) /\ UNCHANGED rxq
        /\ UNCHANGED <<setup, up, sent>>

Next ==
    \/ \E k \in VMs : StartVM(k)
    \/ \E nic \in NICs : Send(nic)
    \/ \E p \in Ports : Switch(p)
    \/ \E k \in VMs, i \in {0, 1} : Guest(k, i)

Spec == Init /\ [][Next]_vars

\* The switches and the forwarders poll: each of their steps is taken in the
\* end.  Nobody has to start a VM or to send.
FairSpec ==
    /\ Spec
    /\ \A p \in Ports : WF_vars(Switch(p))
    /\ \A k \in VMs, i \in {0, 1} : WF_vars(Guest(k, i))

-----------------------------------------------------------------------------
\* The types of the variables: in particular every destination address is in
\* the table of t4p4s, so that a miss (action bcast) never happens.
TypeOK ==
    /\ setup \in Setups
    /\ up \in [VMs -> BOOLEAN]
    /\ rxq \in [Ports -> Seq(Packets)]
    /\ txq \in [Ports -> Seq(Packets)]
    /\ sent \in [NICs -> Nat]
    /\ lost \in [NICs -> SUBSET Nat]

\* What came back to MoonGen on a NIC.
Received(nic) == {txq[nic][j] : j \in DOMAIN txq[nic]}

\* The VMs in the order of the direction that starts at the NIC.
ForwardChain(n) == [j \in 1 .. n |-> j]
ReverseChain(n) == [j \in 1 .. n |-> N + 1 - j]
Chain(nic, n) == IF nic = 0 THEN ForwardChain(n) ELSE ReverseChain(n)

\* A packet MoonGen gets back comes from the other NIC and went once through
\* every VM: VM 1 to VM N from the first NIC, VM N to VM 1 from the second.
\* No packet comes back to the NIC it was sent into, none skips a VM.
ChainVisited ==
    \A nic \in NICs : \A pkt \in Received(nic) :
        pkt.src = 1 - nic /\ pkt.hops = Chain(pkt.src, N)

\* No packet, wherever it is, enters a VM for the second time: the switch and
\* the forwarders never carry it round in a loop.
NoLoop ==
    \A p \in Ports : \A q \in {rxq[p], txq[p]} : \A j \in DOMAIN q :
        \A a, b \in DOMAIN q[j].hops : q[j].hops[a] = q[j].hops[b] => a = b

\* The switch never sends a packet back to the port it came from (t4p4s
\* crashes when its table asks for that).
NoHairpin ==
    \A p \in Ports : rxq[p] # <<>> => p \notin OutPorts(p, Head(rxq[p]))

\* MoonGen gets the packets of a direction back in the order it sent them,
\* although every hop has queues of its own and may lose some of them.
OrderKept ==
    \A nic \in NICs : \A a, b \in DOMAIN txq[nic] :
        a < b => txq[nic][a].id < txq[nic][b].id

Is(pkt, nic, id) == pkt.src = nic /\ pkt.id = id

\* The slots, over all queues of Q, that hold the packet id of the NIC.
Slots(Q, nic, id) ==
    UNION {{<<p, j>> : j \in {j \in DOMAIN Q[p] : Is(Q[p][j], nic, id)}} : p \in Ports}

\* Every packet MoonGen sent is in exactly one place: on its way, back at
\* MoonGen, or dropped; so none is duplicated and none disappears uncounted.
Accounted ==
    \A nic \in NICs : \A id \in 1 .. sent[nic] :
        Cardinality(Slots(rxq, nic, id)) + Cardinality(Slots(txq, nic, id))
          + (IF id \in lost[nic] THEN 1 ELSE 0) = 1

\* Full rings, and VMs started under traffic, lose packets and do nothing
\* else: what comes back is in order and every packet is in one place.
Delivery == OrderKept /\ Accounted

\* Every packet MoonGen sends is in the end back at MoonGen or dropped: none
\* is carried around for ever, none stays in a port the switch does not poll.
Returns ==
    \A nic \in NICs : \A id \in 1 .. MaxSent :
        sent[nic] >= id ~>
            id \in lost[nic] \/ \E pkt \in Received(1 - nic) : Is(pkt, nic, id)

-----------------------------------------------------------------------------
\* The experiments that work: a forwarder that writes 02:... in every VM
\* satisfies the MAC table of t4p4s only in a chain of one VM.
SoundSetups ==
    {s \in AllSetups : s.switch = "t4p4s" => s.guest = "testpmd" \/ N = 1}

=============================================================================
