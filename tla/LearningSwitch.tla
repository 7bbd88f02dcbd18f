--------------------------- MODULE LearningSwitch ---------------------------
(***************************************************************************)
(* The Ryu application of the Lagopus experiments, simple_switch_13.py,    *)
(* and the OpenFlow switch and hosts around it.  The controller learns the *)
(* port of a source address from the packet-ins, floods what it cannot     *)
(* place, and installs a flow for what it can.  The two sides talk over    *)
(* one TCP connection, a first-in first-out channel each way; the switch   *)
(* may restart, the controller keeps what it learnt.                       *)
(*                                                                         *)
(* Line 50 of the source cannot run (its indentation is an error) and is   *)
(* left out.                                                               *)
(***************************************************************************)
EXTENDS Integers, Sequences, Functions

CONSTANTS
    Hosts,        \* MAC addresses
    Ports,        \* ports of the switch, numbered from 1
    BufferIds,    \* buffers of the switch
    Packets,      \* bound: packets on their way at a time
    MaxMoves,     \* bound on the moves of hosts
    MaxRestarts   \* bound on the restarts of the switch

FLOOD == 0        \* OFPP_FLOOD
NO_BUFFER == -1   \* OFP_NO_BUFFER

ASSUME PortAssumption == FLOOD \notin Ports
ASSUME BufferAssumption == NO_BUFFER \notin BufferIds
ASSUME HostAssumption == Hosts # {} /\ ExistsInjection(Hosts, Ports)
ASSUME BoundAssumption == MaxMoves \in Nat /\ MaxRestarts \in Nat

VARIABLES
    mac_to_port,   \* the controller's table for this datapath; FLOOD: not in it
    flows,         \* flow entries of priority 1
    table_miss,    \* is the entry of priority 0 installed?
    buffer,        \* buffer[b]: the packets the switch holds in b, at most one
    toCtrl, toSw,  \* the connection
    loc, left,     \* port of each host; history: the ports it went away from
    pkt,           \* pkt[p]: addresses, entry port and kind of a packet
    fate,          \* what became of it
    to,            \* the ports it left the switch by
    moves, restarts

vars == <<mac_to_port, flows, table_miss, buffer, toCtrl, toSw, loc, left, pkt,
          fate, to, moves, restarts>>
hosts == <<loc, left, moves>>

Features == [kind |-> "features"]
AnyPkt == [src : Hosts, dst : Hosts, in_port : Ports, lldp : BOOLEAN]

Init ==
    /\ mac_to_port = [h \in Hosts |-> FLOOD]
    /\ flows = {} /\ table_miss = FALSE
    /\ buffer = [b \in BufferIds |-> {}]
    /\ toCtrl = <<Features>> /\ toSw = <<>>
    /\ loc = CHOOSE f \in Injection(Hosts, Ports) : TRUE   \* ports are alike
    /\ left = [h \in Hosts |-> {}]
    /\ pkt = [p \in Packets |-> CHOOSE r \in AnyPkt : TRUE]
    /\ fate = [p \in Packets |-> "free"]
    /\ to = [p \in Packets |-> {}]
    /\ moves = 0 /\ restarts = 0

-----------------------------------------------------------------------------
(* The switch (external).                                                  *)
Matches(f, r) == f.in_port = r.in_port /\ f.src = r.src /\ f.dst = r.dst

\* A packet leaves by a port, by all when flooded, and never by its own.
OutPorts(out, r) == (IF out = FLOOD THEN Ports ELSE {out}) \ {r.in_port}

\* Packet-in of p for the table-miss entry, with or without a buffer.
PacketIn(p) ==
    \/ /\ toCtrl' = Append(toCtrl, [kind |-> "packet_in", p |-> p, buffer_id |-> NO_BUFFER])
       /\ UNCHANGED buffer
    \/ \E b \in BufferIds :
        /\ buffer[b] = {}
        /\ buffer' = [buffer EXCEPT ![b] = {p}]
        /\ toCtrl' = Append(toCtrl, [kind |-> "packet_in", p |-> p, buffer_id |-> b])

\* A host sends a packet, which the switch looks up at once.
Send(p, s, d, lldp) ==
    /\ fate[p] # "sent" /\ s # d
    /\ \A b \in BufferIds : p \notin buffer[b]
    /\ LET r == [src |-> s, dst |-> d, in_port |-> loc[s], lldp |-> lldp]
           hit == {f \in flows : Matches(f, r)}
       IN  /\ pkt' = [pkt EXCEPT ![p] = r]
           /\ \/ /\ hit # {}
                 /\ to' = [to EXCEPT ![p] = UNION {OutPorts(f.out, r) : f \in hit}]
                 /\ fate' = [fate EXCEPT ![p] = "out"]
                 /\ UNCHANGED <<toCtrl, buffer>>
              \/ /\ hit = {} /\ table_miss
                 /\ to' = [to EXCEPT ![p] = {}]
                 /\ fate' = [fate EXCEPT ![p] = "sent"]
                 /\ PacketIn(p)
              \/ /\ hit = {} /\ ~table_miss
                 /\ to' = [to EXCEPT ![p] = {}]
                 /\ fate' = [fate EXCEPT ![p] = "dropped"]
                 /\ UNCHANGED <<toCtrl, buffer>>
    /\ UNCHANGED <<mac_to_port, flows, table_miss, toSw, hosts, restarts>>

Output(p, out) ==
    /\ to' = [to EXCEPT ![p] = OutPorts(out, pkt[p])]
    /\ fate' = [fate EXCEPT ![p] = "out"]

\* A flow-mod that names a buffer also sends what the buffer holds.
SwFlowMod ==
    /\ toSw # <<>> /\ Head(toSw).kind = "flow_mod"
    /\ LET m == Head(toSw)
       IN  /\ flows' = {f \in flows : ~Matches(f, m.flow)} \cup {m.flow}
           /\ IF m.buffer_id \in BufferIds /\ buffer[m.buffer_id] # {}
              THEN /\ \E p \in buffer[m.buffer_id] : Output(p, m.flow.out)
                   /\ buffer' = [buffer EXCEPT ![m.buffer_id] = {}]
              ELSE UNCHANGED <<to, fate, buffer>>
    /\ toSw' = Tail(toSw)
    /\ UNCHANGED <<mac_to_port, table_miss, toCtrl, hosts, pkt, restarts>>

SwTableMiss ==
    /\ toSw # <<>> /\ Head(toSw).kind = "table_miss"
    /\ table_miss' = TRUE
    /\ toSw' = Tail(toSw)
    /\ UNCHANGED <<mac_to_port, flows, buffer, toCtrl, hosts, pkt, fate, to, restarts>>

\* A packet-out carries its packet or names the buffer that holds it.
SwPacketOut ==
    /\ toSw # <<>> /\ Head(toSw).kind = "packet_out"
    /\ LET m == Head(toSw)
       IN  IF m.buffer_id = NO_BUFFER
           THEN Output(m.p, m.out) /\ UNCHANGED buffer
           ELSE IF buffer[m.buffer_id] # {}
           THEN /\ \E p \in buffer[m.buffer_id] : Output(p, m.out)
                /\ buffer' = [buffer EXCEPT ![m.buffer_id] = {}]
           ELSE UNCHANGED <<to, fate, buffer>>
    /\ toSw' = Tail(toSw)
    /\ UNCHANGED <<mac_to_port, flows, table_miss, toCtrl, hosts, pkt, restarts>>

\* The switch starts again: an empty table, no buffers, a new connection.  What
\* was on its way over the old one is dropped, with the packet-ins that the
\* controller has received and not yet handled.
Restart ==
    /\ restarts < MaxRestarts
    /\ restarts' = restarts + 1
    /\ flows' = {} /\ table_miss' = FALSE
    /\ buffer' = [b \in BufferIds |-> {}]
    /\ toCtrl' = <<Features>> /\ toSw' = <<>>
    /\ fate' = [p \in Packets |-> IF fate[p] = "sent" THEN "dropped" ELSE fate[p]]
    /\ UNCHANGED <<mac_to_port, hosts, pkt, to>>

\* A host is plugged into another port.
Move(h, q) ==
    /\ moves < MaxMoves /\ \A g \in Hosts : loc[g] # q
    /\ moves' = moves + 1
    /\ loc' = [loc EXCEPT ![h] = q]
    /\ left' = [left EXCEPT ![h] = @ \cup {loc[h]}]
    /\ UNCHANGED <<mac_to_port, flows, table_miss, buffer, toCtrl, toSw, pkt, fate, to, restarts>>

-----------------------------------------------------------------------------
(* The controller.                                                         *)
switch_features_handler ==
    /\ toCtrl # <<>> /\ Head(toCtrl).kind = "features"
    /\ toSw' = Append(toSw, [kind |-> "table_miss"])
    /\ toCtrl' = Tail(toCtrl)
    /\ UNCHANGED <<mac_to_port, flows, table_miss, buffer, hosts, pkt, fate, to, restarts>>

\* add_flow with priority 1: a buffer_id of 0 is false to Python, so the
\* flow-mod is sent without it.
add_flow(r, out, buffer_id) ==
    [kind |-> "flow_mod",
     flow |-> [in_port |-> r.in_port, src |-> r.src, dst |-> r.dst, out |-> out],
     buffer_id |-> IF buffer_id = 0 THEN NO_BUFFER ELSE buffer_id]

packet_out(m, out) ==
    [kind |-> "packet_out", p |-> m.p, out |-> out, buffer_id |-> m.buffer_id]

\* Mutant: the first port learnt is kept.
Learn_first(r) ==
    [mac_to_port EXCEPT ![r.src] = IF @ = FLOOD THEN r.in_port ELSE @]

\* Mutant: the addresses are swapped.
Learn_dst(r) == [mac_to_port EXCEPT ![r.dst] = r.in_port]

Learn(r) == [mac_to_port EXCEPT ![r.src] = r.in_port]

\* Mutant: no return after the flow-mod that sends the packet.
Answer_both(m, r, out) ==
    IF out = FLOOD THEN <<packet_out(m, out)>>
    ELSE <<add_flow(r, out, m.buffer_id), packet_out(m, out)>>

\* Mutant: nothing but a flow-mod for a known address.
Answer_flow(m, r, out) ==
    IF out = FLOOD THEN <<packet_out(m, out)>> ELSE <<add_flow(r, out, m.buffer_id)>>

\* Mutant: no flow is installed.
Answer_never(m, r, out) == <<packet_out(m, out)>>

\* The messages that answer a packet-in.
Answer(m, r, out) ==
    IF out = FLOOD THEN <<packet_out(m, out)>>
    ELSE IF m.buffer_id # NO_BUFFER THEN <<add_flow(r, out, m.buffer_id)>>
    ELSE <<add_flow(r, out, NO_BUFFER), packet_out(m, out)>>

_packet_in_handler ==
    /\ toCtrl # <<>> /\ Head(toCtrl).kind = "packet_in"
    /\ toCtrl' = Tail(toCtrl)
    /\ LET m == Head(toCtrl)
           r == pkt[m.p]
       IN  \/ /\ r.lldp
              /\ fate' = [fate EXCEPT ![m.p] = "ignored"]
              /\ UNCHANGED <<mac_to_port, toSw>>
           \/ /\ ~r.lldp
              /\ mac_to_port' = Learn(r)
              /\ toSw' = toSw \o Answer(m, r, mac_to_port'[r.dst])
              /\ UNCHANGED fate
    /\ UNCHANGED <<flows, table_miss, buffer, hosts, pkt, to, restarts>>

Controller == switch_features_handler \/ _packet_in_handler
Switch == SwFlowMod \/ SwTableMiss \/ SwPacketOut
SomeSend(s, d, lldp) == \E p \in Packets : Send(p, s, d, lldp)

Next ==
    \/ Controller \/ Switch \/ Restart
    \/ \E s, d \in Hosts, lldp \in BOOLEAN : SomeSend(s, d, lldp)
    \/ \E h \in Hosts, q \in Ports : Move(h, q)

Spec == Init /\ [][Next]_vars

\* Both ends of the connection go on reading it; the hosts owe nothing.
FairSpec == Spec /\ WF_vars(Controller) /\ WF_vars(Switch)

-----------------------------------------------------------------------------
(* Properties.                                                             *)
Flow == [in_port : Ports, src : Hosts, dst : Hosts, out : Ports]
CtrlMessage ==
    {Features}
      \cup [kind : {"packet_in"}, p : Packets, buffer_id : BufferIds \cup {NO_BUFFER}]
SwMessage ==
    {[kind |-> "table_miss"]}
      \cup [kind : {"flow_mod"}, flow : Flow, buffer_id : BufferIds \cup {NO_BUFFER}]
      \cup [kind : {"packet_out"}, p : Packets, out : Ports \cup {FLOOD},
            buffer_id : BufferIds \cup {NO_BUFFER}]

\* Every variable keeps its type; in particular no flow floods.
TypeOK ==
    /\ mac_to_port \in [Hosts -> Ports \cup {FLOOD}]
    /\ flows \subseteq Flow /\ table_miss \in BOOLEAN
    /\ buffer \in [BufferIds -> SUBSET Packets]
    /\ toCtrl \in Seq(CtrlMessage) /\ toSw \in Seq(SwMessage)
    /\ loc \in [Hosts -> Ports] /\ left \in [Hosts -> SUBSET Ports]
    /\ pkt \in [Packets -> AnyPkt]
    /\ fate \in [Packets -> {"free", "sent", "out", "dropped", "ignored"}]
    /\ to \in [Packets -> SUBSET Ports]
    /\ moves \in 0 .. MaxMoves /\ restarts \in 0 .. MaxRestarts

\* Does the message carry the packet, or name the buffer that holds it?
Carries(m, p) ==
    \/ m.kind = "packet_in" /\ m.p = p
    \/ m.kind = "packet_out" /\ m.buffer_id = NO_BUFFER /\ m.p = p
    \/ m.kind \in {"flow_mod", "packet_out"} /\ m.buffer_id \in BufferIds
         /\ p \in buffer[m.buffer_id]
InTransit(p) == \E m \in Range(toCtrl) \cup Range(toSw) : Carries(m, p)

\* A packet the controller was asked about, and does not ignore, stays on its
\* way until it has left the switch: a flow-mod or a packet-out names the
\* buffer it is in.  The one exception is buffer 0.  _packet_in_handler takes
\* it for a valid buffer and leaves the packet to the flow-mod, add_flow takes
\* it for no buffer, and the packet stays in it.
Held(p, b) == b \in BufferIds /\ p \in buffer[b]
OnlyBuffer0Keeps == \A p \in Packets : fate[p] = "sent" => InTransit(p) \/ Held(p, 0)

\* A packet that was sent is not sent again: only one of the flow-mod and the
\* packet-out carries it (the return after add_flow).
SentOnce ==
    /\ \A p \in Packets : fate[p] = "out" => ~InTransit(p)
    /\ \A m \in Range(toSw) :
        m.kind = "packet_out" /\ m.buffer_id # NO_BUFFER => m.p \in buffer[m.buffer_id]

\* A packet for a host that never moved leaves by the port of that host,
\* unless it came in by it.
ReachesDst ==
    \A p \in Packets :
        fate[p] = "out" /\ left[pkt[p].dst] = {} =>
            loc[pkt[p].dst] \in to[p] \cup {pkt[p].in_port}

\* A flow leads to a port where its destination is or was: what is learnt from
\* one packet-in and used for a later one is only out of date after a move.
FlowsLearnt == \A f \in flows : f.out \in left[f.dst] \cup {loc[f.dst]}

\* What is learnt from one packet-in and used for later ones
\* (_packet_in_handler) is wrong only after a move: flows lead to ports of
\* their destination, and a packet for a host that stayed reaches it.
FlowsSound == TypeOK /\ FlowsLearnt /\ ReachesDst

\* A flow takes its packets away from the controller, which can then not
\* learn from them.  It still knows where their sender is, unless the sender
\* came back to a port it had left.
SenderKnown ==
    \A f \in flows :
        f.in_port = loc[f.src] /\ loc[f.src] \notin left[f.src] =>
            mac_to_port[f.src] = loc[f.src]

\* Two hosts that keep sending to each other end up with a flow: later
\* packets need no packet-in.
HasFlow(s, d) == \E f \in flows : f.in_port = loc[s] /\ f.src = s /\ f.dst = d
FlowInstalled ==
    \A s, d \in Hosts : s # d =>
        ([]<><<SomeSend(s, d, FALSE)>>_vars /\ []<><<SomeSend(d, s, FALSE)>>_vars
            => <>[]HasFlow(s, d))

=============================================================================
