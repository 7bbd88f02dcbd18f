----------------------- MODULE LearningSwitchProofs -----------------------
(***************************************************************************)
(* For any hosts, ports, buffers and packets: the controller and the       *)
(* switch send a packet they hold once and forget none, what is learnt is  *)
(* wrong only after a move, and the sender whose packets a flow takes away *)
(* is known.                                                               *)
(*                                                                         *)
(* Each step is first described point by point, and then taken through the *)
(* parts of the invariant one by one.                                      *)
(***************************************************************************)
EXTENDS LearningSwitch, SequenceTheorems, TLAPS

-----------------------------------------------------------------------------
(* The inductive invariant.                                                *)

\* A host has been at these ports; it has come back to none of them.
Seen(h) == left[h] \cup {loc[h]}
Fresh(h) == loc[h] \notin left[h]

\* The buffers hold one packet each, and no packet twice.
BuffersOK ==
    \A b, c \in BufferIds : \A p \in buffer[b], q \in buffer[c] : b = c <=> p = q

\* What is said of a packet is said of one that is on its way, in the buffer
\* that is named.
PacketInOK(m) ==
    /\ fate[m.p] = "sent"
    /\ m.buffer_id # NO_BUFFER => m.p \in buffer[m.buffer_id]

PacketOutOK(m) == PacketInOK(m) /\ m.out \in Seen(pkt[m.p].dst) \cup {FLOOD}

\* A flow joins ports where its hosts are or were, and was installed when the
\* controller learnt the first of them.
FlowOK(f) ==
    /\ f.out \in Seen(f.dst) /\ f.in_port \in Seen(f.src)
    /\ Fresh(f.src) /\ f.in_port = loc[f.src] => mac_to_port[f.src] = loc[f.src]

FlowModOK(m) ==
    /\ FlowOK(m.flow)
    /\ m.buffer_id # NO_BUFFER =>
        /\ buffer[m.buffer_id] # {}
        /\ \A p \in buffer[m.buffer_id] : fate[p] = "sent" /\ pkt[p].dst = m.flow.dst

CtrlOK(m) == m.kind = "packet_in" => PacketInOK(m)
SwOK(m) ==
    /\ m.kind = "packet_out" => PacketOutOK(m)
    /\ m.kind = "flow_mod" => FlowModOK(m)

ChannelsOK ==
    /\ \A i \in 1 .. Len(toCtrl) : CtrlOK(toCtrl[i])
    /\ \A i \in 1 .. Len(toSw) : SwOK(toSw[i])

\* No two messages carry the same packet.
CarriedOnce ==
    \A p \in Packets :
        /\ \A i, j \in 1 .. Len(toCtrl) :
            Carries(toCtrl[i], p) /\ Carries(toCtrl[j], p) => i = j
        /\ \A i, j \in 1 .. Len(toSw) : Carries(toSw[i], p) /\ Carries(toSw[j], p) => i = j
        /\ \A i \in 1 .. Len(toCtrl), j \in 1 .. Len(toSw) :
            ~(Carries(toCtrl[i], p) /\ Carries(toSw[j], p))

LearntOK ==
    /\ \A h \in Hosts : mac_to_port[h] \in Seen(h) \cup {FLOOD}
    /\ \A p \in Packets : fate[p] # "free" => pkt[p].in_port \in Seen(pkt[p].src)
    /\ \A f \in flows : FlowOK(f)

\* The packet-ins of a host tell of its ports in the order it was there, so the
\* controller does not unlearn the last of them.
TellsOf(m, h) == m.kind = "packet_in" /\ pkt[m.p].src = h
InOrder(h) ==
    /\ mac_to_port[h] = loc[h] =>
        \A i \in 1 .. Len(toCtrl) :
            TellsOf(toCtrl[i], h) => pkt[toCtrl[i].p].in_port = loc[h]
    /\ \A i, j \in 1 .. Len(toCtrl) :
        /\ i < j /\ TellsOf(toCtrl[i], h) /\ TellsOf(toCtrl[j], h)
        /\ pkt[toCtrl[i].p].in_port = loc[h]
        => pkt[toCtrl[j].p].in_port = loc[h]

IInv ==
    /\ TypeOK /\ BuffersOK /\ ChannelsOK /\ CarriedOnce /\ LearntOK /\ ReachesDst
    /\ \A h \in Hosts : Fresh(h) => InOrder(h)

-----------------------------------------------------------------------------
(* Messages and channels.                                                  *)

\* What each end of the connection is sent.
LEMMA CtrlFacts ==
    ASSUME NEW m \in CtrlMessage
    PROVE  /\ m.kind \in {"features", "packet_in"}
           /\ m.kind = "packet_in" => m.p \in Packets /\ m.buffer_id \in BufferIds \cup {NO_BUFFER}
BY DEF CtrlMessage, Features

LEMMA SwFacts ==
    ASSUME NEW m \in SwMessage
    PROVE  /\ m.kind \in {"table_miss", "flow_mod", "packet_out"}
           /\ m.kind = "flow_mod" => m.flow \in Flow /\ m.buffer_id \in BufferIds \cup {NO_BUFFER}
           /\ m.kind = "packet_out" =>
                /\ m.p \in Packets /\ m.out \in Ports \cup {FLOOD}
                /\ m.buffer_id \in BufferIds \cup {NO_BUFFER}
BY DEF SwMessage

LEMMA FlowFacts ==
    ASSUME NEW f \in Flow
    PROVE  f.in_port \in Ports /\ f.out \in Ports /\ f.src \in Hosts /\ f.dst \in Hosts
BY DEF Flow

LEMMA PktFacts ==
    ASSUME NEW r \in AnyPkt
    PROVE  r.in_port \in Ports /\ r.src \in Hosts /\ r.dst \in Hosts /\ r.lldp \in BOOLEAN
BY DEF AnyPkt

\* The messages of the controller.
LEMMA AddFlowFacts ==
    ASSUME NEW r \in AnyPkt, NEW out \in Ports, NEW b \in BufferIds \cup {NO_BUFFER},
           NEW a, a = add_flow(r, out, b)
    PROVE  /\ a \in SwMessage /\ a.kind = "flow_mod"
           /\ a.flow.in_port = r.in_port /\ a.flow.src = r.src
           /\ a.flow.dst = r.dst /\ a.flow.out = out
           /\ b = 0 => a.buffer_id = NO_BUFFER
           /\ b # 0 => a.buffer_id = b
<1>1. [in_port |-> r.in_port, src |-> r.src, dst |-> r.dst, out |-> out] \in Flow
  BY PktFacts DEF Flow
<1> QED
  BY <1>1 DEF add_flow, SwMessage

LEMMA PacketOutFacts ==
    ASSUME NEW m \in CtrlMessage, m.kind = "packet_in", NEW out \in Ports \cup {FLOOD},
           NEW a, a = packet_out(m, out)
    PROVE  /\ a \in SwMessage /\ a.kind = "packet_out"
           /\ a.p = m.p /\ a.out = out /\ a.buffer_id = m.buffer_id
BY CtrlFacts DEF packet_out, SwMessage

\* The answer to a packet-in is a packet-out, a flow-mod that sends the packet
\* too, or both.
LEMMA AnswerFacts ==
    ASSUME NEW m \in CtrlMessage, m.kind = "packet_in", NEW r \in AnyPkt,
           NEW out \in Ports \cup {FLOOD}, NEW A, A = Answer(m, r, out)
    PROVE  /\ A \in Seq(SwMessage)
           /\ \/ out = FLOOD /\ A = <<packet_out(m, out)>>
              \/ out \in Ports /\ m.buffer_id # NO_BUFFER /\ A = <<add_flow(r, out, m.buffer_id)>>
              \/ /\ out \in Ports /\ m.buffer_id = NO_BUFFER
                 /\ A = <<add_flow(r, out, NO_BUFFER), packet_out(m, out)>>
<1>1. packet_out(m, out) \in SwMessage
  BY PacketOutFacts
<1>2. CASE out = FLOOD
  BY <1>1, <1>2 DEF Answer
<1>3. CASE out # FLOOD /\ m.buffer_id # NO_BUFFER
  <2>1. add_flow(r, out, m.buffer_id) \in SwMessage
    BY <1>3, AddFlowFacts, CtrlFacts
  <2> QED
    BY <1>3, <2>1 DEF Answer
<1>4. CASE out # FLOOD /\ m.buffer_id = NO_BUFFER
  <2>1. add_flow(r, out, NO_BUFFER) \in SwMessage
    BY <1>4, AddFlowFacts
  <2> QED
    BY <1>1, <1>4, <2>1 DEF Answer
<1> QED
  BY <1>2, <1>3, <1>4

\* What is left of a channel when its first message was read, and what is on
\* it when one was written.
LEMMA ReadFirst ==
    ASSUME NEW S, NEW s \in Seq(S), s # <<>>, NEW t, t = Tail(s)
    PROVE  /\ 1 \in 1 .. Len(s) /\ Head(s) = s[1] /\ Head(s) \in S
           /\ t \in Seq(S) /\ Len(t) = Len(s) - 1
           /\ \A i \in 1 .. Len(t) : i + 1 \in 1 .. Len(s) /\ i + 1 # 1 /\ t[i] = s[i + 1]
           /\ \A i \in 1 .. Len(s) : i # 1 => i - 1 \in 1 .. Len(t) /\ t[i - 1] = s[i]
<1>1. Len(s) \in Nat /\ Len(s) > 0
  BY EmptySeq
<1> QED
  BY <1>1, HeadTailProperties

LEMMA WriteLast ==
    ASSUME NEW S, NEW s \in Seq(S), NEW e \in S, NEW t, t = Append(s, e)
    PROVE  /\ t \in Seq(S) /\ Len(t) = Len(s) + 1 /\ Len(s) \in Nat
           /\ \A i \in 1 .. Len(s) : i \in 1 .. Len(t) /\ t[i] = s[i]
           /\ Len(t) \in 1 .. Len(t) /\ t[Len(t)] = e
           /\ \A i \in 1 .. Len(t) : i \in 1 .. Len(s) \/ i = Len(t)
BY AppendProperties

-----------------------------------------------------------------------------
(* Types.                                                                  *)
LEMMA InitType == Init => TypeOK
<1> SUFFICES ASSUME Init PROVE TypeOK
  OBVIOUS
<1>1. loc \in Injection(Hosts, Ports)
  BY HostAssumption DEF Init, ExistsInjection
<1>2. loc \in [Hosts -> Ports]
  BY <1>1 DEF Injection
<1>3. AnyPkt # {}
  <2>1. PICK h \in Hosts : TRUE
    BY HostAssumption
  <2>2. loc[h] \in Ports
    BY <1>2
  <2>3. [src |-> h, dst |-> h, in_port |-> loc[h], lldp |-> TRUE] \in AnyPkt
    BY <2>2 DEF AnyPkt
  <2> QED
    BY <2>3
<1>4. pkt \in [Packets -> AnyPkt]
  BY <1>3 DEF Init
<1>5. Features \in CtrlMessage
  BY DEF CtrlMessage
<1>6. toCtrl \in Seq(CtrlMessage) /\ toSw \in Seq(SwMessage)
  BY <1>5 DEF Init
<1>7. mac_to_port \in [Hosts -> Ports \cup {FLOOD}] /\ left \in [Hosts -> SUBSET Ports]
  BY DEF Init
<1>8. /\ fate \in [Packets -> {"free", "sent", "out", "dropped", "ignored"}]
      /\ to \in [Packets -> SUBSET Ports] /\ buffer \in [BufferIds -> SUBSET Packets]
  BY DEF Init
<1>9. moves \in 0 .. MaxMoves /\ restarts \in 0 .. MaxRestarts
  BY BoundAssumption DEF Init
<1>10. flows \subseteq Flow /\ table_miss \in BOOLEAN
  BY Zenon DEF Init
<1> QED
  BY <1>2, <1>4, <1>6, <1>7, <1>8, <1>9, <1>10 DEF TypeOK

\* A flow-mod or a packet-out leaves the types as they are.
LEMMA OutputType ==
    ASSUME TypeOK, NEW p \in Packets, NEW out \in Ports \cup {FLOOD}, Output(p, out)
    PROVE  /\ to' \in [Packets -> SUBSET Ports]
           /\ fate' \in [Packets -> {"free", "sent", "out", "dropped", "ignored"}]
BY DEF TypeOK, Output, OutPorts

LEMMA SwType == TypeOK /\ (SwFlowMod \/ SwTableMiss \/ SwPacketOut) => TypeOK'
<1> SUFFICES ASSUME TypeOK, SwFlowMod \/ SwTableMiss \/ SwPacketOut PROVE TypeOK'
  OBVIOUS
<1>1. toSw \in Seq(SwMessage) /\ toSw # <<>> /\ toSw' = Tail(toSw)
  BY DEF TypeOK, SwFlowMod, SwTableMiss, SwPacketOut
<1>2. toSw' \in Seq(SwMessage) /\ Head(toSw) \in SwMessage
  BY <1>1, ReadFirst
<1>3. PICK m \in SwMessage : m = Head(toSw)
  BY <1>2
<1>4. CASE SwTableMiss
  BY <1>2, <1>4 DEF SwTableMiss, TypeOK, hosts
<1>5. CASE SwFlowMod
  <2>1. m.flow \in Flow /\ m.buffer_id \in BufferIds \cup {NO_BUFFER} /\ m.flow.out \in Ports
    BY <1>3, <1>5, SwFacts, FlowFacts DEF SwFlowMod
  <2>2. flows' \subseteq Flow
    BY <1>3, <1>5, <2>1 DEF SwFlowMod, TypeOK
  <2>3. CASE m.buffer_id \in BufferIds /\ buffer[m.buffer_id] # {}
    <3>1. PICK p \in buffer[m.buffer_id] : Output(p, m.flow.out)
      BY <1>3, <1>5, <2>3 DEF SwFlowMod
    <3>2. p \in Packets
      BY <2>3, <3>1 DEF TypeOK
    <3>3. /\ to' \in [Packets -> SUBSET Ports]
          /\ fate' \in [Packets -> {"free", "sent", "out", "dropped", "ignored"}]
      BY <2>1, <3>1, <3>2, OutputType
    <3>4. buffer' \in [BufferIds -> SUBSET Packets]
      BY <1>3, <1>5, <2>3 DEF SwFlowMod, TypeOK
    <3> QED
      BY <1>2, <1>5, <2>2, <3>3, <3>4 DEF SwFlowMod, TypeOK, hosts
  <2>4. CASE ~(m.buffer_id \in BufferIds /\ buffer[m.buffer_id] # {})
    <3>1. UNCHANGED <<to, fate, buffer>>
      BY <1>3, <1>5, <2>4 DEF SwFlowMod
    <3> QED
      BY <1>2, <1>5, <2>2, <3>1 DEF SwFlowMod, TypeOK, hosts
  <2> QED
    BY <2>3, <2>4
<1>6. CASE SwPacketOut
  <2>1. m.p \in Packets /\ m.out \in Ports \cup {FLOOD} /\ m.buffer_id \in BufferIds \cup {NO_BUFFER}
    BY <1>3, <1>6, SwFacts DEF SwPacketOut
  <2>2. /\ to' \in [Packets -> SUBSET Ports]
        /\ fate' \in [Packets -> {"free", "sent", "out", "dropped", "ignored"}]
        /\ buffer' \in [BufferIds -> SUBSET Packets]
    <3>1. CASE m.buffer_id = NO_BUFFER
      <4>1. Output(m.p, m.out) /\ UNCHANGED buffer
        BY <1>3, <1>6, <3>1 DEF SwPacketOut
      <4> QED
        BY <2>1, <4>1, OutputType DEF TypeOK
    <3>2. CASE m.buffer_id # NO_BUFFER /\ buffer[m.buffer_id] # {}
      <4>1. PICK p \in buffer[m.buffer_id] : Output(p, m.out)
        BY <1>3, <1>6, <3>2 DEF SwPacketOut
      <4>2. p \in Packets
        BY <2>1, <3>2, <4>1 DEF TypeOK
      <4>3. buffer' \in [BufferIds -> SUBSET Packets]
        BY <1>3, <1>6, <3>2 DEF SwPacketOut, TypeOK
      <4> QED
        BY <2>1, <4>1, <4>2, <4>3, OutputType
    <3>3. CASE m.buffer_id # NO_BUFFER /\ buffer[m.buffer_id] = {}
      <4>1. UNCHANGED <<to, fate, buffer>>
        BY <1>3, <1>6, <3>3 DEF SwPacketOut
      <4> QED
        BY <4>1 DEF TypeOK
    <3> QED
      BY <3>1, <3>2, <3>3
  <2> QED
    BY <1>2, <1>6, <2>2 DEF SwPacketOut, TypeOK, hosts
<1> QED
  BY <1>4, <1>5, <1>6

\* The packet-ins of a packet.
LEMMA PacketInCases ==
    ASSUME NEW p \in Packets, PacketIn(p)
    PROVE  \E m \in CtrlMessage :
              /\ m.kind = "packet_in" /\ m.p = p
              /\ toCtrl' = Append(toCtrl, m)
              /\ \/ m.buffer_id = NO_BUFFER /\ buffer' = buffer
                 \/ /\ m.buffer_id \in BufferIds /\ buffer[m.buffer_id] = {}
                    /\ buffer' = [buffer EXCEPT ![m.buffer_id] = {p}]
<1>1. ASSUME NEW b \in BufferIds \cup {NO_BUFFER}
      PROVE  [kind |-> "packet_in", p |-> p, buffer_id |-> b] \in CtrlMessage
  BY DEF CtrlMessage
<1>2. CASE /\ toCtrl' = Append(toCtrl, [kind |-> "packet_in", p |-> p, buffer_id |-> NO_BUFFER])
           /\ UNCHANGED buffer
  <2>1. PICK m : m = [kind |-> "packet_in", p |-> p, buffer_id |-> NO_BUFFER]
    OBVIOUS
  <2>2. m \in CtrlMessage
    BY <1>1, <2>1
  <2> QED
    BY <1>2, <2>1, <2>2
<1>3. CASE \E b \in BufferIds :
            /\ buffer[b] = {}
            /\ buffer' = [buffer EXCEPT ![b] = {p}]
            /\ toCtrl' = Append(toCtrl, [kind |-> "packet_in", p |-> p, buffer_id |-> b])
  <2>1. PICK b \in BufferIds :
            /\ buffer[b] = {}
            /\ buffer' = [buffer EXCEPT ![b] = {p}]
            /\ toCtrl' = Append(toCtrl, [kind |-> "packet_in", p |-> p, buffer_id |-> b])
    BY <1>3
  <2>2. PICK m : m = [kind |-> "packet_in", p |-> p, buffer_id |-> b]
    OBVIOUS
  <2>3. m \in CtrlMessage
    BY <1>1, <2>2
  <2> QED
    BY <2>1, <2>2, <2>3
<1> QED
  BY <1>2, <1>3 DEF PacketIn

\* The three things that become of a packet that is sent.
LEMMA SendCases ==
    ASSUME TypeOK, NEW p \in Packets, NEW s \in Hosts, NEW d \in Hosts, NEW l \in BOOLEAN,
           Send(p, s, d, l)
    PROVE  /\ UNCHANGED <<mac_to_port, flows, table_miss, toSw, loc, left, moves, restarts>>
           /\ fate[p] # "sent" /\ \A b \in BufferIds : p \notin buffer[b]
           /\ \E r \in AnyPkt :
                /\ r.src = s /\ r.dst = d /\ r.in_port = loc[s]
                /\ pkt' = [pkt EXCEPT ![p] = r]
                /\ \/ /\ fate' = [fate EXCEPT ![p] = "out"]
                      /\ toCtrl' = toCtrl /\ buffer' = buffer
                      /\ \E T \in SUBSET Ports :
                          /\ to' = [to EXCEPT ![p] = T]
                          /\ \E f \in flows : f.dst = d /\ OutPorts(f.out, r) \subseteq T
                   \/ /\ fate' = [fate EXCEPT ![p] = "sent"]
                      /\ to' = [to EXCEPT ![p] = {}] /\ PacketIn(p)
                   \/ /\ fate' = [fate EXCEPT ![p] = "dropped"]
                      /\ to' = [to EXCEPT ![p] = {}] /\ toCtrl' = toCtrl /\ buffer' = buffer
<1>1. /\ UNCHANGED <<mac_to_port, flows, table_miss, toSw, loc, left, moves, restarts>>
      /\ fate[p] # "sent" /\ \A b \in BufferIds : p \notin buffer[b]
  BY DEF Send, hosts
<1> DEFINE r == [src |-> s, dst |-> d, in_port |-> loc[s], lldp |-> l]
           hit == {f \in flows : Matches(f, r)}
<1>4. r \in AnyPkt /\ r.src = s /\ r.dst = d /\ r.in_port = loc[s]
  BY DEF AnyPkt, TypeOK
<1>5. /\ pkt' = [pkt EXCEPT ![p] = r]
      /\ \/ /\ hit # {}
            /\ to' = [to EXCEPT ![p] = UNION {OutPorts(f.out, r) : f \in hit}]
            /\ fate' = [fate EXCEPT ![p] = "out"]
            /\ UNCHANGED <<toCtrl, buffer>>
         \/ /\ to' = [to EXCEPT ![p] = {}]
            /\ fate' = [fate EXCEPT ![p] = "sent"]
            /\ PacketIn(p)
         \/ /\ to' = [to EXCEPT ![p] = {}]
            /\ fate' = [fate EXCEPT ![p] = "dropped"]
            /\ UNCHANGED <<toCtrl, buffer>>
  BY Zenon DEF Send
<1> HIDE DEF r
<1>6. ASSUME hit # {}
      PROVE  \E T \in SUBSET Ports :
                /\ T = UNION {OutPorts(f.out, r) : f \in hit}
                /\ \E f \in flows : f.dst = d /\ OutPorts(f.out, r) \subseteq T
  <2>1. PICK T : T = UNION {OutPorts(f.out, r) : f \in hit}
    OBVIOUS
  <2>2. ASSUME NEW f \in hit PROVE f \in flows /\ f.dst = d /\ OutPorts(f.out, r) \subseteq Ports
    <3>1. f \in flows /\ f.dst = d
      BY <1>4 DEF Matches
    <3>2. f.out \in Ports
      BY <3>1, FlowFacts DEF TypeOK
    <3> QED
      BY <3>1, <3>2 DEF OutPorts
  <2>3. T \in SUBSET Ports
    BY <2>1, <2>2
  <2>4. PICK f \in hit : TRUE
    BY <1>6
  <2>5. OutPorts(f.out, r) \subseteq T
    BY <2>1, <2>4
  <2> QED
    BY <2>1, <2>2, <2>3, <2>4, <2>5
<1> HIDE DEF hit
<1>7. CASE /\ hit # {}
           /\ to' = [to EXCEPT ![p] = UNION {OutPorts(f.out, r) : f \in hit}]
           /\ fate' = [fate EXCEPT ![p] = "out"]
           /\ UNCHANGED <<toCtrl, buffer>>
  <2>1. PICK T \in SUBSET Ports :
            /\ T = UNION {OutPorts(f.out, r) : f \in hit}
            /\ \E f \in flows : f.dst = d /\ OutPorts(f.out, r) \subseteq T
    BY <1>6, <1>7
  <2>2. to' = [to EXCEPT ![p] = T]
    BY <1>7, <2>1, Zenon
  <2> QED
    BY <1>1, <1>4, <1>5, <1>7, <2>1, <2>2, Zenon
<1> QED
  BY <1>1, <1>4, <1>5, <1>7, Zenon

LEMMA SendType ==
    ASSUME TypeOK, NEW p \in Packets, NEW s \in Hosts, NEW d \in Hosts, NEW l \in BOOLEAN,
           Send(p, s, d, l)
    PROVE  TypeOK'
<1>1. UNCHANGED <<mac_to_port, flows, table_miss, toSw, loc, left, moves, restarts>>
  BY SendCases
<1>2. /\ pkt' \in [Packets -> AnyPkt] /\ to' \in [Packets -> SUBSET Ports]
      /\ fate' \in [Packets -> {"free", "sent", "out", "dropped", "ignored"}]
  <2>1. PICK r \in AnyPkt, T \in SUBSET Ports, v \in {"out", "sent", "dropped"} :
            /\ pkt' = [pkt EXCEPT ![p] = r] /\ to' = [to EXCEPT ![p] = T]
            /\ fate' = [fate EXCEPT ![p] = v]
    <3>1. PICK r \in AnyPkt : pkt' = [pkt EXCEPT ![p] = r]
      BY SendCases
    <3>2. {} \in SUBSET Ports
      OBVIOUS
    <3>3. \E T \in SUBSET Ports : to' = [to EXCEPT ![p] = T]
      <4>1. \/ to' = [to EXCEPT ![p] = {}]
            \/ \E T \in SUBSET Ports : to' = [to EXCEPT ![p] = T]
        BY SendCases
      <4> QED
        BY <3>2, <4>1, Zenon
    <3>4. \E v \in {"out", "sent", "dropped"} : fate' = [fate EXCEPT ![p] = v]
      BY SendCases
    <3> QED
      BY <3>1, <3>3, <3>4, Zenon
  <2> QED
    BY <2>1 DEF TypeOK
<1>3. toCtrl' \in Seq(CtrlMessage) /\ buffer' \in [BufferIds -> SUBSET Packets]
  <2>1. CASE toCtrl' = toCtrl /\ buffer' = buffer
    BY <2>1 DEF TypeOK
  <2>2. CASE PacketIn(p)
    <3>1. PICK m \in CtrlMessage :
            /\ toCtrl' = Append(toCtrl, m)
            /\ \/ buffer' = buffer
               \/ m.buffer_id \in BufferIds /\ buffer' = [buffer EXCEPT ![m.buffer_id] = {p}]
      BY <2>2, PacketInCases, Zenon
    <3>2. {p} \in SUBSET Packets
      OBVIOUS
    <3>3. ASSUME m.buffer_id \in BufferIds, buffer' = [buffer EXCEPT ![m.buffer_id] = {p}]
          PROVE  buffer' \in [BufferIds -> SUBSET Packets]
      <4>1. PICK c \in BufferIds : buffer' = [buffer EXCEPT ![c] = {p}]
        BY <3>3, Zenon
      <4> QED
        BY <3>2, <4>1 DEF TypeOK
    <3>4. buffer' \in [BufferIds -> SUBSET Packets]
      BY <3>1, <3>3 DEF TypeOK
    <3> QED
      BY <3>1, <3>4 DEF TypeOK
  <2> QED
    BY <2>1, <2>2, SendCases
<1> QED
  BY <1>1, <1>2, <1>3 DEF TypeOK

\* What the controller does with a packet-in.
LEMMA PacketInHandled ==
    ASSUME TypeOK, _packet_in_handler, NEW m, m = toCtrl[1], NEW r, r = pkt[m.p]
    PROVE  /\ toCtrl # <<>> /\ toCtrl' = Tail(toCtrl)
           /\ m \in CtrlMessage /\ m.kind = "packet_in" /\ m.p \in Packets /\ r \in AnyPkt
           /\ UNCHANGED <<flows, table_miss, buffer, loc, left, moves, pkt, to, restarts>>
           /\ \/ /\ fate' = [fate EXCEPT ![m.p] = "ignored"]
                 /\ mac_to_port' = mac_to_port /\ toSw' = toSw
              \/ /\ fate' = fate
                 /\ mac_to_port' = [mac_to_port EXCEPT ![r.src] = r.in_port]
                 /\ \E out \in Ports \cup {FLOOD} :
                     out = mac_to_port'[r.dst] /\ toSw' = toSw \o Answer(m, r, out)
<1>1. toCtrl # <<>> /\ toCtrl' = Tail(toCtrl) /\ Head(toCtrl).kind = "packet_in"
  BY Zenon DEF _packet_in_handler
<1>2. m \in CtrlMessage /\ m.kind = "packet_in" /\ m = Head(toCtrl)
  BY <1>1, ReadFirst DEF TypeOK
<1>3. m.p \in Packets /\ r \in AnyPkt
  BY <1>2, CtrlFacts DEF TypeOK
<1>4. UNCHANGED <<flows, table_miss, buffer, loc, left, moves, pkt, to, restarts>>
  BY Zenon DEF _packet_in_handler, hosts
<1>5. \/ /\ fate' = [fate EXCEPT ![m.p] = "ignored"]
         /\ mac_to_port' = mac_to_port /\ toSw' = toSw
      \/ /\ fate' = fate
         /\ mac_to_port' = Learn(r)
         /\ toSw' = toSw \o Answer(m, r, mac_to_port'[r.dst])
  BY <1>2, Zenon DEF _packet_in_handler
<1>6. ASSUME mac_to_port' = Learn(r)
      PROVE  /\ mac_to_port' = [mac_to_port EXCEPT ![r.src] = r.in_port]
             /\ mac_to_port'[r.dst] \in Ports \cup {FLOOD}
  BY <1>3, <1>6, PktFacts DEF Learn, TypeOK
<1> QED
  BY <1>1, <1>2, <1>3, <1>4, <1>5, <1>6, Zenon

LEMMA PacketInType == TypeOK /\ _packet_in_handler => TypeOK'
<1> SUFFICES ASSUME TypeOK, _packet_in_handler PROVE TypeOK'
  OBVIOUS
<1>1. PICK m, r : m = toCtrl[1] /\ r = pkt[m.p]
  OBVIOUS
<1>2. /\ toCtrl # <<>> /\ toCtrl' = Tail(toCtrl)
      /\ m \in CtrlMessage /\ m.kind = "packet_in" /\ m.p \in Packets /\ r \in AnyPkt
      /\ UNCHANGED <<flows, table_miss, buffer, loc, left, moves, pkt, to, restarts>>
  BY <1>1, PacketInHandled
<1>3. toCtrl' \in Seq(CtrlMessage)
  BY <1>2, ReadFirst DEF TypeOK
<1>4. CASE /\ fate' = [fate EXCEPT ![m.p] = "ignored"]
           /\ mac_to_port' = mac_to_port /\ toSw' = toSw
  BY <1>2, <1>3, <1>4 DEF TypeOK
<1>5. CASE /\ fate' = fate
           /\ mac_to_port' = [mac_to_port EXCEPT ![r.src] = r.in_port]
           /\ \E out \in Ports \cup {FLOOD} : toSw' = toSw \o Answer(m, r, out)
  <2>1. PICK out \in Ports \cup {FLOOD} : toSw' = toSw \o Answer(m, r, out)
    BY <1>5
  <2>2. Answer(m, r, out) \in Seq(SwMessage)
    BY <1>2, AnswerFacts
  <2>3. toSw' \in Seq(SwMessage)
    BY <2>1, <2>2 DEF TypeOK
  <2>4. mac_to_port' \in [Hosts -> Ports \cup {FLOOD}]
    BY <1>2, <1>5, PktFacts DEF TypeOK
  <2> QED
    BY <1>2, <1>3, <1>5, <2>3, <2>4 DEF TypeOK
<1> QED
  BY <1>1, <1>4, <1>5, PacketInHandled

LEMMA StepType == TypeOK /\ [Next]_vars => TypeOK'
<1> SUFFICES ASSUME TypeOK, [Next]_vars PROVE TypeOK'
  OBVIOUS
<1>1. CASE switch_features_handler
  <2>1. toCtrl' \in Seq(CtrlMessage)
    BY <1>1, ReadFirst DEF switch_features_handler, TypeOK
  <2>2. [kind |-> "table_miss"] \in SwMessage
    BY DEF SwMessage
  <2>3. toSw' \in Seq(SwMessage)
    BY <1>1, <2>2, WriteLast DEF switch_features_handler, TypeOK
  <2> QED
    BY <1>1, <2>1, <2>3 DEF switch_features_handler, TypeOK, hosts
<1>2. CASE _packet_in_handler
  BY <1>2, PacketInType
<1>3. CASE Switch
  BY <1>3, SwType DEF Switch
<1>4. CASE Restart
  <2>1. toCtrl' \in Seq(CtrlMessage) /\ toSw' \in Seq(SwMessage)
    BY <1>4 DEF Restart, CtrlMessage
  <2>2. /\ fate' \in [Packets -> {"free", "sent", "out", "dropped", "ignored"}]
        /\ buffer' \in [BufferIds -> SUBSET Packets] /\ flows' \subseteq Flow
    BY <1>4 DEF Restart, TypeOK
  <2>3. restarts' \in 0 .. MaxRestarts
    BY <1>4, BoundAssumption DEF Restart, TypeOK
  <2>4. table_miss' \in BOOLEAN
    BY <1>4, Zenon DEF Restart
  <2> QED
    BY <1>4, <2>1, <2>2, <2>3, <2>4 DEF Restart, TypeOK, hosts
<1>5. ASSUME NEW s \in Hosts, NEW d \in Hosts, NEW l \in BOOLEAN, SomeSend(s, d, l)
      PROVE  TypeOK'
  BY <1>5, SendType DEF SomeSend
<1>6. ASSUME NEW h \in Hosts, NEW q \in Ports, Move(h, q)
      PROVE  TypeOK'
  <2>1. moves' \in 0 .. MaxMoves
    BY <1>6, BoundAssumption DEF Move, TypeOK
  <2>2. loc' \in [Hosts -> Ports] /\ left' \in [Hosts -> SUBSET Ports]
    BY <1>6 DEF Move, TypeOK
  <2> QED
    BY <1>6, <2>1, <2>2 DEF Move, TypeOK
<1>7. CASE UNCHANGED vars
  BY <1>7 DEF vars, TypeOK
<1> QED
  BY <1>1, <1>2, <1>3, <1>4, <1>5, <1>6, <1>7 DEF Next, Controller

\* The variables keep their types.
THEOREM TypeCorrect == Spec => []TypeOK
BY InitType, StepType, PTL DEF Spec

-----------------------------------------------------------------------------
(* Which message carries which packet.                                     *)
LEMMA CtrlCarries ==
    ASSUME NEW m \in CtrlMessage, NEW p
    PROVE  Carries(m, p) <=> m.kind = "packet_in" /\ m.p = p
BY CtrlFacts DEF Carries

LEMMA SwCarries ==
    ASSUME NEW m \in SwMessage, NEW p
    PROVE  Carries(m, p) <=>
              \/ m.kind = "packet_out" /\ m.buffer_id = NO_BUFFER /\ m.p = p
              \/ /\ m.kind \in {"flow_mod", "packet_out"} /\ m.buffer_id \in BufferIds
                 /\ p \in buffer[m.buffer_id]
BY SwFacts DEF Carries

\* The channels hold messages, and a message of the switch names one packet.
LEMMA Channels ==
    ASSUME IInv
    PROVE  /\ Len(toCtrl) \in Nat /\ Len(toSw) \in Nat
           /\ \A i \in 1 .. Len(toCtrl) : toCtrl[i] \in CtrlMessage /\ CtrlOK(toCtrl[i])
           /\ \A i \in 1 .. Len(toSw) : toSw[i] \in SwMessage /\ SwOK(toSw[i])
BY DEF IInv, TypeOK, ChannelsOK

LEMMA CarriesOnePacket ==
    ASSUME IInv, NEW i \in 1 .. Len(toSw), NEW p, NEW q,
           Carries(toSw[i], p), Carries(toSw[i], q)
    PROVE  p = q
<1>1. PICK m \in SwMessage : m = toSw[i]
  BY Channels
<1>2. CASE m.buffer_id = NO_BUFFER
  BY <1>1, <1>2, SwCarries, BufferAssumption
<1>3. CASE m.buffer_id # NO_BUFFER
  <2>1. m.buffer_id \in BufferIds /\ p \in buffer[m.buffer_id] /\ q \in buffer[m.buffer_id]
    BY <1>1, <1>3, SwCarries
  <2> QED
    BY <2>1 DEF IInv, BuffersOK
<1> QED
  BY <1>2, <1>3

\* A message that names a buffer carries what it holds.
LEMMA NamedBuffer ==
    ASSUME IInv
    PROVE  /\ \A i \in 1 .. Len(toCtrl) :
                toCtrl[i].kind = "packet_in" =>
                    /\ toCtrl[i].p \in Packets /\ Carries(toCtrl[i], toCtrl[i].p)
                    /\ toCtrl[i].buffer_id # NO_BUFFER =>
                        /\ toCtrl[i].buffer_id \in BufferIds
                        /\ toCtrl[i].p \in buffer[toCtrl[i].buffer_id]
           /\ \A i \in 1 .. Len(toSw) :
                toSw[i].kind = "packet_out" => toSw[i].p \in Packets /\ Carries(toSw[i], toSw[i].p)
           /\ \A i \in 1 .. Len(toSw) :
                toSw[i].kind \in {"flow_mod", "packet_out"} /\ toSw[i].buffer_id # NO_BUFFER =>
                    /\ toSw[i].buffer_id \in BufferIds
                    /\ \E p \in Packets : /\ p \in buffer[toSw[i].buffer_id]
                                          /\ Carries(toSw[i], p)
<1>1. ASSUME NEW i \in 1 .. Len(toCtrl), NEW m \in CtrlMessage, m = toCtrl[i],
             m.kind = "packet_in"
      PROVE  /\ m.p \in Packets /\ Carries(m, m.p)
             /\ m.buffer_id # NO_BUFFER => m.buffer_id \in BufferIds /\ m.p \in buffer[m.buffer_id]
  BY <1>1, CtrlFacts, CtrlCarries, Channels DEF CtrlOK, PacketInOK
<1>2. ASSUME NEW i \in 1 .. Len(toSw), NEW m \in SwMessage, m = toSw[i],
             m.kind = "packet_out"
      PROVE  /\ m.p \in Packets /\ Carries(m, m.p)
             /\ m.buffer_id # NO_BUFFER => m.buffer_id \in BufferIds /\ m.p \in buffer[m.buffer_id]
  BY <1>2, SwFacts, SwCarries, Channels DEF SwOK, PacketOutOK, PacketInOK
<1>3. ASSUME NEW i \in 1 .. Len(toSw), NEW m \in SwMessage, m = toSw[i],
             m.kind = "flow_mod", m.buffer_id # NO_BUFFER
      PROVE  m.buffer_id \in BufferIds /\ \E p \in Packets : p \in buffer[m.buffer_id]
  <2>1. m.buffer_id \in BufferIds /\ buffer[m.buffer_id] # {}
    BY <1>3, SwFacts, Channels DEF SwOK, FlowModOK
  <2>2. buffer[m.buffer_id] \subseteq Packets
    BY <2>1 DEF IInv, TypeOK
  <2> QED
    BY <2>1, <2>2
<1>4. ASSUME NEW i \in 1 .. Len(toSw), NEW m \in SwMessage, m = toSw[i],
             m.kind \in {"flow_mod", "packet_out"}, m.buffer_id # NO_BUFFER
      PROVE  /\ m.buffer_id \in BufferIds
             /\ \E p \in Packets : p \in buffer[m.buffer_id] /\ Carries(m, p)
  BY <1>2, <1>3, <1>4, SwCarries
<1> QED
  BY <1>1, <1>2, <1>4, Channels

\* A packet that is carried is on its way.
LEMMA CarriedSent ==
    ASSUME IInv, NEW p \in Packets
    PROVE  /\ \A i \in 1 .. Len(toCtrl) : Carries(toCtrl[i], p) => fate[p] = "sent"
           /\ \A i \in 1 .. Len(toSw) : Carries(toSw[i], p) => fate[p] = "sent"
<1>1. ASSUME NEW i \in 1 .. Len(toCtrl), Carries(toCtrl[i], p) PROVE fate[p] = "sent"
  BY <1>1, CtrlCarries, Channels DEF CtrlOK, PacketInOK
<1>2. ASSUME NEW i \in 1 .. Len(toSw), Carries(toSw[i], p) PROVE fate[p] = "sent"
  <2>1. PICK m \in SwMessage : m = toSw[i] /\ SwOK(m)
    BY Channels
  <2>2. CASE m.kind = "packet_out"
    <3>1. m.p = p
      BY <1>2, <2>1, <2>2, NamedBuffer, CarriesOnePacket
    <3> QED
      BY <2>1, <2>2, <3>1 DEF SwOK, PacketOutOK, PacketInOK
  <2>3. CASE m.kind # "packet_out"
    <3>1. /\ m.kind = "flow_mod" /\ m.buffer_id \in BufferIds
          /\ p \in buffer[m.buffer_id] /\ m.buffer_id # NO_BUFFER
      BY <1>2, <2>1, <2>3, SwCarries, BufferAssumption
    <3> QED
      BY <2>1, <3>1 DEF SwOK, FlowModOK
  <2> QED
    BY <2>2, <2>3
<1> QED
  BY <1>1, <1>2

\* What the switch does with a message keeps the invariant: the packet it
\* carried leaves the switch, and its buffer is free.
LEMMA OutputKeeps ==
    ASSUME IInv, TypeOK',
           toSw # <<>>, toSw' = Tail(toSw),
           NEW m, m = toSw[1],
           NEW out \in Ports \cup {FLOOD},
           \A p \in Packets : Carries(m, p) => out \in Seen(pkt[p].dst) \cup {FLOOD},
           mac_to_port' = mac_to_port, toCtrl' = toCtrl, loc' = loc, left' = left, pkt' = pkt,
           \A f \in flows' : FlowOK(f),
           \A p \in Packets :
              \/ Carries(m, p) /\ fate'[p] = "out" /\ to'[p] = OutPorts(out, pkt[p])
              \/ ~Carries(m, p) /\ fate'[p] = fate[p] /\ to'[p] = to[p],
           \A b \in BufferIds :
              \/ buffer'[b] = {} /\ \A p \in buffer[b] : Carries(m, p)
              \/ buffer'[b] = buffer[b]
    PROVE  IInv' /\ (OnlyBuffer0Keeps => OnlyBuffer0Keeps')
<1>1. /\ 1 \in 1 .. Len(toSw) /\ Len(toSw) \in Nat /\ Len(toSw') \in Nat
      /\ \A i \in 1 .. Len(toSw') : i + 1 \in 1 .. Len(toSw) /\ i + 1 # 1 /\ toSw'[i] = toSw[i + 1]
      /\ \A i \in 1 .. Len(toSw) : i # 1 => i - 1 \in 1 .. Len(toSw') /\ toSw'[i - 1] = toSw[i]
  <2>1. toSw \in Seq(SwMessage) /\ toSw' \in Seq(SwMessage)
    BY DEF IInv, TypeOK
  <2> QED
    BY <2>1, ReadFirst
<1>2. m \in SwMessage /\ SwOK(m)
  BY <1>1, Channels
<1>3. \A x, p : Carries(x, p)' => Carries(x, p)
  BY DEF Carries
<1>4. /\ \A i \in 1 .. Len(toCtrl), p \in Packets : Carries(toCtrl[i], p) => ~Carries(m, p)
      /\ \A i \in 1 .. Len(toSw') : \A p \in Packets : Carries(toSw'[i], p) => ~Carries(m, p)
  BY <1>1 DEF IInv, CarriedOnce
<1>5. \A p \in Packets, b \in BufferIds :
        p \in buffer[b] /\ ~Carries(m, p) => buffer'[b] = buffer[b]
  OBVIOUS
<1>6. /\ \A i \in 1 .. Len(toCtrl) :
            toCtrl[i].kind = "packet_in" =>
                /\ fate'[toCtrl[i].p] = fate[toCtrl[i].p]
                /\ toCtrl[i].buffer_id # NO_BUFFER =>
                    buffer'[toCtrl[i].buffer_id] = buffer[toCtrl[i].buffer_id]
      /\ \A i \in 1 .. Len(toSw') :
            toSw'[i].kind = "packet_out" => fate'[toSw'[i].p] = fate[toSw'[i].p]
      /\ \A i \in 1 .. Len(toSw') :
            toSw'[i].kind \in {"flow_mod", "packet_out"} /\ toSw'[i].buffer_id # NO_BUFFER =>
                /\ toSw'[i].buffer_id \in BufferIds
                /\ buffer'[toSw'[i].buffer_id] = buffer[toSw'[i].buffer_id]
  <2>1. ASSUME NEW i \in 1 .. Len(toCtrl), NEW x, x = toCtrl[i], x.kind = "packet_in"
        PROVE  /\ fate'[x.p] = fate[x.p]
               /\ x.buffer_id # NO_BUFFER => buffer'[x.buffer_id] = buffer[x.buffer_id]
    <3>1. /\ x.p \in Packets /\ ~Carries(m, x.p)
          /\ x.buffer_id # NO_BUFFER => x.buffer_id \in BufferIds /\ x.p \in buffer[x.buffer_id]
      BY <1>4, <2>1, NamedBuffer
    <3> QED
      BY <1>5, <3>1
  <2>2. ASSUME NEW i \in 1 .. Len(toSw'), NEW x, x = toSw'[i], x.kind = "packet_out"
        PROVE  fate'[x.p] = fate[x.p]
    <3>1. x.p \in Packets /\ ~Carries(m, x.p)
      BY <1>1, <1>4, <2>2, NamedBuffer
    <3> QED
      BY <3>1
  <2>3. ASSUME NEW i \in 1 .. Len(toSw'), NEW x, x = toSw'[i],
               x.kind \in {"flow_mod", "packet_out"}, x.buffer_id # NO_BUFFER
        PROVE  x.buffer_id \in BufferIds /\ buffer'[x.buffer_id] = buffer[x.buffer_id]
    <3>1. x.buffer_id \in BufferIds
      BY <1>1, <2>3, NamedBuffer
    <3>2. PICK p \in Packets : p \in buffer[x.buffer_id] /\ Carries(x, p)
      BY <1>1, <2>3, NamedBuffer
    <3>3. ~Carries(m, p)
      BY <1>4, <2>3, <3>2
    <3> QED
      BY <1>5, <3>1, <3>2, <3>3
  <2> QED
    BY <2>1, <2>2, <2>3
<1>7. BuffersOK'
  <2>1. ASSUME NEW b \in BufferIds, NEW p \in buffer'[b] PROVE p \in buffer[b]
    BY <2>1
  <2> QED
    BY <2>1 DEF IInv, BuffersOK
<1>8. \A f : FlowOK(f) => FlowOK(f)'
  BY DEF FlowOK, Seen, Fresh
<1>9. ChannelsOK'
  <2>1. ASSUME NEW i \in 1 .. Len(toCtrl), NEW x, x = toCtrl[i]
        PROVE  CtrlOK(x)'
    BY <1>6, <2>1, Channels DEF CtrlOK, PacketInOK
  <2>2. ASSUME NEW i \in 1 .. Len(toSw'), NEW x, x = toSw'[i]
        PROVE  SwOK(x)'
    <3>1. SwOK(x)
      BY <1>1, <2>2, Channels
    <3>2. ASSUME x.kind = "packet_out" PROVE PacketOutOK(x)'
      BY <1>6, <2>2, <3>1, <3>2 DEF SwOK, PacketOutOK, PacketInOK, Seen
    <3>3. ASSUME x.kind = "flow_mod" PROVE FlowModOK(x)'
      <4>1. FlowModOK(x)
        BY <3>1, <3>3 DEF SwOK
      <4>2. ASSUME x.buffer_id # NO_BUFFER, NEW p \in buffer[x.buffer_id]
            PROVE  fate'[p] = fate[p]
        <5>1. x \in SwMessage /\ x.buffer_id \in BufferIds /\ p \in Packets
          BY <1>1, <2>2, <3>3, <4>2, NamedBuffer, Channels DEF IInv, TypeOK
        <5>2. Carries(x, p)
          BY <3>3, <4>2, <5>1, SwCarries
        <5> QED
          BY <1>4, <2>2, <5>1, <5>2
      <4> QED
        BY <1>6, <1>8, <2>2, <3>3, <4>1, <4>2 DEF FlowModOK
    <3> QED
      BY <3>2, <3>3 DEF SwOK
  <2> QED
    BY <2>1, <2>2 DEF ChannelsOK
<1>10. CarriedOnce'
  <2>1. ASSUME NEW p \in Packets
        PROVE  /\ \A i, j \in 1 .. Len(toCtrl') :
                    Carries(toCtrl[i], p)' /\ Carries(toCtrl[j], p)' => i = j
               /\ \A i, j \in 1 .. Len(toSw') :
                    Carries(toSw[i], p)' /\ Carries(toSw[j], p)' => i = j
               /\ \A i \in 1 .. Len(toCtrl'), j \in 1 .. Len(toSw') :
                    ~(Carries(toCtrl[i], p)' /\ Carries(toSw[j], p)')
    <3>1. ASSUME NEW i \in 1 .. Len(toCtrl'), Carries(toCtrl[i], p)'
          PROVE  i \in 1 .. Len(toCtrl) /\ Carries(toCtrl[i], p)
      BY <1>3, <3>1
    <3>2. ASSUME NEW i \in 1 .. Len(toSw'), Carries(toSw[i], p)'
          PROVE  i + 1 \in 1 .. Len(toSw) /\ Carries(toSw[i + 1], p)
      BY <1>1, <1>3, <3>2
    <3>3. /\ \A i, j \in 1 .. Len(toCtrl) : Carries(toCtrl[i], p) /\ Carries(toCtrl[j], p) => i = j
          /\ \A i, j \in 1 .. Len(toSw) : Carries(toSw[i], p) /\ Carries(toSw[j], p) => i = j
          /\ \A i \in 1 .. Len(toCtrl), j \in 1 .. Len(toSw) :
                ~(Carries(toCtrl[i], p) /\ Carries(toSw[j], p))
      BY DEF IInv, CarriedOnce
    <3> QED
      BY <1>1, <3>1, <3>2, <3>3
  <2> QED
    BY <2>1 DEF CarriedOnce
<1>11. LearntOK'
  <2>1. \A p \in Packets : fate'[p] # "free" => fate[p] # "free"
    <3>1. ASSUME NEW p \in Packets, Carries(m, p) PROVE fate[p] = "sent"
      BY <1>1, <3>1, CarriedSent
    <3> QED
      BY <3>1
  <2>2. \A f \in flows' : FlowOK(f)'
    BY <1>8
  <2> QED
    BY <2>1, <2>2 DEF IInv, LearntOK, Seen
<1>12. ReachesDst'
  <2>1. ASSUME NEW p \in Packets, fate'[p] = "out", left[pkt[p].dst] = {}
        PROVE  loc[pkt[p].dst] \in to'[p] \cup {pkt[p].in_port}
    <3>1. CASE ~Carries(m, p)
      BY <2>1, <3>1 DEF IInv, ReachesDst
    <3>2. CASE Carries(m, p)
      <4>1. to'[p] = OutPorts(out, pkt[p])
        BY <3>2
      <4>2. out = loc[pkt[p].dst] \/ out = FLOOD
        BY <2>1, <3>2 DEF Seen
      <4>3. loc[pkt[p].dst] \in Ports
        BY PktFacts DEF IInv, TypeOK
      <4> QED
        BY <4>1, <4>2, <4>3 DEF OutPorts
    <3> QED
      BY <3>1, <3>2
  <2> QED
    BY <2>1 DEF ReachesDst
<1>13. \A h \in Hosts : Fresh(h)' => InOrder(h)'
  BY DEF IInv, Fresh, InOrder, TellsOf
<1>14. ASSUME OnlyBuffer0Keeps PROVE OnlyBuffer0Keeps'
  <2>1. ASSUME NEW p \in Packets, fate'[p] = "sent", ~Held(p, 0)' PROVE InTransit(p)'
    <3>1. fate[p] = "sent" /\ ~Carries(m, p)
      BY <2>1
    <3>2. \A x : Carries(x, p) => Carries(x, p)'
      BY <1>5, <3>1 DEF Carries
    <3>3. PICK x \in Range(toCtrl) \cup Range(toSw) : Carries(x, p)
      <4>1. ~Held(p, 0)
        BY <1>5, <2>1, <3>1 DEF Held
      <4> QED
        BY <1>14, <3>1, <4>1 DEF OnlyBuffer0Keeps, InTransit
    <3>4. CASE x \in Range(toCtrl)
      BY <3>2, <3>3, <3>4 DEF InTransit
    <3>5. CASE x \in Range(toSw)
      <4>1. PICK i \in 1 .. Len(toSw) : x = toSw[i]
        BY <3>5 DEF Range, IInv, TypeOK
      <4>2. i # 1
        BY <3>1, <3>3, <4>1
      <4>3. x \in Range(toSw')
        <5>1. toSw' \in Seq(SwMessage)
          BY DEF TypeOK
        <5>2. i - 1 \in DOMAIN toSw' /\ toSw'[i - 1] = x
          BY <1>1, <4>1, <4>2, <5>1
        <5> QED
          BY <5>2 DEF Range
      <4> QED
        BY <3>2, <3>3, <4>3 DEF InTransit
    <3> QED
      BY <3>3, <3>4, <3>5
  <2> QED
    BY <2>1 DEF OnlyBuffer0Keeps
<1> QED
  BY <1>7, <1>9, <1>10, <1>11, <1>12, <1>13, <1>14 DEF IInv

LEMMA SwKeeps ==
    ASSUME IInv, TypeOK', Switch
    PROVE  IInv' /\ (OnlyBuffer0Keeps => OnlyBuffer0Keeps')
<1>1. toSw # <<>> /\ toSw' = Tail(toSw)
  BY DEF Switch, SwFlowMod, SwTableMiss, SwPacketOut
<1>2. PICK m : m = toSw[1] /\ m = Head(toSw)
  BY <1>1, ReadFirst DEF IInv, TypeOK
<1>3. 1 \in 1 .. Len(toSw)
  BY <1>1, ReadFirst DEF IInv, TypeOK
<1>4. m \in SwMessage /\ SwOK(m)
  BY <1>2, <1>3, Channels
<1>5. UNCHANGED <<mac_to_port, toCtrl, loc, left, pkt>>
  BY DEF Switch, SwFlowMod, SwTableMiss, SwPacketOut, hosts
<1>6. \A f \in flows : FlowOK(f)
  BY DEF IInv, LearntOK
<1>7. /\ fate \in [Packets -> {"free", "sent", "out", "dropped", "ignored"}]
      /\ to \in [Packets -> SUBSET Ports] /\ buffer \in [BufferIds -> SUBSET Packets]
  BY DEF IInv, TypeOK
<1>8. ASSUME NEW p, NEW q, Carries(m, p), Carries(m, q) PROVE p = q
  BY <1>2, <1>3, <1>8, CarriesOnePacket
<1>9. CASE SwTableMiss
  <2>1. m.kind = "table_miss" /\ UNCHANGED <<flows, fate, to, buffer>>
    BY <1>2, <1>9 DEF SwTableMiss
  <2>2. \A p : ~Carries(m, p)
    BY <2>1 DEF Carries
  <2> QED
    BY <1>1, <1>2, <1>5, <1>6, <2>1, <2>2, OutputKeeps
<1>10. CASE SwFlowMod
  <2>1. /\ m.kind = "flow_mod" /\ m.flow \in Flow /\ FlowModOK(m)
        /\ m.buffer_id \in BufferIds \cup {NO_BUFFER}
    BY <1>2, <1>4, <1>10, SwFacts DEF SwFlowMod, SwOK
  <2>2. \A f \in flows' : FlowOK(f)
    BY <1>2, <1>6, <1>10, <2>1 DEF SwFlowMod, FlowModOK
  <2>3. m.flow.out \in Ports \cup {FLOOD}
    BY <2>1, FlowFacts
  <2>4. \A p \in Packets : Carries(m, p) => m.flow.out \in Seen(pkt[p].dst) \cup {FLOOD}
    BY <1>4, <2>1, SwCarries, BufferAssumption DEF FlowModOK, FlowOK
  <2>5. CASE m.buffer_id = NO_BUFFER
    <3>1. UNCHANGED <<to, fate, buffer>>
      BY <1>2, <1>10, <2>5, BufferAssumption DEF SwFlowMod
    <3>2. \A p : ~Carries(m, p)
      BY <1>4, <2>1, <2>5, SwCarries, BufferAssumption
    <3> QED
      BY <1>1, <1>2, <1>5, <2>2, <2>3, <3>1, <3>2, OutputKeeps
  <2>6. CASE m.buffer_id \in BufferIds
    <3>1. buffer[m.buffer_id] # {}
      BY <2>1, <2>6, BufferAssumption DEF FlowModOK
    <3>2. /\ buffer' = [buffer EXCEPT ![m.buffer_id] = {}]
          /\ \E p \in buffer[m.buffer_id] : Output(p, m.flow.out)
      BY <1>2, <1>10, <2>6, <3>1 DEF SwFlowMod
    <3>3. PICK p \in buffer[m.buffer_id] : Output(p, m.flow.out)
      BY <3>2
    <3>4. p \in Packets
      BY <1>7, <2>6
    <3>5. \A q : Carries(m, q) <=> q \in buffer[m.buffer_id]
      BY <1>4, <2>1, <2>6, SwCarries
    <3>6. \A q : Carries(m, q) <=> q = p
      BY <1>8, <3>3, <3>5
    <3>7. \A q \in Packets :
              \/ Carries(m, q) /\ fate'[q] = "out" /\ to'[q] = OutPorts(m.flow.out, pkt[q])
              \/ ~Carries(m, q) /\ fate'[q] = fate[q] /\ to'[q] = to[q]
      BY <1>7, <3>3, <3>4, <3>6 DEF Output
    <3>8. \A b \in BufferIds :
              \/ buffer'[b] = {} /\ \A q \in buffer[b] : Carries(m, q)
              \/ buffer'[b] = buffer[b]
      BY <1>7, <2>6, <3>2, <3>5
    <3> QED
      BY <1>1, <1>2, <1>5, <2>2, <2>3, <2>4, <3>7, <3>8, OutputKeeps
  <2> QED
    BY <2>1, <2>5, <2>6
<1>11. CASE SwPacketOut
  <2>1. /\ m.kind = "packet_out" /\ m.p \in Packets /\ PacketOutOK(m)
        /\ m.buffer_id \in BufferIds \cup {NO_BUFFER} /\ m.out \in Ports \cup {FLOOD}
    BY <1>2, <1>4, <1>11, SwFacts DEF SwPacketOut, SwOK
  <2>2. flows' = flows
    BY <1>11 DEF SwPacketOut
  <2>3. \A q : Carries(m, q) <=> q = m.p
    <3>1. Carries(m, m.p)
      BY <1>2, <1>3, <2>1, NamedBuffer
    <3> QED
      BY <1>8, <3>1
  <2>4. \A p \in Packets : Carries(m, p) => m.out \in Seen(pkt[p].dst) \cup {FLOOD}
    BY <2>1, <2>3 DEF PacketOutOK
  <2>5. /\ Output(m.p, m.out)
        /\ \A b \in BufferIds :
              \/ buffer'[b] = {} /\ \A q \in buffer[b] : Carries(m, q)
              \/ buffer'[b] = buffer[b]
    <3>1. CASE m.buffer_id = NO_BUFFER
      BY <1>2, <1>11, <3>1 DEF SwPacketOut
    <3>2. CASE m.buffer_id # NO_BUFFER
      <4>1. m.buffer_id \in BufferIds /\ m.p \in buffer[m.buffer_id]
        BY <2>1, <3>2 DEF PacketOutOK, PacketInOK
      <4>2. /\ buffer' = [buffer EXCEPT ![m.buffer_id] = {}]
            /\ \E p \in buffer[m.buffer_id] : Output(p, m.out)
        BY <1>2, <1>11, <3>2, <4>1 DEF SwPacketOut
      <4>3. \A q \in buffer[m.buffer_id] : Carries(m, q)
        BY <1>4, <2>1, <4>1, SwCarries
      <4>4. Output(m.p, m.out)
        BY <2>3, <4>2, <4>3
      <4> QED
        BY <1>7, <4>1, <4>2, <4>3, <4>4
    <3> QED
      BY <3>1, <3>2
  <2>6. \A q \in Packets :
            \/ Carries(m, q) /\ fate'[q] = "out" /\ to'[q] = OutPorts(m.out, pkt[q])
            \/ ~Carries(m, q) /\ fate'[q] = fate[q] /\ to'[q] = to[q]
    BY <1>7, <2>1, <2>3, <2>5 DEF Output
  <2> QED
    BY <1>1, <1>2, <1>5, <1>6, <2>1, <2>2, <2>4, <2>5, <2>6, OutputKeeps
<1> QED
  BY <1>9, <1>10, <1>11 DEF Switch

\* A switch that starts again has nothing on its way.
LEMMA RestartKeeps ==
    ASSUME IInv, TypeOK', Restart
    PROVE  IInv' /\ OnlyBuffer0Keeps'
<1>1. /\ toCtrl' = <<Features>> /\ toSw' = <<>> /\ flows' = {}
      /\ buffer' = [b \in BufferIds |-> {}]
      /\ fate' = [p \in Packets |-> IF fate[p] = "sent" THEN "dropped" ELSE fate[p]]
      /\ UNCHANGED <<mac_to_port, loc, left, pkt, to>>
  BY DEF Restart, hosts
<1>2. /\ Len(toCtrl') = 1 /\ toCtrl'[1].kind = "features" /\ Len(toSw') = 0
      /\ \A i \in 1 .. Len(toCtrl') : i = 1
      /\ \A i \in 1 .. Len(toSw') : FALSE
  BY <1>1 DEF Features
<1>3. \A p \in Packets : fate'[p] # "sent"
  BY <1>1
<1>4. \A p \in Packets : (fate'[p] = "out" => fate[p] = "out") /\ (fate'[p] # "free" => fate[p] # "free")
  BY <1>1
<1>5. BuffersOK'
  BY <1>1 DEF BuffersOK
<1>6. ChannelsOK'
  BY <1>2 DEF ChannelsOK, CtrlOK
<1>7. CarriedOnce'
  BY <1>2 DEF CarriedOnce
<1>8. LearntOK'
  BY <1>1, <1>4 DEF IInv, LearntOK, Seen
<1>9. ReachesDst'
  BY <1>1, <1>4 DEF IInv, ReachesDst
<1>10. \A h \in Hosts : InOrder(h)'
  BY <1>2 DEF InOrder, TellsOf
<1> QED
  BY <1>3, <1>5, <1>6, <1>7, <1>8, <1>9, <1>10 DEF IInv, OnlyBuffer0Keeps

\* A host that moves to a port where it never was is known at another port, if
\* at any, and so are its packets and the flows for them.
LEMMA MoveKeeps ==
    ASSUME IInv, TypeOK', NEW h \in Hosts, NEW q \in Ports, Move(h, q)
    PROVE  IInv' /\ (OnlyBuffer0Keeps => OnlyBuffer0Keeps')
<1>1. UNCHANGED <<mac_to_port, flows, buffer, toCtrl, toSw, pkt, fate, to>>
  BY DEF Move
<1>2. /\ loc'[h] = q /\ left'[h] = Seen(h)
      /\ \A g \in Hosts : g # h => loc'[g] = loc[g] /\ left'[g] = left[g]
  BY DEF Move, Seen, IInv, TypeOK
<1>3. \A g \in Hosts : Seen(g) \subseteq Seen(g)'
  BY <1>2 DEF Seen
<1>4. \A p \in Packets : pkt[p].src \in Hosts /\ pkt[p].dst \in Hosts
  BY PktFacts DEF IInv, TypeOK
<1>5. \A f \in Flow : FlowOK(f) => FlowOK(f)'
  <2> SUFFICES ASSUME NEW f \in Flow, FlowOK(f) PROVE FlowOK(f)'
    OBVIOUS
  <2>1. f.src \in Hosts /\ f.dst \in Hosts
    BY FlowFacts
  <2>2. f.out \in Seen(f.dst)' /\ f.in_port \in Seen(f.src)'
    BY <1>3, <2>1 DEF FlowOK
  <2>3. ASSUME Fresh(f.src)', f.in_port = loc'[f.src]
        PROVE  mac_to_port'[f.src] = loc'[f.src]
    <3>1. f.src # h
      BY <1>2, <2>3 DEF FlowOK, Fresh
    <3> QED
      BY <1>1, <1>2, <2>1, <2>3, <3>1 DEF FlowOK, Fresh
  <2> QED
    BY <2>2, <2>3 DEF FlowOK
<1>6. BuffersOK' /\ CarriedOnce'
  BY <1>1 DEF IInv, BuffersOK, CarriedOnce, Carries
<1>7. ChannelsOK'
  <2>1. \A i \in 1 .. Len(toCtrl) : CtrlOK(toCtrl[i])'
    BY <1>1, Channels DEF CtrlOK, PacketInOK
  <2>2. ASSUME NEW i \in 1 .. Len(toSw), NEW x \in SwMessage, x = toSw[i] PROVE SwOK(x)'
    <3>1. SwOK(x)
      BY <2>2, Channels
    <3>2. ASSUME x.kind = "packet_out" PROVE PacketOutOK(x)'
      <4>1. x.p \in Packets
        BY <3>2, SwFacts
      <4> QED
        BY <1>1, <1>3, <1>4, <3>1, <3>2, <4>1 DEF SwOK, PacketOutOK, PacketInOK
    <3>3. ASSUME x.kind = "flow_mod" PROVE FlowModOK(x)'
      <4>1. x.flow \in Flow
        BY <3>3, SwFacts
      <4> QED
        BY <1>1, <1>5, <3>1, <3>3, <4>1 DEF SwOK, FlowModOK
    <3> QED
      BY <3>2, <3>3 DEF SwOK
  <2> QED
    BY <1>1, <2>1, <2>2, Channels DEF ChannelsOK
<1>8. LearntOK'
  <2>1. \A g \in Hosts : mac_to_port'[g] \in Seen(g)' \cup {FLOOD}
    BY <1>1, <1>3 DEF IInv, LearntOK
  <2>2. \A p \in Packets : fate'[p] # "free" => pkt'[p].in_port \in Seen(pkt[p].src)'
    BY <1>1, <1>3, <1>4 DEF IInv, LearntOK
  <2>3. \A f \in flows' : FlowOK(f)'
    BY <1>1, <1>5 DEF IInv, LearntOK, TypeOK
  <2> QED
    BY <2>1, <2>2, <2>3 DEF LearntOK
<1>9. ReachesDst'
  <2>1. ASSUME NEW p \in Packets, fate[p] = "out", left'[pkt[p].dst] = {}
        PROVE  loc'[pkt[p].dst] \in to[p] \cup {pkt[p].in_port}
    <3>1. pkt[p].dst # h
      BY <1>2, <2>1 DEF Seen
    <3> QED
      BY <1>2, <1>4, <2>1, <3>1 DEF IInv, ReachesDst
  <2> QED
    BY <1>1, <2>1 DEF ReachesDst
<1>10. ASSUME NEW g \in Hosts, Fresh(g)' PROVE InOrder(g)'
  <2>1. CASE g # h
    BY <1>1, <1>2, <1>10, <2>1 DEF IInv, InOrder, TellsOf, Fresh
  <2>2. CASE g = h
    <3>1. q \notin Seen(h)
      BY <1>2, <1>10, <2>2 DEF Fresh
    <3>2. mac_to_port[h] # q
      BY <3>1, PortAssumption DEF IInv, LearntOK
    <3>3. ASSUME NEW i \in 1 .. Len(toCtrl), TellsOf(toCtrl[i], h)
          PROVE  pkt[toCtrl[i].p].in_port # q
      <4>1. toCtrl[i].p \in Packets /\ fate[toCtrl[i].p] = "sent"
        BY <3>3, NamedBuffer, CarriedSent DEF TellsOf
      <4> QED
        BY <3>1, <3>3, <4>1 DEF IInv, LearntOK, TellsOf
    <3> QED
      BY <1>1, <1>2, <2>2, <3>2, <3>3 DEF InOrder, TellsOf
  <2> QED
    BY <2>1, <2>2
<1>11. OnlyBuffer0Keeps => OnlyBuffer0Keeps'
  BY <1>1 DEF OnlyBuffer0Keeps, InTransit, Carries, Held
<1> QED
  BY <1>6, <1>7, <1>8, <1>9, <1>10, <1>11 DEF IInv

\* What the controller does with a message keeps the invariant: it takes the
\* message, may learn from it, and passes on the packet it carried at most once.
LEMMA HandlerKeeps ==
    ASSUME IInv, TypeOK',
           toCtrl # <<>>, toCtrl' = Tail(toCtrl), NEW m, m = toCtrl[1],
           NEW A \in Seq(SwMessage), toSw' = toSw \o A,
           flows' = flows, buffer' = buffer, loc' = loc, left' = left, pkt' = pkt, to' = to,
           \A h \in Hosts :
              \/ mac_to_port'[h] = mac_to_port[h]
              \/ TellsOf(m, h) /\ mac_to_port'[h] = pkt[m.p].in_port,
           \A p \in Packets :
              fate'[p] = fate[p] \/ (Carries(m, p) /\ fate'[p] = "ignored" /\ A = <<>>),
           \A i \in 1 .. Len(A) : SwOK(A[i])',
           \A i \in 1 .. Len(A), p \in Packets : Carries(A[i], p) => i = Len(A) /\ Carries(m, p)
    PROVE  /\ IInv'
           /\ /\ OnlyBuffer0Keeps
              /\ \A p \in Packets :
                  Carries(m, p) => \/ fate'[p] = "ignored" \/ Held(p, 0)
                                   \/ \E i \in 1 .. Len(A) : Carries(A[i], p)
              => OnlyBuffer0Keeps'
<1>1. /\ 1 \in 1 .. Len(toCtrl) /\ Len(toCtrl) \in Nat /\ Len(toCtrl') \in Nat
      /\ \A i \in 1 .. Len(toCtrl') :
            i + 1 \in 1 .. Len(toCtrl) /\ i + 1 # 1 /\ toCtrl'[i] = toCtrl[i + 1]
      /\ \A i \in 1 .. Len(toCtrl) :
            i # 1 => i - 1 \in 1 .. Len(toCtrl') /\ toCtrl'[i - 1] = toCtrl[i]
  <2>1. toCtrl \in Seq(CtrlMessage) /\ toCtrl' \in Seq(CtrlMessage)
    BY DEF IInv, TypeOK
  <2> QED
    BY <2>1, ReadFirst
<1>2. /\ Len(toSw) \in Nat /\ Len(A) \in Nat /\ Len(toSw') = Len(toSw) + Len(A)
      /\ \A i \in 1 .. Len(toSw) : toSw'[i] = toSw[i]
      /\ \A i \in 1 .. Len(toSw') :
            i \notin 1 .. Len(toSw) =>
                i - Len(toSw) \in 1 .. Len(A) /\ toSw'[i] = A[i - Len(toSw)]
      /\ \A i \in 1 .. Len(A) :
            i + Len(toSw) \in 1 .. Len(toSw') /\ toSw'[i + Len(toSw)] = A[i]
  <2>1. toSw \in Seq(SwMessage)
    BY DEF IInv, TypeOK
  <2>2. PICK s : s = toSw \o A
    OBVIOUS
  <2>3. /\ Len(s) = Len(toSw) + Len(A)
        /\ \A i \in 1 .. Len(s) : s[i] = IF i <= Len(toSw) THEN toSw[i] ELSE A[i - Len(toSw)]
    BY <2>1, <2>2, ConcatProperties
  <2>4. Len(toSw) \in Nat /\ Len(A) \in Nat /\ toSw' = s
    BY <2>1, <2>2
  <2> QED
    BY <2>3, <2>4
<1>3. \A x, p : Carries(x, p)' <=> Carries(x, p)
  BY DEF Carries
<1>4. /\ \A i \in 1 .. Len(toCtrl') : \A p \in Packets : Carries(toCtrl'[i], p) => ~Carries(m, p)
      /\ \A i \in 1 .. Len(toSw) : \A p \in Packets : Carries(toSw[i], p) => ~Carries(m, p)
  BY <1>1 DEF IInv, CarriedOnce
<1>5. m \in CtrlMessage /\ CtrlOK(m)
  BY <1>1, Channels
<1>6. \A h \in Hosts : Fresh(h) /\ mac_to_port[h] = loc[h] => mac_to_port'[h] = loc[h]
  BY <1>1 DEF IInv, InOrder
<1>7. \A f \in Flow : FlowOK(f) => FlowOK(f)'
  BY <1>6, FlowFacts DEF FlowOK, Seen, Fresh
<1>8. BuffersOK'
  BY DEF IInv, BuffersOK
<1>9. ChannelsOK'
  <2>1. ASSUME NEW i \in 1 .. Len(toCtrl'), NEW x, x = toCtrl'[i] PROVE CtrlOK(x)'
    <3>1. CtrlOK(x)
      BY <1>1, <2>1, Channels
    <3>2. ASSUME x.kind = "packet_in" PROVE fate'[x.p] = fate[x.p]
      BY <1>1, <1>4, <2>1, <3>2, NamedBuffer
    <3> QED
      BY <3>1, <3>2 DEF CtrlOK, PacketInOK
  <2>2. ASSUME NEW i \in 1 .. Len(toSw), NEW x \in SwMessage, x = toSw[i] PROVE SwOK(x)'
    <3>1. SwOK(x)
      BY <2>2, Channels
    <3>2. ASSUME x.kind = "packet_out" PROVE PacketOutOK(x)'
      <4>1. fate'[x.p] = fate[x.p]
        BY <1>4, <2>2, <3>2, NamedBuffer
      <4> QED
        BY <3>1, <3>2, <4>1 DEF SwOK, PacketOutOK, PacketInOK, Seen
    <3>3. ASSUME x.kind = "flow_mod" PROVE FlowModOK(x)'
      <4>1. x.flow \in Flow /\ FlowModOK(x)
        BY <3>1, <3>3, SwFacts DEF SwOK
      <4>2. ASSUME x.buffer_id # NO_BUFFER, NEW p \in buffer[x.buffer_id]
            PROVE  fate'[p] = fate[p]
        <5>1. x.buffer_id \in BufferIds /\ p \in Packets
          BY <2>2, <3>3, <4>2, NamedBuffer DEF IInv, TypeOK
        <5>2. Carries(x, p)
          BY <3>3, <4>2, <5>1, SwCarries
        <5> QED
          BY <1>4, <2>2, <5>1, <5>2
      <4> QED
        BY <1>7, <4>1, <4>2 DEF FlowModOK
    <3> QED
      BY <3>2, <3>3 DEF SwOK
  <2>3. ASSUME NEW i \in 1 .. Len(toSw') PROVE SwOK(toSw[i])'
    <3>1. PICK x : x = toSw'[i]
      OBVIOUS
    <3>2. CASE i \in 1 .. Len(toSw)
      <4>1. SwOK(x)'
        BY <1>2, <2>2, <3>1, <3>2, Channels
      <4> QED
        BY <3>1, <4>1
    <3>3. CASE i \notin 1 .. Len(toSw)
      <4>1. PICK k \in 1 .. Len(A) : x = A[k]
        BY <1>2, <3>1, <3>3
      <4>2. SwOK(x)'
        BY <4>1
      <4> QED
        BY <3>1, <4>2
    <3> QED
      BY <3>2, <3>3
  <2> QED
    BY <2>1, <2>3 DEF ChannelsOK
<1>10. CarriedOnce'
  <2>1. ASSUME NEW p \in Packets
        PROVE  /\ \A i, j \in 1 .. Len(toCtrl') :
                    Carries(toCtrl[i], p)' /\ Carries(toCtrl[j], p)' => i = j
               /\ \A i, j \in 1 .. Len(toSw') :
                    Carries(toSw[i], p)' /\ Carries(toSw[j], p)' => i = j
               /\ \A i \in 1 .. Len(toCtrl'), j \in 1 .. Len(toSw') :
                    ~(Carries(toCtrl[i], p)' /\ Carries(toSw[j], p)')
    <3>1. ASSUME NEW i \in 1 .. Len(toCtrl'), Carries(toCtrl[i], p)'
          PROVE  i + 1 \in 1 .. Len(toCtrl) /\ Carries(toCtrl[i + 1], p) /\ ~Carries(m, p)
      BY <1>1, <1>3, <1>4, <3>1
    <3>2. ASSUME NEW i \in 1 .. Len(toSw'), Carries(toSw[i], p)'
          PROVE  \/ i \in 1 .. Len(toSw) /\ Carries(toSw[i], p) /\ ~Carries(m, p)
                 \/ i = Len(toSw') /\ Carries(m, p)
      <4>1. Carries(toSw'[i], p)
        BY <1>3, <3>2
      <4>2. CASE i \in 1 .. Len(toSw)
        BY <1>2, <1>4, <4>1, <4>2
      <4>3. CASE i \notin 1 .. Len(toSw)
        <5>1. PICK k \in 1 .. Len(A) : k = i - Len(toSw) /\ Carries(A[k], p)
          BY <1>2, <4>1, <4>3
        <5>2. k = Len(A) /\ Carries(m, p)
          BY <5>1
        <5> QED
          BY <1>2, <5>1, <5>2
      <4> QED
        BY <4>2, <4>3
    <3>3. /\ \A i, j \in 1 .. Len(toCtrl) : Carries(toCtrl[i], p) /\ Carries(toCtrl[j], p) => i = j
          /\ \A i, j \in 1 .. Len(toSw) : Carries(toSw[i], p) /\ Carries(toSw[j], p) => i = j
          /\ \A i \in 1 .. Len(toCtrl), j \in 1 .. Len(toSw) :
                ~(Carries(toCtrl[i], p) /\ Carries(toSw[j], p))
      BY DEF IInv, CarriedOnce
    <3>4. \A i, j \in 1 .. Len(toCtrl') :
            Carries(toCtrl[i], p)' /\ Carries(toCtrl[j], p)' => i = j
      <4>1. ASSUME NEW i \in 1 .. Len(toCtrl'), NEW j \in 1 .. Len(toCtrl'),
                   Carries(toCtrl[i], p)', Carries(toCtrl[j], p)'
            PROVE  i = j
        <5>1. i + 1 = j + 1
          BY <3>1, <3>3, <4>1
        <5> QED
          BY <5>1
      <4> QED
        BY <4>1
    <3>5. \A i, j \in 1 .. Len(toSw') : Carries(toSw[i], p)' /\ Carries(toSw[j], p)' => i = j
      BY <3>2, <3>3
    <3>6. \A i \in 1 .. Len(toCtrl'), j \in 1 .. Len(toSw') :
            ~(Carries(toCtrl[i], p)' /\ Carries(toSw[j], p)')
      BY <3>1, <3>2, <3>3
    <3> QED
      BY <3>4, <3>5, <3>6
  <2> QED
    BY <2>1 DEF CarriedOnce
<1>11. LearntOK'
  <2>1. ASSUME NEW h \in Hosts, TellsOf(m, h) PROVE pkt[m.p].in_port \in Seen(h)
    <3>1. m.p \in Packets /\ fate[m.p] = "sent"
      BY <1>5, <2>1, CtrlFacts DEF TellsOf, CtrlOK, PacketInOK
    <3> QED
      BY <2>1, <3>1 DEF IInv, LearntOK, TellsOf
  <2>2. \A h \in Hosts : mac_to_port'[h] \in Seen(h)' \cup {FLOOD}
    BY <2>1 DEF IInv, LearntOK, Seen
  <2>3. \A p \in Packets : fate'[p] # "free" => fate[p] # "free"
    BY <1>1, CarriedSent
  <2>4. \A p \in Packets : fate'[p] # "free" => pkt'[p].in_port \in Seen(pkt[p].src)'
    BY <2>3 DEF IInv, LearntOK, Seen
  <2>5. \A f \in flows' : FlowOK(f)'
    BY <1>7 DEF IInv, LearntOK, TypeOK
  <2> QED
    BY <2>2, <2>4, <2>5 DEF LearntOK
<1>12. ReachesDst'
  BY DEF IInv, ReachesDst
<1>13. ASSUME NEW h \in Hosts, Fresh(h)' PROVE InOrder(h)'
  <2>1. InOrder(h)
    BY <1>13 DEF IInv, Fresh
  <2>2. ASSUME NEW i \in 1 .. Len(toCtrl'), TellsOf(toCtrl[i], h)', mac_to_port'[h] = loc[h]
        PROVE  pkt'[toCtrl'[i].p].in_port = loc'[h]
    <3>1. i + 1 \in 1 .. Len(toCtrl) /\ 1 < i + 1 /\ TellsOf(toCtrl[i + 1], h) /\ toCtrl'[i] = toCtrl[i + 1]
      BY <1>1, <2>2 DEF TellsOf
    <3>2. CASE mac_to_port'[h] = mac_to_port[h]
      BY <2>1, <2>2, <3>1, <3>2 DEF InOrder
    <3>3. CASE TellsOf(m, h) /\ mac_to_port'[h] = pkt[m.p].in_port
      BY <1>1, <2>1, <2>2, <3>1, <3>3 DEF InOrder
    <3> QED
      BY <3>2, <3>3
  <2>3. ASSUME NEW i \in 1 .. Len(toCtrl'), NEW j \in 1 .. Len(toCtrl'), i < j,
               TellsOf(toCtrl[i], h)', TellsOf(toCtrl[j], h)', pkt'[toCtrl'[i].p].in_port = loc'[h]
        PROVE  pkt'[toCtrl'[j].p].in_port = loc'[h]
    <3>1. /\ i + 1 \in 1 .. Len(toCtrl) /\ TellsOf(toCtrl[i + 1], h) /\ toCtrl'[i] = toCtrl[i + 1]
          /\ j + 1 \in 1 .. Len(toCtrl) /\ TellsOf(toCtrl[j + 1], h) /\ toCtrl'[j] = toCtrl[j + 1]
          /\ i + 1 < j + 1
      BY <1>1, <2>3 DEF TellsOf
    <3> QED
      BY <2>1, <2>3, <3>1 DEF InOrder
  <2> QED
    BY <2>2, <2>3 DEF InOrder
<1>14. ASSUME OnlyBuffer0Keeps,
              \A p \in Packets :
                Carries(m, p) => \/ fate'[p] = "ignored" \/ Held(p, 0)
                                 \/ \E i \in 1 .. Len(A) : Carries(A[i], p)
       PROVE  OnlyBuffer0Keeps'
  <2>1. ASSUME NEW p \in Packets, fate'[p] = "sent", ~Held(p, 0)' PROVE InTransit(p)'
    <3>1. fate[p] = "sent" /\ ~Held(p, 0)
      BY <2>1 DEF Held
    <3>2. PICK x \in Range(toCtrl) \cup Range(toSw) : Carries(x, p)
      BY <1>14, <3>1 DEF OnlyBuffer0Keeps, InTransit
    <3>3. toCtrl' \in Seq(CtrlMessage) /\ toSw' \in Seq(SwMessage)
      BY DEF TypeOK
    <3>4. CASE Carries(m, p)
      <4>1. PICK i \in 1 .. Len(A) : Carries(A[i], p)
        BY <1>14, <2>1, <3>1, <3>4
      <4>2. i + Len(toSw) \in DOMAIN toSw' /\ toSw'[i + Len(toSw)] = A[i]
        BY <1>2, <3>3
      <4>3. A[i] \in Range(toSw')
        BY <4>2 DEF Range
      <4> QED
        BY <1>3, <4>1, <4>3 DEF InTransit
    <3>5. CASE ~Carries(m, p) /\ x \in Range(toCtrl)
      <4>1. PICK i \in 1 .. Len(toCtrl) : x = toCtrl[i]
        BY <3>5 DEF Range, IInv, TypeOK
      <4>2. i # 1
        BY <3>2, <3>5, <4>1
      <4>3. i - 1 \in DOMAIN toCtrl' /\ toCtrl'[i - 1] = x
        BY <1>1, <3>3, <4>1, <4>2
      <4>4. x \in Range(toCtrl')
        BY <4>3 DEF Range
      <4> QED
        BY <1>3, <3>2, <4>4 DEF InTransit
    <3>6. CASE x \in Range(toSw)
      <4>1. PICK i \in 1 .. Len(toSw) : x = toSw[i]
        BY <3>6 DEF Range, IInv, TypeOK
      <4>2. i \in DOMAIN toSw' /\ toSw'[i] = x
        BY <1>2, <3>3, <4>1
      <4>3. x \in Range(toSw')
        BY <4>2 DEF Range
      <4> QED
        BY <1>3, <3>2, <4>3 DEF InTransit
    <3> QED
      BY <3>2, <3>4, <3>5, <3>6
  <2> QED
    BY <2>1 DEF OnlyBuffer0Keeps
<1> QED
  BY <1>8, <1>9, <1>10, <1>11, <1>12, <1>13, <1>14 DEF IInv

\* The table-miss entry carries no packet.
LEMMA FeaturesKeeps ==
    ASSUME IInv, TypeOK', switch_features_handler
    PROVE  IInv' /\ (OnlyBuffer0Keeps => OnlyBuffer0Keeps')
<1>1. PICK a, A, m : a = [kind |-> "table_miss"] /\ A = <<a>> /\ m = toCtrl[1]
  OBVIOUS
<1>2. toCtrl # <<>> /\ toCtrl' = Tail(toCtrl) /\ Head(toCtrl).kind = "features"
  BY DEF switch_features_handler
<1>3. m = Head(toCtrl)
  BY <1>1, <1>2, ReadFirst DEF IInv, TypeOK
<1>4. \A p : ~Carries(m, p)
  BY <1>2, <1>3 DEF Carries
<1>5. a \in SwMessage /\ a.kind = "table_miss" /\ toSw' = Append(toSw, a)
  BY <1>1 DEF SwMessage, switch_features_handler
<1>6. A \in Seq(SwMessage) /\ Len(A) = 1 /\ A[1] = a /\ toSw' = toSw \o A
  BY <1>1, <1>5 DEF IInv, TypeOK
<1>7. SwOK(a)' /\ \A p : ~Carries(a, p)
  BY <1>5 DEF SwOK, Carries
<1>8. UNCHANGED <<mac_to_port, flows, buffer, loc, left, pkt, fate, to>>
  BY DEF switch_features_handler, hosts
<1>9. \A i \in 1 .. Len(A) : i = 1 /\ A[i] = a
  BY <1>6
<1>10. \A i \in 1 .. Len(A) : SwOK(A[i])'
  BY <1>7, <1>9
<1>11. /\ \A h \in Hosts : mac_to_port'[h] = mac_to_port[h]
       /\ \A p \in Packets : fate'[p] = fate[p]
       /\ flows' = flows /\ buffer' = buffer /\ loc' = loc /\ left' = left /\ pkt' = pkt /\ to' = to
  BY <1>8
<1>12. \A i \in 1 .. Len(A), p \in Packets : ~Carries(A[i], p)
  BY <1>7, <1>9
<1>13. m = toCtrl[1] /\ A \in Seq(SwMessage) /\ toSw' = toSw \o A
  BY <1>1, <1>6
<1> QED
  BY <1>2, <1>4, <1>10, <1>11, <1>12, <1>13, HandlerKeeps

\* A sequence of one or two messages.
LEMMA OneMessage ==
    ASSUME NEW a, NEW A, A = <<a>>
    PROVE  Len(A) = 1 /\ A[Len(A)] = a /\ \A i \in 1 .. Len(A) : i = Len(A) /\ A[i] = a
OBVIOUS

LEMMA TwoMessages ==
    ASSUME NEW a, NEW b, NEW A, A = <<a, b>>
    PROVE  /\ Len(A) = 2 /\ A[Len(A)] = b
           /\ \A i \in 1 .. Len(A) : A[i] = a \/ (i = Len(A) /\ A[i] = b)
OBVIOUS

\* What a packet-in says of its packet and of the buffer it names.
LEMMA PacketInSays ==
    ASSUME IInv, NEW m \in CtrlMessage, m.kind = "packet_in", PacketInOK(m)
    PROVE  /\ m.p \in Packets /\ m.buffer_id \in BufferIds \cup {NO_BUFFER}
           /\ m.buffer_id \in BufferIds =>
                m.p \in buffer[m.buffer_id] /\ \A p \in buffer[m.buffer_id] : p = m.p
           /\ \A p : Carries(m, p) <=> p = m.p
<1>1. m.p \in Packets /\ m.buffer_id \in BufferIds \cup {NO_BUFFER}
  BY CtrlFacts
<1>2. m.buffer_id \in BufferIds => m.p \in buffer[m.buffer_id]
  BY BufferAssumption DEF PacketInOK
<1>3. ASSUME m.buffer_id \in BufferIds, NEW p \in buffer[m.buffer_id] PROVE p = m.p
  BY <1>2, <1>3 DEF IInv, BuffersOK
<1>4. \A p : Carries(m, p) <=> p = m.p
  BY CtrlCarries
<1> QED
  BY <1>1, <1>2, <1>3, <1>4

\* The packet-out that answers a packet-in.
LEMMA PacketOutAnswers ==
    ASSUME IInv, NEW m \in CtrlMessage, m.kind = "packet_in", PacketInOK(m),
           NEW out \in Ports \cup {FLOOD}, out \in Seen(pkt[m.p].dst) \cup {FLOOD},
           buffer' = buffer, loc' = loc, left' = left, pkt' = pkt, fate' = fate,
           NEW a, a = packet_out(m, out)
    PROVE  SwOK(a)' /\ \A p : Carries(a, p) <=> p = m.p
<1>1. /\ a \in SwMessage /\ a.kind = "packet_out"
      /\ a.p = m.p /\ a.out = out /\ a.buffer_id = m.buffer_id
  BY PacketOutFacts
<1>2. PacketOutOK(a)'
  BY <1>1 DEF PacketOutOK, PacketInOK, Seen
<1>3. ASSUME NEW p PROVE Carries(a, p) <=> p = m.p
  <2>1. CASE m.buffer_id = NO_BUFFER
    BY <1>1, <2>1, SwCarries, BufferAssumption
  <2>2. CASE m.buffer_id # NO_BUFFER
    BY <1>1, <2>2, SwCarries, PacketInSays
  <2> QED
    BY <2>1, <2>2
<1> QED
  BY <1>1, <1>2, <1>3 DEF SwOK

\* The flow-mod that answers it.
LEMMA FlowModAnswers ==
    ASSUME IInv, NEW m \in CtrlMessage, m.kind = "packet_in", PacketInOK(m),
           NEW r \in AnyPkt, r.dst = pkt[m.p].dst, r.in_port \in Seen(r.src),
           mac_to_port'[r.src] = r.in_port,
           NEW out \in Ports, out \in Seen(r.dst),
           buffer' = buffer, loc' = loc, left' = left, pkt' = pkt, fate' = fate,
           NEW b, b = m.buffer_id, NEW a, a = add_flow(r, out, b)
    PROVE  /\ SwOK(a)'
           /\ \A p : Carries(a, p) => p = m.p /\ b # NO_BUFFER
           /\ b # NO_BUFFER => Carries(a, m.p) \/ Held(m.p, 0)
<1>1. b \in BufferIds \cup {NO_BUFFER}
  BY CtrlFacts
<1>2. /\ a \in SwMessage /\ a.kind = "flow_mod"
      /\ a.flow.in_port = r.in_port /\ a.flow.src = r.src
      /\ a.flow.dst = r.dst /\ a.flow.out = out
      /\ b = 0 => a.buffer_id = NO_BUFFER
      /\ b # 0 => a.buffer_id = b
  BY <1>1, AddFlowFacts
<1>3. FlowOK(a.flow)'
  <2>1. PICK f : f = a.flow
    OBVIOUS
  <2>2. FlowOK(f)'
    BY <1>2, <2>1 DEF FlowOK, Seen, Fresh
  <2> QED
    BY <2>1, <2>2
<1>4. CASE b = 0 \/ b = NO_BUFFER
  <2>1. a.buffer_id = NO_BUFFER
    BY <1>2, <1>4
  <2>2. FlowModOK(a)'
    BY <1>3, <2>1 DEF FlowModOK
  <2>3. \A p : ~Carries(a, p)
    BY <1>2, <2>1, SwCarries, BufferAssumption
  <2>4. b # NO_BUFFER => Held(m.p, 0)
    BY <1>1, <1>4, PacketInSays DEF Held
  <2> QED
    BY <1>2, <2>2, <2>3, <2>4 DEF SwOK
<1>5. CASE b # 0 /\ b # NO_BUFFER
  <2>1. a.buffer_id = b /\ b \in BufferIds
    BY <1>1, <1>2, <1>5
  <2>2. m.p \in buffer[b] /\ \A p \in buffer[b] : p = m.p
    BY <2>1, PacketInSays
  <2>3. fate[m.p] = "sent"
    BY DEF PacketInOK
  <2>4. FlowModOK(a)'
    BY <1>2, <1>3, <2>1, <2>2, <2>3 DEF FlowModOK
  <2>5. \A p : Carries(a, p) <=> p = m.p
    BY <1>2, <2>1, <2>2, SwCarries
  <2> QED
    BY <1>2, <1>5, <2>4, <2>5 DEF SwOK
<1> QED
  BY <1>4, <1>5

\* The answer to a packet-in says what was learnt and carries the packet once.
LEMMA AnswerOK ==
    ASSUME IInv, NEW m \in CtrlMessage, m.kind = "packet_in", PacketInOK(m),
           NEW r \in AnyPkt, r.dst = pkt[m.p].dst, r.in_port \in Seen(r.src),
           mac_to_port'[r.src] = r.in_port,
           NEW out \in Ports \cup {FLOOD}, out \in Seen(r.dst) \cup {FLOOD},
           buffer' = buffer, loc' = loc, left' = left, pkt' = pkt, fate' = fate,
           NEW A, A = Answer(m, r, out)
    PROVE  /\ \A i \in 1 .. Len(A) : SwOK(A[i])'
           /\ \A i \in 1 .. Len(A), p \in Packets :
                Carries(A[i], p) => i = Len(A) /\ Carries(m, p)
           /\ Held(m.p, 0) \/ (Len(A) \in 1 .. Len(A) /\ Carries(A[Len(A)], m.p))
<1>1. \A p : Carries(m, p) <=> p = m.p
  BY PacketInSays
<1>2. ASSUME NEW a, a = packet_out(m, out)
      PROVE  SwOK(a)' /\ \A p : Carries(a, p) <=> p = m.p
  BY <1>2, PacketOutAnswers
<1>3. ASSUME NEW b, b = m.buffer_id, NEW a, a = add_flow(r, out, b), out \in Ports
      PROVE  /\ SwOK(a)'
             /\ \A p : Carries(a, p) => p = m.p /\ b # NO_BUFFER
             /\ b # NO_BUFFER => Carries(a, m.p) \/ Held(m.p, 0)
  <2>1. out \in Seen(r.dst)
    BY <1>3, PortAssumption
  <2> QED
    BY <1>3, <2>1, FlowModAnswers
<1>4. CASE out = FLOOD /\ A = <<packet_out(m, out)>>
  <2>1. PICK a : a = packet_out(m, out) /\ A = <<a>>
    BY <1>4
  <2>2. SwOK(a)' /\ \A p : Carries(a, p) <=> p = m.p
    BY <1>2, <2>1
  <2>3. Len(A) = 1 /\ A[Len(A)] = a /\ \A i \in 1 .. Len(A) : i = Len(A) /\ A[i] = a
    BY <2>1, OneMessage
  <2> QED
    BY <1>1, <2>2, <2>3
<1>5. CASE out \in Ports /\ m.buffer_id # NO_BUFFER /\ A = <<add_flow(r, out, m.buffer_id)>>
  <2>1. PICK b, a : b = m.buffer_id /\ a = add_flow(r, out, b) /\ A = <<a>>
    BY <1>5
  <2>2. /\ SwOK(a)' /\ \A p : Carries(a, p) => p = m.p
        /\ Carries(a, m.p) \/ Held(m.p, 0)
    BY <1>3, <1>5, <2>1
  <2>3. Len(A) = 1 /\ A[Len(A)] = a /\ \A i \in 1 .. Len(A) : i = Len(A) /\ A[i] = a
    BY <2>1, OneMessage
  <2> QED
    BY <1>1, <2>2, <2>3
<1>6. CASE /\ out \in Ports /\ m.buffer_id = NO_BUFFER
           /\ A = <<add_flow(r, out, NO_BUFFER), packet_out(m, out)>>
  <2>1. PICK b, a, c : /\ b = m.buffer_id /\ a = add_flow(r, out, b) /\ c = packet_out(m, out)
                       /\ A = <<a, c>>
    BY <1>6
  <2>2. SwOK(a)' /\ \A p : ~Carries(a, p)
    BY <1>3, <1>6, <2>1
  <2>3. SwOK(c)' /\ \A p : Carries(c, p) <=> p = m.p
    BY <1>2, <2>1
  <2>4. /\ Len(A) = 2 /\ A[Len(A)] = c
        /\ \A i \in 1 .. Len(A) : A[i] = a \/ (i = Len(A) /\ A[i] = c)
    BY <2>1, TwoMessages
  <2> QED
    BY <1>1, <2>2, <2>3, <2>4
<1> QED
  BY <1>4, <1>5, <1>6, AnswerFacts

LEMMA PacketInKeeps ==
    ASSUME IInv, TypeOK', _packet_in_handler
    PROVE  IInv' /\ (OnlyBuffer0Keeps => OnlyBuffer0Keeps')
<1>1. PICK m, r : m = toCtrl[1] /\ r = pkt[m.p]
  OBVIOUS
<1>2. TypeOK
  BY DEF IInv
<1>3. /\ toCtrl # <<>> /\ toCtrl' = Tail(toCtrl)
      /\ m \in CtrlMessage /\ m.kind = "packet_in" /\ m.p \in Packets /\ r \in AnyPkt
      /\ UNCHANGED <<flows, buffer, loc, left, pkt, to>>
  BY <1>1, <1>2, PacketInHandled
<1>4. 1 \in 1 .. Len(toCtrl)
  BY <1>3, ReadFirst DEF IInv, TypeOK
<1>5. \A p : Carries(m, p) <=> p = m.p
  BY <1>3, CtrlCarries
<1>6. CASE /\ fate' = [fate EXCEPT ![m.p] = "ignored"]
           /\ mac_to_port' = mac_to_port /\ toSw' = toSw
  <2>1. PICK A \in Seq(SwMessage) : A = <<>> /\ Len(A) = 0 /\ toSw' = toSw \o A
    <3>1. <<>> \in Seq(SwMessage) /\ Len(<<>>) = 0 /\ toSw \in Seq(SwMessage)
      BY DEF IInv, TypeOK
    <3>2. toSw \o <<>> = toSw
      BY <3>1, ConcatEmptySeq
    <3> QED
      BY <1>6, <3>1, <3>2, Zenon
  <2>2. \A i \in 1 .. Len(A) : FALSE
    BY <2>1
  <2>3. \A p \in Packets :
            \/ fate'[p] = fate[p] /\ p # m.p
            \/ Carries(m, p) /\ fate'[p] = "ignored" /\ A = <<>>
    BY <1>3, <1>5, <1>6, <2>1 DEF IInv, TypeOK
  <2> QED
    BY <1>1, <1>3, <1>5, <1>6, <2>1, <2>2, <2>3, HandlerKeeps
<1>7. CASE /\ fate' = fate
           /\ mac_to_port' = [mac_to_port EXCEPT ![r.src] = r.in_port]
           /\ \E out \in Ports \cup {FLOOD} :
                out = mac_to_port'[r.dst] /\ toSw' = toSw \o Answer(m, r, out)
  <2>1. PICK out \in Ports \cup {FLOOD} :
            out = mac_to_port'[r.dst] /\ toSw' = toSw \o Answer(m, r, out)
    BY <1>7
  <2>2. PICK A : A = Answer(m, r, out)
    OBVIOUS
  <2>3. A \in Seq(SwMessage)
    BY <1>3, <2>2, AnswerFacts
  <2>4. /\ \A i \in 1 .. Len(A) : SwOK(A[i])'
        /\ \A i \in 1 .. Len(A), p \in Packets :
                Carries(A[i], p) => i = Len(A) /\ Carries(m, p)
        /\ Held(m.p, 0) \/ (Len(A) \in 1 .. Len(A) /\ Carries(A[Len(A)], m.p))
    <3>1. PacketInOK(m) /\ fate[m.p] = "sent"
      BY <1>1, <1>3, <1>4, Channels DEF CtrlOK, PacketInOK
    <3>2. r.src \in Hosts /\ r.dst \in Hosts /\ r.dst = pkt[m.p].dst
      BY <1>1, <1>3, PktFacts
    <3>3. r.in_port \in Seen(r.src)
      BY <1>1, <1>3, <3>1 DEF IInv, LearntOK
    <3>4. mac_to_port'[r.src] = r.in_port
      BY <1>7, <3>2 DEF IInv, TypeOK
    <3>5. out \in Seen(r.dst) \cup {FLOOD}
      <4>1. CASE r.dst = r.src
        BY <2>1, <3>3, <3>4, <4>1
      <4>2. CASE r.dst # r.src
        <5>1. out = mac_to_port[r.dst]
          BY <1>7, <2>1, <3>2, <4>2, SMTT(30) DEF IInv, TypeOK
        <5> QED
          BY <3>2, <5>1 DEF IInv, LearntOK
      <4> QED
        BY <4>1, <4>2
    <3> QED
      BY <1>3, <1>7, <2>2, <3>1, <3>2, <3>3, <3>4, <3>5, AnswerOK
  <2>5. \A h \in Hosts :
            \/ mac_to_port'[h] = mac_to_port[h]
            \/ TellsOf(m, h) /\ mac_to_port'[h] = pkt[m.p].in_port
    BY <1>1, <1>3, <1>7, PktFacts DEF IInv, TypeOK, TellsOf
  <2>6. toSw' = toSw \o A
    BY <2>1, <2>2
  <2>7. /\ IInv'
        /\ /\ OnlyBuffer0Keeps
           /\ \A p \in Packets :
                Carries(m, p) => \/ fate'[p] = "ignored" \/ Held(p, 0)
                                 \/ \E i \in 1 .. Len(A) : Carries(A[i], p)
           => OnlyBuffer0Keeps'
    <3>1. /\ m = toCtrl[1] /\ toCtrl # <<>> /\ toCtrl' = Tail(toCtrl)
          /\ flows' = flows /\ buffer' = buffer /\ loc' = loc /\ left' = left /\ pkt' = pkt /\ to' = to
      BY <1>1, <1>3
    <3>2. \A p \in Packets : fate'[p] = fate[p]
      BY <1>7, Zenon
    <3> QED
      BY <2>3, <2>4, <2>5, <2>6, <3>1, <3>2, HandlerKeeps
  <2> QED
    BY <1>5, <2>4, <2>7
<1> QED
  BY <1>1, <1>2, <1>6, <1>7, PacketInHandled

\* What sending a packet does keeps the invariant: the packet was on no
\* channel and in no buffer, and comes last on the channel to the controller
\* if it comes there.
LEMMA SentKeeps ==
    ASSUME IInv, TypeOK', NEW p \in Packets, NEW s \in Hosts,
           fate[p] # "sent", \A b \in BufferIds : p \notin buffer[b],
           mac_to_port' = mac_to_port, flows' = flows, toSw' = toSw, loc' = loc, left' = left,
           pkt'[p].src = s, pkt'[p].in_port = loc[s],
           \A q \in Packets :
              q # p => pkt'[q] = pkt[q] /\ fate'[q] = fate[q] /\ to'[q] = to[q],
           fate'[p] = "out" /\ left[pkt'[p].dst] = {} =>
              loc[pkt'[p].dst] \in to'[p] \cup {pkt'[p].in_port},
           Len(toCtrl') \in Nat, Len(toCtrl) <= Len(toCtrl'),
           \A i \in 1 .. Len(toCtrl) : toCtrl'[i] = toCtrl[i],
           \A i \in 1 .. Len(toCtrl') :
              i \notin 1 .. Len(toCtrl) =>
                  /\ i = Len(toCtrl') /\ toCtrl'[i].kind = "packet_in"
                  /\ toCtrl'[i].p = p /\ fate'[p] = "sent"
                  /\ toCtrl'[i].buffer_id # NO_BUFFER => buffer'[toCtrl'[i].buffer_id] = {p},
           \A b \in BufferIds :
              buffer'[b] = buffer[b] \/ (buffer[b] = {} /\ buffer'[b] = {p}),
           \A b, c \in BufferIds : p \in buffer'[b] /\ p \in buffer'[c] => b = c,
           fate'[p] = "sent" =>
              Len(toCtrl') \in 1 .. Len(toCtrl') /\ Len(toCtrl') \notin 1 .. Len(toCtrl)
    PROVE  IInv' /\ (OnlyBuffer0Keeps => OnlyBuffer0Keeps')
<1>1. Len(toCtrl) \in Nat /\ Len(toSw) \in Nat
  BY Channels
<1>2. /\ \A i \in 1 .. Len(toCtrl) : ~Carries(toCtrl[i], p)
      /\ \A i \in 1 .. Len(toSw) : ~Carries(toSw[i], p)
  BY CarriedSent
<1>3. \A i \in 1 .. Len(toCtrl) :
        toCtrl[i].kind = "packet_in" =>
            /\ toCtrl[i].p \in Packets /\ toCtrl[i].p # p
            /\ toCtrl[i].buffer_id # NO_BUFFER =>
                buffer'[toCtrl[i].buffer_id] = buffer[toCtrl[i].buffer_id]
  BY <1>2, NamedBuffer
<1>4. \A i \in 1 .. Len(toSw) :
        /\ toSw[i].kind = "packet_out" => toSw[i].p \in Packets /\ toSw[i].p # p
        /\ toSw[i].kind \in {"flow_mod", "packet_out"} /\ toSw[i].buffer_id # NO_BUFFER =>
            /\ toSw[i].buffer_id \in BufferIds
            /\ buffer'[toSw[i].buffer_id] = buffer[toSw[i].buffer_id]
  <2>1. ASSUME NEW i \in 1 .. Len(toSw), NEW x, x = toSw[i], x.kind = "packet_out"
        PROVE  x.p \in Packets /\ x.p # p
    BY <1>2, <2>1, NamedBuffer
  <2>2. ASSUME NEW i \in 1 .. Len(toSw), NEW x, x = toSw[i],
               x.kind \in {"flow_mod", "packet_out"}, x.buffer_id # NO_BUFFER
        PROVE  x.buffer_id \in BufferIds /\ buffer'[x.buffer_id] = buffer[x.buffer_id]
    BY <2>2, NamedBuffer
  <2> QED
    BY <2>1, <2>2
<1>5. \A i \in 1 .. Len(toCtrl), q \in Packets : Carries(toCtrl[i], q)' <=> Carries(toCtrl[i], q)
  <2>1. ASSUME NEW i \in 1 .. Len(toCtrl), NEW q \in Packets, NEW x \in CtrlMessage,
               x = toCtrl[i]
        PROVE  Carries(x, q)' <=> Carries(x, q)
    <3>1. x.kind \in {"features", "packet_in"}
      BY CtrlFacts
    <3> QED
      BY <3>1 DEF Carries
  <2>2. ASSUME NEW i \in 1 .. Len(toCtrl) PROVE toCtrl[i] \in CtrlMessage /\ toCtrl'[i] = toCtrl[i]
    BY Channels
  <2> QED
    BY <2>1, <2>2
<1>6. \A i \in 1 .. Len(toSw), q \in Packets : Carries(toSw[i], q)' <=> Carries(toSw[i], q)
  <2>1. ASSUME NEW i \in 1 .. Len(toSw), NEW q \in Packets, NEW x \in SwMessage, x = toSw[i]
        PROVE  Carries(x, q)' <=> Carries(x, q)
    <3>1. /\ x.kind \in {"table_miss", "flow_mod", "packet_out"}
          /\ x.kind \in {"flow_mod", "packet_out"} => x.buffer_id \in BufferIds \cup {NO_BUFFER}
      BY SwFacts
    <3> QED
      BY <1>4, <2>1, <3>1, BufferAssumption DEF Carries
  <2> QED
    BY <2>1, Channels
<1>7. \A q \in Packets, i \in 1 .. Len(toCtrl') :
        i \notin 1 .. Len(toCtrl) => (Carries(toCtrl[i], q)' <=> q = p)
  BY DEF Carries
<1>8. BuffersOK'
  <2>1. ASSUME NEW b \in BufferIds, NEW c \in BufferIds,
               NEW x \in buffer'[b], NEW y \in buffer'[c]
        PROVE  b = c <=> x = y
    <3>1. (x \in buffer[b] /\ x # p) \/ x = p
      BY <2>1
    <3>2. (y \in buffer[c] /\ y # p) \/ y = p
      BY <2>1
    <3>3. p \in buffer'[b] => buffer'[b] = {p}
      BY <2>1
    <3>4. p \in buffer'[c] => buffer'[c] = {p}
      BY <2>1
    <3> QED
      BY <2>1, <3>1, <3>2, <3>3, <3>4 DEF IInv, BuffersOK
  <2> QED
    BY <2>1 DEF BuffersOK
<1>9. ChannelsOK'
  <2>1. ASSUME NEW i \in 1 .. Len(toCtrl'), NEW x, x = toCtrl'[i] PROVE CtrlOK(x)'
    <3>1. CASE i \in 1 .. Len(toCtrl)
      BY <1>3, <2>1, <3>1, Channels DEF CtrlOK, PacketInOK
    <3>2. CASE i \notin 1 .. Len(toCtrl)
      BY <2>1, <3>2 DEF CtrlOK, PacketInOK
    <3> QED
      BY <3>1, <3>2
  <2>2. ASSUME NEW i \in 1 .. Len(toSw), NEW x, x = toSw[i] PROVE SwOK(x)'
    <3>1. SwOK(x)
      BY <2>2, Channels
    <3>2. ASSUME x.kind = "packet_out" PROVE PacketOutOK(x)'
      BY <1>4, <2>2, <3>1, <3>2 DEF SwOK, PacketOutOK, PacketInOK, Seen
    <3>3. ASSUME x.kind = "flow_mod" PROVE FlowModOK(x)'
      <4>1. FlowModOK(x)
        BY <3>1, <3>3 DEF SwOK
      <4>2. FlowOK(x.flow)'
        BY <4>1 DEF FlowModOK, FlowOK, Seen, Fresh
      <4>3. ASSUME x.buffer_id # NO_BUFFER
            PROVE  /\ buffer'[x.buffer_id] = buffer[x.buffer_id]
                   /\ \A q \in buffer[x.buffer_id] : q \in Packets /\ q # p
        BY <1>4, <2>2, <3>3, <4>3 DEF IInv, TypeOK
      <4> QED
        BY <4>1, <4>2, <4>3 DEF FlowModOK
    <3> QED
      BY <3>2, <3>3 DEF SwOK
  <2> QED
    BY <2>1, <2>2 DEF ChannelsOK
<1>10. CarriedOnce'
  <2>1. ASSUME NEW q \in Packets
        PROVE  /\ \A i, j \in 1 .. Len(toCtrl') :
                    Carries(toCtrl[i], q)' /\ Carries(toCtrl[j], q)' => i = j
               /\ \A i, j \in 1 .. Len(toSw') :
                    Carries(toSw[i], q)' /\ Carries(toSw[j], q)' => i = j
               /\ \A i \in 1 .. Len(toCtrl'), j \in 1 .. Len(toSw') :
                    ~(Carries(toCtrl[i], q)' /\ Carries(toSw[j], q)')
    <3>1. ASSUME NEW i \in 1 .. Len(toCtrl'), Carries(toCtrl[i], q)'
          PROVE  \/ i \in 1 .. Len(toCtrl) /\ Carries(toCtrl[i], q) /\ q # p
                 \/ i = Len(toCtrl') /\ q = p
      BY <1>2, <1>5, <1>7, <3>1
    <3>2. ASSUME NEW i \in 1 .. Len(toSw'), Carries(toSw[i], q)'
          PROVE  i \in 1 .. Len(toSw) /\ Carries(toSw[i], q) /\ q # p
      BY <1>2, <1>6, <3>2
    <3>3. /\ \A i, j \in 1 .. Len(toCtrl) : Carries(toCtrl[i], q) /\ Carries(toCtrl[j], q) => i = j
          /\ \A i, j \in 1 .. Len(toSw) : Carries(toSw[i], q) /\ Carries(toSw[j], q) => i = j
          /\ \A i \in 1 .. Len(toCtrl), j \in 1 .. Len(toSw) :
                ~(Carries(toCtrl[i], q) /\ Carries(toSw[j], q))
      BY DEF IInv, CarriedOnce
    <3>4. \A i, j \in 1 .. Len(toCtrl') :
            Carries(toCtrl[i], q)' /\ Carries(toCtrl[j], q)' => i = j
      BY <3>1, <3>3
    <3>5. \A i, j \in 1 .. Len(toSw') : Carries(toSw[i], q)' /\ Carries(toSw[j], q)' => i = j
      BY <3>2, <3>3
    <3>6. \A i \in 1 .. Len(toCtrl'), j \in 1 .. Len(toSw') :
            ~(Carries(toCtrl[i], q)' /\ Carries(toSw[j], q)')
      BY <3>1, <3>2, <3>3
    <3> QED
      BY <3>4, <3>5, <3>6
  <2> QED
    BY <2>1 DEF CarriedOnce
<1>11. LearntOK'
  <2>1. \A h \in Hosts : mac_to_port'[h] \in Seen(h)' \cup {FLOOD}
    BY DEF IInv, LearntOK, Seen
  <2>2. \A q \in Packets : fate'[q] # "free" => pkt'[q].in_port \in Seen(pkt[q].src)'
    BY DEF IInv, LearntOK, Seen
  <2>3. \A f \in flows' : FlowOK(f)'
    BY DEF IInv, LearntOK, FlowOK, Seen, Fresh
  <2> QED
    BY <2>1, <2>2, <2>3 DEF LearntOK
<1>12. ReachesDst'
  <2>1. ASSUME NEW q \in Packets, fate'[q] = "out", left'[pkt'[q].dst] = {}
        PROVE  loc'[pkt'[q].dst] \in to'[q] \cup {pkt'[q].in_port}
    BY <2>1 DEF IInv, ReachesDst
  <2> QED
    BY <2>1 DEF ReachesDst
<1>13. ASSUME NEW h \in Hosts, Fresh(h)' PROVE InOrder(h)'
  <2>1. InOrder(h)
    BY <1>13 DEF IInv, Fresh
  <2>2. ASSUME NEW i \in 1 .. Len(toCtrl'), TellsOf(toCtrl[i], h)'
        PROVE  \/ /\ i \in 1 .. Len(toCtrl) /\ TellsOf(toCtrl[i], h)
                  /\ pkt'[toCtrl'[i].p].in_port = pkt[toCtrl[i].p].in_port
               \/ i = Len(toCtrl') /\ pkt'[toCtrl'[i].p].in_port = loc'[h]
    BY <1>3, <2>2 DEF TellsOf
  <2>3. ASSUME NEW i \in 1 .. Len(toCtrl'), TellsOf(toCtrl[i], h)', mac_to_port'[h] = loc'[h]
        PROVE  pkt'[toCtrl'[i].p].in_port = loc'[h]
    BY <2>1, <2>2, <2>3 DEF InOrder
  <2>4. ASSUME NEW i \in 1 .. Len(toCtrl'), NEW j \in 1 .. Len(toCtrl'), i < j,
               TellsOf(toCtrl[i], h)', TellsOf(toCtrl[j], h)', pkt'[toCtrl'[i].p].in_port = loc'[h]
        PROVE  pkt'[toCtrl'[j].p].in_port = loc'[h]
    <3>1. i # Len(toCtrl')
      BY <2>4
    <3>2. /\ i \in 1 .. Len(toCtrl) /\ TellsOf(toCtrl[i], h)
          /\ pkt[toCtrl[i].p].in_port = loc[h]
      BY <2>2, <2>4, <3>1
    <3> QED
      BY <2>1, <2>2, <2>4, <3>2 DEF InOrder
  <2> QED
    BY <2>3, <2>4 DEF InOrder
<1>14. ASSUME OnlyBuffer0Keeps PROVE OnlyBuffer0Keeps'
  <2>1. toCtrl' \in Seq(CtrlMessage) /\ toSw \in Seq(SwMessage)
    BY DEF TypeOK, IInv
  <2>2. ASSUME NEW q \in Packets, fate'[q] = "sent", ~Held(q, 0)' PROVE InTransit(q)'
    <3>1. CASE q = p
      <4>1. Carries(toCtrl[Len(toCtrl)], p)' /\ Len(toCtrl') \in DOMAIN toCtrl'
        BY <1>7, <2>1, <2>2, <3>1
      <4>2. toCtrl'[Len(toCtrl')] \in Range(toCtrl')
        BY <4>1 DEF Range
      <4> QED
        BY <3>1, <4>1, <4>2 DEF InTransit
    <3>2. CASE q # p
      <4>1. PICK x \in Range(toCtrl) \cup Range(toSw) : Carries(x, q)
        <5>1. ~Held(q, 0)
          BY <2>2, <3>2 DEF Held
        <5> QED
          BY <1>14, <2>2, <3>2, <5>1 DEF OnlyBuffer0Keeps, InTransit
      <4>2. CASE x \in Range(toCtrl)
        <5>1. PICK i \in 1 .. Len(toCtrl) : x = toCtrl[i]
          BY <4>2 DEF Range, IInv, TypeOK
        <5>2. i \in DOMAIN toCtrl' /\ toCtrl'[i] = x
          BY <1>1, <2>1, <5>1
        <5>3. Carries(toCtrl[i], q)' /\ toCtrl'[i] \in Range(toCtrl')
          BY <1>5, <4>1, <5>1, <5>2 DEF Range
        <5> QED
          BY <5>3 DEF InTransit
      <4>3. CASE x \in Range(toSw)
        <5>1. PICK i \in 1 .. Len(toSw) : x = toSw[i]
          BY <4>3 DEF Range, IInv, TypeOK
        <5>2. Carries(toSw[i], q)' /\ toSw'[i] \in Range(toSw')
          BY <1>6, <4>1, <4>3, <5>1
        <5> QED
          BY <5>2 DEF InTransit
      <4> QED
        BY <4>1, <4>2, <4>3
    <3> QED
      BY <3>1, <3>2
  <2> QED
    BY <2>2 DEF OnlyBuffer0Keeps
<1> QED
  BY <1>8, <1>9, <1>10, <1>11, <1>12, <1>13, <1>14 DEF IInv

LEMMA SendKeeps ==
    ASSUME IInv, TypeOK', NEW p \in Packets, NEW s \in Hosts, NEW d \in Hosts, NEW l \in BOOLEAN,
           Send(p, s, d, l)
    PROVE  IInv' /\ (OnlyBuffer0Keeps => OnlyBuffer0Keeps')
<1>1. TypeOK
  BY DEF IInv
<1>2. /\ mac_to_port' = mac_to_port /\ flows' = flows /\ toSw' = toSw /\ loc' = loc /\ left' = left
      /\ fate[p] # "sent" /\ \A b \in BufferIds : p \notin buffer[b]
  BY <1>1, SendCases
<1>3. PICK r \in AnyPkt :
        /\ r.src = s /\ r.dst = d /\ r.in_port = loc[s]
        /\ pkt' = [pkt EXCEPT ![p] = r]
        /\ \/ /\ fate' = [fate EXCEPT ![p] = "out"]
              /\ toCtrl' = toCtrl /\ buffer' = buffer
              /\ \E T \in SUBSET Ports :
                  /\ to' = [to EXCEPT ![p] = T]
                  /\ \E f \in flows : f.dst = d /\ OutPorts(f.out, r) \subseteq T
           \/ /\ fate' = [fate EXCEPT ![p] = "sent"]
              /\ to' = [to EXCEPT ![p] = {}] /\ PacketIn(p)
           \/ /\ fate' = [fate EXCEPT ![p] = "dropped"]
              /\ to' = [to EXCEPT ![p] = {}] /\ toCtrl' = toCtrl /\ buffer' = buffer
  BY <1>1, SendCases
<1>4. pkt'[p] = r /\ \A q \in Packets : q # p => pkt'[q] = pkt[q]
  BY <1>1, <1>3 DEF TypeOK
<1>5. pkt'[p].src = s /\ pkt'[p].in_port = loc[s] /\ pkt'[p].dst = d
  BY <1>3, <1>4
<1>6. Len(toCtrl) \in Nat
  BY Channels
<1>7. CASE /\ fate' = [fate EXCEPT ![p] = "out"]
           /\ toCtrl' = toCtrl /\ buffer' = buffer
           /\ \E T \in SUBSET Ports :
                /\ to' = [to EXCEPT ![p] = T]
                /\ \E f \in flows : f.dst = d /\ OutPorts(f.out, r) \subseteq T
  <2>1. PICK T \in SUBSET Ports, f \in flows :
            to' = [to EXCEPT ![p] = T] /\ f.dst = d /\ OutPorts(f.out, r) \subseteq T
    BY <1>7
  <2>2. \A q \in Packets : q # p => fate'[q] = fate[q] /\ to'[q] = to[q]
    BY <1>1, <1>7, <2>1 DEF TypeOK
  <2>3. fate'[p] = "out" /\ to'[p] = T
    BY <1>1, <1>7, <2>1 DEF TypeOK
  <2>4. left[d] = {} => loc[d] \in to'[p] \cup {r.in_port}
    <3>1. f.out \in Seen(d) /\ f.out \in Ports
      BY <1>1, <2>1, FlowFacts DEF IInv, LearntOK, FlowOK, TypeOK
    <3>2. f.out \in OutPorts(f.out, r) \/ f.out = r.in_port
      BY <3>1, PortAssumption DEF OutPorts
    <3> QED
      BY <2>1, <2>3, <3>1, <3>2 DEF Seen
  <2>5. toCtrl' = toCtrl /\ buffer' = buffer
    BY <1>7
  <2> QED
    BY <1>2, <1>4, <1>5, <1>6, <2>2, <2>3, <2>4, <2>5, SentKeeps
<1>8. CASE /\ fate' = [fate EXCEPT ![p] = "sent"]
           /\ to' = [to EXCEPT ![p] = {}] /\ PacketIn(p)
  <2>1. PICK m \in CtrlMessage :
            /\ m.kind = "packet_in" /\ m.p = p
            /\ toCtrl' = Append(toCtrl, m)
            /\ \/ m.buffer_id = NO_BUFFER /\ buffer' = buffer
               \/ /\ m.buffer_id \in BufferIds /\ buffer[m.buffer_id] = {}
                  /\ buffer' = [buffer EXCEPT ![m.buffer_id] = {p}]
    BY <1>8, PacketInCases
  <2>2. \A q \in Packets : q # p => fate'[q] = fate[q] /\ to'[q] = to[q]
    BY <1>1, <1>8 DEF TypeOK
  <2>3. fate'[p] = "sent"
    BY <1>1, <1>8 DEF TypeOK
  <2>4. /\ Len(toCtrl') = Len(toCtrl) + 1
        /\ \A i \in 1 .. Len(toCtrl) : toCtrl'[i] = toCtrl[i]
        /\ toCtrl'[Len(toCtrl')] = m
        /\ \A i \in 1 .. Len(toCtrl') : i \in 1 .. Len(toCtrl) \/ i = Len(toCtrl')
    BY <1>1, <2>1, WriteLast DEF TypeOK
  <2>5. /\ m.buffer_id # NO_BUFFER => buffer'[m.buffer_id] = {p}
        /\ \A b \in BufferIds : buffer'[b] = buffer[b] \/ (buffer[b] = {} /\ buffer'[b] = {p})
        /\ \A b, c \in BufferIds : p \in buffer'[b] /\ p \in buffer'[c] => b = c
    <3>1. CASE m.buffer_id = NO_BUFFER /\ buffer' = buffer
      BY <1>2, <3>1
    <3>2. CASE /\ m.buffer_id \in BufferIds /\ buffer[m.buffer_id] = {}
               /\ buffer' = [buffer EXCEPT ![m.buffer_id] = {p}]
      <4>1. PICK a \in BufferIds : a = m.buffer_id
        BY <3>2
      <4>2. /\ buffer'[a] = {p} /\ buffer[a] = {}
            /\ \A b \in BufferIds : b # a => buffer'[b] = buffer[b]
        BY <1>1, <3>2, <4>1 DEF TypeOK
      <4> QED
        BY <1>2, <4>1, <4>2
    <3> QED
      BY <2>1, <3>1, <3>2
  <2>6. /\ Len(toCtrl') \in Nat /\ Len(toCtrl) <= Len(toCtrl')
        /\ Len(toCtrl') \in 1 .. Len(toCtrl') /\ Len(toCtrl') \notin 1 .. Len(toCtrl)
    BY <1>6, <2>4
  <2>7. \A i \in 1 .. Len(toCtrl') :
            i \notin 1 .. Len(toCtrl) =>
                /\ i = Len(toCtrl') /\ toCtrl'[i].kind = "packet_in"
                /\ toCtrl'[i].p = p /\ fate'[p] = "sent"
                /\ toCtrl'[i].buffer_id # NO_BUFFER => buffer'[toCtrl'[i].buffer_id] = {p}
    <3>1. ASSUME NEW i \in 1 .. Len(toCtrl'), i \notin 1 .. Len(toCtrl)
          PROVE  i = Len(toCtrl') /\ toCtrl'[i] = m
      BY <2>4, <3>1
    <3> QED
      BY <2>1, <2>3, <2>5, <3>1
  <2>8. fate'[p] # "out"
    BY <2>3
  <2> QED
    BY <1>2, <1>4, <1>5, <2>2, <2>4, <2>5, <2>6, <2>7, <2>8, SentKeeps
<1>9. CASE /\ fate' = [fate EXCEPT ![p] = "dropped"]
           /\ to' = [to EXCEPT ![p] = {}] /\ toCtrl' = toCtrl /\ buffer' = buffer
  <2>1. \A q \in Packets : q # p => fate'[q] = fate[q] /\ to'[q] = to[q]
    BY <1>1, <1>9 DEF TypeOK
  <2>2. fate'[p] = "dropped"
    BY <1>1, <1>9 DEF TypeOK
  <2>3. toCtrl' = toCtrl /\ buffer' = buffer
    BY <1>9
  <2> QED
    BY <1>2, <1>4, <1>5, <1>6, <2>1, <2>2, <2>3, SentKeeps
<1> QED
  BY <1>3, <1>7, <1>8, <1>9

-----------------------------------------------------------------------------
(* The theorems.                                                           *)
LEMMA InitIInv == Init => IInv /\ OnlyBuffer0Keeps
<1> SUFFICES ASSUME Init PROVE IInv /\ OnlyBuffer0Keeps
  OBVIOUS
<1>1. TypeOK
  BY InitType
<1>2. /\ toCtrl = <<Features>> /\ toSw = <<>> /\ flows = {}
      /\ \A b \in BufferIds : buffer[b] = {}
      /\ \A p \in Packets : fate[p] = "free"
      /\ \A h \in Hosts : mac_to_port[h] = FLOOD
  BY DEF Init
<1>3. /\ Len(toCtrl) = 1 /\ toCtrl[1].kind = "features" /\ Len(toSw) = 0
      /\ \A i \in 1 .. Len(toCtrl) : i = 1
      /\ \A i \in 1 .. Len(toSw) : FALSE
  BY <1>2 DEF Features
<1>4. BuffersOK
  BY <1>2 DEF BuffersOK
<1>5. ChannelsOK /\ CarriedOnce
  BY <1>3 DEF ChannelsOK, CtrlOK, CarriedOnce
<1>6. LearntOK /\ ReachesDst /\ OnlyBuffer0Keeps
  BY <1>2 DEF LearntOK, ReachesDst, OnlyBuffer0Keeps
<1>7. \A h \in Hosts : InOrder(h)
  BY <1>3 DEF InOrder, TellsOf
<1> QED
  BY <1>1, <1>4, <1>5, <1>6, <1>7 DEF IInv

LEMMA StepIInv ==
    ASSUME IInv, [Next]_vars
    PROVE  IInv' /\ (OnlyBuffer0Keeps => OnlyBuffer0Keeps')
<1>1. TypeOK'
  BY StepType DEF IInv
<1>2. CASE Controller
  BY <1>1, <1>2, FeaturesKeeps, PacketInKeeps DEF Controller
<1>3. CASE Switch
  BY <1>1, <1>3, SwKeeps
<1>4. CASE Restart
  BY <1>1, <1>4, RestartKeeps
<1>5. ASSUME NEW s \in Hosts, NEW d \in Hosts, NEW l \in BOOLEAN, SomeSend(s, d, l)
      PROVE  IInv' /\ (OnlyBuffer0Keeps => OnlyBuffer0Keeps')
  BY <1>1, <1>5, SendKeeps DEF SomeSend
<1>6. ASSUME NEW h \in Hosts, NEW q \in Ports, Move(h, q)
      PROVE  IInv' /\ (OnlyBuffer0Keeps => OnlyBuffer0Keeps')
  BY <1>1, <1>6, MoveKeeps
<1>7. CASE UNCHANGED vars
  <2>1. UNCHANGED <<mac_to_port, flows, buffer, toCtrl, toSw, loc, left, pkt, fate, to>>
    BY <1>7 DEF vars
  <2>2. BuffersOK' /\ CarriedOnce' /\ ReachesDst'
    BY <2>1 DEF IInv, BuffersOK, CarriedOnce, Carries, ReachesDst
  <2>3. ChannelsOK' /\ LearntOK'
    BY <2>1 DEF IInv, ChannelsOK, LearntOK, CtrlOK, SwOK, PacketInOK, PacketOutOK, FlowModOK,
                FlowOK, Seen, Fresh
  <2>4. \A h \in Hosts : Fresh(h)' => InOrder(h)'
    BY <2>1 DEF IInv, Fresh, InOrder, TellsOf
  <2>5. OnlyBuffer0Keeps => OnlyBuffer0Keeps'
    BY <2>1 DEF OnlyBuffer0Keeps, InTransit, Carries, Held
  <2> QED
    BY <1>1, <2>2, <2>3, <2>4, <2>5 DEF IInv
<1> QED
  BY <1>2, <1>3, <1>4, <1>5, <1>6, <1>7 DEF Next

\* The invariant the theorems rest on: what is in the buffers and on the
\* connection fits together, and the packet-ins of a host come in the order of
\* its moves.
THEOREM Invariance == Spec => []IInv
<1>1. IInv /\ [Next]_vars => IInv'
  BY StepIInv
<1> QED
  BY <1>1, InitIInv, PTL DEF Spec

\* Nothing but a packet in buffer 0, which add_flow takes for no buffer, is
\* forgotten, whatever the messages in flight when a host moves or the switch
\* restarts.
THEOREM NoneIsForgotten == Spec => []OnlyBuffer0Keeps
<1>1. IInv /\ OnlyBuffer0Keeps /\ [Next]_vars => IInv' /\ OnlyBuffer0Keeps'
  BY StepIInv
<1> QED
  BY <1>1, InitIInv, PTL DEF Spec

\* No packet is sent twice: what has left the switch is on no channel, and a
\* packet-out finds in its buffer the packet it was made for.
THEOREM SentAtMostOnce == Spec => []SentOnce
<1>1. IInv => SentOnce
  <2> SUFFICES ASSUME IInv PROVE SentOnce
    OBVIOUS
  <2>1. toCtrl \in Seq(CtrlMessage) /\ toSw \in Seq(SwMessage)
    BY DEF IInv, TypeOK
  <2>2. \A x \in Range(toCtrl) : \E i \in 1 .. Len(toCtrl) : x = toCtrl[i]
    BY <2>1 DEF Range
  <2>3. \A x \in Range(toSw) : \E i \in 1 .. Len(toSw) : x = toSw[i]
    BY <2>1 DEF Range
  <2>4. ASSUME NEW p \in Packets, fate[p] = "out", InTransit(p) PROVE FALSE
    <3>1. PICK x \in Range(toCtrl) \cup Range(toSw) : Carries(x, p)
      BY <2>4 DEF InTransit
    <3>2. fate[p] = "sent"
      BY <2>2, <2>3, <3>1, CarriedSent
    <3> QED
      BY <2>4, <3>2
  <2>5. ASSUME NEW m \in Range(toSw), m.kind = "packet_out", m.buffer_id # NO_BUFFER
        PROVE  m.p \in buffer[m.buffer_id]
    BY <2>3, <2>5, Channels DEF SwOK, PacketOutOK, PacketInOK
  <2> QED
    BY <2>4, <2>5 DEF SentOnce
<1> QED
  BY <1>1, Invariance, PTL

\* What the controller learnt is wrong only after a move: flows lead to ports
\* of their destination, and a packet for a host that stayed reaches it.
THEOREM LearntCorrect == Spec => []FlowsSound
<1>1. IInv => FlowsSound
  BY DEF IInv, LearntOK, FlowOK, Seen, FlowsSound, FlowsLearnt
<1> QED
  BY <1>1, Invariance, PTL

\* The controller knows where the sender is whose packets a flow takes away.
THEOREM SenderStaysKnown == Spec => []SenderKnown
<1>1. IInv => SenderKnown
  BY DEF IInv, LearntOK, FlowOK, Fresh, SenderKnown
<1> QED
  BY <1>1, Invariance, PTL

=============================================================================
