------------------------ MODULE ServiceChainProofs -------------------------
(***************************************************************************)
(* For a chain of any length: every packet MoonGen gets back visited every *)
(* VM once, in order, none is carried round and none is sent back to where *)
(* it came from; packets of a direction stay in order and each of them is  *)
(* in one place or counted as lost; each direction implements LossyPath.   *)
(* All this holds in all experiments but t4p4s with l2fwd in several VMs,  *)
(* where nothing comes back on NIC 1 (T4p4sAstray).                        *)
(***************************************************************************)
EXTENDS ChainPath, FiniteSetTheorems, TLAPS

-----------------------------------------------------------------------------
(* The inductive invariant.                                                *)

\* What is known of a packet the switch receives from port p: it came from
\* MoonGen, or from VM k at the end of its visit.
AtIngress(p, pkt) ==
    \/ /\ p \in NICs
       /\ pkt.src = p /\ pkt.dst = MoonGenDst(p) /\ pkt.hops = <<>>
    \/ \E k \in VMs :
        /\ p = 2 * k + 1
        /\ pkt.src = 0 /\ pkt.dst = GuestDst(k, 1) /\ pkt.hops = ForwardChain(k)
    \/ \E k \in VMs :
        /\ p = 2 * k
        /\ pkt.src = 1 /\ pkt.dst = GuestDst(k, 0) /\ pkt.hops = ReverseChain(N + 1 - k)

\* What is known of a packet the switch sent to port q.
AtEgress(q, pkt) ==
    \/ /\ q \in NICs
       /\ pkt.src = 1 - q /\ pkt.hops = Chain(pkt.src, N)
    \/ \E k \in VMs :
        /\ q = 2 * k
        /\ pkt.src = 0 /\ pkt.hops = ForwardChain(k - 1)
    \/ \E k \in VMs :
        /\ q = 2 * k + 1
        /\ pkt.src = 1 /\ pkt.hops = ReverseChain(N - k)

\* The path a packet took so far is fixed by the port it is at.
Located ==
    /\ \A p \in Ports : \A j \in DOMAIN rxq[p] : AtIngress(p, rxq[p][j])
    /\ \A q \in Ports : \A j \in DOMAIN txq[q] : AtEgress(q, txq[q][j])

\* The inductive invariant of the chain.
IInv == TypeOK /\ Located

\* The queue of port p into the switch (c = 0) or out of it (c = 1), and how
\* many queues a packet in it has left behind.
At(c, p) == IF c = 0 THEN rxq[p] ELSE txq[p]
Pos(c, pkt) == 2 * Len(pkt.hops) + c

\* Of two packets of a direction the one further on its way was sent first,
\* and so was the one ahead in the same queue.
Ordered ==
    \A c1, c2 \in {0, 1}, p1, p2 \in Ports :
        \A j1 \in DOMAIN At(c1, p1), j2 \in DOMAIN At(c2, p2) :
            LET a == At(c1, p1)[j1]
                b == At(c2, p2)[j2]
            IN  a.src = b.src =>
                    /\ Pos(c1, a) > Pos(c2, b) => a.id < b.id
                    /\ c1 = c2 /\ p1 = p2 /\ j1 < j2 => a.id < b.id

\* A packet in a queue has been sent and is not counted as lost.
Counted ==
    /\ \A nic \in NICs : lost[nic] \subseteq 1 .. sent[nic]
    /\ \A c \in {0, 1}, p \in Ports : \A j \in DOMAIN At(c, p) :
        LET a == At(c, p)[j] IN a.id \in (1 .. sent[a.src]) \ lost[a.src]

\* A packet that was sent is lost or in a queue.
Present ==
    \A nic \in NICs : \A id \in (1 .. sent[nic]) \ lost[nic] :
        \E c \in {0, 1}, p \in Ports : \E j \in DOMAIN At(c, p) : Is(At(c, p)[j], nic, id)

\* With IInv, what Delivery needs to be inductive.
DeliveryInv == Ordered /\ Counted /\ Present

-----------------------------------------------------------------------------

ForwardPair(p, q) ==
    \/ p = 0 /\ q = 2
    \/ p = 2 * N + 1 /\ q = 1
    \/ \E k \in 1 .. N - 1 : p = 2 * k + 1 /\ q = 2 * k + 2

ReversePair(p, q) ==
    \/ p = 2 /\ q = 0
    \/ p = 1 /\ q = 2 * N + 1
    \/ \E k \in 1 .. N - 1 : p = 2 * k + 2 /\ q = 2 * k + 1

ChainPair(p, q) == ForwardPair(p, q) \/ ReversePair(p, q)

\* Every file of a port-matching switch (BESS, FastClick, Snabb, OVS-DPDK,
\* VPP) holds only pairs of the chain.
LEMMA RulesAreChain ==
    ASSUME NEW p \in Ports, NEW q \in Ports, <<p, q>> \in Rules
    PROVE  ChainPair(p, q)
<1> USE NAssumption DEF ChainPair, ForwardPair, ReversePair
<1>1. ASSUME <<p, q>> \in ClickForward \/ <<p, q>> \in VppForward
      PROVE  ForwardPair(p, q)
  BY <1>1 DEF ClickForward, VppForward
<1>2. ASSUME <<p, q>> \in BessForward \/ <<p, q>> \in SnabbForward
      PROVE  ForwardPair(p, q)
  BY <1>2 DEF BessForward, SnabbForward, V, Vi
<1>3. ASSUME <<p, q>> \in OvsForward
      PROVE  ForwardPair(p, q)
  BY <1>3 DEF OvsForward, OfPort
<1>4. ASSUME <<p, q>> \in BessReverse
      PROVE  ReversePair(p, q)
  BY <1>4 DEF BessReverse, V
<1>5. ASSUME <<p, q>> \in Reversed(ClickForward) \/ <<p, q>> \in Reversed(VppForward)
      PROVE  ReversePair(p, q)
  BY <1>5 DEF Reversed, ClickForward, VppForward
<1>6. ASSUME <<p, q>> \in Reversed(SnabbForward)
      PROVE  ReversePair(p, q)
  BY <1>6 DEF Reversed, SnabbForward, Vi
<1>7. ASSUME <<p, q>> \in Reversed(OvsForward)
      PROVE  ReversePair(p, q)
  BY <1>7 DEF Reversed, OvsForward, OfPort
<1> QED
  BY <1>1, <1>2, <1>3, <1>4, <1>5, <1>6, <1>7
  DEF Rules, BessRules, ClickRules, SnabbLinks, OvsFlows, VppPatches

\* The first j VMs of a direction, and one more.
LEMMA ChainGrows ==
    ASSUME NEW k \in VMs
    PROVE  /\ ForwardChain(k - 1) \in Seq(VMs)
           /\ ForwardChain(k) \in Seq(VMs)
           /\ Append(ForwardChain(k - 1), k) = ForwardChain(k)
           /\ ReverseChain(N - k) \in Seq(VMs)
           /\ ReverseChain(N + 1 - k) \in Seq(VMs)
           /\ Append(ReverseChain(N - k), k) = ReverseChain(N + 1 - k)
<1> USE NAssumption DEF VMs, ForwardChain, ReverseChain
<1>1. ForwardChain(k - 1) \in Seq(VMs) /\ ForwardChain(k) \in Seq(VMs)
  OBVIOUS
<1>2. ReverseChain(N - k) \in Seq(VMs) /\ ReverseChain(N + 1 - k) \in Seq(VMs)
  OBVIOUS
<1>3. Append(ForwardChain(k - 1), k) = ForwardChain(k)
  OBVIOUS
<1>4. Append(ReverseChain(N - k), k) = ReverseChain(N + 1 - k)
  OBVIOUS
<1> QED
  BY <1>1, <1>2, <1>3, <1>4

\* No VM has been visited at the start.
LEMMA EmptyChain == ForwardChain(0) = <<>> /\ ReverseChain(0) = <<>>
BY DEF ForwardChain, ReverseChain

-----------------------------------------------------------------------------
\* A packet whose path fits the port it comes from fits the port the switch
\* sends it to, which is another one.
LEMMA NextHop ==
    ASSUME setup \in SoundSetups,
           NEW p \in Ports, NEW pkt \in Packets, AtIngress(p, pkt),
           NEW q \in OutPorts(p, pkt)
    PROVE  q \in Ports /\ AtEgress(q, pkt) /\ q # p
<1> USE NAssumption
<1>1. ASSUME ChainPair(p, q)
      PROVE  AtEgress(q, pkt) /\ q # p
  <2>1. CASE ForwardPair(p, q)
    <3>1. CASE p = 0 /\ q = 2
      <4>1. pkt.src = 0 /\ pkt.hops = <<>>
        BY <3>1 DEF AtIngress, NICs, VMs
      <4> QED
        BY <3>1, <4>1, EmptyChain DEF AtEgress, VMs
    <3>2. ASSUME NEW k \in VMs, p = 2 * k + 1
          PROVE  pkt.src = 0 /\ pkt.hops = ForwardChain(k)
      <4>1. p \notin NICs
        BY <3>2 DEF NICs, VMs
      <4>2. ASSUME NEW m \in VMs, p = 2 * m
            PROVE  FALSE
        BY <3>2, <4>2 DEF VMs
      <4>3. PICK m \in VMs : p = 2 * m + 1 /\ pkt.src = 0 /\ pkt.hops = ForwardChain(m)
        BY <4>1, <4>2 DEF AtIngress
      <4> QED
        BY <4>3, <3>2 DEF VMs
    <3>3. CASE p = 2 * N + 1 /\ q = 1
      <4>1. pkt.src = 0 /\ pkt.hops = ForwardChain(N)
        BY <3>2, <3>3 DEF VMs
      <4> QED
        BY <3>3, <4>1 DEF AtEgress, NICs, Chain
    <3>4. ASSUME NEW k \in 1 .. N - 1, p = 2 * k + 1, q = 2 * k + 2
          PROVE  AtEgress(q, pkt) /\ q # p
      <4>1. k \in VMs /\ k + 1 \in VMs /\ q = 2 * (k + 1) /\ (k + 1) - 1 = k
        BY <3>4 DEF VMs
      <4>2. pkt.src = 0 /\ pkt.hops = ForwardChain((k + 1) - 1)
        BY <4>1, <3>2, <3>4
      <4>3. AtEgress(q, pkt)
        BY <4>1, <4>2 DEF AtEgress
      <4> QED
        BY <4>3, <3>4
    <3> QED
      BY <2>1, <3>1, <3>3, <3>4 DEF ForwardPair
  <2>2. CASE ReversePair(p, q)
    <3>1. CASE p = 1 /\ q = 2 * N + 1
      <4>1. pkt.src = 1 /\ pkt.hops = <<>>
        BY <3>1 DEF AtIngress, NICs, VMs
      <4>2. N \in VMs /\ pkt.hops = ReverseChain(N - N)
        BY <4>1, EmptyChain DEF VMs
      <4>3. AtEgress(q, pkt)
        BY <3>1, <4>1, <4>2 DEF AtEgress
      <4> QED
        BY <3>1, <4>3
    <3>2. ASSUME NEW k \in VMs, p = 2 * k
          PROVE  pkt.src = 1 /\ pkt.hops = ReverseChain(N + 1 - k)
      <4>1. p \notin NICs
        BY <3>2 DEF NICs, VMs
      <4>2. ASSUME NEW m \in VMs, p = 2 * m + 1
            PROVE  FALSE
        BY <3>2, <4>2 DEF VMs
      <4>3. PICK m \in VMs : p = 2 * m /\ pkt.src = 1 /\ pkt.hops = ReverseChain(N + 1 - m)
        BY <4>1, <4>2 DEF AtIngress
      <4>4. m = k
        BY <4>3, <3>2 DEF VMs
      <4> QED
        BY <4>3, <4>4
    <3>3. CASE p = 2 /\ q = 0
      <4>1. 1 \in VMs /\ N + 1 - 1 = N /\ p = 2 * 1
        BY <3>3 DEF VMs
      <4>2. pkt.src = 1 /\ pkt.hops = ReverseChain(N)
        BY <3>2, <4>1
      <4> QED
        BY <3>3, <4>2 DEF AtEgress, NICs, Chain
    <3>4. ASSUME NEW k \in 1 .. N - 1, p = 2 * k + 2, q = 2 * k + 1
          PROVE  AtEgress(q, pkt) /\ q # p
      <4>1. k \in VMs /\ k + 1 \in VMs /\ p = 2 * (k + 1) /\ N + 1 - (k + 1) = N - k
        BY <3>4 DEF VMs
      <4>2. pkt.src = 1 /\ pkt.hops = ReverseChain(N - k)
        BY <4>1, <3>2
      <4>3. AtEgress(q, pkt)
        BY <3>4, <4>1, <4>2 DEF AtEgress
      <4> QED
        BY <4>3, <3>4
    <3> QED
      BY <2>2, <3>1, <3>3, <3>4 DEF ReversePair
  <2> QED
    BY <1>1, <2>1, <2>2 DEF ChainPair
<1>2. CASE setup.switch # "t4p4s"
  <2>1. q \in Ports /\ <<p, q>> \in Rules
    BY <1>2 DEF OutPorts
  <2> QED
    BY <2>1, <1>1, RulesAreChain
<1>3. CASE setup.switch = "t4p4s"
  <2>1. q = T4p4sTable[pkt.dst] /\ pkt.dst \in Macs
    BY <1>3 DEF OutPorts, Packets
  <2>2. setup.guest = "testpmd" \/ N = 1
    BY <1>3 DEF SoundSetups
  <2>3. q \in Ports /\ ChainPair(p, q)
    <3>1. CASE p \in NICs
      BY <3>1, <2>1 DEF AtIngress, T4p4sTable, MoonGenDst, ETH_DST, ETH_DST1, NICs, VMs,
           Ports, ChainPair, ForwardPair, ReversePair
    <3>2. ASSUME NEW k \in VMs, p = 2 * k + 1, pkt.dst = GuestDst(k, 1)
          PROVE  q \in Ports /\ ForwardPair(p, q)
      <4>1. pkt.dst = <<k + 1, 1>>
        BY <3>2, <2>2 DEF GuestDst, l2fwd_dst, testpmd_dst, VMs
      <4>2. q = (IF k = N THEN 1 ELSE 2 * k + 2)
        BY <2>1, <4>1 DEF T4p4sTable, ETH_DST, ETH_DST1, VMs
      <4> QED
        BY <4>2, <3>2 DEF ForwardPair, Ports, VMs
    <3>3. ASSUME NEW k \in VMs, p = 2 * k, pkt.dst = GuestDst(k, 0)
          PROVE  q \in Ports /\ ReversePair(p, q)
      <4>1. pkt.dst = <<k + 1, 0>>
        BY <3>3, <2>2 DEF GuestDst, l2fwd_dst, testpmd_dst, VMs
      <4>2. q = (IF k = 1 THEN 0 ELSE 2 * k - 1)
        BY <2>1, <4>1 DEF T4p4sTable, ETH_DST, ETH_DST1, VMs
      <4> QED
        BY <4>2, <3>3 DEF ReversePair, Ports, VMs
    <3> QED
      BY <3>1, <3>2, <3>3 DEF AtIngress, ChainPair
  <2> QED
    BY <2>3, <1>1
<1> QED
  BY <1>2, <1>3

\* A packet whose path fits the port a VM takes it from fits the port the
\* forwarder sends it out of: the visit is added to its path.
LEMMA Visit ==
    ASSUME NEW k \in VMs, NEW i \in {0, 1}, setup \in Setups, Setups \subseteq SoundSetups,
           NEW pkt \in Packets, AtEgress(2 * k + i, pkt),
           NEW fwd,
           fwd = [pkt EXCEPT !.dst = GuestDst(k, Partner(i)), !.hops = Append(@, k)]
    PROVE  fwd \in Packets /\ AtIngress(2 * k + Partner(i), fwd)
<1> USE NAssumption
<1>1. GuestDst(k, Partner(i)) \in Macs
  BY DEF GuestDst, l2fwd_dst, testpmd_dst, Macs, VMs, Partner
<1>2. fwd \in Packets
  <2>1. pkt.hops \in Seq(VMs) /\ pkt.id \in Nat /\ pkt.src \in NICs
    BY DEF Packets
  <2>2. Append(pkt.hops, k) \in Seq(VMs)
    BY <2>1
  <2>3. fwd = [id |-> pkt.id, src |-> pkt.src, dst |-> GuestDst(k, Partner(i)),
               hops |-> Append(pkt.hops, k)]
    BY DEF Packets
  <2> QED
    BY <1>1, <2>1, <2>2, <2>3 DEF Packets
<1>3. /\ fwd.src = pkt.src
      /\ fwd.dst = GuestDst(k, Partner(i))
      /\ fwd.hops = Append(pkt.hops, k)
  BY DEF Packets
<1>4. CASE i = 0
  <2>1. pkt.src = 0 /\ pkt.hops = ForwardChain(k - 1)
    BY <1>4 DEF AtEgress, NICs, VMs
  <2>2. fwd.hops = ForwardChain(k)
    BY <2>1, <1>3, ChainGrows
  <2> QED
    BY <1>2, <1>3, <1>4, <2>1, <2>2 DEF AtIngress, Partner
<1>5. CASE i = 1
  <2>1. pkt.src = 1 /\ pkt.hops = ReverseChain(N - k)
    BY <1>5 DEF AtEgress, NICs, VMs
  <2>2. fwd.hops = ReverseChain(N + 1 - k)
    BY <2>1, <1>3, ChainGrows
  <2>3. Partner(i) = 0 /\ 2 * k + Partner(i) = 2 * k
    BY <1>5 DEF Partner, VMs
  <2> QED
    BY <1>2, <1>3, <2>1, <2>2, <2>3 DEF AtIngress
<1> QED
  BY <1>4, <1>5

-----------------------------------------------------------------------------
\* What a queue holds after its oldest packet was taken.
LEMMA TailElements ==
    ASSUME NEW S, NEW s \in Seq(S), s # <<>>
    PROVE  /\ Head(s) \in S
           /\ Head(s) = s[1] /\ 1 \in DOMAIN s
           /\ Tail(s) \in Seq(S)
           /\ \A j \in DOMAIN Tail(s) : j + 1 \in DOMAIN s /\ Tail(s)[j] = s[j + 1]
OBVIOUS

\* What a queue holds after a packet was added.
LEMMA AppendElements ==
    ASSUME NEW S, NEW s \in Seq(S), NEW e \in S
    PROVE  /\ Append(s, e) \in Seq(S)
           /\ \A j \in DOMAIN Append(s, e) :
                (j \in DOMAIN s /\ Append(s, e)[j] = s[j]) \/ Append(s, e)[j] = e
OBVIOUS

\* Sending and forwarding keep the queues of packets whose path fits.
LEMMA StepKeepsIInv ==
    ASSUME Setups \subseteq SoundSetups, IInv, [Next]_vars
    PROVE  IInv'
<1> USE NAssumption DEF IInv
<1>a. ASSUME NEW Q \in [Ports -> Seq(Packets)], NEW p \in Ports, NEW e \in Packets
      PROVE  [Q EXCEPT ![p] = Append(@, e)] \in [Ports -> Seq(Packets)]
  BY AppendElements
<1>b. ASSUME NEW Q \in [Ports -> Seq(Packets)], NEW p \in Ports, Q[p] # <<>>
      PROVE  [Q EXCEPT ![p] = Tail(@)] \in [Ports -> Seq(Packets)]
  BY <1>b, TailElements
<1>d. ASSUME NEW e \in Packets, Drop(e)
      PROVE  lost' \in [NICs -> SUBSET Nat]
  BY <1>d DEF Drop, TypeOK, Packets
<1>e. ASSUME UNCHANGED setup, NEW p, NEW pkt
      PROVE  (AtIngress(p, pkt) => AtIngress(p, pkt)') /\ (AtEgress(p, pkt) => AtEgress(p, pkt)')
  BY <1>e DEF AtIngress, AtEgress, GuestDst
<1>1. CASE UNCHANGED vars
  BY <1>1, <1>e DEF vars, TypeOK, Located
<1>2. ASSUME NEW k \in VMs, StartVM(k)
      PROVE  IInv'
  BY <1>2, <1>e DEF StartVM, TypeOK, Located
<1>3. ASSUME NEW nic \in NICs, Send(nic)
      PROVE  IInv'
  <2>0. PICK pkt : pkt = [id |-> sent[nic] + 1, src |-> nic, dst |-> MoonGenDst(nic), hops |-> <<>>]
    OBVIOUS
  <2>1. pkt \in Packets /\ nic \in Ports /\ AtIngress(nic, pkt)
    BY <2>0, SMTT(30) DEF Packets, MoonGenDst, Macs, TypeOK, Ports, AtIngress, NICs
  <2>2. sent' \in [NICs -> Nat] /\ UNCHANGED <<setup, up, txq>>
    BY <1>3 DEF Send, TypeOK
  <2>3. CASE rxq' = [rxq EXCEPT ![nic] = Append(@, pkt)] /\ UNCHANGED lost
    <3>1. TypeOK'
      BY <2>1, <2>2, <2>3, <1>a DEF TypeOK
    <3>2. Located'
      BY <2>1, <2>2, <2>3, <1>e, AppendElements DEF TypeOK, Located
    <3> QED
      BY <3>1, <3>2
  <2>4. CASE Drop(pkt) /\ UNCHANGED rxq
    BY <2>1, <2>2, <2>4, <1>d, <1>e DEF TypeOK, Located
  <2> QED
    BY <1>3, <2>0, <2>3, <2>4 DEF Send
<1>4. ASSUME NEW p \in Ports, Switch(p)
      PROVE  IInv'
  <2>0. PICK pkt : pkt = Head(rxq[p])
    OBVIOUS
  <2>1. rxq[p] \in Seq(Packets) /\ rxq[p] # <<>>
    BY <1>4 DEF Switch, TypeOK
  <2>2. pkt \in Packets /\ AtIngress(p, pkt)
    BY <2>0, <2>1, TailElements DEF Located
  <2>3. PICK q \in OutPorts(p, pkt) :
          /\ rxq' = [rxq EXCEPT ![p] = Tail(@)]
          /\ \/ txq' = [txq EXCEPT ![q] = Append(@, pkt)] /\ UNCHANGED lost
             \/ Drop(pkt) /\ UNCHANGED txq
          /\ UNCHANGED <<setup, up, sent>>
    BY <1>4, <2>0 DEF Switch
  <2>4. q \in Ports /\ AtEgress(q, pkt)
    BY <2>2, NextHop DEF TypeOK
  <2>5. TypeOK'
    <3>1. rxq' \in [Ports -> Seq(Packets)]
      BY <2>1, <2>3, <1>b DEF TypeOK
    <3>2. txq' \in [Ports -> Seq(Packets)]
      <4>1. CASE UNCHANGED txq
        BY <4>1 DEF TypeOK
      <4>2. CASE txq' = [txq EXCEPT ![q] = Append(@, pkt)]
        BY <2>2, <2>4, <4>2, <1>a DEF TypeOK
      <4> QED
        BY <2>3, <4>1, <4>2
    <3>3. lost' \in [NICs -> SUBSET Nat]
      <4>1. CASE UNCHANGED lost
        BY <4>1 DEF TypeOK
      <4>2. CASE Drop(pkt)
        BY <2>2, <4>2, <1>d
      <4> QED
        BY <2>3, <4>1, <4>2
    <3> QED
      BY <2>3, <3>1, <3>2, <3>3 DEF TypeOK
  <2>6. \A r \in Ports : \A j \in DOMAIN rxq'[r] : AtIngress(r, rxq[r][j])'
    BY <2>1, <2>3, <1>e, TailElements DEF TypeOK, Located
  <2>7. \A r \in Ports : \A j \in DOMAIN txq'[r] : AtEgress(r, txq[r][j])'
    <3>1. CASE UNCHANGED txq
      BY <2>3, <3>1, <1>e DEF Located
    <3>2. CASE txq' = [txq EXCEPT ![q] = Append(@, pkt)]
      BY <2>2, <2>3, <2>4, <3>2, <1>e, AppendElements DEF TypeOK, Located
    <3> QED
      BY <2>3, <3>1, <3>2
  <2> QED
    BY <2>5, <2>6, <2>7 DEF Located
<1>5. ASSUME NEW k \in VMs, NEW i \in {0, 1}, Guest(k, i)
      PROVE  IInv'
  <2>0. PICK in, out : in = 2 * k + i /\ out = 2 * k + Partner(i)
    OBVIOUS
  <2>1. in \in Ports /\ out \in Ports
    BY <2>0 DEF Partner, Ports, VMs
  <2>2. PICK pkt, fwd :
          /\ pkt = Head(txq[in])
          /\ fwd = [pkt EXCEPT !.dst = GuestDst(k, Partner(i)), !.hops = Append(@, k)]
    OBVIOUS
  <2>3. txq[in] \in Seq(Packets) /\ txq[in] # <<>>
    BY <1>5, <2>0, <2>1 DEF Guest, TypeOK
  <2>4. pkt \in Packets /\ AtEgress(in, pkt)
    BY <2>1, <2>2, <2>3, TailElements DEF Located
  <2>5. fwd \in Packets /\ AtIngress(out, fwd)
    BY <2>0, <2>2, <2>4, Visit DEF TypeOK
  <2>6. /\ txq' = [txq EXCEPT ![in] = Tail(@)]
        /\ \/ rxq' = [rxq EXCEPT ![out] = Append(@, fwd)] /\ UNCHANGED lost
           \/ Drop(pkt) /\ UNCHANGED rxq
        /\ UNCHANGED <<setup, up, sent>>
    BY <1>5, <2>0, <2>2 DEF Guest
  <2>7. TypeOK'
    <3>1. txq' \in [Ports -> Seq(Packets)]
      BY <2>1, <2>3, <2>6, <1>b DEF TypeOK
    <3>2. rxq' \in [Ports -> Seq(Packets)]
      <4>1. CASE UNCHANGED rxq
        BY <4>1 DEF TypeOK
      <4>2. CASE rxq' = [rxq EXCEPT ![out] = Append(@, fwd)]
        BY <2>1, <2>5, <4>2, <1>a DEF TypeOK
      <4> QED
        BY <2>6, <4>1, <4>2
    <3>3. lost' \in [NICs -> SUBSET Nat]
      <4>1. CASE UNCHANGED lost
        BY <4>1 DEF TypeOK
      <4>2. CASE Drop(pkt)
        BY <2>4, <4>2, <1>d
      <4> QED
        BY <2>6, <4>1, <4>2
    <3> QED
      BY <2>6, <3>1, <3>2, <3>3 DEF TypeOK
  <2>8. \A r \in Ports : \A j \in DOMAIN txq'[r] : AtEgress(r, txq[r][j])'
    BY <2>1, <2>3, <2>6, <1>e, TailElements DEF TypeOK, Located
  <2>9. \A r \in Ports : \A j \in DOMAIN rxq'[r] : AtIngress(r, rxq[r][j])'
    <3>1. CASE UNCHANGED rxq
      BY <2>6, <3>1, <1>e DEF Located
    <3>2. CASE rxq' = [rxq EXCEPT ![out] = Append(@, fwd)]
      BY <2>1, <2>5, <2>6, <3>2, <1>e, AppendElements DEF TypeOK, Located
    <3> QED
      BY <2>6, <3>1, <3>2
  <2> QED
    BY <2>7, <2>8, <2>9 DEF Located
<1> QED
  BY <1>1, <1>2, <1>3, <1>4, <1>5 DEF Next

-----------------------------------------------------------------------------
\* For a chain of any length and every experiment but t4p4s with l2fwd in
\* several VMs, the path of a packet is fixed by the port it is at: whatever
\* the switch polls first and whichever VMs are up.
THEOREM Invariance ==
    ASSUME Setups \subseteq SoundSetups
    PROVE  Spec => []IInv
<1>1. Init => IInv
  BY NAssumption DEF Init, IInv, TypeOK, Located, Ports, NICs, VMs
<1>2. IInv /\ [Next]_vars => IInv'
  BY StepKeepsIInv
<1> QED
  BY <1>1, <1>2, PTL DEF Spec

\* Every variable keeps its type: the queues hold packets of MoonGen.
THEOREM TypeCorrect ==
    ASSUME Setups \subseteq SoundSetups
    PROVE  Spec => []TypeOK
<1>1. IInv => TypeOK
  BY DEF IInv
<1> QED
  BY <1>1, Invariance, PTL

\* Every packet MoonGen gets back came from the other NIC and visited every
\* VM once, in the order of its direction.
THEOREM ChainCorrect ==
    ASSUME Setups \subseteq SoundSetups
    PROVE  Spec => []ChainVisited
<1>1. IInv => ChainVisited
  <2> SUFFICES ASSUME IInv, NEW nic \in NICs, NEW j \in DOMAIN txq[nic]
               PROVE  /\ txq[nic][j].src = 1 - nic
                      /\ txq[nic][j].hops = Chain(txq[nic][j].src, N)
    BY DEF ChainVisited, Received
  <2>1. AtEgress(nic, txq[nic][j])
    BY NAssumption DEF IInv, Located, NICs, Ports
  <2>2. \A k \in VMs : nic # 2 * k /\ nic # 2 * k + 1
    BY NAssumption DEF NICs, VMs
  <2> QED
    BY <2>1, <2>2 DEF AtEgress
<1> QED
  BY <1>1, Invariance, PTL

\* No packet enters a VM for the second time.
THEOREM LoopFree ==
    ASSUME Setups \subseteq SoundSetups
    PROVE  Spec => []NoLoop
<1>1. IInv => NoLoop
  <2> SUFFICES ASSUME IInv, NEW p \in Ports, NEW q \in {rxq[p], txq[p]}, NEW j \in DOMAIN q,
                      NEW a \in DOMAIN q[j].hops, NEW b \in DOMAIN q[j].hops,
                      q[j].hops[a] = q[j].hops[b]
               PROVE  a = b
    BY DEF NoLoop
  <2>1. \E n \in Nat : q[j].hops = ForwardChain(n) \/ q[j].hops = ReverseChain(n)
    <3>1. AtIngress(p, q[j]) \/ AtEgress(p, q[j])
      BY DEF IInv, Located
    <3> QED
      BY <3>1, NAssumption, EmptyChain DEF AtIngress, AtEgress, VMs, Chain
  <2> QED
    BY <2>1, NAssumption DEF ForwardChain, ReverseChain
<1> QED
  BY <1>1, Invariance, PTL

\* The switch never sends a packet back to the port it came from.
THEOREM HairpinFree ==
    ASSUME Setups \subseteq SoundSetups
    PROVE  Spec => []NoHairpin
<1>1. IInv => NoHairpin
  <2> SUFFICES ASSUME IInv, NEW p \in Ports, rxq[p] # <<>>, p \in OutPorts(p, Head(rxq[p]))
               PROVE  FALSE
    BY DEF NoHairpin
  <2>1. rxq[p] \in Seq(Packets) /\ setup \in SoundSetups
    BY DEF IInv, TypeOK
  <2>2. Head(rxq[p]) \in Packets /\ AtIngress(p, Head(rxq[p]))
    BY <2>1, TailElements DEF IInv, Located
  <2> QED
    BY <2>1, <2>2, NextHop
<1> QED
  BY <1>1, Invariance, PTL

-----------------------------------------------------------------------------
(* Order and accounting.                                                   *)

\* The port a packet is at follows from its direction and the VMs visited.
InPort(src, h) ==
    IF h = 0 THEN src ELSE IF src = 0 THEN 2 * h + 1 ELSE 2 * (N + 1 - h)
OutPort(src, h) ==
    IF h = N THEN 1 - src ELSE IF src = 0 THEN 2 * h + 2 ELSE 2 * (N - h) + 1

LEMMA ChainLen ==
    \A n \in Nat : Len(ForwardChain(n)) = n /\ Len(ReverseChain(n)) = n
  BY DEF ForwardChain, ReverseChain

LEMMA PortFromPath ==
    ASSUME NEW p \in Ports, NEW pkt \in Packets
    PROVE  /\ AtIngress(p, pkt) => p = InPort(pkt.src, Len(pkt.hops)) /\ Len(pkt.hops) \in 0 .. N
           /\ AtEgress(p, pkt) => p = OutPort(pkt.src, Len(pkt.hops)) /\ Len(pkt.hops) \in 0 .. N
<1> USE NAssumption
<1>1. ASSUME p \in NICs, pkt.src = p, pkt.hops = <<>>
      PROVE  p = InPort(pkt.src, Len(pkt.hops)) /\ Len(pkt.hops) \in 0 .. N
  BY <1>1 DEF InPort
<1>2. ASSUME NEW k \in VMs, p = 2 * k + 1, pkt.src = 0, pkt.hops = ForwardChain(k)
      PROVE  p = InPort(pkt.src, Len(pkt.hops)) /\ Len(pkt.hops) \in 0 .. N
  <2>1. Len(pkt.hops) = k /\ k \in Nat \ {0} /\ k <= N
    BY <1>2, ChainLen DEF VMs
  <2> QED
    BY <1>2, <2>1 DEF InPort
<1>3. ASSUME NEW k \in VMs, p = 2 * k, pkt.src = 1, pkt.hops = ReverseChain(N + 1 - k)
      PROVE  p = InPort(pkt.src, Len(pkt.hops)) /\ Len(pkt.hops) \in 0 .. N
  <2>1. N + 1 - k \in Nat \ {0} /\ k \in Nat /\ N + 1 - k <= N
    BY DEF VMs
  <2>2. Len(pkt.hops) = N + 1 - k
    BY <1>3, <2>1, ChainLen
  <2> QED
    BY <1>3, <2>1, <2>2 DEF InPort
<1>4. ASSUME p \in NICs, pkt.src = 1 - p, pkt.hops = Chain(pkt.src, N)
      PROVE  p = OutPort(pkt.src, Len(pkt.hops)) /\ Len(pkt.hops) \in 0 .. N
  <2>1. Len(pkt.hops) = N
    BY <1>4, ChainLen DEF Chain
  <2> QED
    BY <1>4, <2>1 DEF OutPort, NICs
<1>5. ASSUME NEW k \in VMs, p = 2 * k, pkt.src = 0, pkt.hops = ForwardChain(k - 1)
      PROVE  p = OutPort(pkt.src, Len(pkt.hops)) /\ Len(pkt.hops) \in 0 .. N
  <2>1. k - 1 \in Nat /\ k - 1 # N /\ k \in Nat /\ k - 1 <= N
    BY DEF VMs
  <2>2. Len(pkt.hops) = k - 1
    BY <1>5, <2>1, ChainLen
  <2> QED
    BY <1>5, <2>1, <2>2 DEF OutPort
<1>6. ASSUME NEW k \in VMs, p = 2 * k + 1, pkt.src = 1, pkt.hops = ReverseChain(N - k)
      PROVE  p = OutPort(pkt.src, Len(pkt.hops)) /\ Len(pkt.hops) \in 0 .. N
  <2>1. N - k \in Nat /\ N - k # N /\ k \in Nat /\ N - k <= N
    BY DEF VMs
  <2>2. Len(pkt.hops) = N - k
    BY <1>6, <2>1, ChainLen
  <2> QED
    BY <1>6, <2>1, <2>2 DEF OutPort
<1>7. AtIngress(p, pkt) => p = InPort(pkt.src, Len(pkt.hops)) /\ Len(pkt.hops) \in 0 .. N
  BY <1>1, <1>2, <1>3 DEF AtIngress
<1>8. AtEgress(p, pkt) => p = OutPort(pkt.src, Len(pkt.hops)) /\ Len(pkt.hops) \in 0 .. N
  BY <1>4, <1>5, <1>6 DEF AtEgress
<1> QED
  BY <1>7, <1>8

\* The other way round: the port and the direction give the VMs visited.
LEMMA PathFromPort ==
    ASSUME NEW src \in NICs, NEW g \in 0 .. N, NEW h \in 0 .. N,
           InPort(src, g) = InPort(src, h) \/ OutPort(src, g) = OutPort(src, h)
    PROVE  g = h
  BY NAssumption DEF InPort, OutPort, NICs

\* Every slot of a queue holds a packet.
LEMMA AtFacts ==
    ASSUME IInv, NEW c \in {0, 1}, NEW p \in Ports
    PROVE  /\ At(c, p) \in Seq(Packets) /\ Len(At(c, p)) \in Nat
           /\ DOMAIN At(c, p) = 1 .. Len(At(c, p))
           /\ \A j \in DOMAIN At(c, p) :
                /\ At(c, p)[j] \in Packets
                /\ At(c, p)[j].id \in Nat /\ At(c, p)[j].src \in NICs
                /\ Len(At(c, p)[j].hops) \in Nat /\ Pos(c, At(c, p)[j]) \in Nat
<1>1. At(c, p) \in Seq(Packets)
  BY DEF IInv, TypeOK, At
<1>2. \A a \in Packets : /\ a.id \in Nat /\ a.src \in NICs /\ Len(a.hops) \in Nat
                         /\ Pos(c, a) \in Nat
  <2> SUFFICES ASSUME NEW a \in Packets
               PROVE  a.id \in Nat /\ a.src \in NICs /\ Len(a.hops) \in Nat /\ Pos(c, a) \in Nat
    OBVIOUS
  <2>1. a.id \in Nat /\ a.src \in NICs /\ a.hops \in Seq(VMs)
    BY DEF Packets
  <2>2. Len(a.hops) \in Nat
    BY <2>1
  <2> QED
    BY <2>1, <2>2 DEF Pos
<1> HIDE DEF At
<1> QED
  BY <1>1, <1>2

\* Two packets of a direction that are equally far are in the same queue.
LEMMA SameQueue ==
    ASSUME IInv, NEW c1 \in {0, 1}, NEW c2 \in {0, 1}, NEW p1 \in Ports, NEW p2 \in Ports,
           NEW j1 \in DOMAIN At(c1, p1), NEW j2 \in DOMAIN At(c2, p2),
           At(c1, p1)[j1].src = At(c2, p2)[j2].src,
           Pos(c1, At(c1, p1)[j1]) = Pos(c2, At(c2, p2)[j2])
    PROVE  c1 = c2 /\ p1 = p2
<1>1. PICK a : a = At(c1, p1)[j1]
  OBVIOUS
<1>2. PICK b : b = At(c2, p2)[j2]
  OBVIOUS
<1>3. /\ a \in Packets /\ b \in Packets /\ Len(a.hops) \in Nat /\ Len(b.hops) \in Nat
      /\ a.src = b.src /\ Pos(c1, a) = Pos(c2, b)
  BY <1>1, <1>2, AtFacts
<1>4. c1 = c2 /\ Len(a.hops) = Len(b.hops)
  BY <1>3 DEF Pos
<1>5. CASE c1 = 0
  <2>1. AtIngress(p1, a) /\ AtIngress(p2, b)
    BY <1>1, <1>2, <1>4, <1>5 DEF IInv, Located, At
  <2> QED
    BY <1>3, <1>4, <2>1, PortFromPath
<1>6. CASE c1 = 1
  <2>1. AtEgress(p1, a) /\ AtEgress(p2, b)
    BY <1>1, <1>2, <1>4, <1>6 DEF IInv, Located, At
  <2> QED
    BY <1>3, <1>4, <2>1, PortFromPath
<1> QED
  BY <1>5, <1>6

\* Two slots that hold the same packet are the same slot.
LEMMA OneSlot ==
    ASSUME IInv, Ordered,
           NEW c1 \in {0, 1}, NEW c2 \in {0, 1}, NEW p1 \in Ports, NEW p2 \in Ports,
           NEW j1 \in DOMAIN At(c1, p1), NEW j2 \in DOMAIN At(c2, p2),
           At(c1, p1)[j1].src = At(c2, p2)[j2].src, At(c1, p1)[j1].id = At(c2, p2)[j2].id
    PROVE  c1 = c2 /\ p1 = p2 /\ j1 = j2
<1>1. PICK a : a = At(c1, p1)[j1]
  OBVIOUS
<1>2. PICK b : b = At(c2, p2)[j2]
  OBVIOUS
<1>3. /\ a.id \in Nat /\ a.id = b.id /\ a.src = b.src
      /\ Pos(c1, a) \in Nat /\ Pos(c2, b) \in Nat /\ j1 \in Nat /\ j2 \in Nat
  BY <1>1, <1>2, AtFacts
<1>4. ~(Pos(c1, a) > Pos(c2, b)) /\ ~(Pos(c2, b) > Pos(c1, a))
  BY <1>1, <1>2, <1>3 DEF Ordered
<1>5. Pos(c1, a) = Pos(c2, b)
  BY <1>3, <1>4
<1>6. c1 = c2 /\ p1 = p2
  BY <1>1, <1>2, <1>3, <1>5, SameQueue
<1>7. ~(j1 < j2) /\ ~(j2 < j1)
  BY <1>1, <1>2, <1>3, <1>6 DEF Ordered
<1> QED
  BY <1>3, <1>6, <1>7

\* The slots after the oldest packet of queue c, p was taken and, unless it
\* was dropped, put at the end of queue d, q as fwd.
TakenFrom(c, p) ==
    \A e \in {0, 1}, r \in Ports : \A j \in DOMAIN At(e, r) :
        \/ e = c /\ r = p /\ j = 1
        \/ \E j1 \in DOMAIN At(e, r)' : At(e, r)'[j1] = At(e, r)[j]

Stayed(c, p, e, r, j) ==
    \E j0 \in DOMAIN At(e, r) :
        At(e, r)'[j] = At(e, r)[j0] /\ j0 = (IF e = c /\ r = p THEN j + 1 ELSE j)

Added(d, q, fwd, e, r, j) ==
    e = d /\ r = q /\ j = Len(At(d, q)) + 1 /\ At(e, r)'[j] = fwd

\* A packet that moves on stays behind those that are further and ahead of
\* those behind it.
LEMMA OrderStep ==
    ASSUME IInv, Ordered, NEW c \in {0, 1}, NEW d \in {0, 1}, NEW p \in Ports, NEW q \in Ports,
           c # d, At(c, p) # <<>>, NEW pkt, pkt = At(c, p)[1], NEW fwd, fwd.id = pkt.id,
           fwd.src = pkt.src, Pos(d, fwd) = Pos(c, pkt) + 1,
           \A j \in DOMAIN At(d, q) :
                At(d, q)[j].src = pkt.src => Pos(d, At(d, q)[j]) = Pos(d, fwd),
           \A e \in {0, 1}, r \in Ports : \A j \in DOMAIN At(e, r)' :
                j \in Nat \ {0} /\ (Stayed(c, p, e, r, j) \/ Added(d, q, fwd, e, r, j))
    PROVE  Ordered'
<1>0. 1 \in DOMAIN At(c, p) /\ pkt.id \in Nat /\ Pos(c, pkt) \in Nat
  <2>1. 1 \in DOMAIN At(c, p)
    BY AtFacts
  <2> QED
    BY <2>1, AtFacts
<1> SUFFICES ASSUME NEW c1 \in {0, 1}, NEW c2 \in {0, 1}, NEW p1 \in Ports, NEW p2 \in Ports,
                    NEW j1 \in DOMAIN At(c1, p1)', NEW j2 \in DOMAIN At(c2, p2)',
                    NEW a, a = At(c1, p1)'[j1], NEW b, b = At(c2, p2)'[j2], a.src = b.src
             PROVE  /\ Pos(c1, a) > Pos(c2, b) => a.id < b.id
                    /\ c1 = c2 /\ p1 = p2 /\ j1 < j2 => a.id < b.id
  <2> SUFFICES \A c1, c2 \in {0, 1}, p1, p2 \in Ports :
                 \A j1 \in DOMAIN At(c1, p1)', j2 \in DOMAIN At(c2, p2)' :
                    At(c1, p1)'[j1].src = At(c2, p2)'[j2].src =>
                      /\ Pos(c1, At(c1, p1)'[j1]) > Pos(c2, At(c2, p2)'[j2])
                           => At(c1, p1)'[j1].id < At(c2, p2)'[j2].id
                      /\ c1 = c2 /\ p1 = p2 /\ j1 < j2
                           => At(c1, p1)'[j1].id < At(c2, p2)'[j2].id
    BY Zenon DEF Ordered, Pos
  <2> QED
    OBVIOUS
<1>1. j1 \in Nat \ {0} /\ j2 \in Nat \ {0}
  OBVIOUS
<1>2. CASE Stayed(c, p, c1, p1, j1) /\ Stayed(c, p, c2, p2, j2)
  <2>1. PICK i1 \in DOMAIN At(c1, p1) :
          a = At(c1, p1)[i1] /\ i1 = (IF c1 = c /\ p1 = p THEN j1 + 1 ELSE j1)
    BY <1>2 DEF Stayed
  <2>2. PICK i2 \in DOMAIN At(c2, p2) :
          b = At(c2, p2)[i2] /\ i2 = (IF c2 = c /\ p2 = p THEN j2 + 1 ELSE j2)
    BY <1>2 DEF Stayed
  <2>3. /\ Pos(c1, a) > Pos(c2, b) => a.id < b.id
        /\ c1 = c2 /\ p1 = p2 /\ i1 < i2 => a.id < b.id
    BY <2>1, <2>2 DEF Ordered
  <2>4. c1 = c2 /\ p1 = p2 /\ j1 < j2 => i1 < i2
    BY <1>1, <2>1, <2>2
  <2> QED
    BY <2>3, <2>4
<1>3. CASE Added(d, q, fwd, c1, p1, j1) /\ Added(d, q, fwd, c2, p2, j2)
  BY <1>1, <1>3, <1>0 DEF Added
<1>4. CASE Stayed(c, p, c1, p1, j1) /\ Added(d, q, fwd, c2, p2, j2)
  <2>1. PICK i1 \in DOMAIN At(c1, p1) :
          a = At(c1, p1)[i1] /\ i1 = (IF c1 = c /\ p1 = p THEN j1 + 1 ELSE j1)
    BY <1>4 DEF Stayed
  <2>2. b = fwd /\ c2 = d /\ p2 = q /\ j2 = Len(At(d, q)) + 1
    BY <1>4 DEF Added
  <2>3. a.id \in Nat /\ Pos(c1, a) \in Nat
    BY <2>1, AtFacts, ZenonT(40)
  <2>4. Pos(c1, a) > Pos(c, pkt) => a.id < pkt.id
    BY <1>0, <2>1, <2>2, SMTT(30) DEF Ordered
  <2>5. Pos(c1, a) > Pos(d, fwd) => a.id < b.id
    BY <1>0, <2>2, <2>3, <2>4
  <2>6. ASSUME c1 = d, p1 = q PROVE a.id < b.id
    <3>1. Pos(c1, a) = Pos(d, fwd)
      BY <2>1, <2>2, <2>6
    <3> QED
      BY <1>0, <2>2, <2>4, <3>1
  <2> QED
    BY <2>2, <2>5, <2>6
<1>5. CASE Added(d, q, fwd, c1, p1, j1) /\ Stayed(c, p, c2, p2, j2)
  <2>1. PICK i2 \in DOMAIN At(c2, p2) :
          b = At(c2, p2)[i2] /\ i2 = (IF c2 = c /\ p2 = p THEN j2 + 1 ELSE j2)
    BY <1>5 DEF Stayed
  <2>2. a = fwd /\ c1 = d /\ p1 = q /\ j1 = Len(At(d, q)) + 1
    BY <1>5 DEF Added
  <2>3. b.id \in Nat /\ Pos(c2, b) \in Nat /\ Len(At(d, q)) \in Nat
    BY <2>1, AtFacts, ZenonT(40)
  <2>4. Pos(c, pkt) > Pos(c2, b) => pkt.id < b.id
    BY <1>0, <2>1, <2>2, SMTT(30) DEF Ordered
  <2>5. ASSUME Pos(c, pkt) = Pos(c2, b) PROVE pkt.id < b.id
    <3>1. c2 = c /\ p2 = p
      BY <1>0, <2>1, <2>2, <2>5, SameQueue
    <3>2. 1 < i2
      BY <1>1, <2>1, <3>1
    <3> QED
      BY <1>0, <2>1, <2>2, <3>1, <3>2 DEF Ordered
  <2>6. Pos(c1, a) > Pos(c2, b) => a.id < b.id
    BY <1>0, <2>2, <2>3, <2>4, <2>5
  <2>7. ~(c1 = c2 /\ p1 = p2 /\ j1 < j2)
    <3> SUFFICES ASSUME c1 = c2, p1 = p2, j1 < j2 PROVE FALSE
      OBVIOUS
    <3>1. i2 = j2 /\ j2 \in 1 .. Len(At(d, q))
      BY <2>1, <2>2, AtFacts
    <3> QED
      BY <1>1, <2>2, <2>3, <3>1
  <2> QED
    BY <2>6, <2>7
<1> QED
  BY <1>2, <1>3, <1>4, <1>5

\* The oldest packet of queue c, p is taken; fwd is added to queue d, q or
\* nothing is.
Takes(c, p, d, q, fwd) ==
    /\ At(c, p)' = Tail(At(c, p))
    /\ At(d, q)' = Append(At(d, q), fwd) \/ At(d, q)' = At(d, q)
    /\ \A e \in {0, 1}, r \in Ports :
        ~(e = c /\ r = p) /\ ~(e = d /\ r = q) => At(e, r)' = At(e, r)

LEMMA TakesSlots ==
    ASSUME IInv, NEW c \in {0, 1}, NEW d \in {0, 1}, NEW p \in Ports, NEW q \in Ports, c # d,
           At(c, p) # <<>>, NEW fwd \in Packets, Takes(c, p, d, q, fwd)
    PROVE  /\ \A e \in {0, 1}, r \in Ports : \A j \in DOMAIN At(e, r)' :
                /\ j \in Nat \ {0}
                /\ \/ Stayed(c, p, e, r, j)
                   \/ Added(d, q, fwd, e, r, j) /\ At(d, q)' # At(d, q)
           /\ TakenFrom(c, p)
           /\ At(d, q)' # At(d, q) =>
                \E j \in DOMAIN At(d, q)' : At(d, q)'[j] = fwd
<1>1. PICK s : s = At(c, p)
  OBVIOUS
<1>2. PICK t : t = At(d, q)
  OBVIOUS
<1>3. s \in Seq(Packets) /\ t \in Seq(Packets) /\ s # <<>> /\ Len(s) \in Nat /\ Len(t) \in Nat
  BY <1>1, <1>2, AtFacts
<1>4. PICK s2 : s2 = At(c, p)'
  OBVIOUS
<1>5. PICK t2 : t2 = At(d, q)'
  OBVIOUS
<1>6. /\ \A j \in DOMAIN s2 : j \in Nat \ {0} /\ j + 1 \in DOMAIN s /\ s2[j] = s[j + 1]
      /\ \A j \in DOMAIN s : j = 1 \/ \E j1 \in DOMAIN s2 : s2[j1] = s[j]
  <2>1. s2 = Tail(s)
    BY <1>1, <1>4 DEF Takes
  <2>2. /\ s2 \in Seq(Packets) /\ Len(s2) = Len(s) - 1 /\ Len(s) >= 1
        /\ \A j \in 1 .. Len(s2) : s2[j] = s[j + 1]
    BY <1>3, <2>1
  <2>3. \A j \in DOMAIN s2 : j \in Nat \ {0} /\ j + 1 \in DOMAIN s /\ s2[j] = s[j + 1]
    BY <1>3, <2>2
  <2>4. ASSUME NEW j \in DOMAIN s, j # 1 PROVE \E j1 \in DOMAIN s2 : s2[j1] = s[j]
    <3>1. PICK j1 : j1 = j - 1
      OBVIOUS
    <3>2. j1 \in 1 .. Len(s2) /\ j1 + 1 = j
      BY <1>3, <2>2, <2>4, <3>1
    <3>3. s2[j1] = s[j] /\ j1 \in DOMAIN s2
      BY <2>2, <3>2
    <3> QED
      BY <3>3
  <2> QED
    BY <2>3, <2>4
<1>7. /\ \A j \in DOMAIN t2 :
            /\ j \in Nat \ {0}
            /\ \/ j \in DOMAIN t /\ t2[j] = t[j]
               \/ j = Len(t) + 1 /\ t2[j] = fwd /\ t2 # t
      /\ \A j \in DOMAIN t : j \in DOMAIN t2 /\ t2[j] = t[j]
      /\ t2 # t => \E j \in DOMAIN t2 : t2[j] = fwd
  <2>1. CASE t2 = t
    BY <1>3, <2>1
  <2>2. CASE t2 # t
    <3>1. t2 = Append(t, fwd)
      BY <1>2, <1>5, <2>2 DEF Takes
    <3>2. /\ t2 \in Seq(Packets) /\ Len(t2) = Len(t) + 1
          /\ \A j \in 1 .. Len(t2) : t2[j] = IF j <= Len(t) THEN t[j] ELSE fwd
      BY <1>3, <3>1
    <3>3. \A j \in DOMAIN t2 :
            /\ j \in Nat \ {0}
            /\ \/ j \in DOMAIN t /\ t2[j] = t[j]
               \/ j = Len(t) + 1 /\ t2[j] = fwd /\ t2 # t
      BY <1>3, <2>2, <3>2
    <3>4. \A j \in DOMAIN t : j \in DOMAIN t2 /\ t2[j] = t[j]
      BY <1>3, <3>2
    <3>5. Len(t) + 1 \in DOMAIN t2 /\ t2[Len(t) + 1] = fwd
      BY <1>3, <3>2
    <3> QED
      BY <3>3, <3>4, <3>5
  <2> QED
    BY <2>1, <2>2
<1>8. ASSUME NEW e \in {0, 1}, NEW r \in Ports, NEW j \in DOMAIN At(e, r)'
      PROVE  /\ j \in Nat \ {0}
             /\ \/ Stayed(c, p, e, r, j)
                \/ Added(d, q, fwd, e, r, j) /\ At(d, q)' # At(d, q)
  <2>1. CASE e = c /\ r = p
    BY <1>1, <1>4, <1>6, <2>1 DEF Stayed
  <2>2. CASE e = d /\ r = q
    <3>1. j \in DOMAIN t2 /\ ~(e = c /\ r = p)
      BY <1>5, <2>2
    <3>2. \/ j \in DOMAIN t /\ t2[j] = t[j]
          \/ j = Len(t) + 1 /\ t2[j] = fwd /\ t2 # t
      BY <1>7, <3>1
    <3> QED
      BY <1>2, <1>5, <1>7, <2>2, <3>1, <3>2 DEF Stayed, Added
  <2>3. CASE ~(e = c /\ r = p) /\ ~(e = d /\ r = q)
    <3>1. At(e, r)' = At(e, r)
      BY <2>3 DEF Takes
    <3>2. j \in DOMAIN At(e, r) /\ j \in Nat \ {0}
      BY <3>1, AtFacts
    <3> QED
      BY <2>3, <3>1, <3>2 DEF Stayed
  <2> QED
    BY <2>1, <2>2, <2>3
<1>9. TakenFrom(c, p)
  <2> SUFFICES ASSUME NEW e \in {0, 1}, NEW r \in Ports, NEW j \in DOMAIN At(e, r)
               PROVE  \/ e = c /\ r = p /\ j = 1
                      \/ \E j1 \in DOMAIN At(e, r)' : At(e, r)'[j1] = At(e, r)[j]
    BY DEF TakenFrom
  <2>1. CASE e = c /\ r = p
    BY <1>1, <1>4, <1>6, <2>1
  <2>2. CASE e = d /\ r = q
    BY <1>2, <1>5, <1>7, <2>2
  <2>3. CASE ~(e = c /\ r = p) /\ ~(e = d /\ r = q)
    BY <2>3 DEF Takes
  <2> QED
    BY <2>1, <2>2, <2>3
<1>10. At(d, q)' # At(d, q) => \E j \in DOMAIN At(d, q)' : At(d, q)'[j] = fwd
  BY <1>2, <1>5, <1>7
<1> QED
  BY <1>8, <1>9, <1>10

\* A packet is taken from one queue and added to the next, or dropped and
\* counted: order and accounts are kept.
LEMMA TakeKeeps ==
    ASSUME IInv, DeliveryInv, NEW c \in {0, 1}, NEW d \in {0, 1}, NEW p \in Ports, NEW q \in Ports,
           c # d, At(c, p) # <<>>, NEW pkt, pkt = At(c, p)[1], NEW fwd \in Packets,
           fwd.id = pkt.id, fwd.src = pkt.src, Pos(d, fwd) = Pos(c, pkt) + 1,
           \A j \in DOMAIN At(d, q) :
                At(d, q)[j].src = pkt.src => Pos(d, At(d, q)[j]) = Pos(d, fwd),
           Takes(c, p, d, q, fwd), UNCHANGED sent,
           \/ At(d, q)' # At(d, q) /\ UNCHANGED lost
           \/ At(d, q)' = At(d, q) /\ Drop(pkt)
    PROVE  DeliveryInv'
<1>0. /\ 1 \in DOMAIN At(c, p) /\ pkt.id \in Nat /\ pkt.src \in NICs /\ pkt \in Packets
      /\ lost \in [NICs -> SUBSET Nat]
  <2>1. 1 \in DOMAIN At(c, p)
    BY AtFacts
  <2> QED
    BY <2>1, AtFacts DEF IInv, TypeOK
<1>1. /\ \A e \in {0, 1}, r \in Ports : \A j \in DOMAIN At(e, r)' :
            /\ j \in Nat \ {0}
            /\ \/ Stayed(c, p, e, r, j)
               \/ Added(d, q, fwd, e, r, j) /\ At(d, q)' # At(d, q)
      /\ TakenFrom(c, p)
      /\ At(d, q)' # At(d, q) =>
            \E j \in DOMAIN At(d, q)' : At(d, q)'[j] = fwd
  BY TakesSlots
<1>2. Ordered'
  BY <1>1, OrderStep DEF DeliveryInv
<1>3. pkt.id \in (1 .. sent[pkt.src]) \ lost[pkt.src]
  BY <1>0 DEF DeliveryInv, Counted
<1>4. /\ At(d, q)' # At(d, q) => lost' = lost
      /\ At(d, q)' = At(d, q) =>
            /\ lost'[pkt.src] = lost[pkt.src] \cup {pkt.id}
            /\ \A nic \in NICs \ {pkt.src} : lost'[nic] = lost[nic]
  BY <1>0 DEF Drop
<1>5. Counted'
  <2>1. \A nic \in NICs : lost'[nic] \subseteq 1 .. sent'[nic]
    <3>1. \A nic \in NICs : lost[nic] \subseteq 1 .. sent[nic]
      BY DEF DeliveryInv, Counted
    <3> QED
      BY <1>3, <1>4, <3>1
  <2>2. ASSUME NEW e \in {0, 1}, NEW r \in Ports, NEW j \in DOMAIN At(e, r)',
               NEW a, a = At(e, r)'[j]
        PROVE  a.id \in (1 .. sent'[a.src]) \ lost'[a.src]
    <3>1. CASE Stayed(c, p, e, r, j)
      <4>1. PICK j0 \in DOMAIN At(e, r) :
              a = At(e, r)[j0] /\ j0 = (IF e = c /\ r = p THEN j + 1 ELSE j)
        BY <2>2, <3>1 DEF Stayed
      <4>2. a.id \in (1 .. sent[a.src]) \ lost[a.src] /\ a.src \in NICs
        BY <4>1, AtFacts DEF DeliveryInv, Counted
      <4>3. ~(a.src = pkt.src /\ a.id = pkt.id)
        <5> SUFFICES ASSUME a.src = pkt.src, a.id = pkt.id PROVE FALSE
          OBVIOUS
        <5>1. e = c /\ r = p /\ j0 = 1
          BY <1>0, <4>1, OneSlot DEF DeliveryInv
        <5>2. j \in Nat \ {0}
          BY <1>1, <2>2
        <5> QED
          BY <4>1, <5>1, <5>2
      <4> QED
        BY <1>4, <4>2, <4>3
    <3>2. CASE Added(d, q, fwd, e, r, j) /\ At(d, q)' # At(d, q)
      BY <1>3, <1>4, <2>2, <3>2 DEF Added
    <3> QED
      BY <1>1, <3>1, <3>2
  <2> QED
    BY <2>1, <2>2, Zenon DEF Counted
<1>6. Present'
  <2> SUFFICES ASSUME NEW nic \in NICs, NEW id \in (1 .. sent'[nic]) \ lost'[nic]
               PROVE  \E e \in {0, 1}, r \in Ports : \E j \in DOMAIN At(e, r)' :
                        Is(At(e, r)'[j], nic, id)
    BY Zenon DEF Present, Is
  <2>1. id \in (1 .. sent[nic]) \ lost[nic]
    BY <1>4
  <2>2. PICK e \in {0, 1}, r \in Ports : \E j \in DOMAIN At(e, r) : Is(At(e, r)[j], nic, id)
    BY <2>1 DEF DeliveryInv, Present
  <2>3. PICK j \in DOMAIN At(e, r) : Is(At(e, r)[j], nic, id)
    BY <2>2
  <2>4. CASE \E j1 \in DOMAIN At(e, r)' : At(e, r)'[j1] = At(e, r)[j]
    BY <2>3, <2>4
  <2>5. CASE e = c /\ r = p /\ j = 1
    <3>1. pkt.src = nic /\ pkt.id = id
      BY <2>3, <2>5 DEF Is
    <3>2. At(d, q)' # At(d, q)
      BY <1>4, <3>1
    <3>3. PICK j1 \in DOMAIN At(d, q)' : At(d, q)'[j1] = fwd
      BY <1>1, <3>2
    <3>4. Is(At(d, q)'[j1], nic, id)
      BY <3>1, <3>3 DEF Is
    <3> QED
      BY <3>3, <3>4
  <2> QED
    BY <1>1, <2>4, <2>5 DEF TakenFrom
<1> QED
  BY <1>2, <1>5, <1>6 DEF DeliveryInv

\* A packet that fits a queue is as far as the packets of its direction there.
LEMMA EquallyFar ==
    ASSUME IInv, NEW d \in {0, 1}, NEW q \in Ports, NEW fwd \in Packets,
           d = 0 => AtIngress(q, fwd), d = 1 => AtEgress(q, fwd)
    PROVE  \A j \in DOMAIN At(d, q) :
                At(d, q)[j].src = fwd.src => Pos(d, At(d, q)[j]) = Pos(d, fwd)
<1> SUFFICES ASSUME NEW j \in DOMAIN At(d, q), NEW a, a = At(d, q)[j], a.src = fwd.src
             PROVE  Pos(d, a) = Pos(d, fwd)
  OBVIOUS
<1>1. a \in Packets /\ a.src \in NICs
  BY AtFacts
<1>2. Len(a.hops) = Len(fwd.hops)
  <2>1. CASE d = 0
    <3>1. AtIngress(q, a)
      BY <2>1 DEF IInv, Located, At
    <3> QED
      BY <1>1, <2>1, <3>1, PortFromPath, PathFromPort
  <2>2. CASE d = 1
    <3>1. AtEgress(q, a)
      BY <2>2 DEF IInv, Located, At
    <3> QED
      BY <1>1, <2>2, <3>1, PortFromPath, PathFromPort
  <2> QED
    BY <2>1, <2>2
<1> QED
  BY <1>2 DEF Pos

\* Adding to a queue changes it.
LEMMA AppendChanges ==
    ASSUME NEW S, NEW s \in Seq(S), NEW e \in S
    PROVE  Append(s, e) # s
<1>1. PICK t : t = Append(s, e)
  OBVIOUS
<1>2. Len(t) = Len(s) + 1 /\ Len(s) \in Nat
  BY <1>1
<1>3. t # s
  BY <1>2
<1> QED
  BY <1>1, <1>3

LEMMA SwitchDelivers ==
    ASSUME Setups \subseteq SoundSetups, IInv, DeliveryInv, NEW p \in Ports, Switch(p)
    PROVE  DeliveryInv'
<1>0. PICK pkt : pkt = Head(rxq[p])
  OBVIOUS
<1>1. /\ rxq \in [Ports -> Seq(Packets)] /\ txq \in [Ports -> Seq(Packets)]
      /\ rxq[p] \in Seq(Packets) /\ rxq[p] # <<>>
  BY DEF Switch, IInv, TypeOK
<1>2. pkt \in Packets /\ AtIngress(p, pkt) /\ pkt = rxq[p][1]
  BY <1>0, <1>1, TailElements DEF IInv, Located
<1>3. PICK q \in OutPorts(p, pkt) :
        /\ rxq' = [rxq EXCEPT ![p] = Tail(@)]
        /\ \/ txq' = [txq EXCEPT ![q] = Append(@, pkt)] /\ UNCHANGED lost
           \/ Drop(pkt) /\ UNCHANGED txq
        /\ UNCHANGED sent
  BY <1>0 DEF Switch
<1>4. q \in Ports /\ AtEgress(q, pkt)
  BY <1>2, NextHop DEF IInv, TypeOK
<1>5. /\ At(0, p) = rxq[p] /\ At(1, q) = txq[q]
      /\ At(0, p)' = rxq'[p] /\ At(1, q)' = txq'[q]
  BY DEF At
<1>6. Takes(0, p, 1, q, pkt)
  <2>1. At(0, p)' = Tail(At(0, p))
    BY <1>1, <1>3, <1>5
  <2>2. At(1, q)' = Append(At(1, q), pkt) \/ At(1, q)' = At(1, q)
    BY <1>1, <1>3, <1>4, <1>5
  <2>3. ASSUME NEW e \in {0, 1}, NEW r \in Ports, ~(e = 0 /\ r = p), ~(e = 1 /\ r = q)
        PROVE  At(e, r)' = At(e, r)
    <3>1. CASE e = 0
      BY <1>1, <1>3, <2>3, <3>1 DEF At
    <3>2. CASE e = 1
      BY <1>1, <1>3, <1>4, <2>3, <3>2 DEF At
    <3> QED
      BY <3>1, <3>2
  <2> QED
    BY <2>1, <2>2, <2>3 DEF Takes
<1>7. \/ At(1, q)' # At(1, q) /\ UNCHANGED lost
      \/ At(1, q)' = At(1, q) /\ Drop(pkt)
  <2>1. CASE txq' = [txq EXCEPT ![q] = Append(@, pkt)] /\ UNCHANGED lost
    <3>1. txq[q] \in Seq(Packets) /\ txq'[q] = Append(txq[q], pkt)
      BY <1>1, <1>4, <2>1
    <3>2. txq'[q] # txq[q]
      BY <3>1, <1>2, AppendChanges
    <3> QED
      BY <1>5, <2>1, <3>2
  <2>2. CASE Drop(pkt) /\ UNCHANGED txq
    BY <1>5, <2>2
  <2> QED
    BY <1>3, <2>1, <2>2
<1>8. Pos(1, pkt) = Pos(0, pkt) + 1
  <2>1. pkt.hops \in Seq(VMs)
    BY <1>2 DEF Packets
  <2>2. Len(pkt.hops) \in Nat
    BY <2>1
  <2> QED
    BY <2>2 DEF Pos
<1>9. \A j \in DOMAIN At(1, q) : At(1, q)[j].src = pkt.src => Pos(1, At(1, q)[j]) = Pos(1, pkt)
  BY <1>2, <1>4, EquallyFar
<1>10. At(0, p) # <<>> /\ pkt = At(0, p)[1] /\ UNCHANGED sent
  BY <1>1, <1>2, <1>3, <1>5
<1> QED
  BY <1>2, <1>4, <1>6, <1>7, <1>8, <1>9, <1>10, TakeKeeps

LEMMA GuestDelivers ==
    ASSUME Setups \subseteq SoundSetups, IInv, DeliveryInv,
           NEW k \in VMs, NEW i \in {0, 1}, Guest(k, i)
    PROVE  DeliveryInv'
<1> USE NAssumption
<1>0. PICK in, out : in = 2 * k + i /\ out = 2 * k + Partner(i)
  OBVIOUS
<1>1. in \in Ports /\ out \in Ports
  BY <1>0 DEF Partner, Ports, VMs
<1>a. PICK pkt : pkt = Head(txq[in])
  OBVIOUS
<1>b. PICK fwd : fwd = [pkt EXCEPT !.dst = GuestDst(k, Partner(i)), !.hops = Append(@, k)]
  OBVIOUS
<1>2. /\ pkt = Head(txq[in])
      /\ fwd = [pkt EXCEPT !.dst = GuestDst(k, Partner(i)), !.hops = Append(@, k)]
  BY <1>a, <1>b
<1>3. /\ rxq \in [Ports -> Seq(Packets)] /\ txq \in [Ports -> Seq(Packets)]
      /\ txq[in] \in Seq(Packets) /\ txq[in] # <<>>
  BY <1>0, <1>1 DEF Guest, IInv, TypeOK
<1>4. pkt \in Packets /\ AtEgress(in, pkt) /\ pkt = txq[in][1]
  BY <1>1, <1>2, <1>3, TailElements DEF IInv, Located
<1>5. fwd \in Packets /\ AtIngress(out, fwd)
  <2>1. setup \in Setups
    BY DEF IInv, TypeOK
  <2>2. AtEgress(2 * k + i, pkt)
    BY <1>0, <1>4
  <2>3. fwd \in Packets /\ AtIngress(2 * k + Partner(i), fwd)
    BY <1>b, <1>4, <2>1, <2>2, Visit, Zenon
  <2> QED
    BY <1>0, <2>3
<1>6. /\ txq' = [txq EXCEPT ![in] = Tail(@)]
      /\ \/ rxq' = [rxq EXCEPT ![out] = Append(@, fwd)] /\ UNCHANGED lost
         \/ Drop(pkt) /\ UNCHANGED rxq
      /\ UNCHANGED sent
  BY <1>0, <1>2 DEF Guest
<1>7. /\ At(1, in) = txq[in] /\ At(0, out) = rxq[out]
      /\ At(1, in)' = txq'[in] /\ At(0, out)' = rxq'[out]
  BY DEF At
<1>8. Takes(1, in, 0, out, fwd)
  <2>1. At(1, in)' = Tail(At(1, in))
    BY <1>1, <1>3, <1>6, <1>7
  <2>2. At(0, out)' = Append(At(0, out), fwd) \/ At(0, out)' = At(0, out)
    BY <1>1, <1>3, <1>6, <1>7
  <2>3. ASSUME NEW e \in {0, 1}, NEW r \in Ports, ~(e = 1 /\ r = in), ~(e = 0 /\ r = out)
        PROVE  At(e, r)' = At(e, r)
    <3>1. CASE e = 0
      BY <1>1, <1>3, <1>6, <2>3, <3>1 DEF At
    <3>2. CASE e = 1
      BY <1>1, <1>3, <1>6, <2>3, <3>2 DEF At
    <3> QED
      BY <3>1, <3>2
  <2> QED
    BY <2>1, <2>2, <2>3 DEF Takes
<1>9. \/ At(0, out)' # At(0, out) /\ UNCHANGED lost
      \/ At(0, out)' = At(0, out) /\ Drop(pkt)
  <2>1. CASE rxq' = [rxq EXCEPT ![out] = Append(@, fwd)] /\ UNCHANGED lost
    <3>1. rxq[out] \in Seq(Packets) /\ rxq'[out] = Append(rxq[out], fwd)
      BY <1>1, <1>3, <2>1
    <3>2. rxq'[out] # rxq[out]
      BY <3>1, <1>5, AppendChanges
    <3> QED
      BY <1>7, <2>1, <3>2
  <2>2. CASE Drop(pkt) /\ UNCHANGED rxq
    BY <1>7, <2>2
  <2> QED
    BY <1>6, <2>1, <2>2
<1>10. fwd.id = pkt.id /\ fwd.src = pkt.src /\ fwd.hops = Append(pkt.hops, k)
  BY <1>2, <1>4 DEF Packets
<1>11. Pos(0, fwd) = Pos(1, pkt) + 1
  <2>1. pkt.hops \in Seq(VMs)
    BY <1>4 DEF Packets
  <2>2. Len(pkt.hops) \in Nat /\ Len(fwd.hops) = Len(pkt.hops) + 1
    BY <1>10, <2>1
  <2> QED
    BY <2>2 DEF Pos
<1>12. \A j \in DOMAIN At(0, out) :
            At(0, out)[j].src = fwd.src => Pos(0, At(0, out)[j]) = Pos(0, fwd)
  BY <1>1, <1>5, EquallyFar
<1>13. At(1, in) # <<>> /\ pkt = At(1, in)[1] /\ UNCHANGED sent
  BY <1>3, <1>4, <1>6, <1>7
<1> QED
  BY <1>1, <1>5, <1>8, <1>9, <1>10, <1>11, <1>12, <1>13, TakeKeeps

\* Queues that do not change keep their order.
LEMMA IdleOrder ==
    ASSUME Ordered, UNCHANGED <<rxq, txq>>
    PROVE  Ordered'
<1>1. \A e, r : At(e, r)' = At(e, r)
  BY DEF At
<1> SUFFICES ASSUME NEW c1 \in {0, 1}, NEW c2 \in {0, 1}, NEW p1 \in Ports, NEW p2 \in Ports,
                    NEW j1 \in DOMAIN At(c1, p1)', NEW j2 \in DOMAIN At(c2, p2)',
                    At(c1, p1)'[j1].src = At(c2, p2)'[j2].src
             PROVE  /\ Pos(c1, At(c1, p1)'[j1]) > Pos(c2, At(c2, p2)'[j2])
                         => At(c1, p1)'[j1].id < At(c2, p2)'[j2].id
                    /\ c1 = c2 /\ p1 = p2 /\ j1 < j2
                         => At(c1, p1)'[j1].id < At(c2, p2)'[j2].id
  BY Zenon DEF Ordered, Pos
<1> QED
  BY <1>1 DEF Ordered

\* MoonGen sends the next packet: the youngest of its direction, behind all.
LEMMA SendDelivers ==
    ASSUME IInv, DeliveryInv, NEW nic \in NICs, Send(nic)
    PROVE  DeliveryInv'
<1> USE NAssumption
<1>0. PICK pkt : pkt = [id |-> sent[nic] + 1, src |-> nic, dst |-> MoonGenDst(nic), hops |-> <<>>]
  OBVIOUS
<1>1. PICK n : n = sent[nic]
  OBVIOUS
<1>2. /\ pkt.id = n + 1 /\ pkt.src = nic /\ Pos(0, pkt) = 0 /\ n \in Nat
      /\ pkt \in Packets /\ nic \in Ports
  <2>1. n \in Nat /\ nic \in Ports
    BY <1>1 DEF IInv, TypeOK, NICs, Ports
  <2>2. pkt \in Packets
    BY <1>0, <1>1, <2>1 DEF Packets, MoonGenDst, Macs
  <2> QED
    BY <1>0, <1>1, <2>1, <2>2 DEF Pos
<1>3. /\ sent'[nic] = n + 1 /\ \A m \in NICs \ {nic} : sent'[m] = sent[m]
      /\ txq' = txq
  BY <1>1 DEF Send, IInv, TypeOK
<1>4. /\ \A m \in NICs : lost[m] \subseteq 1 .. sent[m] /\ sent[m] \in Nat
      /\ \A e \in {0, 1}, r \in Ports : \A j \in DOMAIN At(e, r) :
            LET a == At(e, r)[j] IN a.id \in (1 .. sent[a.src]) \ lost[a.src]
  BY DEF DeliveryInv, Counted, IInv, TypeOK
<1>5. CASE Drop(pkt) /\ UNCHANGED rxq
  <2>1. \A e, r : At(e, r)' = At(e, r)
    BY <1>3, <1>5 DEF At
  <2>2. /\ lost'[nic] = lost[nic] \cup {n + 1}
        /\ \A m \in NICs \ {nic} : lost'[m] = lost[m]
    BY <1>2, <1>5 DEF Drop, IInv, TypeOK
  <2>3. Ordered'
    BY <1>3, <1>5, IdleOrder DEF DeliveryInv
  <2>4. \A m \in NICs : /\ lost'[m] \subseteq 1 .. sent'[m]
                        /\ (1 .. sent[m]) \ lost[m] = (1 .. sent'[m]) \ lost'[m]
    <3> SUFFICES ASSUME NEW m \in NICs
                 PROVE  /\ lost'[m] \subseteq 1 .. sent'[m]
                        /\ (1 .. sent[m]) \ lost[m] = (1 .. sent'[m]) \ lost'[m]
      OBVIOUS
    <3>1. CASE m = nic
      <4>1. sent[m] = n /\ sent'[m] = n + 1 /\ lost'[m] = lost[m] \cup {n + 1} /\ lost[m] \subseteq 1 .. n
        BY <1>1, <1>3, <1>4, <2>2, <3>1
      <4> QED
        BY <1>2, <4>1
    <3>2. CASE m # nic
      BY <1>3, <1>4, <2>2, <3>2
    <3> QED
      BY <3>1, <3>2
  <2>5. Counted'
    <3>1. ASSUME NEW e \in {0, 1}, NEW r \in Ports, NEW j \in DOMAIN At(e, r)',
                 NEW a, a = At(e, r)'[j]
          PROVE  a.id \in (1 .. sent'[a.src]) \ lost'[a.src]
      <4>1. j \in DOMAIN At(e, r) /\ a = At(e, r)[j]
        BY <2>1, <3>1
      <4>2. a.src \in NICs /\ a.id \in (1 .. sent[a.src]) \ lost[a.src]
        BY <1>4, <4>1, AtFacts
      <4> QED
        BY <2>4, <4>2
    <3> QED
      BY <2>4, <3>1, Zenon DEF Counted
  <2>6. Present'
    <3> SUFFICES ASSUME NEW m \in NICs, NEW id \in (1 .. sent'[m]) \ lost'[m]
                 PROVE  \E e \in {0, 1}, r \in Ports : \E j \in DOMAIN At(e, r)' :
                          Is(At(e, r)'[j], m, id)
      BY Zenon DEF Present, Is
    <3>1. id \in (1 .. sent[m]) \ lost[m]
      BY <2>4
    <3> QED
      BY <2>1, <3>1, Zenon DEF DeliveryInv, Present
  <2> QED
    BY <2>3, <2>5, <2>6 DEF DeliveryInv
<1>6. CASE rxq' = [rxq EXCEPT ![nic] = Append(@, pkt)] /\ UNCHANGED lost
  <2>1. PICK s : s = rxq[nic]
    OBVIOUS
  <2>2. s \in Seq(Packets) /\ Len(s) \in Nat /\ rxq'[nic] = Append(s, pkt)
    BY <1>2, <1>6, <2>1 DEF IInv, TypeOK
  <2>3. PICK t : t = Append(s, pkt)
    OBVIOUS
  <2>4. /\ t \in Seq(Packets) /\ Len(t) = Len(s) + 1
        /\ \A j \in 1 .. Len(t) : t[j] = IF j <= Len(s) THEN s[j] ELSE pkt
    BY <1>2, <2>2, <2>3
  <2>5. /\ At(0, nic) = s /\ At(0, nic)' = t
        /\ \A e \in {0, 1}, r \in Ports : ~(e = 0 /\ r = nic) => At(e, r)' = At(e, r)
    <3>1. At(0, nic) = s /\ At(0, nic)' = t
      BY <2>1, <2>2, <2>3 DEF At
    <3>2. ASSUME NEW e \in {0, 1}, NEW r \in Ports, ~(e = 0 /\ r = nic)
          PROVE  At(e, r)' = At(e, r)
      <4>1. CASE e = 1
        BY <1>3, <4>1 DEF At
      <4>2. CASE e = 0
        BY <1>2, <1>6, <3>2, <4>2 DEF At, IInv, TypeOK
      <4> QED
        BY <4>1, <4>2
    <3> QED
      BY <3>1, <3>2
  <2>6. ASSUME NEW e \in {0, 1}, NEW r \in Ports
        PROVE  /\ \A j \in DOMAIN At(e, r)' :
                    \/ j \in DOMAIN At(e, r) /\ At(e, r)'[j] = At(e, r)[j]
                    \/ e = 0 /\ r = nic /\ j = Len(s) + 1 /\ At(e, r)'[j] = pkt
               /\ \A j \in DOMAIN At(e, r) : j \in DOMAIN At(e, r)' /\ At(e, r)'[j] = At(e, r)[j]
    <3>1. CASE e = 0 /\ r = nic
      <4>1. /\ \A j \in DOMAIN t : \/ j \in DOMAIN s /\ t[j] = s[j]
                                   \/ j = Len(s) + 1 /\ t[j] = pkt
            /\ \A j \in DOMAIN s : j \in DOMAIN t /\ t[j] = s[j]
        BY <2>2, <2>4
      <4> QED
        BY <2>5, <3>1, <4>1
    <3>2. CASE ~(e = 0 /\ r = nic)
      BY <2>5, <3>2
    <3> QED
      BY <3>1, <3>2
  <2>7. ASSUME NEW e \in {0, 1}, NEW r \in Ports, NEW j \in DOMAIN At(e, r)
        PROVE  At(e, r)[j].src = nic => At(e, r)[j].id < pkt.id
    <3>1. PICK a : a = At(e, r)[j]
      OBVIOUS
    <3>2. a.id \in 1 .. sent[a.src]
      BY <1>4, <3>1
    <3> QED
      BY <1>1, <1>2, <3>1, <3>2
  <2>8. Ordered'
    <3> SUFFICES ASSUME NEW c1 \in {0, 1}, NEW c2 \in {0, 1}, NEW p1 \in Ports, NEW p2 \in Ports,
                        NEW j1 \in DOMAIN At(c1, p1)', NEW j2 \in DOMAIN At(c2, p2)',
                        NEW a, a = At(c1, p1)'[j1], NEW b, b = At(c2, p2)'[j2], a.src = b.src
                 PROVE  /\ Pos(c1, a) > Pos(c2, b) => a.id < b.id
                        /\ c1 = c2 /\ p1 = p2 /\ j1 < j2 => a.id < b.id
      <4> SUFFICES \A c1, c2 \in {0, 1}, p1, p2 \in Ports :
                     \A j1 \in DOMAIN At(c1, p1)', j2 \in DOMAIN At(c2, p2)' :
                        At(c1, p1)'[j1].src = At(c2, p2)'[j2].src =>
                          /\ Pos(c1, At(c1, p1)'[j1]) > Pos(c2, At(c2, p2)'[j2])
                               => At(c1, p1)'[j1].id < At(c2, p2)'[j2].id
                          /\ c1 = c2 /\ p1 = p2 /\ j1 < j2
                               => At(c1, p1)'[j1].id < At(c2, p2)'[j2].id
        BY Zenon DEF Ordered, Pos
      <4> QED
        OBVIOUS
    <3>1. CASE /\ j1 \in DOMAIN At(c1, p1) /\ a = At(c1, p1)[j1]
               /\ j2 \in DOMAIN At(c2, p2) /\ b = At(c2, p2)[j2]
      BY <3>1 DEF DeliveryInv, Ordered
    <3>2. CASE /\ j1 \in DOMAIN At(c1, p1) /\ a = At(c1, p1)[j1]
               /\ c2 = 0 /\ p2 = nic /\ j2 = Len(s) + 1 /\ b = pkt
      BY <1>2, <2>7, <3>2
    <3>3. CASE c1 = 0 /\ p1 = nic /\ j1 = Len(s) + 1 /\ a = pkt
      <4>1. Pos(c2, b) \in Nat
        <5>1. CASE j2 \in DOMAIN At(c2, p2) /\ b = At(c2, p2)[j2]
          BY <5>1, AtFacts
        <5>2. CASE c2 = 0 /\ p2 = nic /\ j2 = Len(s) + 1 /\ b = pkt
          BY <1>2, <5>2
        <5> QED
          BY <2>6, <5>1, <5>2
      <4>2. ~(Pos(c1, a) > Pos(c2, b))
        BY <1>2, <3>3, <4>1
      <4>3. ~(c1 = c2 /\ p1 = p2 /\ j1 < j2)
        <5> SUFFICES ASSUME c1 = c2, p1 = p2, j1 < j2 PROVE FALSE
          OBVIOUS
        <5>1. j2 \in DOMAIN t
          BY <2>5, <3>3
        <5>2. j2 \in 1 .. Len(s) + 1
          BY <2>4, <5>1
        <5> QED
          BY <2>2, <3>3, <5>2
      <4> QED
        BY <4>2, <4>3
    <3> QED
      BY <2>6, <3>1, <3>2, <3>3
  <2>9. Counted'
    <3>1. \A m \in NICs : lost'[m] \subseteq 1 .. sent'[m] /\ 1 .. sent[m] \subseteq 1 .. sent'[m]
      <4> SUFFICES ASSUME NEW m \in NICs
                   PROVE  lost'[m] \subseteq 1 .. sent'[m] /\ 1 .. sent[m] \subseteq 1 .. sent'[m]
        OBVIOUS
      <4>1. CASE m = nic
        BY <1>1, <1>2, <1>3, <1>4, <1>6, <4>1
      <4>2. CASE m # nic
        BY <1>3, <1>4, <1>6, <4>2
      <4> QED
        BY <4>1, <4>2
    <3>2. ASSUME NEW e \in {0, 1}, NEW r \in Ports, NEW j \in DOMAIN At(e, r)',
                 NEW a, a = At(e, r)'[j]
          PROVE  a.id \in (1 .. sent'[a.src]) \ lost'[a.src]
      <4>1. CASE j \in DOMAIN At(e, r) /\ a = At(e, r)[j]
        <5>1. a.src \in NICs /\ a.id \in (1 .. sent[a.src]) \ lost[a.src]
          BY <1>4, <4>1, AtFacts
        <5> QED
          BY <1>6, <3>1, <5>1
      <4>2. CASE a = pkt
        BY <1>1, <1>2, <1>3, <1>4, <1>6, <4>2
      <4> QED
        BY <2>6, <3>2, <4>1, <4>2
    <3> QED
      BY <3>1, <3>2, Zenon DEF Counted
  <2>10. Present'
    <3> SUFFICES ASSUME NEW m \in NICs, NEW id \in (1 .. sent'[m]) \ lost'[m]
                 PROVE  \E e \in {0, 1}, r \in Ports : \E j \in DOMAIN At(e, r)' :
                          Is(At(e, r)'[j], m, id)
      BY Zenon DEF Present, Is
    <3>1. CASE id \in 1 .. sent[m]
      <4>1. id \in (1 .. sent[m]) \ lost[m]
        BY <1>6, <3>1
      <4>2. PICK e \in {0, 1}, r \in Ports : \E j \in DOMAIN At(e, r) : Is(At(e, r)[j], m, id)
        BY <4>1 DEF DeliveryInv, Present
      <4>3. PICK j \in DOMAIN At(e, r) : Is(At(e, r)[j], m, id)
        BY <4>2
      <4>4. j \in DOMAIN At(e, r)' /\ At(e, r)'[j] = At(e, r)[j]
        BY <2>6
      <4> QED
        BY <4>3, <4>4
    <3>2. CASE m = nic /\ id = n + 1
      <4>1. Len(s) + 1 \in DOMAIN t /\ t[Len(s) + 1] = pkt
        BY <2>2, <2>4
      <4>2. Is(pkt, m, id)
        BY <1>2, <3>2 DEF Is
      <4>3. Len(s) + 1 \in DOMAIN At(0, nic)' /\ Is(At(0, nic)'[Len(s) + 1], m, id)
        BY <2>5, <4>1, <4>2
      <4> QED
        BY <1>2, <4>3
    <3>3. id \in 1 .. sent[m] \/ (m = nic /\ id = n + 1)
      <4>1. CASE m = nic
        BY <1>1, <1>2, <1>3, <4>1
      <4>2. CASE m # nic
        BY <1>3, <4>2
      <4> QED
        BY <4>1, <4>2
    <3> QED
      BY <3>1, <3>2, <3>3
  <2> QED
    BY <2>8, <2>9, <2>10 DEF DeliveryInv
<1> QED
  BY <1>0, <1>5, <1>6 DEF Send

\* Nothing moves when a VM starts.
LEMMA IdleDelivers ==
    ASSUME DeliveryInv, UNCHANGED <<rxq, txq, sent, lost>>
    PROVE  DeliveryInv'
<1>1. \A e, r : At(e, r)' = At(e, r)
  BY DEF At
<1>2. Ordered'
  BY IdleOrder DEF DeliveryInv
<1>3. sent' = sent /\ lost' = lost
  OBVIOUS
<1>4. Counted'
  BY <1>1, <1>3, Zenon DEF DeliveryInv, Counted
<1>5. Present'
  BY DEF DeliveryInv, Present, Is, At
<1> QED
  BY <1>2, <1>4, <1>5 DEF DeliveryInv

LEMMA StepDelivers ==
    ASSUME Setups \subseteq SoundSetups, IInv, DeliveryInv, [Next]_vars
    PROVE  DeliveryInv'
<1>1. CASE UNCHANGED vars
  BY <1>1, IdleDelivers DEF vars
<1>2. ASSUME NEW k \in VMs, StartVM(k) PROVE DeliveryInv'
  BY <1>2, IdleDelivers DEF StartVM
<1> QED
  BY <1>1, <1>2, SendDelivers, SwitchDelivers, GuestDelivers DEF Next

\* What comes back is in order: all of it is of one direction.
LEMMA BackInOrder ==
    ASSUME IInv, Ordered
    PROVE  OrderKept
<1> SUFFICES ASSUME NEW nic \in NICs, NEW a \in DOMAIN txq[nic], NEW b \in DOMAIN txq[nic], a < b
             PROVE  txq[nic][a].id < txq[nic][b].id
  BY DEF OrderKept
<1>1. nic \in Ports /\ \A k \in VMs : nic # 2 * k /\ nic # 2 * k + 1
  BY NAssumption DEF NICs, Ports, VMs
<1>2. \A j \in DOMAIN txq[nic] : AtEgress(nic, txq[nic][j])
  BY <1>1 DEF IInv, Located
<1>3. \A j \in DOMAIN txq[nic] : txq[nic][j].src = 1 - nic
  BY <1>1, <1>2 DEF AtEgress
<1>4. At(1, nic) = txq[nic]
  BY DEF At
<1>5. a \in DOMAIN At(1, nic) /\ b \in DOMAIN At(1, nic) /\ At(1, nic)[a].src = At(1, nic)[b].src
  BY <1>3, <1>4
<1>6. At(1, nic)[a].id < At(1, nic)[b].id
  BY <1>1, <1>5 DEF Ordered
<1> QED
  BY <1>4, <1>6

\* Every packet sent is in one place.
LEMMA OnePlace ==
    ASSUME IInv, DeliveryInv
    PROVE  Accounted
<1> SUFFICES ASSUME NEW nic \in NICs, NEW id \in 1 .. sent[nic]
             PROVE  Cardinality(Slots(rxq, nic, id)) + Cardinality(Slots(txq, nic, id))
                      + (IF id \in lost[nic] THEN 1 ELSE 0) = 1
  BY DEF Accounted
<1>1. /\ \A x \in Slots(rxq, nic, id) : \E p \in Ports : \E j \in DOMAIN rxq[p] :
            x = <<p, j>> /\ Is(rxq[p][j], nic, id)
      /\ \A x \in Slots(txq, nic, id) : \E p \in Ports : \E j \in DOMAIN txq[p] :
            x = <<p, j>> /\ Is(txq[p][j], nic, id)
      /\ \A p \in Ports : \A j \in DOMAIN rxq[p] :
            Is(rxq[p][j], nic, id) => <<p, j>> \in Slots(rxq, nic, id)
      /\ \A p \in Ports : \A j \in DOMAIN txq[p] :
            Is(txq[p][j], nic, id) => <<p, j>> \in Slots(txq, nic, id)
  BY DEF Slots
<1>2. \A p : At(0, p) = rxq[p] /\ At(1, p) = txq[p]
  BY DEF At
<1>3. ASSUME NEW c1 \in {0, 1}, NEW c2 \in {0, 1}, NEW p1 \in Ports, NEW p2 \in Ports,
             NEW j1 \in DOMAIN At(c1, p1), NEW j2 \in DOMAIN At(c2, p2),
             Is(At(c1, p1)[j1], nic, id), Is(At(c2, p2)[j2], nic, id)
      PROVE  c1 = c2 /\ p1 = p2 /\ j1 = j2
  BY <1>3, OneSlot DEF Is, DeliveryInv
<1>4. CASE id \in lost[nic]
  <2>1. ASSUME NEW c \in {0, 1}, NEW p \in Ports, NEW j \in DOMAIN At(c, p)
        PROVE  ~Is(At(c, p)[j], nic, id)
    BY <1>4 DEF DeliveryInv, Counted, Is
  <2>2. Slots(rxq, nic, id) = {} /\ Slots(txq, nic, id) = {}
    BY <1>1, <1>2, <2>1
  <2> QED
    BY <1>4, <2>2, FS_EmptySet
<1>5. CASE id \notin lost[nic]
  <2>1. PICK c \in {0, 1}, p \in Ports : \E j \in DOMAIN At(c, p) : Is(At(c, p)[j], nic, id)
    BY <1>5 DEF DeliveryInv, Present
  <2>2. PICK j \in DOMAIN At(c, p) : Is(At(c, p)[j], nic, id)
    BY <2>1
  <2>3. CASE c = 0
    <3>1. Slots(rxq, nic, id) = {<<p, j>>}
      <4>1. <<p, j>> \in Slots(rxq, nic, id)
        BY <1>1, <1>2, <2>2, <2>3
      <4>2. ASSUME NEW x \in Slots(rxq, nic, id) PROVE x = <<p, j>>
        <5>1. PICK p2 \in Ports : \E j2 \in DOMAIN rxq[p2] : x = <<p2, j2>> /\ Is(rxq[p2][j2], nic, id)
          BY <1>1
        <5>2. PICK j2 \in DOMAIN rxq[p2] : x = <<p2, j2>> /\ Is(rxq[p2][j2], nic, id)
          BY <5>1
        <5>3. p2 = p /\ j2 = j
          BY <1>2, <1>3, <2>2, <2>3, <5>2
        <5> QED
          BY <5>2, <5>3
      <4> QED
        BY <4>1, <4>2
    <3>2. Slots(txq, nic, id) = {}
      BY <1>1, <1>2, <1>3, <2>2, <2>3
    <3>3. Cardinality(Slots(rxq, nic, id)) = 1
      BY <3>1, FS_Singleton
    <3>4. Cardinality(Slots(txq, nic, id)) = 0
      BY <3>2, FS_EmptySet
    <3> QED
      BY <1>5, <3>3, <3>4
  <2>4. CASE c = 1
    <3>1. Slots(txq, nic, id) = {<<p, j>>}
      <4>1. <<p, j>> \in Slots(txq, nic, id)
        BY <1>1, <1>2, <2>2, <2>4
      <4>2. ASSUME NEW x \in Slots(txq, nic, id) PROVE x = <<p, j>>
        <5>1. PICK p2 \in Ports : \E j2 \in DOMAIN txq[p2] : x = <<p2, j2>> /\ Is(txq[p2][j2], nic, id)
          BY <1>1
        <5>2. PICK j2 \in DOMAIN txq[p2] : x = <<p2, j2>> /\ Is(txq[p2][j2], nic, id)
          BY <5>1
        <5>3. p2 = p /\ j2 = j
          BY <1>2, <1>3, <2>2, <2>4, <5>2
        <5> QED
          BY <5>2, <5>3
      <4> QED
        BY <4>1, <4>2
    <3>2. Slots(rxq, nic, id) = {}
      BY <1>1, <1>2, <1>3, <2>2, <2>4
    <3>3. Cardinality(Slots(txq, nic, id)) = 1
      BY <3>1, FS_Singleton
    <3>4. Cardinality(Slots(rxq, nic, id)) = 0
      BY <3>2, FS_EmptySet
    <3> QED
      BY <1>5, <3>3, <3>4
  <2> QED
    BY <2>3, <2>4
<1> QED
  BY <1>4, <1>5

\* What is known of order and accounting holds in every state.
LEMMA DeliveryInvariance ==
    ASSUME Setups \subseteq SoundSetups
    PROVE  Spec => []DeliveryInv
<1>1. Init => DeliveryInv
  <2> SUFFICES ASSUME Init PROVE DeliveryInv
    OBVIOUS
  <2>1. \A c \in {0, 1}, p \in Ports : At(c, p) = <<>>
    BY DEF Init, At
  <2>2. \A nic \in NICs : sent[nic] = 0 /\ lost[nic] = {}
    BY DEF Init
  <2> QED
    BY <2>1, <2>2 DEF DeliveryInv, Ordered, Counted, Present
<1>2. IInv /\ DeliveryInv /\ [Next]_vars => DeliveryInv'
  BY StepDelivers
<1> QED
  BY <1>1, <1>2, Invariance, PTL DEF Spec

\* For a chain of any length, rings of any size and VMs started at any time:
\* MoonGen gets the packets of a direction back in the order it sent them,
\* and every packet is in one queue or counted as lost, never both.
THEOREM DeliveryCorrect ==
    ASSUME Setups \subseteq SoundSetups
    PROVE  Spec => []Delivery
<1>1. IInv /\ DeliveryInv => Delivery
  BY BackInOrder, OnePlace DEF DeliveryInv, Delivery
<1> QED
  BY <1>1, Invariance, DeliveryInvariance, PTL

-----------------------------------------------------------------------------
(* Each direction of the chain is one lossy path.                          *)

\* The packets of a direction that are back.
Returned(nic) == {txq[1 - nic][j].id : j \in DOMAIN txq[1 - nic]}

\* What a direction has under way is what was sent and is neither lost nor
\* back: the accounts determine it, so that the path's steps can be read off
\* sent, lost and the queue of the other NIC.
InTransitInv ==
    \A nic \in NICs : InTransit(nic) = ((1 .. sent[nic]) \ lost[nic]) \ Returned(nic)

\* A packet is under way if it is in a queue other than a NIC's to MoonGen.
LEMMA UnderWay ==
    ASSUME NEW nic \in NICs, NEW id
    PROVE  id \in InTransit(nic) <=>
            \E c \in {0, 1}, p \in Ports :
                /\ ~(c = 1 /\ p \in NICs)
                /\ \E j \in DOMAIN At(c, p) : Is(At(c, p)[j], nic, id)
<1>1. \A q : id \in Queued(q, nic) <=> \E j \in DOMAIN q : Is(q[j], nic, id)
  BY DEF Queued, Is
<1>2. \A p : At(0, p) = rxq[p] /\ At(1, p) = txq[p]
  BY DEF At
<1>3. id \in InTransit(nic) <=>
        \/ \E p \in Ports : id \in Queued(rxq[p], nic)
        \/ \E p \in Ports \ NICs : id \in Queued(txq[p], nic)
  <2>. DEFINE R == UNION {Queued(rxq[p], nic) : p \in Ports}
              T == UNION {Queued(txq[p], nic) : p \in Ports \ NICs}
  <2>1. /\ id \in R <=> \E p \in Ports : id \in Queued(rxq[p], nic)
        /\ id \in T <=> \E p \in Ports \ NICs : id \in Queued(txq[p], nic)
    OBVIOUS
  <2>2. InTransit(nic) = R \cup T
    BY DEF InTransit
  <2> HIDE DEF R, T
  <2> QED
    BY <2>1, <2>2
<1> QED
  BY <1>1, <1>2, <1>3

\* A NIC sends to MoonGen what came in by the other one.
LEMMA BackFacts ==
    ASSUME IInv, NEW nic \in NICs
    PROVE  /\ 1 - nic \in NICs /\ 1 - nic \in Ports /\ At(1, 1 - nic) = txq[1 - nic]
           /\ \A q \in NICs : \A j \in DOMAIN txq[q] : txq[q][j].src = 1 - q
<1>1. 1 - nic \in NICs /\ 1 - nic \in Ports
  BY NAssumption DEF NICs, Ports
<1>2. ASSUME NEW q \in NICs, NEW j \in DOMAIN txq[q] PROVE txq[q][j].src = 1 - q
  <2>1. q \in Ports /\ \A k \in VMs : q # 2 * k /\ q # 2 * k + 1
    BY NAssumption DEF NICs, Ports, VMs
  <2>2. AtEgress(q, txq[q][j])
    BY <2>1 DEF IInv, Located
  <2> QED
    BY <2>1, <2>2 DEF AtEgress
<1> QED
  BY <1>1, <1>2 DEF At

\* Ordered, Counted and Present make the accounts exact.
LEMMA TransitAccounts == IInv /\ DeliveryInv => InTransitInv
<1> SUFFICES ASSUME IInv, DeliveryInv, NEW nic \in NICs
             PROVE  InTransit(nic) = ((1 .. sent[nic]) \ lost[nic]) \ Returned(nic)
  BY DEF InTransitInv
<1>1. ASSUME NEW id \in InTransit(nic)
      PROVE  /\ id \in (1 .. sent[nic]) \ lost[nic]
             /\ \A j \in DOMAIN txq[1 - nic] : txq[1 - nic][j].id # id
  <2>1. PICK c \in {0, 1}, p \in Ports :
            /\ ~(c = 1 /\ p \in NICs)
            /\ \E j \in DOMAIN At(c, p) : Is(At(c, p)[j], nic, id)
    BY UnderWay
  <2>2. PICK j \in DOMAIN At(c, p) : Is(At(c, p)[j], nic, id)
    BY <2>1
  <2>3. id \in (1 .. sent[nic]) \ lost[nic]
    BY <2>2 DEF Is, DeliveryInv, Counted
  <2>4. ASSUME NEW b \in DOMAIN txq[1 - nic], txq[1 - nic][b].id = id PROVE FALSE
    <3>1. b \in DOMAIN At(1, 1 - nic) /\ At(1, 1 - nic)[b].id = id /\ At(1, 1 - nic)[b].src = nic
      BY <2>4, BackFacts DEF NICs
    <3>2. c = 1 /\ p = 1 - nic
      BY <2>2, <3>1, BackFacts, OneSlot DEF Is, DeliveryInv
    <3> QED
      BY <2>1, <3>2, BackFacts
  <2> QED
    BY <2>3, <2>4
<1>2. ASSUME NEW id \in (1 .. sent[nic]) \ lost[nic],
             \A j \in DOMAIN txq[1 - nic] : txq[1 - nic][j].id # id
      PROVE  id \in InTransit(nic)
  <2>1. PICK c \in {0, 1}, p \in Ports : \E j \in DOMAIN At(c, p) : Is(At(c, p)[j], nic, id)
    BY DEF DeliveryInv, Present
  <2>2. PICK j \in DOMAIN At(c, p) : Is(At(c, p)[j], nic, id)
    BY <2>1
  <2>3. ~(c = 1 /\ p \in NICs)
    <3> SUFFICES ASSUME c = 1, p \in NICs PROVE FALSE
      OBVIOUS
    <3>1. At(c, p) = txq[p] /\ j \in DOMAIN txq[p] /\ txq[p][j].src = nic /\ txq[p][j].id = id
      BY <2>2 DEF At, Is
    <3>2. p = 1 - nic
      BY <3>1, BackFacts DEF NICs
    <3> QED
      BY <1>2, <3>1, <3>2
  <2> QED
    BY <2>2, <2>3, UnderWay
<1> QED
  BY <1>1, <1>2 DEF Returned

\* The packet at the head of the last queue before a NIC is the oldest of its
\* direction that is under way.
LEMMA LastIsOldest ==
    ASSUME IInv, DeliveryInv, NEW p \in Ports, NEW nic \in NICs, rxq[p] # <<>>,
           rxq[p][1].src = nic, rxq[p][1].hops = Chain(nic, N), NEW id \in InTransit(nic)
    PROVE  rxq[p][1].id <= id
<1> USE NAssumption
<1>1. /\ At(0, p) = rxq[p] /\ 1 \in DOMAIN At(0, p)
  <2>1. At(0, p) = rxq[p]
    BY DEF At
  <2>2. rxq[p] \in Seq(Packets)
    BY DEF IInv, TypeOK
  <2> QED
    BY <2>1, <2>2
<1>2. PICK a : a = At(0, p)[1]
  OBVIOUS
<1>3. a.src = nic /\ a.id \in Nat /\ a = rxq[p][1] /\ Pos(0, a) = 2 * N
  <2>1. Len(a.hops) = N
    BY <1>1, <1>2, ChainLen DEF Chain
  <2>2. Pos(0, a) = 2 * N
    BY <2>1 DEF Pos
  <2>3. a.id \in Nat
    BY <1>1, <1>2, AtFacts
  <2> QED
    BY <1>1, <1>2, <2>2, <2>3
<1>4. PICK c \in {0, 1}, r \in Ports :
        /\ ~(c = 1 /\ r \in NICs)
        /\ \E j \in DOMAIN At(c, r) : Is(At(c, r)[j], nic, id)
  BY UnderWay
<1>5. PICK j \in DOMAIN At(c, r) : Is(At(c, r)[j], nic, id)
  BY <1>4
<1>6. PICK b : b = At(c, r)[j]
  OBVIOUS
<1>7. b \in Packets /\ b.id \in Nat /\ b.id = id /\ b.src = nic /\ Pos(c, b) \in Nat /\ j \in Nat \ {0}
  BY <1>5, <1>6, AtFacts DEF Is
<1>8. CASE c = 0
  <2>1. AtIngress(r, b)
    BY <1>6, <1>8 DEF IInv, Located, At
  <2>2. Pos(c, b) <= 2 * N
    BY <1>7, <1>8, <2>1, PortFromPath DEF Pos
  <2>3. CASE Pos(c, b) = 2 * N
    <3>1. r = p
      BY <1>1, <1>2, <1>3, <1>6, <1>7, <1>8, <2>3, SameQueue
    <3>2. j = 1 \/ 1 < j
      BY <1>7
    <3>3. 1 < j => a.id < b.id
      BY <1>1, <1>2, <1>3, <1>6, <1>7, <1>8, <3>1 DEF DeliveryInv, Ordered
    <3>4. j = 1 => a = b
      BY <1>2, <1>6, <1>8, <3>1
    <3> QED
      BY <1>3, <1>7, <3>2, <3>3, <3>4
  <2>4. CASE Pos(c, b) < 2 * N
    <3>1. a.id < b.id
      BY <1>1, <1>2, <1>3, <1>6, <1>7, <2>4 DEF DeliveryInv, Ordered
    <3> QED
      BY <1>3, <1>7, <3>1
  <2> QED
    BY <1>7, <2>2, <2>3, <2>4
<1>9. CASE c = 1
  <2>1. AtEgress(r, b)
    BY <1>6, <1>9 DEF IInv, Located, At
  <2>2. r = OutPort(nic, Len(b.hops)) /\ Len(b.hops) \in 0 .. N
    BY <1>7, <2>1, PortFromPath
  <2>3. Len(b.hops) # N
    BY <1>4, <1>9, <2>2 DEF OutPort, NICs
  <2>4. Pos(0, a) > Pos(c, b)
    BY <1>3, <1>9, <2>2, <2>3 DEF Pos
  <2>5. a.id < b.id
    BY <1>1, <1>2, <1>3, <1>6, <1>7, <2>4 DEF DeliveryInv, Ordered
  <2> QED
    BY <1>3, <1>7, <2>5
<1> QED
  BY <1>8, <1>9

\* A step that keeps sent, drops a packet under way and brings none back.
LEMMA LoseStep ==
    ASSUME IInv, InTransitInv, InTransitInv', NEW nic \in NICs, NEW pkt \in Packets,
           pkt.id \in InTransit(pkt.src), Drop(pkt), UNCHANGED sent,
           txq'[1 - nic] = txq[1 - nic]
    PROVE  PathStep(nic)
<1>1. lost \in [NICs -> SUBSET Nat] /\ pkt.src \in NICs
  BY DEF IInv, TypeOK, Packets
<1>2. Back(nic)' = Back(nic) /\ Returned(nic)' = Returned(nic) /\ sent'[nic] = sent[nic]
  BY DEF Back, Returned
<1>3. CASE pkt.src = nic
  <2>1. lost'[nic] = lost[nic] \cup {pkt.id}
    BY <1>1, <1>3 DEF Drop
  <2>2. InTransit(nic)' = InTransit(nic) \ {pkt.id}
    BY <1>2, <2>1 DEF InTransitInv
  <2> QED
    BY <1>2, <1>3, <2>1, <2>2 DEF PathStep, Path!Next, Path!Lose
<1>4. CASE pkt.src # nic
  <2>1. lost'[nic] = lost[nic]
    BY <1>1, <1>4 DEF Drop
  <2>2. InTransit(nic)' = InTransit(nic)
    BY <1>2, <2>1 DEF InTransitInv
  <2> QED
    BY <1>2, <2>1, <2>2 DEF PathStep, Path!vars
<1> QED
  BY <1>3, <1>4

\* A step that changes none of the accounts of a direction is no step of it.
LEMMA PathStutters ==
    ASSUME InTransitInv, InTransitInv', NEW nic \in NICs, sent'[nic] = sent[nic],
           lost'[nic] = lost[nic], txq'[1 - nic] = txq[1 - nic]
    PROVE  PathStep(nic)
<1>1. Back(nic)' = Back(nic) /\ Returned(nic)' = Returned(nic)
  BY DEF Back, Returned
<1>2. InTransit(nic)' = InTransit(nic)
  BY <1>1 DEF InTransitInv
<1> QED
  BY <1>1, <1>2 DEF PathStep, Path!vars

\* Send is Arrive of its own direction.
LEMMA SendPath ==
    ASSUME IInv, DeliveryInv, InTransitInv, InTransitInv', NEW m \in NICs, Send(m), NEW nic \in NICs
    PROVE  PathStep(nic)
<1>1. /\ sent \in [NICs -> Nat] /\ lost \in [NICs -> SUBSET Nat] /\ txq' = txq
      /\ sent' = [sent EXCEPT ![m] = @ + 1]
  BY DEF Send, IInv, TypeOK
<1>2. \/ UNCHANGED lost
      \/ lost' = [lost EXCEPT ![m] = @ \cup {sent[m] + 1}]
  BY DEF Send, Drop
<1>3. CASE m # nic
  BY <1>1, <1>2, <1>3, PathStutters
<1>4. CASE m = nic
  <2>1. /\ sent'[nic] = sent[nic] + 1 /\ sent[nic] \in Nat
        /\ Back(nic)' = Back(nic) /\ Returned(nic)' = Returned(nic)
    BY <1>1, <1>4 DEF Back, Returned
  <2>2. sent[nic] + 1 \notin lost[nic] /\ sent[nic] + 1 \notin Returned(nic)
    <3>1. lost[nic] \subseteq 1 .. sent[nic]
      BY DEF DeliveryInv, Counted
    <3>2. ASSUME NEW j \in DOMAIN txq[1 - nic] PROVE txq[1 - nic][j].id # sent[nic] + 1
      <4>1. j \in DOMAIN At(1, 1 - nic) /\ At(1, 1 - nic)[j] = txq[1 - nic][j] /\ 1 - nic \in Ports
        BY BackFacts
      <4>2. At(1, 1 - nic)[j].src = nic
        BY <4>1, BackFacts DEF NICs
      <4>3. At(1, 1 - nic)[j].id \in 1 .. sent[nic]
        BY <4>1, <4>2 DEF DeliveryInv, Counted
      <4> QED
        BY <2>1, <4>1, <4>3
    <3> QED
      BY <2>1, <3>1, <3>2 DEF Returned
  <2>3. 1 .. sent'[nic] = (1 .. sent[nic]) \cup {sent[nic] + 1} /\ sent[nic] + 1 \notin 1 .. sent[nic]
    BY <2>1
  <2>4. CASE UNCHANGED lost
    <3>1. InTransit(nic)' = InTransit(nic) \cup {sent[nic] + 1}
      BY <2>1, <2>2, <2>3, <2>4 DEF InTransitInv
    <3> QED
      BY <2>1, <2>4, <3>1 DEF PathStep, Path!Next, Path!Arrive
  <2>5. CASE lost' = [lost EXCEPT ![m] = @ \cup {sent[m] + 1}]
    <3>1. lost'[nic] = lost[nic] \cup {sent[nic] + 1}
      BY <1>1, <1>4, <2>5
    <3>2. InTransit(nic)' = InTransit(nic)
      BY <2>1, <2>2, <2>3, <3>1 DEF InTransitInv
    <3> QED
      BY <2>1, <3>1, <3>2 DEF PathStep, Path!Next, Path!Arrive
  <2> QED
    BY <1>2, <2>4, <2>5
<1> QED
  BY <1>3, <1>4

\* A step of the switch is Lose, Deliver or a stutter.
LEMMA SwitchPath ==
    ASSUME Setups \subseteq SoundSetups, IInv, DeliveryInv, InTransitInv, InTransitInv',
           NEW p \in Ports, Switch(p), NEW nic \in NICs
    PROVE  PathStep(nic)
<1> USE NAssumption
<1>0. PICK pkt : pkt = Head(rxq[p])
  OBVIOUS
<1>1. /\ txq \in [Ports -> Seq(Packets)] /\ rxq[p] \in Seq(Packets) /\ rxq[p] # <<>>
  BY DEF Switch, IInv, TypeOK
<1>2. pkt \in Packets /\ AtIngress(p, pkt) /\ pkt = rxq[p][1]
  BY <1>0, <1>1, TailElements DEF IInv, Located
<1>3. PICK q \in OutPorts(p, pkt) :
        /\ \/ txq' = [txq EXCEPT ![q] = Append(@, pkt)] /\ UNCHANGED lost
           \/ Drop(pkt) /\ UNCHANGED txq
        /\ UNCHANGED sent
  BY <1>0 DEF Switch
<1>4. q \in Ports /\ AtEgress(q, pkt)
  BY <1>2, NextHop DEF IInv, TypeOK
<1>5. pkt.src \in NICs /\ pkt.id \in InTransit(pkt.src)
  <2>1. pkt.src \in NICs
    BY <1>2 DEF Packets
  <2>2. At(0, p) = rxq[p] /\ 1 \in DOMAIN rxq[p]
    BY <1>1 DEF At
  <2> QED
    BY <1>2, <2>1, <2>2, UnderWay DEF Is
<1>6. CASE Drop(pkt) /\ UNCHANGED txq
  BY <1>2, <1>3, <1>5, <1>6, LoseStep
<1>7. CASE txq' = [txq EXCEPT ![q] = Append(@, pkt)] /\ UNCHANGED lost
  <2>1. CASE q # 1 - nic
    <3>1. txq'[1 - nic] = txq[1 - nic]
      BY <1>1, <1>7, <2>1, BackFacts
    <3> QED
      BY <1>3, <1>7, <3>1, PathStutters
  <2>2. CASE q = 1 - nic
    <3>1. q \in NICs /\ \A k \in VMs : q # 2 * k /\ q # 2 * k + 1
      BY <2>2, BackFacts DEF NICs, VMs
    <3>2. pkt.src = nic /\ pkt.hops = Chain(nic, N)
      BY <1>4, <2>2, <3>1 DEF AtEgress, NICs
    <3>3. pkt.id \in InTransit(nic) /\ \A other \in InTransit(nic) : pkt.id <= other
      BY <1>1, <1>2, <1>5, <3>2, LastIsOldest
    <3>4. PICK t : t = txq[1 - nic]
      OBVIOUS
    <3>5. PICK t2 : t2 = txq'[1 - nic]
      OBVIOUS
    <3>6. t \in Seq(Packets) /\ t2 = Append(t, pkt)
      BY <1>1, <1>4, <1>7, <2>2, <3>4, <3>5
    <3>7. /\ Len(t) \in Nat /\ Len(t2) = Len(t) + 1 /\ t2 \in Seq(Packets)
          /\ \A j \in 1 .. Len(t2) : t2[j] = IF j <= Len(t) THEN t[j] ELSE pkt
      BY <1>2, <3>6
    <3>8. Back(nic)' = Append(Back(nic), pkt.id)
      <4>1. /\ Back(nic) = [j \in 1 .. Len(t) |-> t[j].id]
            /\ Back(nic)' = [j \in 1 .. Len(t2) |-> t2[j].id]
        BY <3>4, <3>5, <3>6, <3>7 DEF Back
      <4>2. \A j \in 1 .. Len(t) : t[j].id \in Nat
        <5>1. \A e \in Packets : e.id \in Nat
          BY DEF Packets
        <5> QED
          BY <3>6, <5>1
      <4>3. PICK b : b = Back(nic)
        OBVIOUS
      <4>4. b \in Seq(Nat) /\ Len(b) = Len(t) /\ \A j \in 1 .. Len(t) : b[j] = t[j].id
        <5>1. PICK n : n = Len(t) /\ n \in Nat
          BY <3>7
        <5>2. PICK id : id = [j \in 1 .. n |-> t[j].id]
          OBVIOUS
        <5>3. id \in [1 .. n -> Nat] /\ \A j \in 1 .. n : id[j] = t[j].id
          BY <4>2, <5>1, <5>2
        <5>4. id \in Seq(Nat) /\ Len(id) = n
          BY <5>1, <5>3
        <5>5. b = id
          BY <4>1, <4>3, <5>1, <5>2
        <5> QED
          BY <5>1, <5>3, <5>4, <5>5
      <4>5. PICK b2 : b2 = Append(b, pkt.id)
        OBVIOUS
      <4>6. /\ b2 \in Seq(Nat) /\ Len(b2) = Len(t) + 1
            /\ \A j \in 1 .. Len(b2) : b2[j] = IF j <= Len(t) THEN b[j] ELSE pkt.id
        <5>1. pkt.id \in Nat
          BY <1>2 DEF Packets
        <5> QED
          BY <4>4, <4>5, <5>1
      <4>7. \A j \in 1 .. Len(t2) : b2[j] = t2[j].id
        <5> SUFFICES ASSUME NEW j \in 1 .. Len(t2)
                     PROVE  b2[j] = t2[j].id
          OBVIOUS
        <5>1. j \in 1 .. Len(b2) /\ j \in Nat
          BY <3>7, <4>6
        <5>2. CASE j <= Len(t)
          <6>1. j \in 1 .. Len(t)
            BY <3>7, <5>1, <5>2
          <6>2. b2[j] = b[j] /\ t2[j] = t[j]
            BY <3>7, <4>6, <5>1, <5>2
          <6> QED
            BY <4>4, <6>1, <6>2
        <5>3. CASE ~(j <= Len(t))
          <6>1. b2[j] = pkt.id /\ t2[j] = pkt
            BY <3>7, <4>6, <5>1, <5>3
          <6> QED
            BY <6>1
        <5> QED
          BY <5>2, <5>3
      <4>8. b2 = [j \in 1 .. Len(b2) |-> b2[j]]
        BY <4>6
      <4>9. b2 = [j \in 1 .. Len(t2) |-> t2[j].id]
        BY <3>7, <4>6, <4>7, <4>8
      <4> QED
        BY <4>1, <4>3, <4>5, <4>9
    <3>9. Returned(nic)' = Returned(nic) \cup {pkt.id}
      <4>1. \A j \in DOMAIN t2 : t2[j].id = pkt.id \/ \E i \in DOMAIN t : t[i].id = t2[j].id
        BY <3>6, <3>7
      <4>2. \A j \in DOMAIN t : j \in DOMAIN t2 /\ t2[j].id = t[j].id
        BY <3>6, <3>7
      <4>3. Len(t) + 1 \in DOMAIN t2 /\ t2[Len(t) + 1].id = pkt.id
        BY <3>6, <3>7
      <4> QED
        BY <3>4, <3>5, <4>1, <4>2, <4>3 DEF Returned
    <3>10. InTransit(nic)' = InTransit(nic) \ {pkt.id}
      BY <1>3, <1>7, <3>9 DEF InTransitInv
    <3> QED
      BY <1>3, <1>7, <3>3, <3>8, <3>10 DEF PathStep, Path!Next, Path!Deliver
  <2> QED
    BY <2>1, <2>2
<1> QED
  BY <1>3, <1>6, <1>7

\* A step of a forwarder is Lose or a stutter: VMs have no NIC.
LEMMA GuestPath ==
    ASSUME IInv, DeliveryInv, InTransitInv, InTransitInv',
           NEW k \in VMs, NEW i \in {0, 1}, Guest(k, i), NEW nic \in NICs
    PROVE  PathStep(nic)
<1> USE NAssumption
<1>1. PICK in : in = 2 * k + i
  OBVIOUS
<1>2. in \in Ports /\ in \notin NICs /\ 1 - nic # in /\ 1 - nic \in Ports
  BY <1>1 DEF Ports, VMs, NICs
<1>3. PICK pkt : pkt = Head(txq[in])
  OBVIOUS
<1>4. /\ txq \in [Ports -> Seq(Packets)] /\ txq[in] \in Seq(Packets) /\ txq[in] # <<>>
      /\ txq' = [txq EXCEPT ![in] = Tail(@)] /\ UNCHANGED sent
      /\ UNCHANGED lost \/ Drop(pkt)
  BY <1>1, <1>2, <1>3 DEF Guest, IInv, TypeOK
<1>5. txq'[1 - nic] = txq[1 - nic]
  BY <1>2, <1>4
<1>6. CASE UNCHANGED lost
  BY <1>4, <1>5, <1>6, PathStutters
<1>7. CASE Drop(pkt)
  <2>1. pkt \in Packets /\ pkt = txq[in][1] /\ 1 \in DOMAIN txq[in]
    BY <1>3, <1>4, TailElements
  <2>2. pkt.src \in NICs /\ At(1, in) = txq[in]
    BY <2>1 DEF Packets, At
  <2>3. pkt.id \in InTransit(pkt.src)
    BY <1>2, <2>1, <2>2, UnderWay DEF Is
  <2> QED
    BY <1>4, <1>5, <1>7, <2>1, <2>3, LoseStep
<1> QED
  BY <1>4, <1>6, <1>7

\* Every step of the chain is a step of the path, or none, in each direction.
LEMMA NextPath ==
    ASSUME Setups \subseteq SoundSetups
    PROVE  IInv /\ DeliveryInv /\ InTransitInv /\ InTransitInv' /\ [Next]_vars
             => [\A nic \in NICs : PathStep(nic)]_vars
<1> SUFFICES ASSUME IInv, DeliveryInv, InTransitInv, InTransitInv', Next, NEW nic \in NICs
             PROVE  PathStep(nic)
  OBVIOUS
<1>1. ASSUME NEW k \in VMs, StartVM(k) PROVE PathStep(nic)
  BY <1>1, PathStutters DEF StartVM
<1> QED
  BY <1>1, SendPath, SwitchPath, GuestPath DEF Next

\* A service chain of any length, with rings of any size and VMs that start at
\* any time, is to MoonGen one lossy path in each direction: it loses packets
\* and counts them, and delivers the others once, always the oldest that is
\* still under way.
THEOREM PathsImplemented ==
    ASSUME Setups \subseteq SoundSetups
    PROVE  Spec => ImplementsPath
<1>1. Init => \A nic \in NICs : Path(nic)!Init
  <2> SUFFICES ASSUME Init, NEW nic \in NICs PROVE Path(nic)!Init
    OBVIOUS
  <2>1. 1 - nic \in Ports
    BY NAssumption DEF NICs, Ports
  <2>2. sent[nic] = 0 /\ lost[nic] = {} /\ txq[1 - nic] = <<>>
    BY <2>1 DEF Init
  <2>3. \A p \in Ports : rxq[p] = <<>> /\ txq[p] = <<>>
    BY DEF Init
  <2>4. InTransit(nic) = {}
    BY <2>3 DEF InTransit, Queued
  <2>5. Back(nic) = <<>>
    BY <2>2 DEF Back
  <2> QED
    BY <2>2, <2>4, <2>5 DEF Path!Init
<1> QED
  BY <1>1, Invariance, DeliveryInvariance, TransitAccounts, NextPath, PTL DEF Spec, ImplementsPath

-----------------------------------------------------------------------------
(* t4p4s with l2fwd in a chain of two or more VMs: no experiment at all.   *)

AstraySetups == {s \in AllSetups : s.switch = "t4p4s" /\ s.guest = "l2fwd"}

\* Nothing that is sent into the first NIC ever comes back, and what is sent
\* into the second one comes back from the last VM without a visit to any
\* other.
Astray ==
    /\ txq[1] = <<>>
    /\ \A pkt \in Received(0) : pkt.src = 1 /\ pkt.hops = <<N>>

\* Every l2fwd writes the addresses that the table has for VM 1: forwards they
\* lead into VM 2 for ever, backwards to the first NIC at once.
AstrayIn(p, pkt) ==
    \/ p \in NICs /\ pkt.src = p /\ pkt.dst = MoonGenDst(p) /\ pkt.hops = <<>>
    \/ p \in {3, 5} /\ pkt.src = 0 /\ pkt.dst = <<2, 1>>
    \/ p = 2 * N /\ pkt.src = 1 /\ pkt.dst = <<2, 0>> /\ pkt.hops = <<N>>

AstrayOut(q, pkt) ==
    \/ q \in {2, 4} /\ pkt.src = 0
    \/ q = 2 * N + 1 /\ pkt.src = 1 /\ pkt.hops = <<>>
    \/ q = 0 /\ pkt.src = 1 /\ pkt.hops = <<N>>

\* The inductive invariant behind Astray.
AstrayInv ==
    /\ TypeOK
    /\ \A p \in Ports : \A j \in DOMAIN rxq[p] : AstrayIn(p, rxq[p][j])
    /\ \A q \in Ports : \A j \in DOMAIN txq[q] : AstrayOut(q, txq[q][j])

\* The table sends such a packet to the port that AstrayOut says.
LEMMA AstrayHop ==
    ASSUME N >= 2, setup \in AstraySetups, NEW p \in Ports, NEW pkt \in Packets, AstrayIn(p, pkt),
           NEW q \in OutPorts(p, pkt)
    PROVE  q \in Ports /\ AstrayOut(q, pkt)
<1> USE NAssumption
<1>1. q = T4p4sTable[pkt.dst] /\ pkt.dst \in Macs
  BY DEF OutPorts, AstraySetups, Packets
<1>2. /\ T4p4sTable[ETH_DST] = 2 /\ T4p4sTable[ETH_DST1] = 2 * N + 1
      /\ T4p4sTable[<<2, 1>>] = 4 /\ T4p4sTable[<<2, 0>>] = 0
  <2>1. /\ ETH_DST \in Macs /\ ETH_DST1 \in Macs /\ <<2, 1>> \in Macs /\ <<2, 0>> \in Macs
        /\ ETH_DST # ETH_DST1
        /\ <<2, 1>> \notin {ETH_DST, ETH_DST1} /\ <<2, 0>> \notin {ETH_DST, ETH_DST1}
    BY DEF Macs, ETH_DST, ETH_DST1
  <2>2. T4p4sTable[ETH_DST] = 2
    BY <2>1 DEF T4p4sTable
  <2>3. T4p4sTable[ETH_DST1] = 2 * N + 1
    BY <2>1 DEF T4p4sTable
  <2>4. T4p4sTable[<<2, 1>>] = 4
    BY <2>1 DEF T4p4sTable
  <2>5. T4p4sTable[<<2, 0>>] = 0
    BY <2>1 DEF T4p4sTable
  <2> QED
    BY <2>2, <2>3, <2>4, <2>5
<1>3. CASE p \in NICs /\ pkt.src = p /\ pkt.dst = MoonGenDst(p) /\ pkt.hops = <<>>
  BY <1>1, <1>2, <1>3 DEF MoonGenDst, NICs, Ports, AstrayOut
<1>4. CASE p \in {3, 5} /\ pkt.src = 0 /\ pkt.dst = <<2, 1>>
  BY <1>1, <1>2, <1>4 DEF Ports, AstrayOut
<1>5. CASE p = 2 * N /\ pkt.src = 1 /\ pkt.dst = <<2, 0>> /\ pkt.hops = <<N>>
  BY <1>1, <1>2, <1>5 DEF Ports, AstrayOut
<1> QED
  BY <1>3, <1>4, <1>5 DEF AstrayIn

\* What l2fwd makes of such a packet.
LEMMA AstrayVisit ==
    ASSUME N >= 2, setup \in AstraySetups, NEW k \in VMs, NEW i \in {0, 1}, NEW pkt \in Packets,
           AstrayOut(2 * k + i, pkt), NEW fwd,
           fwd = [pkt EXCEPT !.dst = GuestDst(k, Partner(i)), !.hops = Append(@, k)]
    PROVE  fwd \in Packets /\ AstrayIn(2 * k + Partner(i), fwd)
<1> USE NAssumption
<1>1. GuestDst(k, Partner(i)) = <<2, Partner(i)>> /\ <<2, Partner(i)>> \in Macs
  BY DEF GuestDst, AstraySetups, l2fwd_dst, Macs, Partner
<1>2. pkt.hops \in Seq(VMs) /\ pkt.id \in Nat /\ pkt.src \in NICs
  BY DEF Packets
<1>3. Append(pkt.hops, k) \in Seq(VMs)
  BY <1>2
<1>4. fwd = [id |-> pkt.id, src |-> pkt.src, dst |-> <<2, Partner(i)>>, hops |-> Append(pkt.hops, k)]
  BY <1>1 DEF Packets
<1>5. fwd \in Packets
  BY <1>1, <1>2, <1>3, <1>4 DEF Packets
<1>6. /\ fwd.src = pkt.src
      /\ fwd.dst = <<2, Partner(i)>>
      /\ fwd.hops = Append(pkt.hops, k)
  <2>1. /\ fwd.src = pkt.src
        /\ fwd.dst = GuestDst(k, Partner(i))
        /\ fwd.hops = Append(pkt.hops, k)
    BY DEF Packets
  <2> QED
    BY <2>1, <1>1
<1>7. CASE 2 * k + i \in {2, 4} /\ pkt.src = 0
  <2>1. i = 0 /\ 2 * k + Partner(i) \in {3, 5}
    BY <1>7 DEF VMs, Partner
  <2> QED
    BY <1>5, <1>6, <1>7, <2>1 DEF AstrayIn, Partner
<1>8. CASE 2 * k + i = 2 * N + 1 /\ pkt.src = 1 /\ pkt.hops = <<>>
  <2>1. i = 1 /\ k = N /\ 2 * k + Partner(i) = 2 * N
    BY <1>8 DEF VMs, Partner
  <2>2. Append(<<>>, N) = <<N>>
    OBVIOUS
  <2> QED
    BY <1>5, <1>6, <1>8, <2>1, <2>2 DEF AstrayIn, Partner
<1>9. 2 * k + i # 0
  BY DEF VMs
<1> QED
  BY <1>7, <1>8, <1>9 DEF AstrayOut

LEMMA AstrayStep ==
    ASSUME N >= 2, Setups \subseteq AstraySetups, AstrayInv, [Next]_vars
    PROVE  AstrayInv'
<1> USE NAssumption DEF AstrayInv
<1>a. ASSUME NEW Q \in [Ports -> Seq(Packets)], NEW p \in Ports, NEW e \in Packets
      PROVE  [Q EXCEPT ![p] = Append(@, e)] \in [Ports -> Seq(Packets)]
  BY AppendElements
<1>b. ASSUME NEW Q \in [Ports -> Seq(Packets)], NEW p \in Ports, Q[p] # <<>>
      PROVE  [Q EXCEPT ![p] = Tail(@)] \in [Ports -> Seq(Packets)]
  BY <1>b, TailElements
<1>d. ASSUME NEW e \in Packets, Drop(e)
      PROVE  lost' \in [NICs -> SUBSET Nat]
  BY <1>d DEF Drop, TypeOK, Packets
<1>0. setup \in AstraySetups
  BY DEF TypeOK
<1>1. CASE UNCHANGED vars
  BY <1>1 DEF vars, TypeOK
<1>2. ASSUME NEW k \in VMs, StartVM(k)
      PROVE  AstrayInv'
  BY <1>2 DEF StartVM, TypeOK
<1>3. ASSUME NEW nic \in NICs, Send(nic)
      PROVE  AstrayInv'
  <2>0. PICK pkt : pkt = [id |-> sent[nic] + 1, src |-> nic, dst |-> MoonGenDst(nic), hops |-> <<>>]
    OBVIOUS
  <2>1. pkt \in Packets /\ nic \in Ports /\ AstrayIn(nic, pkt)
    <3>1. MoonGenDst(nic) \in Macs /\ <<>> \in Seq(VMs) /\ sent[nic] + 1 \in Nat /\ nic \in Ports
      BY DEF MoonGenDst, Macs, TypeOK, Ports, NICs
    <3> QED
      BY <2>0, <3>1 DEF Packets, AstrayIn
  <2>2. sent' \in [NICs -> Nat] /\ UNCHANGED <<setup, up, txq>>
    BY <1>3 DEF Send, TypeOK
  <2>3. CASE rxq' = [rxq EXCEPT ![nic] = Append(@, pkt)] /\ UNCHANGED lost
    <3>1. TypeOK'
      BY <2>1, <2>2, <2>3, <1>a DEF TypeOK
    <3>2. \A r \in Ports : \A j \in DOMAIN rxq'[r] : AstrayIn(r, rxq'[r][j])
      BY <2>1, <2>3, AppendElements DEF TypeOK
    <3> QED
      BY <2>2, <3>1, <3>2
  <2>4. CASE Drop(pkt) /\ UNCHANGED rxq
    BY <2>1, <2>2, <2>4, <1>d DEF TypeOK
  <2> QED
    BY <1>3, <2>0, <2>3, <2>4 DEF Send
<1>4. ASSUME NEW p \in Ports, Switch(p)
      PROVE  AstrayInv'
  <2>0. PICK pkt : pkt = Head(rxq[p])
    OBVIOUS
  <2>1. rxq[p] \in Seq(Packets) /\ rxq[p] # <<>>
    BY <1>4 DEF Switch, TypeOK
  <2>2. pkt \in Packets /\ AstrayIn(p, pkt)
    BY <2>0, <2>1, TailElements
  <2>3. PICK q \in OutPorts(p, pkt) :
          /\ rxq' = [rxq EXCEPT ![p] = Tail(@)]
          /\ \/ txq' = [txq EXCEPT ![q] = Append(@, pkt)] /\ UNCHANGED lost
             \/ Drop(pkt) /\ UNCHANGED txq
          /\ UNCHANGED <<setup, up, sent>>
    BY <1>4, <2>0 DEF Switch
  <2>4. q \in Ports /\ AstrayOut(q, pkt)
    BY <1>0, <2>2, AstrayHop
  <2>5. rxq' \in [Ports -> Seq(Packets)]
    BY <2>1, <2>3, <1>b DEF TypeOK
  <2>6. \A r \in Ports : \A j \in DOMAIN rxq'[r] : AstrayIn(r, rxq'[r][j])
    BY <2>1, <2>3, TailElements DEF TypeOK
  <2>7. CASE txq' = [txq EXCEPT ![q] = Append(@, pkt)] /\ UNCHANGED lost
    <3>1. TypeOK'
      BY <2>2, <2>3, <2>4, <2>5, <2>7, <1>a DEF TypeOK
    <3>2. \A r \in Ports : \A j \in DOMAIN txq'[r] : AstrayOut(r, txq'[r][j])
      BY <2>2, <2>4, <2>7, AppendElements DEF TypeOK
    <3> QED
      BY <2>6, <3>1, <3>2
  <2>8. CASE Drop(pkt) /\ UNCHANGED txq
    <3>1. TypeOK'
      BY <2>2, <2>3, <2>5, <2>8, <1>d DEF TypeOK
    <3> QED
      BY <2>6, <2>8, <3>1
  <2> QED
    BY <2>3, <2>7, <2>8
<1>5. ASSUME NEW k \in VMs, NEW i \in {0, 1}, Guest(k, i)
      PROVE  AstrayInv'
  <2>0. PICK in, out : in = 2 * k + i /\ out = 2 * k + Partner(i)
    OBVIOUS
  <2>1. in \in Ports /\ out \in Ports
    BY <2>0 DEF Partner, Ports, VMs
  <2>2. PICK pkt, fwd :
          /\ pkt = Head(txq[in])
          /\ fwd = [pkt EXCEPT !.dst = GuestDst(k, Partner(i)), !.hops = Append(@, k)]
    OBVIOUS
  <2>3. txq[in] \in Seq(Packets) /\ txq[in] # <<>>
    BY <1>5, <2>0, <2>1 DEF Guest, TypeOK
  <2>4. pkt \in Packets /\ AstrayOut(in, pkt)
    BY <2>1, <2>2, <2>3, TailElements
  <2>5. fwd \in Packets /\ AstrayIn(out, fwd)
    BY <1>0, <2>0, <2>2, <2>4, AstrayVisit
  <2>6. /\ txq' = [txq EXCEPT ![in] = Tail(@)]
        /\ \/ rxq' = [rxq EXCEPT ![out] = Append(@, fwd)] /\ UNCHANGED lost
           \/ Drop(pkt) /\ UNCHANGED rxq
        /\ UNCHANGED <<setup, up, sent>>
    BY <1>5, <2>0, <2>2 DEF Guest
  <2>7. txq' \in [Ports -> Seq(Packets)]
    BY <2>1, <2>3, <2>6, <1>b DEF TypeOK
  <2>8. \A r \in Ports : \A j \in DOMAIN txq'[r] : AstrayOut(r, txq'[r][j])
    BY <2>1, <2>3, <2>6, TailElements DEF TypeOK
  <2>9. CASE rxq' = [rxq EXCEPT ![out] = Append(@, fwd)] /\ UNCHANGED lost
    <3>1. TypeOK'
      BY <2>1, <2>5, <2>6, <2>7, <2>9, <1>a DEF TypeOK
    <3>2. \A r \in Ports : \A j \in DOMAIN rxq'[r] : AstrayIn(r, rxq'[r][j])
      BY <2>1, <2>5, <2>9, AppendElements DEF TypeOK
    <3> QED
      BY <2>8, <3>1, <3>2
  <2>10. CASE Drop(pkt) /\ UNCHANGED rxq
    <3>1. TypeOK'
      BY <2>4, <2>6, <2>7, <2>10, <1>d DEF TypeOK
    <3> QED
      BY <2>8, <2>10, <3>1
  <2> QED
    BY <2>6, <2>9, <2>10
<1> QED
  BY <1>1, <1>2, <1>3, <1>4, <1>5 DEF Next

\* The experiment of t4p4s/README.md, with any number of VMs above one: the
\* finding of the run chain_t4p4s_l2fwd is no accident of two VMs.
THEOREM T4p4sAstray ==
    ASSUME N >= 2, Setups \subseteq AstraySetups
    PROVE  Spec => []Astray
<1>1. Init => AstrayInv
  BY NAssumption DEF Init, AstrayInv, TypeOK, Ports, NICs, VMs
<1>2. AstrayInv /\ [Next]_vars => AstrayInv'
  BY AstrayStep
<1>3. AstrayInv => Astray
  <2> SUFFICES ASSUME AstrayInv PROVE Astray
    OBVIOUS
  <2>1. 0 \in Ports /\ 1 \in Ports /\ 2 * N + 1 # 0 /\ 2 * N + 1 # 1
    BY NAssumption DEF Ports
  <2>2. txq[1] = <<>>
    <3>1. txq[1] \in Seq(Packets) /\ \A j \in DOMAIN txq[1] : ~AstrayOut(1, txq[1][j])
      BY <2>1 DEF AstrayInv, TypeOK, AstrayOut
    <3>2. DOMAIN txq[1] = {}
      BY <2>1, <3>1 DEF AstrayInv
    <3>3. ASSUME NEW s \in Seq(Packets), s # <<>>
          PROVE  1 \in DOMAIN s
      BY <3>3
    <3> QED
      BY <3>1, <3>2, <3>3
  <2>3. \A j \in DOMAIN txq[0] : AstrayOut(0, txq[0][j])
    BY <2>1 DEF AstrayInv
  <2>4. \A j \in DOMAIN txq[0] : txq[0][j].src = 1 /\ txq[0][j].hops = <<N>>
    BY <2>1, <2>3 DEF AstrayOut
  <2> QED
    BY <2>2, <2>4 DEF Astray, Received
<1> QED
  BY <1>1, <1>2, <1>3, PTL DEF Spec

=============================================================================
