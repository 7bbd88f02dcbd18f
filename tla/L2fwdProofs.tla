---------------------------- MODULE L2fwdProofs ----------------------------
(***************************************************************************)
(* Proofs about L2fwd, for every set of devices and lcores, every command  *)
(* line and every size.                                                    *)
(***************************************************************************)
EXTENDS L2fwdLink, SequenceTheorems, FiniteSetTheorems, TLAPS

----------------------------------------------------------------------------
(* The inductive invariant behind the safety properties *)

Starting == {"args", "pair", "deal", "ports", "links", "exit"}
InLoop == {"top", "drain", "print", "rx", "fwd"}

\* The ports of S are partners of each other.
Paired(S) == \A p \in S : dst_ports[p] \in S /\ dst_ports[dst_ports[p]] = p

\* The loop invariant of the pairing loop: the ports visited so far are
\* paired, but for the last one when their number is odd.
PairInv ==
    /\ todo \subseteq EnabledPorts
    /\ phase = "args" => mask = {} /\ nb_ports_in_mask = 0
    /\ phase = "pair" =>
        /\ nb_ports_in_mask % 2 = 0 => Paired(EnabledPorts \ todo)
        /\ nb_ports_in_mask % 2 = 1 =>
            /\ last_port \in EnabledPorts \ todo
            /\ Paired((EnabledPorts \ todo) \ {last_port})
    /\ PortsPaired

\* The loop invariant of the loop that deals the ports out.
DealInv ==
    /\ phase \in {"args", "pair"} => \A l \in Lcores : rx_port_list[l] = <<>>
    /\ \A l \in Lcores : \A k \in DOMAIN rx_port_list[l] :
        /\ rx_port_list[l][k] \in EnabledPorts
        /\ phase = "deal" => rx_port_list[l][k] \notin todo
    /\ phase = "deal" => \A p \in EnabledPorts \ todo : Dealt(p)
    /\ PortsDealt

\* Where the lcores are in each phase, and what they need to go on.
LoopInv ==
    /\ phase \in Starting => \A l \in Lcores : pc[l] = "wait"
    /\ phase \in {"close", "done"} => \A l \in Lcores : pc[l] = "returned"
    /\ \A l \in Lcores :
        /\ pc[l] = "wait" => i[l] = 1
        /\ pc[l] \in InLoop => i[l] <= n_rx_port(l)
        /\ pc[l] = "fwd" => pkts_burst[l] # <<>>

DeviceInv ==
    /\ phase = "ports" => \A p \in EnabledPorts \ todo : device[p] = "started"
    /\ phase \in {"links", "run"} => \A p \in EnabledPorts : device[p] = "started"

\* Nothing has been counted before the lcores start.
StatInv ==
    /\ phase \in Starting => \A p \in Devs : stat_rx[p] = 0 /\ Accounted(p) = 0
    /\ TxBufferHasRoom
    /\ PacketsConserved

\* The conjunction is inductive; every safety property that is proved follows
\* from it.
IInv == TypeOK /\ PairInv /\ DealInv /\ LoopInv /\ DeviceInv /\ StatInv

----------------------------------------------------------------------------
(* Frame lemmas: what is kept by steps that leave a group of variables alone *)

\* The four groups of variables keep their types when they do not change.
LEMMA SameTypes ==
    /\ ConfTypeOK /\ UNCHANGED confVars => ConfTypeOK'
    /\ LoopTypeOK /\ UNCHANGED loopVars => LoopTypeOK'
    /\ PktTypeOK /\ UNCHANGED pktVars => PktTypeOK'
    /\ PrintTypeOK /\ UNCHANGED printVars => PrintTypeOK'
  BY DEF ConfTypeOK, LoopTypeOK, PktTypeOK, PrintTypeOK, confVars, parseVars, pairVars, dealVars,
         loopVars, pktVars, bufVars, printVars

\* The configuration keeps its invariants when neither it nor main() moves.
LEMMA SameConf ==
    ASSUME PairInv, DealInv, DeviceInv, UNCHANGED <<phase, todo, confVars, device>>
    PROVE  PairInv' /\ DealInv' /\ DeviceInv'
<1>1. PairInv'
  BY DEF PairInv, PortsPaired, Paired, EnabledPorts, confVars, parseVars, pairVars
<1>2. DealInv'
  BY DEF DealInv, PortsDealt, Dealt, EnabledPorts, n_rx_port, confVars, parseVars, dealVars
<1>3. DeviceInv'
  BY DEF DeviceInv, EnabledPorts, confVars, parseVars
<1>. QED
  BY <1>1, <1>2, <1>3

\* The lcores and the statistics keep theirs when only main() moves, within
\* the start-up phases or to the end of the program from one of them.
LEMMA StartingFrame ==
    ASSUME LoopInv, StatInv, phase \in Starting, phase' \in Starting,
           UNCHANGED <<pc, i, pkts_burst, stat_rx, stat_tx, stat_dropped, tx_buffer>>
    PROVE  LoopInv' /\ StatInv'
<1>1. LoopInv'
  BY DEF LoopInv, Starting, InLoop
<1>2. StatInv'
  BY DEF StatInv, Starting, Accounted, TxBufferHasRoom, PacketsConserved
<1>. QED
  BY <1>1, <1>2

\* rte_exit during start-up, but not in the middle of the pairing loop.
LEMMA ExitStep ==
    ASSUME IInv, RteExit, phase \in Starting, phase # "pair"
    PROVE  IInv'
<1>. USE DEF IInv, RteExit
<1>1. TypeOK'
  BY SameTypes DEF TypeOK, Phases, linkVars
<1>2. LoopInv' /\ StatInv'
  BY StartingFrame DEF Starting, loopVars, pktVars, bufVars
<1>3. PairInv'
  BY DEF PairInv, PortsPaired, Paired, EnabledPorts, confVars, parseVars, pairVars
<1>4. DealInv'
  BY DEF DealInv, PortsDealt, Dealt, EnabledPorts, n_rx_port, confVars, parseVars, dealVars
<1>5. DeviceInv'
  BY DEF DeviceInv
<1>. QED
  BY <1>1, <1>2, <1>3, <1>4, <1>5

----------------------------------------------------------------------------
(* The initial state *)

\* The state main() starts from satisfies the inductive invariant.
LEMMA InitIInv == Init => IInv
<1>. SUFFICES ASSUME Init PROVE IInv
  OBVIOUS
<1>1. TypeOK
  <2>1. ConfTypeOK
    BY DEF Init, ConfTypeOK, PortIds
  <2>2. LoopTypeOK
    BY DEF Init, LoopTypeOK, LcorePcs
  <2>3. PktTypeOK
    BY DEF Init, PktTypeOK
  <2>4. PrintTypeOK
    BY DEF Init, PrintTypeOK, Totals
  <2>. QED
    BY <2>1, <2>2, <2>3, <2>4 DEF Init, TypeOK, Phases
<1>2. PairInv
  BY DEF Init, PairInv, PortsPaired, EnabledPorts
<1>3. DealInv
  BY DEF Init, DealInv, PortsDealt, n_rx_port
<1>4. LoopInv
  BY DEF Init, LoopInv, InLoop
<1>5. DeviceInv
  BY DEF Init, DeviceInv
<1>6. StatInv
  BY ConfigAssumption DEF Init, StatInv, Accounted, TxBufferHasRoom, PacketsConserved
<1>. QED
  BY <1>1, <1>2, <1>3, <1>4, <1>5, <1>6 DEF IInv

----------------------------------------------------------------------------
(* main(): the arguments and the pairing loop *)

\* Whatever the command line, main() exits or starts the pairing loop with
\* nothing visited and every port of the mask still to do.
LEMMA ParseArgsStep ==
    ASSUME IInv, ParseArgs
    PROVE  IInv'
<1>. USE DEF IInv, ParseArgs
<1>1. CASE RteExit
  BY <1>1, ExitStep DEF Starting
<1>2. CASE ~RteExit
  <2>1. PICK a \in Args :
          /\ l2fwd_parse_nqueue(a.q) # 0
          /\ ~(l2fwd_parse_timer_period(a.T) < 0)
          /\ phase' = "pair"
          /\ todo' = Devs \cap enabled_port_mask(a.p)
          /\ mask' = enabled_port_mask(a.p)
          /\ per_lcore' = l2fwd_parse_nqueue(a.q)
          /\ mac_updating' = a.mac
          /\ timer_on' = (l2fwd_parse_timer_period(a.T) > 0)
          /\ UNCHANGED <<pairVars, dealVars, linkVars, force_quit, loopVars,
                         device, pktVars, printVars>>
    BY <1>2
  <2>2. a.p \in (SUBSET PortIds) \cup {BadMask, NoMask} /\ a.q \in Nat /\ a.mac \in BOOLEAN
    BY <2>1, ArgsAssumption
  <2>3. mask' \subseteq PortIds /\ per_lcore' \in Nat \ {0} /\ per_lcore' < MaxRxQueue
    <3>1. enabled_port_mask(a.p) \subseteq PortIds
      BY <2>2, Zenon DEF enabled_port_mask, l2fwd_parse_portmask
    <3>2. per_lcore' \in Nat \ {0} /\ per_lcore' < MaxRxQueue
      BY <2>1, <2>2, ConfigAssumption DEF l2fwd_parse_nqueue
    <3>. QED
      BY <2>1, <3>1, <3>2
  <2>4. TypeOK'
    <3>1. ConfTypeOK'
      BY <2>1, <2>2, <2>3 DEF TypeOK, ConfTypeOK, pairVars, dealVars
    <3>2. LoopTypeOK' /\ PktTypeOK' /\ PrintTypeOK'
      BY <2>1, SameTypes DEF TypeOK
    <3>. QED
      BY <2>1, <3>1, <3>2 DEF TypeOK, Phases, linkVars
  <2>5. PairInv'
    BY <2>1 DEF PairInv, PortsPaired, Paired, EnabledPorts, pairVars
  <2>6. DealInv'
    BY <2>1, <2>3 DEF DealInv, PortsDealt, n_rx_port, dealVars
  <2>7. DeviceInv'
    BY <2>1 DEF DeviceInv
  <2>8. LoopInv' /\ StatInv'
    BY <2>1, StartingFrame DEF Starting, loopVars, pktVars, bufVars
  <2>. QED
    BY <2>4, <2>5, <2>6, <2>7, <2>8
<1>. QED
  BY <1>1, <1>2

\* One iteration of the pairing loop keeps its loop invariant: an even step
\* leaves a port waiting, an odd step marries it to the next one.
LEMMA PairStep ==
    ASSUME IInv, Pair
    PROVE  IInv'
<1>. USE DEF IInv, Pair
<1>1. PICK p \in todo : PairPort(p) /\ todo' = todo \ {p}
  OBVIOUS
<1>2. p \in EnabledPorts /\ p \in Devs /\ EnabledPorts' = EnabledPorts
  BY <1>1 DEF PairInv, EnabledPorts, parseVars
<1>3. nb_ports_in_mask \in Nat /\ dst_ports \in [Devs -> Int]
  BY DEF TypeOK, ConfTypeOK
<1>4. TypeOK'
  <2>1. last_port' \in Int /\ nb_ports_in_mask' \in Nat /\ dst_ports' \in [Devs -> Int]
    <3>1. CASE nb_ports_in_mask % 2 = 1
      <4>1. last_port \in Devs
        BY <3>1 DEF PairInv, EnabledPorts
      <4>. QED
        BY <1>1, <1>2, <1>3, <3>1, <4>1, ConfigAssumption DEF PairPort, PortIds, TypeOK, ConfTypeOK
    <3>2. CASE nb_ports_in_mask % 2 # 1
      BY <1>1, <1>2, <1>3, <3>2, ConfigAssumption DEF PairPort, PortIds, TypeOK, ConfTypeOK
    <3>. QED
      BY <3>1, <3>2
  <2>2. ConfTypeOK'
    BY <2>1 DEF TypeOK, ConfTypeOK, parseVars, dealVars
  <2>. QED
    BY <1>1, <2>2, SameTypes DEF TypeOK, linkVars
<1>5. PairInv'
  <2>. DEFINE done == EnabledPorts \ todo
  <2>1. (EnabledPorts \ todo)' = done \cup {p} /\ p \notin done
    BY <1>1, <1>2
  <2>2. CASE nb_ports_in_mask % 2 = 1
    <3>1. last_port \in done /\ Paired(done \ {last_port}) /\ last_port \in Devs
      BY <2>2 DEF PairInv, EnabledPorts
    <3>2. dst_ports' = [dst_ports EXCEPT ![p] = last_port, ![last_port] = p]
      BY <1>1, <2>2 DEF PairPort
    <3>3. dst_ports'[p] = last_port /\ dst_ports'[last_port] = p
      BY <1>2, <1>3, <2>1, <3>1, <3>2
    <3>4. \A x \in done \ {last_port} : dst_ports'[x] = dst_ports[x]
      BY <1>2, <1>3, <2>1, <3>1, <3>2 DEF EnabledPorts
    <3>5. Paired(done \cup {p})'
      BY <2>1, <3>1, <3>3, <3>4 DEF Paired
    <3>6. nb_ports_in_mask' % 2 = 0
      BY <1>1, <1>3, <2>2 DEF PairPort
    <3>. QED
      BY <1>1, <1>2, <2>1, <3>5, <3>6 DEF PairInv, PortsPaired, Paired
  <2>3. CASE nb_ports_in_mask % 2 = 0
    <3>1. Paired(done) /\ dst_ports' = dst_ports /\ last_port' = p
      BY <1>1, <2>3 DEF PairInv, PairPort
    <3>2. nb_ports_in_mask' % 2 = 1
      BY <1>1, <1>3, <2>3 DEF PairPort
    <3>3. (done \cup {p}) \ {p} = done
      BY <2>1
    <3>. QED
      BY <1>1, <1>2, <2>1, <3>1, <3>2, <3>3 DEF PairInv, PortsPaired, Paired
  <2>. QED
    BY <1>3, <2>2, <2>3
<1>6. DealInv'
  BY <1>2 DEF DealInv, PortsDealt, n_rx_port, parseVars, dealVars
<1>7. DeviceInv'
  BY DEF DeviceInv
<1>8. LoopInv' /\ StatInv'
  BY StartingFrame DEF Starting, loopVars, pktVars, bufVars
<1>. QED
  BY <1>4, <1>5, <1>6, <1>7, <1>8

\* The port left over is married to itself.
LEMMA PairDoneStep ==
    ASSUME IInv, PairDone
    PROVE  IInv'
<1>. USE DEF IInv, PairDone
<1>1. EnabledPorts' = EnabledPorts /\ EnabledPorts \subseteq Devs
  BY DEF EnabledPorts, parseVars
<1>2. nb_ports_in_mask \in Nat /\ dst_ports \in [Devs -> Int]
  BY DEF TypeOK, ConfTypeOK
<1>3. PairInv' /\ dst_ports' \in [Devs -> Int]
  <2>1. CASE nb_ports_in_mask % 2 = 1
    <3>1. last_port \in EnabledPorts /\ Paired(EnabledPorts \ {last_port})
      BY <2>1 DEF PairInv
    <3>2. dst_ports' = [dst_ports EXCEPT ![last_port] = last_port]
      BY <2>1
    <3>3. \A x \in EnabledPorts \ {last_port} : dst_ports'[x] = dst_ports[x]
      BY <1>1, <1>2, <3>2
    <3>4. dst_ports'[last_port] = last_port /\ dst_ports' \in [Devs -> Int]
      BY <1>1, <1>2, <3>1, <3>2 DEF TypeOK, ConfTypeOK
    <3>. QED
      BY <1>1, <3>1, <3>3, <3>4 DEF PairInv, PortsPaired, Paired
  <2>2. CASE nb_ports_in_mask % 2 = 0
    BY <1>1, <1>2, <2>2 DEF PairInv, PortsPaired, Paired
  <2>. QED
    BY <1>2, <2>1, <2>2
<1>4. TypeOK'
  <2>1. ConfTypeOK'
    BY <1>3 DEF TypeOK, ConfTypeOK, parseVars, dealVars
  <2>. QED
    BY <1>1, <2>1, SameTypes DEF TypeOK, Phases, linkVars
<1>5. DealInv'
  BY <1>1 DEF DealInv, PortsDealt, n_rx_port, parseVars, dealVars
<1>6. DeviceInv'
  BY DEF DeviceInv
<1>7. LoopInv' /\ StatInv'
  BY StartingFrame DEF Starting, loopVars, pktVars, bufVars
<1>. QED
  BY <1>3, <1>4, <1>5, <1>6, <1>7

----------------------------------------------------------------------------
(* main(): the lcores, the ports and the links *)

\* A port goes to an lcore with room left, and to no other.
LEMMA DealStep ==
    ASSUME IInv, Deal
    PROVE  IInv'
<1>. USE DEF IInv, Deal
<1>1. CASE RteExit
  BY <1>1, ExitStep DEF Starting
<1>2. CASE ~RteExit
  <2>1. PICK p \in todo, l \in Candidates :
          /\ phase = "deal"
          /\ rx_lcore_id' = l
          /\ rx_port_list' = [rx_port_list EXCEPT ![l] = Append(@, p)]
          /\ todo' = todo \ {p}
          /\ UNCHANGED <<phase, parseVars, pairVars, linkVars, force_quit, loopVars,
                         device, pktVars, printVars>>
    BY <1>2
  <2>. HIDE DEF Deal
  <2>2. /\ l \in Lcores /\ l \in Nat /\ Len(rx_port_list[l]) # per_lcore
        /\ p \in EnabledPorts /\ p \in Devs /\ EnabledPorts' = EnabledPorts
    BY <2>1, ConfigAssumption DEF Candidates, PairInv, EnabledPorts, parseVars
  <2>3. rx_port_list \in [Lcores -> Seq(Devs)] /\ per_lcore \in Nat
    BY DEF TypeOK, ConfTypeOK
  <2>. DEFINE n == Len(rx_port_list[l])
  <2>4. /\ rx_port_list' \in [Lcores -> Seq(Devs)]
        /\ \A m \in Lcores : m # l => rx_port_list'[m] = rx_port_list[m]
        /\ n \in Nat
        /\ Len(rx_port_list'[l]) = n + 1
        /\ DOMAIN rx_port_list'[l] = 1 .. (n + 1)
        /\ rx_port_list'[l][n + 1] = p
        /\ DOMAIN rx_port_list[l] = 1 .. n
        /\ \A k \in DOMAIN rx_port_list[l] : rx_port_list'[l][k] = rx_port_list[l][k]
    BY <2>1, <2>2, <2>3
  <2>0. n # per_lcore /\ n <= per_lcore
    BY <2>2 DEF DealInv, PortsDealt, n_rx_port
  <2>. HIDE DEF n
  <2>5. TypeOK'
    <3>1. ConfTypeOK'
      BY <2>1, <2>2, <2>4 DEF TypeOK, ConfTypeOK, parseVars, pairVars
    <3>. QED
      BY <2>1, <3>1, SameTypes DEF TypeOK, linkVars
  <2>6. PairInv'
    BY <2>1, <2>2 DEF PairInv, PortsPaired, pairVars
  <2>7. DealInv'
    <3>1. \A m \in Lcores : \A k \in DOMAIN rx_port_list'[m] :
            \/ m = l /\ k = n + 1 /\ rx_port_list'[m][k] = p
            \/ k \in DOMAIN rx_port_list[m] /\ rx_port_list'[m][k] = rx_port_list[m][k]
      <4>. SUFFICES ASSUME NEW m \in Lcores, NEW k \in DOMAIN rx_port_list'[m]
                    PROVE  \/ m = l /\ k = n + 1 /\ rx_port_list'[m][k] = p
                           \/ /\ k \in DOMAIN rx_port_list[m]
                              /\ rx_port_list'[m][k] = rx_port_list[m][k]
        OBVIOUS
      <4>1. CASE m = l
        <5>1. k = n + 1 \/ k \in 1 .. n
          BY <2>4, <4>1
        <5>. QED
          BY <2>4, <4>1, <5>1
      <4>2. CASE m # l
        BY <2>4, <4>2
      <4>. QED
        BY <4>1, <4>2
    <3>2. \A m \in Lcores : \A k \in DOMAIN rx_port_list[m] :
            /\ rx_port_list[m][k] # p
            /\ k \in DOMAIN rx_port_list'[m]
            /\ rx_port_list'[m][k] = rx_port_list[m][k]
      <4>. SUFFICES ASSUME NEW m \in Lcores, NEW k \in DOMAIN rx_port_list[m]
                    PROVE  /\ rx_port_list[m][k] # p
                           /\ k \in DOMAIN rx_port_list'[m]
                           /\ rx_port_list'[m][k] = rx_port_list[m][k]
        OBVIOUS
      <4>1. rx_port_list[m][k] # p
        BY <2>1 DEF DealInv
      <4>2. CASE m = l
        <5>1. k \in 1 .. (n + 1)
          BY <2>4, <4>2
        <5>. QED
          BY <2>4, <4>1, <4>2, <5>1
      <4>3. CASE m # l
        BY <2>4, <4>1, <4>3
      <4>. QED
        BY <4>2, <4>3
    <3>3. \A m \in Lcores : \A k \in DOMAIN rx_port_list'[m] :
            rx_port_list'[m][k] \in EnabledPorts' /\ rx_port_list'[m][k] \notin todo'
      BY <2>1, <2>2, <3>1 DEF DealInv
    <3>4. \A x \in EnabledPorts \ todo' : Dealt(x)'
      <4>. SUFFICES ASSUME NEW x \in EnabledPorts \ todo'
                    PROVE  \E m \in Lcores : \E k \in DOMAIN rx_port_list'[m] : rx_port_list'[m][k] = x
        BY DEF Dealt
      <4>1. CASE x = p
        <5>1. n + 1 \in DOMAIN rx_port_list'[l]
          BY <2>4
        <5>. QED
          BY <2>2, <2>4, <4>1, <5>1
      <4>2. CASE x # p
        BY <2>1, <3>2, <4>2 DEF DealInv, Dealt
      <4>. QED
        BY <4>1, <4>2
    <3>5. \A l1, l2 \in Lcores :
            \A k1 \in DOMAIN rx_port_list'[l1], k2 \in DOMAIN rx_port_list'[l2] :
                rx_port_list'[l1][k1] = rx_port_list'[l2][k2] => l1 = l2 /\ k1 = k2
      BY <3>1, <3>2 DEF DealInv, PortsDealt
    <3>6. \A m \in Lcores : Len(rx_port_list'[m]) <= per_lcore
      <4>. SUFFICES ASSUME NEW m \in Lcores PROVE Len(rx_port_list'[m]) <= per_lcore
        OBVIOUS
      <4>1. CASE m = l
        BY <2>0, <2>3, <2>4, <4>1
      <4>2. CASE m # l
        BY <2>4, <4>2 DEF DealInv, PortsDealt, n_rx_port
      <4>. QED
        BY <4>1, <4>2
    <3>. QED
      BY <2>1, <2>2, <3>3, <3>4, <3>5, <3>6 DEF DealInv, PortsDealt, n_rx_port, parseVars
  <2>8. DeviceInv'
    BY <2>1 DEF DeviceInv
  <2>9. LoopInv' /\ StatInv'
    BY <2>1, StartingFrame DEF Starting, loopVars, pktVars, bufVars
  <2>. QED
    BY <2>5, <2>6, <2>7, <2>8, <2>9
<1>. QED
  BY <1>1, <1>2

\* Once no port is left to deal, every enabled port is in some list.
LEMMA DealDoneStep ==
    ASSUME IInv, DealDone
    PROVE  IInv'
<1>. USE DEF IInv, DealDone
<1>1. CASE RteExit
  BY <1>1, ExitStep DEF Starting
<1>2. CASE ~RteExit
  <2>. phase' = "ports" /\ todo' = EnabledPorts /\ EnabledPorts' = EnabledPorts
       /\ UNCHANGED <<confVars, linkVars, force_quit, loopVars, device, pktVars, printVars>>
    BY <1>2 DEF EnabledPorts, confVars, parseVars
  <2>1. TypeOK'
    BY SameTypes DEF TypeOK, Phases, linkVars, EnabledPorts
  <2>2. PairInv'
    BY DEF PairInv, PortsPaired, confVars, pairVars
  <2>3. DealInv'
    BY DEF DealInv, PortsDealt, Dealt, n_rx_port, confVars, dealVars, parseVars
  <2>4. DeviceInv'
    BY DEF DeviceInv
  <2>5. LoopInv' /\ StatInv'
    BY StartingFrame DEF Starting, loopVars, pktVars, bufVars
  <2>. QED
    BY <2>1, <2>2, <2>3, <2>4, <2>5
<1>. QED
  BY <1>1, <1>2

\* A port is started with an empty buffer and all statistics at zero.
LEMMA InitPortStep ==
    ASSUME IInv, InitPort
    PROVE  IInv'
<1>. USE DEF IInv, InitPort
<1>1. CASE RteExit
  BY <1>1, ExitStep DEF Starting
<1>2. CASE ~RteExit
  <2>1. PICK p \in todo :
          /\ device' = [device EXCEPT ![p] = "started"]
          /\ tx_buffer' = [tx_buffer EXCEPT ![p] = <<>>]
          /\ ZeroStats
          /\ todo' = todo \ {p}
          /\ UNCHANGED <<phase, confVars, linkVars, force_quit, loopVars, rx_ring, arrived,
                         wire, printVars>>
    BY <1>2
  <2>2. p \in Devs /\ EnabledPorts' = EnabledPorts
    BY <2>1 DEF PairInv, EnabledPorts, confVars, parseVars
  <2>3. TypeOK'
    <3>1. PktTypeOK'
      BY <2>1, <2>2 DEF TypeOK, PktTypeOK, ZeroStats
    <3>2. device' \in [Devs -> {"down", "started", "closed"}]
      BY <2>1, <2>2 DEF TypeOK
    <3>. QED
      BY <2>1, <3>1, <3>2, SameTypes DEF TypeOK, linkVars
  <2>4. PairInv'
    BY <2>1, <2>2 DEF PairInv, PortsPaired, confVars, pairVars
  <2>5. DealInv'
    BY <2>1, <2>2 DEF DealInv, PortsDealt, Dealt, n_rx_port, confVars, dealVars, parseVars
  <2>6. DeviceInv'
    BY <2>1, <2>2 DEF DeviceInv, TypeOK, EnabledPorts
  <2>7. LoopInv'
    BY <2>1 DEF LoopInv, Starting, InLoop, loopVars
  <2>8. StatInv'
    <3>1. \A x \in Devs : Len(tx_buffer[x]) = 0
      <4>. SUFFICES ASSUME NEW x \in Devs PROVE Len(tx_buffer[x]) = 0
        OBVIOUS
      <4>1. Len(tx_buffer[x]) \in Nat /\ stat_tx[x] \in Nat /\ stat_dropped[x] \in Nat
        BY DEF TypeOK, PktTypeOK
      <4>2. Accounted(x) = 0
        BY DEF StatInv, Starting
      <4>. QED
        BY <4>1, <4>2 DEF Accounted
    <3>2. \A x \in Devs : Len(tx_buffer'[x]) = 0
      BY <2>1, <2>2, <3>1 DEF TypeOK, PktTypeOK
    <3>3. \A x \in Devs : stat_rx'[x] = 0 /\ stat_tx'[x] = 0 /\ stat_dropped'[x] = 0
      BY <2>1 DEF ZeroStats
    <3>. QED
      BY <2>1, <3>2, <3>3, ConfigAssumption
         DEF StatInv, Starting, Accounted, TxBufferHasRoom, PacketsConserved
  <2>. QED
    BY <2>3, <2>4, <2>5, <2>6, <2>7, <2>8
<1>. QED
  BY <1>1, <1>2

\* The link check starts with every enabled port started.
LEMMA PortsDoneStep ==
    ASSUME IInv, PortsDone
    PROVE  IInv'
<1>. USE DEF IInv, PortsDone
<1>1. CASE RteExit
  BY <1>1, ExitStep DEF Starting
<1>2. CASE ~RteExit
  <2>. phase' = "links" /\ EnabledPorts' = EnabledPorts
       /\ UNCHANGED <<todo, confVars, linkVars, force_quit, loopVars, device, pktVars, printVars>>
    BY <1>2 DEF EnabledPorts, confVars, parseVars
  <2>1. TypeOK'
    BY SameTypes DEF TypeOK, Phases, linkVars
  <2>2. PairInv'
    BY DEF PairInv, PortsPaired, confVars, pairVars
  <2>3. DealInv'
    BY DEF DealInv, PortsDealt, Dealt, n_rx_port, confVars, dealVars, parseVars
  <2>4. DeviceInv'
    BY DEF DeviceInv
  <2>5. LoopInv' /\ StatInv'
    BY StartingFrame DEF Starting, loopVars, pktVars, bufVars
  <2>. QED
    BY <2>1, <2>2, <2>3, <2>4, <2>5
<1>. QED
  BY <1>1, <1>2

\* When the lcores may start, every port has empty accounts.
LEMMA CheckLinksStep ==
    ASSUME IInv, CheckLinks
    PROVE  IInv'
<1>. USE DEF IInv, CheckLinks
<1>1. phase' \in {"links", "run"} /\ EnabledPorts' = EnabledPorts
  BY DEF EnabledPorts, confVars, parseVars
<1>2. TypeOK'
  <2>0. count' \in {count, count + 1} /\ reported' \in {TRUE, reported}
    BY Zenon DEF linkVars
  <2>1. count' \in Nat /\ reported' \in BOOLEAN
    <3>. HIDE DEF CheckLinks
    <3>1. count' \in Nat
      BY <2>0 DEF TypeOK
    <3>2. reported' \in BOOLEAN
      BY <2>0, Zenon DEF TypeOK
    <3>. QED
      BY <3>1, <3>2
  <2>2. print_flag' \in BOOLEAN
    BY Zenon DEF TypeOK, linkVars, LastRound
  <2>. QED
    BY <1>1, <2>1, <2>2, SameTypes DEF TypeOK, Phases
<1>3. PairInv'
  BY <1>1 DEF PairInv, PortsPaired, confVars, pairVars
<1>4. DealInv'
  BY <1>1 DEF DealInv, PortsDealt, Dealt, n_rx_port, confVars, dealVars, parseVars
<1>5. DeviceInv'
  BY <1>1 DEF DeviceInv
<1>6. LoopInv'
  BY <1>1 DEF LoopInv, Starting, InLoop, loopVars
<1>7. StatInv'
  <2>1. \A p \in EnabledPorts : p \in Devs /\ dst_ports[p] \in Devs
    BY DEF PairInv, PortsPaired, EnabledPorts
  <2>2. \A l \in Lcores, p \in Devs : ~Forwarding(l, p)'
    BY DEF LoopInv, Starting, Forwarding, loopVars
  <2>. QED
    BY <1>1, <2>1, <2>2 DEF StatInv, Starting, Accounted, TxBufferHasRoom, PacketsConserved,
       pktVars, bufVars, confVars, pairVars
<1>. QED
  BY <1>2, <1>3, <1>4, <1>5, <1>6, <1>7

----------------------------------------------------------------------------
(* l2fwd_main_loop: what every step relies on *)

\* An lcore is inside the loop only while main() waits, and works on a port
\* that is its own.
LEMMA OwnPort ==
    ASSUME IInv, NEW l \in Lcores, pc[l] \in InLoop
    PROVE  /\ phase = "run"
           /\ i[l] \in DOMAIN rx_port_list[l] /\ n_rx_port(l) \in Nat /\ i[l] \in Nat
           /\ RxPort(l) \in EnabledPorts /\ RxPort(l) \in Devs
           /\ dst_ports[RxPort(l)] \in EnabledPorts /\ dst_ports[RxPort(l)] \in Devs
<1>. USE DEF IInv
<1>1. phase = "run"
  BY DEF TypeOK, Phases, LoopInv, Starting, InLoop
<1>2. rx_port_list[l] \in Seq(Devs) /\ i[l] \in Nat \ {0} /\ i[l] <= Len(rx_port_list[l])
  BY DEF TypeOK, ConfTypeOK, LoopTypeOK, LoopInv, n_rx_port
<1>3. i[l] \in DOMAIN rx_port_list[l] /\ n_rx_port(l) \in Nat
  BY <1>2 DEF n_rx_port
<1>4. RxPort(l) \in EnabledPorts
  BY <1>3 DEF DealInv, RxPort
<1>. QED
  BY <1>1, <1>2, <1>3, <1>4 DEF PairInv, PortsPaired, EnabledPorts

\* Two lcores inside the loop never share a port, nor the partner of a port.
LEMMA Exclusive ==
    ASSUME IInv, NEW l1 \in Lcores, NEW l2 \in Lcores, l1 # l2,
           pc[l1] \in InLoop, pc[l2] \in InLoop
    PROVE  RxPort(l1) # RxPort(l2) /\ dst_ports[RxPort(l1)] # dst_ports[RxPort(l2)]
<1>1. RxPort(l1) # RxPort(l2)
  BY OwnPort DEF IInv, DealInv, PortsDealt, RxPort
<1>. QED
  BY <1>1, OwnPort DEF IInv, PairInv, PortsPaired

\* What an lcore leaves alone keeps the parts of the invariant about main()
\* and the configuration.
LEMMA LoopFrameKeeps ==
    ASSUME IInv, LoopFrame
    PROVE  /\ PairInv' /\ DealInv' /\ DeviceInv' /\ ConfTypeOK'
           /\ EnabledPorts' = EnabledPorts /\ dst_ports' = dst_ports
           /\ rx_port_list' = rx_port_list /\ phase' = phase
           /\ LoopTypeOK' /\ PktTypeOK' /\ PrintTypeOK' => TypeOK'
<1>. USE DEF IInv, LoopFrame
<1>1. PairInv' /\ DealInv' /\ DeviceInv'
  BY SameConf
<1>2. ConfTypeOK'
  BY SameTypes DEF TypeOK
<1>3. LoopTypeOK' /\ PktTypeOK' /\ PrintTypeOK' => TypeOK'
  BY <1>2 DEF TypeOK, linkVars
<1>. QED
  BY <1>1, <1>2, <1>3 DEF EnabledPorts, confVars, parseVars, pairVars, dealVars

\* Lcore l moves, the others do not.
OnlyMoves(l) ==
    \A m \in Lcores \ {l} : pc'[m] = pc[m] /\ i'[m] = i[m] /\ pkts_burst'[m] = pkts_burst[m]

\* LoopInv survives a step of one lcore that stays within its list.
LEMMA LoopInvStep ==
    ASSUME IInv, LoopFrame, phase = "run", NEW l \in Lcores, OnlyMoves(l),
           pc'[l] # "wait", pc'[l] \in InLoop => i'[l] <= n_rx_port(l),
           pc'[l] = "fwd" => pkts_burst'[l] # <<>>
    PROVE  LoopInv'
  BY LoopFrameKeeps DEF IInv, LoopInv, OnlyMoves, Starting, InLoop, n_rx_port

\* Advance moves within the list of lcore l or back to its first port.
LEMMA AdvanceFacts ==
    ASSUME IInv, NEW l \in Lcores, pc[l] \in InLoop, NEW next \in LcorePcs, Advance(l, next)
    PROVE  /\ pc' \in [Lcores -> LcorePcs] /\ i' \in [Lcores -> Nat \ {0}]
           /\ \A m \in Lcores \ {l} : pc'[m] = pc[m] /\ i'[m] = i[m]
           /\ pc'[l] \in {pc[l], next}
           /\ i'[l] <= n_rx_port(l)
<1>1. i[l] \in Nat \ {0} /\ n_rx_port(l) \in Nat /\ i[l] <= n_rx_port(l)
  BY OwnPort DEF IInv, TypeOK, LoopTypeOK, LoopInv
<1>2. pc \in [Lcores -> LcorePcs] /\ i \in [Lcores -> Nat \ {0}]
  BY DEF IInv, TypeOK, LoopTypeOK
<1>3. CASE i[l] < n_rx_port(l)
  BY <1>1, <1>2, <1>3 DEF Advance
<1>4. CASE ~(i[l] < n_rx_port(l))
  BY <1>1, <1>2, <1>4 DEF Advance
<1>. QED
  BY <1>3, <1>4

\* A step that neither counts nor starts or stops forwarding keeps the accounts.
LEMMA SameStats ==
    ASSUME IInv, LoopFrame, NEW l \in Lcores, OnlyMoves(l), pc[l] # "fwd", pc'[l] # "fwd",
           UNCHANGED <<stat_rx, stat_tx, stat_dropped, tx_buffer>>
    PROVE  StatInv'
<1>1. \A m \in Lcores, p \in Devs :
        /\ Forwarding(m, p)' <=> Forwarding(m, p)
        /\ Forwarding(m, p) => pkts_burst'[m] = pkts_burst[m]
  BY LoopFrameKeeps DEF Forwarding, RxPort, OnlyMoves
<1>2. TxBufferHasRoom' /\ (phase \in Starting => \A p \in Devs : stat_rx'[p] = 0 /\ Accounted(p)' = 0)
  BY DEF IInv, StatInv, TxBufferHasRoom, Accounted
<1>3. PacketsConserved'
  <2>1. \A p \in EnabledPorts : p \in Devs
    BY DEF EnabledPorts
  <2>. QED
    BY <1>1, <2>1, LoopFrameKeeps DEF IInv, StatInv, PacketsConserved, Accounted
<1>. QED
  BY <1>2, <1>3, LoopFrameKeeps DEF StatInv

----------------------------------------------------------------------------
(* l2fwd_main_loop: the steps that touch no packet *)

\* rte_eal_mp_remote_launch preserves the inductive invariant.
LEMMA LaunchStep ==
    ASSUME IInv, NEW l \in Lcores, Launch(l)
    PROVE  IInv'
<1>. USE DEF Launch
<1>0. n_rx_port(l) \in Nat /\ i[l] = 1
  BY DEF IInv, TypeOK, ConfTypeOK, n_rx_port, LoopInv
<1>1. /\ pc' \in [Lcores -> LcorePcs] /\ OnlyMoves(l)
      /\ pc'[l] = IF n_rx_port(l) = 0 THEN "returned" ELSE "top"
  BY DEF IInv, TypeOK, LoopTypeOK, LcorePcs, OnlyMoves
<1>2. LoopTypeOK' /\ PktTypeOK' /\ PrintTypeOK'
  BY <1>1, SameTypes DEF IInv, TypeOK, LoopTypeOK, pktVars, LoopFrame
<1>3. LoopInv'
  BY <1>0, <1>1, LoopInvStep DEF InLoop
<1>4. StatInv'
  BY <1>1, SameStats DEF bufVars
<1>. QED
  BY <1>2, <1>3, <1>4, LoopFrameKeeps DEF IInv

\* The head of l2fwd_main_loop preserves the inductive invariant.
LEMMA LoopTopStep ==
    ASSUME IInv, NEW l \in Lcores, LoopTop(l)
    PROVE  IInv'
<1>. USE DEF LoopTop
<1>0. pc[l] \in InLoop /\ i[l] <= n_rx_port(l)
  BY DEF InLoop, IInv, LoopInv
<1>1. /\ pc' \in [Lcores -> LcorePcs] /\ OnlyMoves(l)
      /\ pc'[l] \in {"returned", "drain", "rx"}
  BY DEF IInv, TypeOK, LoopTypeOK, LcorePcs, OnlyMoves
<1>2. due' \in [Lcores -> BOOLEAN]
  BY DEF IInv, TypeOK, LoopTypeOK
<1>3. LoopTypeOK' /\ PktTypeOK' /\ PrintTypeOK'
  BY <1>1, <1>2, SameTypes DEF IInv, TypeOK, LoopTypeOK, pktVars, LoopFrame
<1>4. LoopInv'
  BY <1>0, <1>1, OwnPort, LoopInvStep
<1>5. StatInv'
  BY <1>1, SameStats DEF bufVars
<1>. QED
  BY <1>3, <1>4, <1>5, LoopFrameKeeps DEF IInv

\* An iteration of print_stats preserves the inductive invariant.
LEMMA PrintPortStep ==
    ASSUME IInv, NEW l \in Lcores, PrintPort(l)
    PROVE  IInv'
<1>. USE DEF PrintPort
<1>1. OnlyMoves(l) /\ UNCHANGED <<pc, i, pkts_burst>> /\ pc[l] \in InLoop
  BY DEF OnlyMoves, loopVars, InLoop
<1>2. PrintTypeOK'
  BY SMTT(30) DEF IInv, TypeOK, PrintTypeOK, PktTypeOK, Totals
<1>3. LoopTypeOK' /\ PktTypeOK'
  BY SameTypes DEF IInv, TypeOK, pktVars, LoopFrame
<1>4. LoopInv'
  BY <1>1, OwnPort, LoopInvStep DEF IInv, LoopInv, InLoop
<1>5. StatInv'
  BY <1>1, SameStats DEF bufVars
<1>. QED
  BY <1>2, <1>3, <1>4, <1>5, LoopFrameKeeps DEF IInv

\* The end of print_stats preserves the inductive invariant.
LEMMA PrintDoneStep ==
    ASSUME IInv, NEW l \in Lcores, PrintDone(l)
    PROVE  IInv'
<1>. USE DEF PrintDone
<1>0. pc[l] \in InLoop /\ i[l] <= n_rx_port(l)
  BY DEF InLoop, IInv, LoopInv
<1>1. pc' \in [Lcores -> LcorePcs] /\ OnlyMoves(l) /\ pc'[l] = "rx"
  BY DEF IInv, TypeOK, LoopTypeOK, LcorePcs, OnlyMoves
<1>2. LoopTypeOK' /\ PktTypeOK' /\ PrintTypeOK'
  BY <1>1, SameTypes DEF IInv, TypeOK, LoopTypeOK, PrintTypeOK, pktVars, LoopFrame
<1>3. LoopInv'
  BY <1>0, <1>1, OwnPort, LoopInvStep
<1>4. StatInv'
  BY <1>1, SameStats DEF bufVars
<1>. QED
  BY <1>2, <1>3, <1>4, LoopFrameKeeps DEF IInv

----------------------------------------------------------------------------
(* The transmit buffer *)

\* rte_eth_tx_buffer_flush empties the buffer of one port and accounts for
\* every packet that was in it; the other ports see nothing.
LEMMA FlushFacts ==
    ASSUME PktTypeOK, NEW p \in Devs, NEW buffer \in Seq(Packet),
           rte_eth_tx_buffer_flush(p, buffer)
    PROVE  /\ tx_buffer' \in [Devs -> Seq(Packet)] /\ wire' \in [Devs -> Seq(Packet)]
           /\ stat_tx' \in [Devs -> Nat] /\ stat_dropped' \in [Devs -> Nat]
           /\ tx_buffer'[p] = <<>>
           /\ Accounted(p)' = stat_tx[p] + stat_dropped[p] + Len(buffer)
           /\ \A d \in Devs \ {p} : tx_buffer'[d] = tx_buffer[d] /\ Accounted(d)' = Accounted(d)
<1>1. PICK sent \in 0 .. Len(buffer) :
        /\ wire' = [wire EXCEPT ![p] = @ \o SubSeq(buffer, 1, sent)]
        /\ tx_buffer' = [tx_buffer EXCEPT ![p] = <<>>]
        /\ stat_dropped' = [stat_dropped EXCEPT ![p] = @ + (Len(buffer) - sent)]
        /\ stat_tx' = [stat_tx EXCEPT ![p] = @ + sent]
  BY DEF rte_eth_tx_buffer_flush
<1>2. Len(buffer) \in Nat /\ sent \in Nat /\ Len(buffer) - sent \in Nat
  OBVIOUS
<1>3. wire' \in [Devs -> Seq(Packet)]
  <2>1. SubSeq(buffer, 1, sent) \in Seq(Packet)
    BY <1>2
  <2>. QED
    BY <1>1, <2>1 DEF PktTypeOK
<1>4. tx_buffer' \in [Devs -> Seq(Packet)] /\ tx_buffer'[p] = <<>> /\ Len(tx_buffer'[p]) = 0
  BY <1>1 DEF PktTypeOK
<1>5. stat_tx' \in [Devs -> Nat] /\ stat_dropped' \in [Devs -> Nat]
  BY <1>1, <1>2, SMTT(30) DEF PktTypeOK
<1>6. stat_tx'[p] = stat_tx[p] + sent /\ stat_dropped'[p] = stat_dropped[p] + (Len(buffer) - sent)
  BY <1>1 DEF PktTypeOK
<1>7. Accounted(p)' = stat_tx[p] + stat_dropped[p] + Len(buffer)
  BY <1>2, <1>4, <1>6 DEF Accounted, PktTypeOK
<1>8. \A d \in Devs \ {p} : /\ tx_buffer'[d] = tx_buffer[d]
                            /\ stat_tx'[d] = stat_tx[d] /\ stat_dropped'[d] = stat_dropped[d]
  BY <1>1 DEF PktTypeOK
<1>. QED
  BY <1>3, <1>4, <1>5, <1>7, <1>8 DEF Accounted

\* rte_eth_tx_buffer accounts for the one packet it is given and leaves room
\* for the next.
LEMMA BufferFacts ==
    ASSUME PktTypeOK, TxBufferHasRoom, NEW p \in Devs, NEW m \in Packet, rte_eth_tx_buffer(p, m)
    PROVE  /\ tx_buffer' \in [Devs -> Seq(Packet)] /\ wire' \in [Devs -> Seq(Packet)]
           /\ stat_tx' \in [Devs -> Nat] /\ stat_dropped' \in [Devs -> Nat]
           /\ Len(tx_buffer'[p]) < MaxPktBurst
           /\ Accounted(p)' = Accounted(p) + 1
           /\ \A d \in Devs \ {p} : tx_buffer'[d] = tx_buffer[d] /\ Accounted(d)' = Accounted(d)
<1>. DEFINE buffer == Append(tx_buffer[p], m)
<1>0. /\ buffer \in Seq(Packet) /\ Len(buffer) = Len(tx_buffer[p]) + 1
      /\ Len(tx_buffer[p]) \in Nat /\ stat_tx[p] \in Nat /\ stat_dropped[p] \in Nat
  BY DEF PktTypeOK
<1>1. CASE Len(buffer) < MaxPktBurst
  <2>1. /\ tx_buffer' = [tx_buffer EXCEPT ![p] = buffer]
        /\ UNCHANGED <<wire, stat_tx, stat_dropped>>
    BY <1>1 DEF rte_eth_tx_buffer
  <2>. HIDE DEF buffer
  <2>2. tx_buffer' \in [Devs -> Seq(Packet)] /\ tx_buffer'[p] = buffer
    BY <1>0, <2>1 DEF PktTypeOK
  <2>3. Accounted(p)' = Accounted(p) + 1
    BY <1>0, <2>1, <2>2 DEF Accounted
  <2>. QED
    BY <1>1, <2>1, <2>2, <2>3 DEF Accounted, PktTypeOK
<1>2. CASE ~(Len(buffer) < MaxPktBurst)
  <2>1. rte_eth_tx_buffer_flush(p, buffer)
    BY <1>2 DEF rte_eth_tx_buffer
  <2>. HIDE DEF buffer
  <2>2. Accounted(p)' = stat_tx[p] + stat_dropped[p] + Len(buffer)
    BY <1>0, <2>1, FlushFacts
  <2>3. Accounted(p)' = Accounted(p) + 1
    BY <1>0, <2>2, SMTT(30) DEF Accounted
  <2>4. Len(tx_buffer'[p]) = 0
    BY <1>0, <2>1, FlushFacts
  <2>. QED
    BY <1>0, <2>1, <2>3, <2>4, FlushFacts, ConfigAssumption
<1>. QED
  BY <1>1, <1>2

\* Device ids are integers, so that they can stand for addresses.
LEMMA DevsAreInts == \A p \in Devs : p \in Int
  BY ConfigAssumption DEF PortIds

\* l2fwd_mac_updating returns a packet.
LEMMA MacUpdatingType ==
    ASSUME NEW m \in Packet, NEW port \in Int
    PROVE  l2fwd_mac_updating(m, port) \in Packet
  BY DEF Packet, Header, l2fwd_mac_updating, StoreDst, StoreSrc, Zero

----------------------------------------------------------------------------
(* l2fwd_main_loop: the steps that move packets *)

\* A flush by the owner moves packets from buffered to sent or dropped.
LEMMA DrainStep ==
    ASSUME IInv, NEW l \in Lcores, Drain(l)
    PROVE  IInv'
<1>. DEFINE d == DrainPort(l)
<1>0. /\ pc[l] = "drain" /\ pc[l] \in InLoop /\ LoopFrame
      /\ UNCHANGED <<pkts_burst, due, rx_ring, stat_rx>> /\ UNCHANGED arrived
      /\ rte_eth_tx_buffer_flush(d, tx_buffer[d])
  BY DEF Drain, InLoop, LoopFrame
<1>1. d \in Devs /\ phase = "run" /\ PktTypeOK /\ tx_buffer[d] \in Seq(Packet)
  BY <1>0, OwnPort DEF DrainPort, IInv, TypeOK, PktTypeOK
<1>2. \E next \in {"rx", "print"} : Advance(l, next)
  BY DEF Drain
<1>3. /\ pc' \in [Lcores -> LcorePcs] /\ i' \in [Lcores -> Nat \ {0}]
      /\ OnlyMoves(l) /\ pc'[l] \in {"drain", "rx", "print"} /\ i'[l] <= n_rx_port(l)
  BY <1>0, <1>2, AdvanceFacts DEF LcorePcs, OnlyMoves
<1>4. PrintTypeOK'
  BY DEF Drain, StartPrint, IInv, TypeOK, PrintTypeOK, Totals, EnabledPorts, printVars
<1>. HIDE DEF d
<1>5. LoopTypeOK' /\ PktTypeOK'
  BY <1>0, <1>1, <1>3, FlushFacts DEF IInv, TypeOK, LoopTypeOK, PktTypeOK
<1>6. LoopInv'
  BY <1>0, <1>1, <1>3, LoopInvStep
<1>7. StatInv'
  <2>1. \A x \in Devs : Accounted(x)' = Accounted(x)
    BY <1>0, <1>1, FlushFacts DEF Accounted
  <2>2. TxBufferHasRoom'
    <3>1. /\ Len(tx_buffer'[d]) = 0
          /\ \A x \in Devs \ {d} : Len(tx_buffer'[x]) = Len(tx_buffer[x])
      BY <1>0, <1>1, FlushFacts
    <3>. QED
      BY <3>1, ConfigAssumption DEF IInv, StatInv, TxBufferHasRoom
  <2>3. \A m \in Lcores, p \in Devs : Forwarding(m, p)' <=> Forwarding(m, p)
    BY <1>0, <1>3, LoopFrameKeeps DEF Forwarding, RxPort, OnlyMoves
  <2>4. \A p \in EnabledPorts : p \in Devs /\ dst_ports[p] \in Devs
    BY <1>1 DEF IInv, PairInv, PortsPaired, EnabledPorts
  <2>5. PacketsConserved'
    BY <1>0, <1>1, <2>1, <2>3, <2>4, LoopFrameKeeps DEF IInv, StatInv, PacketsConserved
  <2>. QED
    BY <1>0, <1>1, <2>2, <2>5, LoopFrameKeeps DEF StatInv, Starting
<1>. QED
  BY <1>0, <1>4, <1>5, <1>6, <1>7, LoopFrameKeeps DEF IInv

\* A burst from a port nobody is forwarding for: the packets counted are the
\* packets in hand.
LEMMA RxBurstStep ==
    ASSUME IInv, NEW l \in Lcores, RxBurst(l)
    PROVE  IInv'
<1>. DEFINE p == RxPort(l)
            n == IF Len(rx_ring[p]) < MaxPktBurst THEN Len(rx_ring[p]) ELSE MaxPktBurst
<1>0. /\ pc[l] = "rx" /\ pc[l] \in InLoop /\ LoopFrame
      /\ UNCHANGED <<due, bufVars, printVars>> /\ UNCHANGED arrived
      /\ pkts_burst' = [pkts_burst EXCEPT ![l] = SubSeq(rx_ring[p], 1, n)]
      /\ rx_ring' = [rx_ring EXCEPT ![p] = SubSeq(@, n + 1, Len(@))]
      /\ stat_rx' = [stat_rx EXCEPT ![p] = @ + n]
      /\ IF n = 0 THEN Advance(l, "top") ELSE pc' = [pc EXCEPT ![l] = "fwd"] /\ UNCHANGED i
  BY DEF RxBurst, InLoop, LoopFrame
<1>1. /\ p \in Devs /\ p \in EnabledPorts /\ phase = "run" /\ dst_ports[p] \in Devs
      /\ rx_ring[p] \in Seq(Packet) /\ Len(rx_ring[p]) \in Nat
      /\ pkts_burst \in [Lcores -> Seq(Packet)] /\ stat_rx[p] \in Nat
  <2>1. pc[l] \in InLoop
    BY <1>0
  <2>2. p \in Devs /\ p \in EnabledPorts /\ phase = "run" /\ dst_ports[p] \in Devs
    BY <2>1, OwnPort
  <2>. QED
    BY <2>2, SMTT(30) DEF IInv, TypeOK, PktTypeOK, LoopTypeOK
<1>2. n \in Nat /\ n <= Len(rx_ring[p])
  BY <1>1, ConfigAssumption
<1>. HIDE DEF n
<1>3. /\ pkts_burst' \in [Lcores -> Seq(Packet)] /\ Len(pkts_burst'[l]) = n
      /\ \A m \in Lcores \ {l} : pkts_burst'[m] = pkts_burst[m]
  <2>1. SubSeq(rx_ring[p], 1, n) \in Seq(Packet) /\ Len(SubSeq(rx_ring[p], 1, n)) = n
    BY <1>1, <1>2
  <2>. QED
    BY <1>0, <1>1, <2>1
<1>4. PktTypeOK'
  <2>1. SubSeq(rx_ring[p], n + 1, Len(rx_ring[p])) \in Seq(Packet)
    BY <1>1, <1>2
  <2>2. rx_ring' \in [Devs -> Seq(Packet)]
    BY <1>0, <1>1, <2>1 DEF IInv, TypeOK, PktTypeOK
  <2>3. stat_rx' \in [Devs -> Nat]
    BY <1>0, <1>1, <1>2, SMTT(30) DEF IInv, TypeOK, PktTypeOK
  <2>. QED
    BY <1>0, <2>2, <2>3 DEF IInv, TypeOK, PktTypeOK, bufVars
<1>5. PrintTypeOK'
  BY <1>0, SameTypes DEF IInv, TypeOK
<1>6. /\ \A x \in Devs : Accounted(x)' = Accounted(x) /\ tx_buffer'[x] = tx_buffer[x]
      /\ \A x \in Devs \ {p} : stat_rx'[x] = stat_rx[x]
      /\ stat_rx'[p] = stat_rx[p] + n
  BY <1>0, <1>1 DEF Accounted, bufVars, IInv, TypeOK, PktTypeOK
<1>7. stat_rx[p] = Accounted(dst_ports[p])
  <2>1. \A m \in Lcores : ~Forwarding(m, p)
    BY <1>0, Exclusive DEF Forwarding, InLoop
  <2>. QED
    BY <1>1, <2>1 DEF IInv, StatInv, PacketsConserved
<1>8. \A x \in EnabledPorts : x \in Devs /\ dst_ports[x] \in Devs
  BY <1>1 DEF IInv, PairInv, PortsPaired, EnabledPorts
<1>9. TxBufferHasRoom'
  BY <1>6 DEF IInv, StatInv, TxBufferHasRoom
<1>10. i[l] <= n_rx_port(l)
  BY <1>0 DEF IInv, LoopInv
<1>11. CASE n = 0
  <2>1. /\ pc' \in [Lcores -> LcorePcs] /\ i' \in [Lcores -> Nat \ {0}]
        /\ OnlyMoves(l) /\ pc'[l] \in {"rx", "top"} /\ i'[l] <= n_rx_port(l)
    BY <1>0, <1>3, <1>11, AdvanceFacts DEF LcorePcs, OnlyMoves
  <2>2. LoopTypeOK'
    BY <1>0, <1>3, <2>1 DEF IInv, TypeOK, LoopTypeOK
  <2>3. LoopInv'
    BY <1>0, <1>1, <2>1, LoopInvStep
  <2>4. \A m \in Lcores, x \in Devs :
            /\ Forwarding(m, x)' <=> Forwarding(m, x)
            /\ Forwarding(m, x) => pkts_burst'[m] = pkts_burst[m]
    BY <1>0, <2>1, LoopFrameKeeps DEF Forwarding, RxPort, OnlyMoves
  <2>5. \A x \in Devs : stat_rx'[x] = stat_rx[x]
    BY <1>1, <1>6, <1>11
  <2>6. PacketsConserved'
    <3>. SUFFICES ASSUME NEW x \in EnabledPorts
                  PROVE  /\ \A m \in Lcores : Forwarding(m, x)' =>
                              stat_rx'[x] = Accounted(dst_ports[x])' + Len(pkts_burst'[m])
                         /\ (\A m \in Lcores : ~Forwarding(m, x)') =>
                              stat_rx'[x] = Accounted(dst_ports[x])'
      BY <1>0, LoopFrameKeeps DEF PacketsConserved
    <3>1. x \in Devs /\ dst_ports[x] \in Devs /\ Accounted(dst_ports[x])' = Accounted(dst_ports[x])
      BY <1>0, <1>6, <1>8, LoopFrameKeeps
    <3>. QED
      BY <1>1, <2>4, <2>5, <3>1 DEF IInv, StatInv, PacketsConserved
  <2>7. StatInv'
    BY <1>0, <1>1, <1>9, <2>6, LoopFrameKeeps DEF StatInv, Starting
  <2>. QED
    BY <1>0, <1>4, <1>5, <2>2, <2>3, <2>7, LoopFrameKeeps DEF IInv
<1>12. CASE n # 0
  <2>1. /\ pc' \in [Lcores -> LcorePcs] /\ OnlyMoves(l) /\ pc'[l] = "fwd" /\ i' = i
    BY <1>0, <1>3, <1>12 DEF LcorePcs, OnlyMoves, IInv, TypeOK, LoopTypeOK
  <2>2. LoopTypeOK'
    BY <1>0, <1>3, <2>1 DEF IInv, TypeOK, LoopTypeOK
  <2>3. pkts_burst'[l] # <<>>
    BY <1>3, <1>12
  <2>4. LoopInv'
    BY <1>0, <1>1, <1>10, <2>1, <2>3, LoopInvStep
  <2>5. \A m \in Lcores \ {l}, x \in Devs :
            /\ Forwarding(m, x)' <=> Forwarding(m, x)
            /\ pkts_burst'[m] = pkts_burst[m]
    BY <1>0, <1>3, <2>1, LoopFrameKeeps DEF Forwarding, RxPort, OnlyMoves
  <2>6. \A x \in Devs : /\ Forwarding(l, x)' <=> x = p
                        /\ ~Forwarding(l, x)
    BY <1>0, <2>1, LoopFrameKeeps DEF Forwarding, RxPort
  <2>7. \A m \in Lcores : ~Forwarding(m, p)
    BY <1>0, Exclusive DEF Forwarding, InLoop
  <2>8. PacketsConserved'
    <3>. SUFFICES ASSUME NEW x \in EnabledPorts
                  PROVE  /\ \A m \in Lcores : Forwarding(m, x)' =>
                              stat_rx'[x] = Accounted(dst_ports[x])' + Len(pkts_burst'[m])
                         /\ (\A m \in Lcores : ~Forwarding(m, x)') =>
                              stat_rx'[x] = Accounted(dst_ports[x])'
      BY <1>0, LoopFrameKeeps DEF PacketsConserved
    <3>0. x \in Devs /\ dst_ports[x] \in Devs /\ Accounted(dst_ports[x])' = Accounted(dst_ports[x])
      BY <1>0, <1>6, <1>8, LoopFrameKeeps
    <3>1. CASE x = p
      BY <1>3, <1>6, <1>7, <2>5, <2>6, <2>7, <3>0, <3>1
    <3>2. CASE x # p
      <4>1. stat_rx'[x] = stat_rx[x]
        BY <1>6, <3>0, <3>2
      <4>2. \A m \in Lcores : /\ Forwarding(m, x)' <=> Forwarding(m, x)
                              /\ Forwarding(m, x) => pkts_burst'[m] = pkts_burst[m]
        BY <2>5, <2>6, <3>0, <3>2
      <4>. QED
        BY <1>1, <3>0, <4>1, <4>2 DEF IInv, StatInv, PacketsConserved
    <3>. QED
      BY <3>1, <3>2
  <2>9. StatInv'
    BY <1>0, <1>1, <1>9, <2>8, LoopFrameKeeps DEF StatInv, Starting
  <2>. QED
    BY <1>0, <1>4, <1>5, <2>2, <2>4, <2>9, LoopFrameKeeps DEF IInv
<1>. QED
  BY <1>11, <1>12

\* One packet goes from the hands of its lcore to the accounts of the partner
\* port, which no other lcore touches.
LEMMA ForwardStep ==
    ASSUME IInv, NEW l \in Lcores, Forward(l)
    PROVE  IInv'
<1>. DEFINE p == RxPort(l)
            head == Head(pkts_burst[l])
<1>a. PICK d : d = dst_ports[p]
  OBVIOUS
<1>b. PICK pkt : pkt = IF mac_updating THEN l2fwd_mac_updating(head, d) ELSE head
  OBVIOUS
<1>0. /\ pc[l] = "fwd" /\ pc[l] \in InLoop /\ LoopFrame
      /\ UNCHANGED <<due, rx_ring, stat_rx, printVars>> /\ UNCHANGED arrived
      /\ rte_eth_tx_buffer(d, pkt)
      /\ pkts_burst' = [pkts_burst EXCEPT ![l] = Tail(@)]
      /\ IF Len(pkts_burst[l]) > 1
         THEN UNCHANGED <<pc, i>>
         ELSE IF i[l] < n_rx_port(l)
         THEN i' = [i EXCEPT ![l] = @ + 1] /\ pc' = [pc EXCEPT ![l] = "rx"]
         ELSE i' = [i EXCEPT ![l] = 1] /\ pc' = [pc EXCEPT ![l] = "top"]
  BY <1>a, <1>b DEF Forward, InLoop, LoopFrame
<1>1. pc[l] = "fwd" /\ pc[l] \in InLoop /\ LoopFrame
  BY <1>0
<1>2. /\ p \in Devs /\ p \in EnabledPorts /\ d \in Devs /\ phase = "run"
      /\ i[l] \in Nat /\ n_rx_port(l) \in Nat
  BY <1>a, <1>1, OwnPort
<1>3. /\ pkts_burst \in [Lcores -> Seq(Packet)] /\ pkts_burst[l] # <<>>
      /\ i \in [Lcores -> Nat \ {0}] /\ pc \in [Lcores -> LcorePcs] /\ i[l] <= n_rx_port(l)
      /\ PktTypeOK /\ TxBufferHasRoom
  BY <1>1 DEF IInv, TypeOK, LoopTypeOK, LoopInv, StatInv, InLoop
<1>4. pkt \in Packet
  <2>1. head \in Packet
    BY <1>3
  <2>2. d \in Int
    BY <1>2, DevsAreInts
  <2>. QED
    BY <1>b, <2>1, <2>2, MacUpdatingType
<1>5. /\ pkts_burst' \in [Lcores -> Seq(Packet)]
      /\ Len(pkts_burst'[l]) = Len(pkts_burst[l]) - 1
      /\ \A m \in Lcores \ {l} : pkts_burst'[m] = pkts_burst[m]
      /\ Len(pkts_burst[l]) \in Nat /\ Len(pkts_burst[l]) > 0
  <2>1. /\ Tail(pkts_burst[l]) \in Seq(Packet)
        /\ Len(Tail(pkts_burst[l])) = Len(pkts_burst[l]) - 1
        /\ Len(pkts_burst[l]) \in Nat /\ Len(pkts_burst[l]) > 0
    BY <1>3
  <2>. QED
    BY <1>0, <1>3, <2>1
<1>6. rte_eth_tx_buffer(d, pkt)
  BY <1>0
<1>7. /\ tx_buffer' \in [Devs -> Seq(Packet)] /\ wire' \in [Devs -> Seq(Packet)]
      /\ stat_tx' \in [Devs -> Nat] /\ stat_dropped' \in [Devs -> Nat]
      /\ Len(tx_buffer'[d]) < MaxPktBurst
      /\ Accounted(d)' = Accounted(d) + 1
      /\ \A x \in Devs \ {d} : tx_buffer'[x] = tx_buffer[x] /\ Accounted(x)' = Accounted(x)
  BY <1>2, <1>3, <1>4, <1>6, BufferFacts
<1>8. PktTypeOK' /\ PrintTypeOK' /\ TxBufferHasRoom'
  BY <1>0, <1>3, <1>7, SameTypes DEF IInv, TypeOK, PktTypeOK, TxBufferHasRoom
<1>9. /\ pc' \in [Lcores -> LcorePcs] /\ i' \in [Lcores -> Nat \ {0}] /\ OnlyMoves(l)
      /\ i'[l] <= n_rx_port(l)
      /\ Len(pkts_burst[l]) > 1 => pc'[l] = "fwd" /\ i'[l] = i[l]
      /\ ~(Len(pkts_burst[l]) > 1) => pc'[l] \in {"rx", "top"}
      /\ pc'[l] # "wait"
  <2>1. CASE Len(pkts_burst[l]) > 1
    <3>1. pc' = pc /\ i' = i
      BY <1>0, <2>1
    <3>. QED
      BY <1>1, <1>3, <1>5, <2>1, <3>1 DEF OnlyMoves
  <2>2. CASE ~(Len(pkts_burst[l]) > 1) /\ i[l] < n_rx_port(l)
    <3>1. i' = [i EXCEPT ![l] = @ + 1] /\ pc' = [pc EXCEPT ![l] = "rx"]
      BY <1>0, <2>2
    <3>. QED
      BY <1>2, <1>3, <1>5, <2>2, <3>1 DEF OnlyMoves, LcorePcs
  <2>3. CASE ~(Len(pkts_burst[l]) > 1) /\ ~(i[l] < n_rx_port(l))
    <3>1. i' = [i EXCEPT ![l] = 1] /\ pc' = [pc EXCEPT ![l] = "top"]
      BY <1>0, <2>3
    <3>. QED
      BY <1>2, <1>3, <1>5, <2>3, <3>1 DEF OnlyMoves, LcorePcs
  <2>. QED
    BY <2>1, <2>2, <2>3
<1>10. LoopTypeOK'
  BY <1>0, <1>5, <1>9 DEF IInv, TypeOK, LoopTypeOK
<1>11. LoopInv'
  <2>1. pc'[l] = "fwd" => pkts_burst'[l] # <<>>
    BY <1>5, <1>9
  <2>. QED
    BY <1>1, <1>2, <1>9, <2>1, LoopInvStep
<1>12. PacketsConserved'
  <2>. SUFFICES ASSUME NEW x \in EnabledPorts
                PROVE  /\ \A m \in Lcores : Forwarding(m, x)' =>
                            stat_rx'[x] = Accounted(dst_ports[x])' + Len(pkts_burst'[m])
                       /\ (\A m \in Lcores : ~Forwarding(m, x)') =>
                            stat_rx'[x] = Accounted(dst_ports[x])'
    BY <1>1, LoopFrameKeeps DEF PacketsConserved
  <2>1. /\ x \in Devs /\ dst_ports[x] \in Devs /\ dst_ports' = dst_ports
        /\ dst_ports[dst_ports[x]] = x /\ stat_rx'[x] = stat_rx[x]
    BY <1>0, <1>1, <1>2, LoopFrameKeeps DEF IInv, PairInv, PortsPaired, EnabledPorts
  <2>2. \A m \in Lcores \ {l} : /\ Forwarding(m, x)' <=> Forwarding(m, x)
                                /\ pkts_burst'[m] = pkts_burst[m]
    BY <1>1, <1>5, <1>9, <2>1, LoopFrameKeeps DEF Forwarding, RxPort, OnlyMoves
  <2>3. \A m \in Lcores : Forwarding(m, p) => m = l
    BY <1>1, Exclusive DEF Forwarding, InLoop
  <2>4. CASE x = p
    <3>1. Forwarding(l, p) /\ dst_ports[x] = d
      BY <1>a, <1>1, <2>4 DEF Forwarding
    <3>2. stat_rx[x] = Accounted(d) + Len(pkts_burst[l])
      BY <1>2, <2>4, <3>1 DEF IInv, StatInv, PacketsConserved
    <3>3. Accounted(dst_ports[x])' = Accounted(d) + 1
      BY <1>7, <2>1, <3>1
    <3>4. Accounted(d) \in Nat
      BY <1>2, <1>3, SMTT(30) DEF Accounted, PktTypeOK
    <3>5. Forwarding(l, x)' <=> Len(pkts_burst[l]) > 1
      <4>1. rx_port_list' = rx_port_list /\ x = rx_port_list[l][i[l]]
        BY <1>1, <2>4, LoopFrameKeeps DEF RxPort
      <4>2. CASE Len(pkts_burst[l]) > 1
        <5>1. pc'[l] = "fwd" /\ i'[l] = i[l]
          BY <1>5, <1>9, <4>2
        <5>2. Forwarding(l, x)'
          BY <4>1, <5>1 DEF Forwarding, RxPort
        <5>. QED
          BY <4>2, <5>2
      <4>3. CASE ~(Len(pkts_burst[l]) > 1)
        BY <1>5, <1>9, <4>3 DEF Forwarding
      <4>. QED
        BY <4>2, <4>3
    <3>6. \A m \in Lcores \ {l} : ~Forwarding(m, x)'
      BY <2>2, <2>3, <2>4
    <3>. QED
      BY <1>5, <2>1, <3>2, <3>3, <3>4, <3>5, <3>6, SMTT(30)
  <2>5. CASE x # p
    <3>1. dst_ports[x] # d
      BY <1>a, <1>2, <2>1, <2>5 DEF IInv, PairInv, PortsPaired
    <3>2. Accounted(dst_ports[x])' = Accounted(dst_ports[x])
      BY <1>7, <2>1, <3>1
    <3>3. ~Forwarding(l, x) /\ ~Forwarding(l, x)'
      BY <1>1, <1>9, <2>5, LoopFrameKeeps DEF Forwarding, RxPort
    <3>. QED
      BY <1>2, <2>1, <2>2, <3>2, <3>3 DEF IInv, StatInv, PacketsConserved
  <2>. QED
    BY <2>4, <2>5
<1>13. StatInv'
  BY <1>1, <1>2, <1>8, <1>12, LoopFrameKeeps DEF StatInv, Starting
<1>. QED
  BY <1>1, <1>8, <1>10, <1>11, <1>13, LoopFrameKeeps DEF IInv

----------------------------------------------------------------------------
(* The end of main(), the environment and the theorem *)

\* The accounts do not move when neither the lcores nor the statistics do.
LEMMA StillFrame ==
    ASSUME IInv, UNCHANGED <<pc, i, pkts_burst, stat_rx, stat_tx, stat_dropped, tx_buffer, confVars>>,
           phase' = phase \/ (phase \in {"run", "close"} /\ phase' \in {"close", "done"})
    PROVE  StatInv'
<1>1. dst_ports' = dst_ports /\ rx_port_list' = rx_port_list /\ EnabledPorts' = EnabledPorts
  BY DEF EnabledPorts, confVars, parseVars, pairVars, dealVars
<1>2. \A l \in Lcores : \A p : Forwarding(l, p)' <=> Forwarding(l, p)
  BY <1>1 DEF Forwarding, RxPort
<1>3. PacketsConserved'
  BY <1>1, <1>2 DEF IInv, StatInv, PacketsConserved, Accounted
<1>4. TxBufferHasRoom' /\ (phase' \in Starting => \A p \in Devs : stat_rx'[p] = 0 /\ Accounted(p)' = 0)
  BY DEF IInv, StatInv, TxBufferHasRoom, Accounted, Starting
<1>. QED
  BY <1>3, <1>4 DEF StatInv

\* main() goes from waiting to closing, from port to port, and returns.
LEMMA EndStep ==
    ASSUME IInv, WaitLcores \/ ClosePort \/ Return
    PROVE  IInv'
<1>0. /\ UNCHANGED <<confVars, linkVars, force_quit, loopVars, pktVars, printVars>>
      /\ phase \in {"run", "close"} /\ phase' \in {"close", "done"}
      /\ EnabledPorts' = EnabledPorts
  BY DEF WaitLcores, ClosePort, Return, EnabledPorts, confVars, parseVars
<1>1. todo' \subseteq EnabledPorts
  BY DEF WaitLcores, ClosePort, Return, IInv, PairInv
<1>2. device' \in [Devs -> {"down", "started", "closed"}]
  <2>1. \A p \in todo : p \in Devs
    BY DEF IInv, TypeOK
  <2>. QED
    BY <2>1 DEF WaitLcores, ClosePort, Return, IInv, TypeOK
<1>3. TypeOK'
  BY <1>0, <1>1, <1>2, SameTypes DEF IInv, TypeOK, Phases, linkVars, EnabledPorts
<1>4. PairInv'
  BY <1>0, <1>1 DEF IInv, PairInv, PortsPaired, confVars, pairVars
<1>5. DealInv'
  BY <1>0 DEF IInv, DealInv, PortsDealt, Dealt, n_rx_port, confVars, dealVars, parseVars
<1>6. DeviceInv'
  BY <1>0 DEF DeviceInv
<1>7. LoopInv'
  <2>1. \A l \in Lcores : pc[l] = "returned"
    BY DEF WaitLcores, ClosePort, Return, AllReturned, IInv, LoopInv
  <2>. QED
    BY <1>0, <2>1 DEF LoopInv, Starting, InLoop, loopVars
<1>8. StatInv'
  BY <1>0, StillFrame DEF loopVars, pktVars, bufVars
<1>. QED
  BY <1>3, <1>4, <1>5, <1>6, <1>7, <1>8 DEF IInv

\* What arrives is a packet.
LEMMA NewPacketType ==
    ASSUME NEW n \in Nat
    PROVE  NewPacket(n) \in Packet
  BY DEF Packet, Header, NewPacket, Orig

\* Signals, arriving packets and the passing of time.
LEMMA EnvStep ==
    ASSUME IInv,
           \/ signal_handler
           \/ \E l \in Lcores : Tick(l)
           \/ \E p \in Devs : Arrive(p)
           \/ UNCHANGED vars
    PROVE  IInv'
<1>0. UNCHANGED <<phase, todo, confVars, linkVars, device, pc, i, pkts_burst, wire, stat_rx,
                  stat_tx, stat_dropped, tx_buffer, printVars>>
  BY DEF signal_handler, Tick, Arrive, vars, loopVars, pktVars, bufVars
<1>1. force_quit' \in BOOLEAN
  BY DEF signal_handler, Tick, Arrive, vars, IInv, TypeOK
<1>2. LoopTypeOK'
  BY <1>0 DEF signal_handler, Tick, Arrive, vars, loopVars, IInv, TypeOK, LoopTypeOK
<1>3. PktTypeOK'
  <2>1. CASE \E p \in Devs : Arrive(p)
    <3>1. PICK p \in Devs : Arrive(p)
      BY <2>1
    <3>2. arrived[p] \in Nat /\ NewPacket(arrived[p] + 1) \in Packet /\ rx_ring[p] \in Seq(Packet)
      BY NewPacketType DEF IInv, TypeOK, PktTypeOK
    <3>3. rx_ring' \in [Devs -> Seq(Packet)] /\ arrived' \in [Devs -> Nat]
      BY <3>1, <3>2 DEF Arrive, IInv, TypeOK, PktTypeOK
    <3>. QED
      BY <1>0, <3>3 DEF IInv, TypeOK, PktTypeOK
  <2>2. CASE ~(\E p \in Devs : Arrive(p))
    BY <2>2, SameTypes DEF signal_handler, Tick, vars, IInv, TypeOK
  <2>. QED
    BY <2>1, <2>2
<1>4. TypeOK'
  BY <1>0, <1>1, <1>2, <1>3, SameTypes DEF IInv, TypeOK, linkVars
<1>5. PairInv' /\ DealInv' /\ DeviceInv'
  BY <1>0, SameConf DEF IInv
<1>6. LoopInv'
  BY <1>0 DEF IInv, LoopInv, n_rx_port, confVars, dealVars
<1>7. StatInv'
  BY <1>0, StillFrame
<1>. QED
  BY <1>4, <1>5, <1>6, <1>7 DEF IInv

\* The invariant is inductive.
LEMMA NextIInv == IInv /\ [Next]_vars => IInv'
<1>. SUFFICES ASSUME IInv, [Next]_vars PROVE IInv'
  OBVIOUS
<1>1. CASE MainStep
  BY <1>1, ParseArgsStep, PairStep, PairDoneStep, DealStep, DealDoneStep, InitPortStep,
     PortsDoneStep, CheckLinksStep, EndStep DEF MainStep
<1>2. ASSUME NEW l \in Lcores, LcoreStep(l) PROVE IInv'
  BY <1>2, LaunchStep, LoopTopStep, DrainStep, PrintPortStep, PrintDoneStep, RxBurstStep,
     ForwardStep DEF LcoreStep
<1>3. CASE \/ signal_handler
           \/ \E l \in Lcores : Tick(l)
           \/ \E p \in Devs : Arrive(p)
           \/ UNCHANGED vars
  BY <1>3, EnvStep
<1>. QED
  BY <1>1, <1>2, <1>3 DEF Next, Terminated

\* The inductive invariant holds in every reachable state of l2fwd.
THEOREM Invariance == Spec => []IInv
  BY InitIInv, NextIInv, PTL DEF Spec

\* Every variable of l2fwd keeps its type.
THEOREM TypeCorrect == Spec => []TypeOK
<1>1. IInv => TypeOK
  BY DEF IInv
<1>. QED
  BY Invariance, <1>1, PTL

\* The pairing loop of main() makes the destination map of the enabled ports
\* its own inverse, whatever the mask.
THEOREM PairingCorrect == Spec => []PortsPaired
<1>1. IInv => PortsPaired
  BY DEF IInv, PairInv
<1>. QED
  BY Invariance, <1>1, PTL

\* Every enabled port is polled by exactly one lcore, within the bounds of its
\* list.
THEOREM DealingCorrect == Spec => []PortsDealt
<1>1. IInv => PortsDealt
  BY DEF IInv, DealInv
<1>. QED
  BY Invariance, <1>1, PTL

\* No two lcores ever meet on a receive or a transmit queue, although the code
\* takes no lock and sets up one queue of each kind per port.
THEOREM RaceFree == Spec => []NoQueueRace
<1>1. IInv => NoQueueRace
  BY Exclusive DEF NoQueueRace, InLoop
<1>. QED
  BY Invariance, <1>1, PTL

\* The store of rte_eth_tx_buffer is always within the buffer.
THEOREM BufferSafe == Spec => []TxBufferHasRoom
<1>1. IInv => TxBufferHasRoom
  BY DEF IInv, StatInv
<1>. QED
  BY Invariance, <1>1, PTL

\* The statistics of the ports lose no packet.
THEOREM Conservation == Spec => []PacketsConserved
<1>1. IInv => PacketsConserved
  BY DEF IInv, StatInv
<1>. QED
  BY Invariance, <1>1, PTL

\* When the program has returned, fewer than MAX_PKT_BURST packets per port are
\* missing from its statistics.
THEOREM ExitLoss == Spec => []ExitLossBounded
<1>1. ASSUME IInv PROVE ExitLossBounded
  <2>. SUFFICES ASSUME phase = "done", NEW p \in EnabledPorts
                PROVE  stat_rx[p] - (stat_tx[dst_ports[p]] + stat_dropped[dst_ports[p]])
                            \in 0 .. (MaxPktBurst - 1)
    BY DEF ExitLossBounded
  <2>. DEFINE d == dst_ports[p]
  <2>1. p \in Devs /\ d \in Devs
    BY <1>1 DEF IInv, PairInv, PortsPaired, EnabledPorts
  <2>2. \A l \in Lcores : ~Forwarding(l, p)
    BY <1>1 DEF IInv, LoopInv, Forwarding
  <2>3. stat_rx[p] = stat_tx[d] + stat_dropped[d] + Len(tx_buffer[d])
    BY <1>1, <2>2 DEF IInv, StatInv, PacketsConserved, Accounted
  <2>4. Len(tx_buffer[d]) < MaxPktBurst /\ Len(tx_buffer[d]) \in Nat
    BY <1>1, <2>1 DEF IInv, StatInv, TxBufferHasRoom, TypeOK, PktTypeOK
  <2>5. stat_tx[d] \in Nat /\ stat_dropped[d] \in Nat
    BY <1>1, <2>1 DEF IInv, TypeOK, PktTypeOK
  <2>. QED
    BY <2>3, <2>4, <2>5, ConfigAssumption, SMTT(30)
<1>. QED
  BY Invariance, <1>1, PTL

\* No lcore polls, fills or flushes a port before main() has started it or
\* after main() has begun to close it.
THEOREM PortsLive == Spec => []OnlyStartedPortsUsed
<1>1. IInv => OnlyStartedPortsUsed
  BY OwnPort DEF IInv, DeviceInv, OnlyStartedPortsUsed, InLoop
<1>. QED
  BY Invariance, <1>1, PTL

----------------------------------------------------------------------------
(* The link check.                                                         *)

BeforeLinks == {"args", "pair", "deal", "ports"}

\* While the check goes on without anything to print, a round is left in
\* which print_flag will be set.
LinkInv ==
    /\ phase \in BeforeLinks => count = 0 /\ ~print_flag
    /\ phase = "links" /\ ~print_flag => count < MaxCheckTime
    /\ LinksReported

\* Every step but a round of the link check leaves its variables alone.
LEMMA LinkFrame ==
    ASSUME TypeOK, [Next]_vars, ~CheckLinks
    PROVE  /\ UNCHANGED linkVars /\ (force_quit => force_quit')
           /\ \/ phase' = phase \/ phase' = "exit"
              \/ phase \in BeforeLinks /\ phase' \in BeforeLinks \cup {"links"}
              \/ phase = "run" /\ phase' = "close"
              \/ phase = "close" /\ phase' = "done"
<1>. DEFINE Goal ==
        /\ UNCHANGED linkVars /\ (force_quit => force_quit')
        /\ \/ phase' = phase \/ phase' = "exit"
           \/ phase \in BeforeLinks /\ phase' \in BeforeLinks \cup {"links"}
           \/ phase = "run" /\ phase' = "close"
           \/ phase = "close" /\ phase' = "done"
<1>1. CASE UNCHANGED vars  BY <1>1 DEF vars
<1>2. CASE ParseArgs  BY <1>2 DEF ParseArgs, RteExit, BeforeLinks
<1>3. CASE Pair  BY <1>3 DEF Pair
<1>4. CASE PairDone  BY <1>4 DEF PairDone, BeforeLinks
<1>5. CASE Deal  BY <1>5 DEF Deal, RteExit
<1>6. CASE DealDone  BY <1>6 DEF DealDone, RteExit, BeforeLinks
<1>7. CASE InitPort  BY <1>7 DEF InitPort, RteExit
<1>8. CASE PortsDone  BY <1>8 DEF PortsDone, RteExit, BeforeLinks
<1>9. CASE WaitLcores \/ ClosePort \/ Return
  BY <1>9 DEF WaitLcores, ClosePort, Return
<1>10. CASE \E l \in Lcores : Launch(l) \/ LoopTop(l) \/ Drain(l) \/ PrintPort(l)
                               \/ PrintDone(l) \/ RxBurst(l) \/ Forward(l)
  <2>1. PICK l \in Lcores : Launch(l) \/ LoopTop(l) \/ Drain(l) \/ PrintPort(l)
                               \/ PrintDone(l) \/ RxBurst(l) \/ Forward(l)
    BY <1>10
  <2>2. LoopFrame
    BY <2>1 DEF Launch, LoopTop, Drain, PrintPort, PrintDone, RxBurst, Forward
  <2>. QED  BY <2>2 DEF LoopFrame
<1>11. CASE \E l \in Lcores : Tick(l)  BY <1>11 DEF Tick
<1>12. CASE \E p \in Devs : Arrive(p)  BY <1>12 DEF Arrive
<1>13. CASE signal_handler  BY <1>13 DEF signal_handler
<1>14. CASE Terminated  BY <1>14 DEF Terminated, vars
<1>. QED
  BY <1>1, <1>2, <1>3, <1>4, <1>5, <1>6, <1>7, <1>8, <1>9, <1>10, <1>11, <1>12, <1>13, <1>14
  DEF Next, MainStep, LcoreStep

LEMMA LinkNext ==
    ASSUME TypeOK, LinkInv, [Next]_vars
    PROVE  LinkInv'
<1>1. CASE CheckLinks
  <2>1. CASE force_quit
    <3>1. phase' = "run" /\ force_quit'  BY <1>1, <2>1 DEF CheckLinks
    <3>. QED  BY <3>1 DEF LinkInv, LinksReported, BeforeLinks
  <2>2. CASE ~force_quit /\ print_flag
    <3>1. phase' = "run" /\ reported'  BY <1>1, <2>2 DEF CheckLinks
    <3>. QED  BY <3>1 DEF LinkInv, LinksReported, BeforeLinks
  <2>3. CASE ~force_quit /\ ~print_flag
    <3>1. /\ count' = count + 1
          /\ phase' = IF count' <= MaxCheckTime THEN "links" ELSE "run"
          /\ ~print_flag' => count # MaxCheckTime - 1
      BY <1>1, <2>3 DEF CheckLinks, LastRound
    <3>2. count \in Nat /\ count < MaxCheckTime /\ MaxCheckTime \in Nat
      BY <1>1, <2>3, ConfigAssumption DEF TypeOK, LinkInv, CheckLinks
    <3>3. phase' = "links"  BY <3>1, <3>2
    <3>4. ~print_flag' => count' < MaxCheckTime
      <4>. SUFFICES ASSUME ~print_flag' PROVE count' < MaxCheckTime  OBVIOUS
      <4>1. count # MaxCheckTime - 1  BY <3>1
      <4>. QED  BY <3>1, <3>2, <4>1
    <3>. QED  BY <3>3, <3>4 DEF LinkInv, LinksReported, BeforeLinks
  <2>. QED  BY <2>1, <2>2, <2>3
<1>2. CASE ~CheckLinks
  <2>1. count' = count /\ print_flag' = print_flag /\ reported' = reported
    BY <1>2, LinkFrame DEF linkVars
  <2>2. force_quit => force_quit'  BY <1>2, LinkFrame
  <2>3. \/ phase' = phase \/ phase' = "exit"
        \/ phase \in BeforeLinks /\ phase' \in BeforeLinks \cup {"links"}
        \/ phase = "run" /\ phase' = "close"
        \/ phase = "close" /\ phase' = "done"
    BY <1>2, LinkFrame
  <2>4. phase \in BeforeLinks => count < MaxCheckTime
    BY ConfigAssumption DEF LinkInv
  <2>5. phase' \in BeforeLinks => phase \in BeforeLinks
    BY <2>3 DEF BeforeLinks
  <2>6. phase' = "links" => phase = "links" \/ phase \in BeforeLinks
    BY <2>3 DEF BeforeLinks
  <2>7. phase' \in {"run", "close", "done"} => phase \in {"run", "close", "done"}
    BY <2>3 DEF BeforeLinks
  <2>. QED
    BY <2>1, <2>2, <2>4, <2>5, <2>6, <2>7, Zenon DEF LinkInv, LinksReported
<1>. QED  BY <1>1, <1>2

\* The status of the links is printed before the lcores start, unless a signal
\* ends the check: the loop never runs out of rounds with print_flag unset.
THEOREM LinksTold == Spec => []LinksReported
<1>1. Init => LinkInv
  BY ConfigAssumption DEF Init, LinkInv, LinksReported, BeforeLinks
<1>2. LinkInv => LinksReported  BY DEF LinkInv
<1>3. IInv => TypeOK  BY DEF IInv
<1>. QED  BY Invariance, LinkNext, <1>1, <1>2, <1>3, PTL DEF Spec

----------------------------------------------------------------------------
(* Packets in transit: their headers, and what is empty before the start.  *)

\* The steps that move a packet.
Moves ==
    \/ \E l \in Lcores : Drain(l) \/ RxBurst(l) \/ Forward(l)
    \/ \E p \in Devs : Arrive(p)

Unpaired == {"args", "pair"}
Undealt == {"args", "pair", "deal"}

\* Before the devices are started nothing has arrived, before the lcores are
\* launched nothing has been sent, and only enabled ports are ever started.
QuietInv ==
    /\ phase \in Undealt => \A p \in Devs : device[p] = "down"
    /\ \A p \in Devs : device[p] # "down" => p \in EnabledPorts
    /\ \A p \in Devs : device[p] = "down" => rx_ring[p] = <<>> /\ arrived[p] = 0
    /\ phase \in Starting => \A p \in Devs : wire[p] = <<>>

\* In the start-up phases every transmit buffer is empty.
LEMMA StartingEmpty ==
    ASSUME IInv, phase \in Starting
    PROVE  \A p \in Devs : tx_buffer[p] = <<>>
<1>. SUFFICES ASSUME NEW p \in Devs PROVE tx_buffer[p] = <<>>
  OBVIOUS
<1>1. /\ stat_tx[p] \in Nat /\ stat_dropped[p] \in Nat /\ tx_buffer[p] \in Seq(Packet)
      /\ Len(tx_buffer[p]) \in Nat
  BY DEF IInv, TypeOK, PktTypeOK
<1>2. stat_tx[p] + stat_dropped[p] + Len(tx_buffer[p]) = 0
  BY DEF IInv, StatInv, Accounted
<1>3. Len(tx_buffer[p]) = 0
  BY <1>1, <1>2
<1>. QED
  BY <1>1, <1>3, EmptySeq

\* What the steps that move no packet leave alone.
Quiet ==
    /\ UNCHANGED <<rx_ring, arrived, wire, pkts_burst, tx_buffer>>
    /\ \A l \in Lcores : /\ pc'[l] = "fwd" <=> pc[l] = "fwd"
                         /\ pc[l] = "fwd" => i'[l] = i[l] /\ rx_port_list'[l] = rx_port_list[l]
    /\ phase \notin Unpaired =>
        phase' \notin Unpaired /\ UNCHANGED <<mask, mac_updating, dst_ports>>
    /\ phase = "pair" => UNCHANGED <<mask, mac_updating>>
    /\ phase' \in Undealt => phase \in Undealt /\ device' = device
    /\ \A p \in Devs : /\ device'[p] = "down" => device[p] = "down"
                       /\ device'[p] # "down" => device[p] # "down" \/ p \in EnabledPorts
    /\ phase' \in Starting => phase \in Starting

LEMMA QuietStep ==
    ASSUME IInv, [Next]_vars, ~Moves
    PROVE  Quiet
<1>. USE DEF Quiet, Unpaired, Undealt, Starting
<1>t. /\ pc \in [Lcores -> LcorePcs] /\ device \in [Devs -> {"down", "started", "closed"}]
      /\ tx_buffer \in [Devs -> Seq(Packet)] /\ todo \subseteq EnabledPorts /\ todo \subseteq Devs
      /\ (phase \in Starting => \A l \in Lcores : pc[l] = "wait")
  BY DEF IInv, TypeOK, LoopTypeOK, PktTypeOK, PairInv, LoopInv
<1>. USE DEF confVars, parseVars, pairVars, dealVars, loopVars, pktVars, bufVars
<1>0. CASE RteExit /\ phase \in Starting \ {"pair"}
  BY <1>0, <1>t DEF RteExit
<1>1. CASE UNCHANGED vars
  BY <1>1 DEF vars
<1>2. CASE ParseArgs
  BY <1>0, <1>2 DEF ParseArgs
<1>3. CASE Pair
  BY <1>3 DEF Pair
<1>4. CASE PairDone
  BY <1>4 DEF PairDone
<1>5. CASE Deal
  BY <1>0, <1>5, <1>t DEF Deal
<1>6. CASE DealDone
  BY <1>0, <1>6 DEF DealDone
<1>7. CASE InitPort
  <2>1. phase = "ports"
    BY <1>7 DEF InitPort
  <2>2. CASE RteExit
    BY <1>0, <2>1, <2>2
  <2>3. CASE ~RteExit
    <3>1. PICK p \in todo :
            /\ device' = [device EXCEPT ![p] = "started"]
            /\ tx_buffer' = [tx_buffer EXCEPT ![p] = <<>>]
            /\ UNCHANGED <<phase, confVars, loopVars, rx_ring, arrived, wire>>
      BY <1>7, <2>3 DEF InitPort
    <3>2. tx_buffer' = tx_buffer
      BY <1>t, <2>1, <3>1, StartingEmpty
    <3>3. \A q \in Devs : device'[q] = IF q = p THEN "started" ELSE device[q]
      BY <1>t, <3>1
    <3>. QED
      BY <1>t, <2>1, <3>1, <3>2, <3>3
  <2>. QED
    BY <2>2, <2>3
<1>8. CASE PortsDone
  BY <1>0, <1>8 DEF PortsDone
<1>9. CASE CheckLinks
  BY <1>9 DEF CheckLinks
<1>10. CASE WaitLcores \/ Return
  BY <1>10 DEF WaitLcores, Return
<1>11. CASE ClosePort
  BY <1>11, <1>t DEF ClosePort
<1>12. ASSUME NEW l \in Lcores, Launch(l) \/ LoopTop(l) \/ PrintPort(l) \/ PrintDone(l)
       PROVE  Quiet
  <2>1. LoopFrame /\ UNCHANGED <<i, pkts_burst, rx_ring, bufVars>>
    BY <1>12 DEF Launch, LoopTop, PrintPort, PrintDone
  <2>2. \A m \in Lcores : pc'[m] = "fwd" <=> pc[m] = "fwd"
    BY <1>12, <1>t DEF Launch, LoopTop, PrintPort, PrintDone
  <2>. QED
    BY <2>1, <2>2 DEF LoopFrame
<1>13. CASE \E l \in Lcores : Tick(l)
  BY <1>13 DEF Tick
<1>14. CASE signal_handler
  BY <1>14 DEF signal_handler
<1>15. CASE Terminated
  BY <1>15 DEF Terminated, vars
<1>. QED
  BY <1>1, <1>2, <1>3, <1>4, <1>5, <1>6, <1>7, <1>8, <1>9, <1>10, <1>11, <1>12, <1>13, <1>14, <1>15
  DEF Next, MainStep, LcoreStep, Moves

\* A step of an lcore that moves packets, with the port it works on.
LEMMA MoveFacts ==
    ASSUME IInv, NEW l \in Lcores, Drain(l) \/ RxBurst(l) \/ Forward(l)
    PROVE  /\ phase = "run" /\ phase \notin Starting /\ phase \notin Unpaired /\ phase \notin Undealt
           /\ UNCHANGED <<phase, mask, mac_updating, dst_ports, rx_port_list, device, arrived>>
           /\ EnabledPorts' = EnabledPorts
           /\ RxPort(l) \in EnabledPorts /\ RxPort(l) \in Devs
           /\ dst_ports[RxPort(l)] \in Devs /\ device[RxPort(l)] = "started"
<1>1. LoopFrame /\ pc[l] \in InLoop
  BY DEF Drain, RxBurst, Forward, InLoop
<1>2. /\ phase = "run" /\ RxPort(l) \in EnabledPorts /\ RxPort(l) \in Devs
      /\ dst_ports[RxPort(l)] \in Devs
  BY <1>1, OwnPort
<1>. QED
  BY <1>1, <1>2 DEF LoopFrame, confVars, parseVars, pairVars, dealVars, EnabledPorts, IInv,
     DeviceInv, Starting, Unpaired, Undealt

LEMMA QuietInvNext == IInv /\ QuietInv /\ [Next]_vars => QuietInv'
<1>. SUFFICES ASSUME IInv, QuietInv, [Next]_vars PROVE QuietInv'
  OBVIOUS
<1>1. CASE ~Moves
  <2>1. Quiet
    BY <1>1, QuietStep
  <2>2. CASE phase \in Unpaired
    <3>1. \A p \in Devs : device[p] = "down"
      BY <2>2 DEF QuietInv, Unpaired, Undealt
    <3>2. phase = "args" => EnabledPorts = {}
      BY DEF IInv, PairInv, EnabledPorts
    <3>3. \A p \in Devs : device'[p] # "down" => p \in EnabledPorts'
      BY <2>1, <2>2, <3>1, <3>2 DEF Quiet, Unpaired, EnabledPorts
    <3>. QED
      BY <2>1, <2>2, <3>1, <3>3 DEF Quiet, QuietInv
  <2>3. CASE phase \notin Unpaired
    BY <2>1, <2>3 DEF Quiet, QuietInv, EnabledPorts
  <2>. QED
    BY <2>2, <2>3
<1>2. ASSUME NEW l \in Lcores, Drain(l) \/ RxBurst(l) \/ Forward(l) PROVE QuietInv'
  <2>1. \A p \in Devs : device[p] = "down" => rx_ring'[p] = rx_ring[p]
    BY <1>2, MoveFacts DEF Drain, RxBurst, Forward, IInv, TypeOK, PktTypeOK
  <2>. QED
    BY <1>2, <2>1, MoveFacts DEF QuietInv
<1>3. ASSUME NEW p \in Devs, Arrive(p) PROVE QuietInv'
  <2>1. /\ UNCHANGED <<phase, device, wire>> /\ EnabledPorts' = EnabledPorts
        /\ device[p] = "started"
    BY <1>3 DEF Arrive, EnabledPorts, confVars, parseVars, bufVars
  <2>2. \A q \in Devs \ {p} : rx_ring'[q] = rx_ring[q] /\ arrived'[q] = arrived[q]
    BY <1>3 DEF Arrive, IInv, TypeOK, PktTypeOK
  <2>. QED
    BY <2>1, <2>2 DEF QuietInv
<1>. QED
  BY <1>1, <1>2, <1>3 DEF Moves

\* Nothing has arrived and nothing has been sent before the lcores start.
LEMMA Quietness == Spec => []QuietInv
<1>1. Init => QuietInv
  BY DEF Init, QuietInv
<1>. QED
  BY Invariance, <1>1, QuietInvNext, PTL DEF Spec

----------------------------------------------------------------------------
(* Headers *)

OrigHeader == NewPacket(0).hdr

\* The header a packet leaves port p with.
OutHeader(p) == IF mac_updating THEN [d |-> p, s_hi |-> p, s_lo |-> p] ELSE OrigHeader

AllHdr(s, h) == \A k \in DOMAIN s : s[k].hdr = h

\* A packet has its own header until it is forwarded, and that of the port it
\* will leave by from then on.
HeaderInv ==
    /\ \A p \in Devs : AllHdr(rx_ring[p], OrigHeader)
    /\ \A l \in Lcores : AllHdr(pkts_burst[l], OrigHeader)
    /\ \A p \in Devs : AllHdr(tx_buffer[p], OutHeader(p)) /\ AllHdr(wire[p], OutHeader(p))

\* A header common to two sequences is common to their concatenation, and one
\* common to a sequence to its parts.
LEMMA AllHdrConcat ==
    ASSUME NEW s \in Seq(Packet), NEW t \in Seq(Packet), NEW h, AllHdr(s, h), AllHdr(t, h)
    PROVE  AllHdr(s \o t, h)
<1>. SUFFICES ASSUME NEW k \in DOMAIN (s \o t) PROVE (s \o t)[k].hdr = h
  BY DEF AllHdr
<1>1. Len(s) \in Nat /\ Len(t) \in Nat /\ k \in 1 .. (Len(s) + Len(t))
  BY ConcatProperties
<1>2. CASE k <= Len(s)
  BY <1>1, <1>2 DEF AllHdr
<1>3. CASE ~(k <= Len(s))
  <2>1. k - Len(s) \in 1 .. Len(t) /\ (s \o t)[k] = t[k - Len(s)]
    BY <1>1, <1>3
  <2>. QED
    BY <2>1 DEF AllHdr
<1>. QED
  BY <1>2, <1>3

LEMMA AllHdrPart ==
    ASSUME NEW s \in Seq(Packet), NEW m \in Nat \ {0}, NEW n \in Nat, n <= Len(s), NEW h,
           AllHdr(s, h)
    PROVE  AllHdr(SubSeq(s, m, n), h)
<1>. SUFFICES ASSUME NEW k \in DOMAIN SubSeq(s, m, n) PROVE SubSeq(s, m, n)[k].hdr = h
  BY DEF AllHdr
<1>1. k \in 1 .. (n - m + 1)
  OBVIOUS
<1>2. SubSeq(s, m, n)[k] = s[m + k - 1] /\ m + k - 1 \in DOMAIN s
  BY <1>1
<1>. QED
  BY <1>2 DEF AllHdr

LEMMA AllHdrAppend ==
    ASSUME NEW s \in Seq(Packet), NEW m \in Packet, NEW h, AllHdr(s, h), m.hdr = h
    PROVE  AllHdr(Append(s, m), h)
<1>. SUFFICES ASSUME NEW k \in DOMAIN Append(s, m) PROVE Append(s, m)[k].hdr = h
  BY DEF AllHdr
<1>1. k \in 1 .. (Len(s) + 1) /\ Append(s, m)[k] = IF k <= Len(s) THEN s[k] ELSE m
  OBVIOUS
<1>. QED
  BY <1>1 DEF AllHdr

\* The two stores leave nothing of the header a packet came with, and nothing
\* of the two octets that the first one writes too many.
LEMMA MacUpdatingHdr ==
    ASSUME NEW m \in Packet, NEW port \in Int
    PROVE  /\ l2fwd_mac_updating(m, port).hdr = [d |-> port, s_hi |-> port, s_lo |-> port]
           /\ l2fwd_mac_updating(m, port).id = m.id
  BY DEF Packet, Header, l2fwd_mac_updating, StoreDst, StoreSrc

\* A flush moves packets from the buffer of a port to its wire, in the same
\* order, and touches no other port.
LEMMA FlushMoves ==
    ASSUME PktTypeOK, NEW d \in Devs, NEW buffer \in Seq(Packet),
           rte_eth_tx_buffer_flush(d, buffer)
    PROVE  \E sent \in 0 .. Len(buffer) :
             /\ wire'[d] = wire[d] \o SubSeq(buffer, 1, sent) /\ tx_buffer'[d] = <<>>
             /\ \A p \in Devs \ {d} : wire'[p] = wire[p] /\ tx_buffer'[p] = tx_buffer[p]
  BY DEF rte_eth_tx_buffer_flush, PktTypeOK

LEMMA FlushHeaders ==
    ASSUME PktTypeOK, HeaderInv, UNCHANGED mac_updating, NEW d \in Devs,
           NEW buffer \in Seq(Packet), AllHdr(buffer, OutHeader(d)),
           rte_eth_tx_buffer_flush(d, buffer)
    PROVE  \A p \in Devs : AllHdr(tx_buffer'[p], OutHeader(p)') /\ AllHdr(wire'[p], OutHeader(p)')
<1>1. PICK sent \in 0 .. Len(buffer) :
        /\ wire'[d] = wire[d] \o SubSeq(buffer, 1, sent) /\ tx_buffer'[d] = <<>>
        /\ \A p \in Devs \ {d} : wire'[p] = wire[p] /\ tx_buffer'[p] = tx_buffer[p]
  BY FlushMoves
<1>2. \A p : OutHeader(p)' = OutHeader(p)
  BY DEF OutHeader
<1>3. SubSeq(buffer, 1, sent) \in Seq(Packet) /\ sent \in Nat /\ sent <= Len(buffer)
      /\ wire[d] \in Seq(Packet)
  BY DEF PktTypeOK
<1>4. AllHdr(SubSeq(buffer, 1, sent), OutHeader(d))
  BY <1>3, AllHdrPart
<1>5. AllHdr(wire'[d], OutHeader(d))
  BY <1>1, <1>3, <1>4, AllHdrConcat DEF HeaderInv
<1>6. AllHdr(tx_buffer'[d], OutHeader(d))
  BY <1>1 DEF AllHdr
<1>. QED
  BY <1>1, <1>2, <1>5, <1>6 DEF HeaderInv

LEMMA DrainHeaders ==
    ASSUME IInv, HeaderInv, NEW l \in Lcores, Drain(l)
    PROVE  HeaderInv'
<1>1. PICK d : d = DrainPort(l)
  OBVIOUS
<1>2. /\ d \in Devs /\ PktTypeOK /\ tx_buffer[d] \in Seq(Packet) /\ UNCHANGED mac_updating
  BY <1>1, MoveFacts DEF DrainPort, IInv, TypeOK, PktTypeOK
<1>3. rte_eth_tx_buffer_flush(d, tx_buffer[d]) /\ UNCHANGED <<pkts_burst, rx_ring>>
  BY <1>1 DEF Drain
<1>4. \A p \in Devs : AllHdr(tx_buffer'[p], OutHeader(p)') /\ AllHdr(wire'[p], OutHeader(p)')
  BY <1>2, <1>3, FlushHeaders DEF HeaderInv
<1>. QED
  BY <1>3, <1>4 DEF HeaderInv

LEMMA RxBurstHeaders ==
    ASSUME IInv, HeaderInv, NEW l \in Lcores, RxBurst(l)
    PROVE  HeaderInv'
<1>1. PICK p : p = RxPort(l)
  OBVIOUS
<1>2. PICK n : n = IF Len(rx_ring[p]) < MaxPktBurst THEN Len(rx_ring[p]) ELSE MaxPktBurst
  OBVIOUS
<1>3. /\ p \in Devs /\ rx_ring[p] \in Seq(Packet) /\ Len(rx_ring[p]) \in Nat
      /\ pkts_burst \in [Lcores -> Seq(Packet)] /\ rx_ring \in [Devs -> Seq(Packet)]
      /\ UNCHANGED mac_updating
  BY <1>1, MoveFacts DEF IInv, TypeOK, PktTypeOK, LoopTypeOK
<1>4. n \in Nat /\ n <= Len(rx_ring[p])
  BY <1>2, <1>3, ConfigAssumption
<1>5. /\ pkts_burst' = [pkts_burst EXCEPT ![l] = SubSeq(rx_ring[p], 1, n)]
      /\ rx_ring' = [rx_ring EXCEPT ![p] = SubSeq(@, n + 1, Len(@))]
      /\ UNCHANGED <<wire, tx_buffer>>
  BY <1>1, <1>2 DEF RxBurst, bufVars
<1>6. AllHdr(SubSeq(rx_ring[p], 1, n), OrigHeader)
  BY <1>3, <1>4, AllHdrPart DEF HeaderInv
<1>7. AllHdr(SubSeq(rx_ring[p], n + 1, Len(rx_ring[p])), OrigHeader)
  <2>1. n + 1 \in Nat \ {0}
    BY <1>4
  <2>. QED
    BY <1>3, <2>1, AllHdrPart DEF HeaderInv
<1>. QED
  BY <1>3, <1>5, <1>6, <1>7 DEF HeaderInv, OutHeader

LEMMA ForwardHeaders ==
    ASSUME IInv, HeaderInv, NEW l \in Lcores, Forward(l)
    PROVE  HeaderInv'
<1>1. PICK d : d = dst_ports[RxPort(l)]
  OBVIOUS
<1>2. PICK head : head = Head(pkts_burst[l])
  OBVIOUS
<1>3. PICK pkt : pkt = IF mac_updating THEN l2fwd_mac_updating(head, d) ELSE head
  OBVIOUS
<1>4. /\ rte_eth_tx_buffer(d, pkt) /\ pkts_burst' = [pkts_burst EXCEPT ![l] = Tail(@)]
      /\ UNCHANGED rx_ring
  BY <1>1, <1>2, <1>3 DEF Forward
<1>5. /\ d \in Devs /\ PktTypeOK /\ tx_buffer[d] \in Seq(Packet) /\ UNCHANGED mac_updating
      /\ tx_buffer \in [Devs -> Seq(Packet)]
      /\ pkts_burst \in [Lcores -> Seq(Packet)] /\ pkts_burst[l] # <<>>
  BY <1>1, MoveFacts DEF IInv, TypeOK, PktTypeOK, LoopTypeOK, LoopInv, Forward
<1>6. head \in Packet /\ head.hdr = OrigHeader
  <2>1. head = pkts_burst[l][1] /\ 1 \in DOMAIN pkts_burst[l] /\ head \in Packet
    BY <1>2, <1>5
  <2>. QED
    BY <2>1 DEF HeaderInv, AllHdr
<1>7. d \in Int
  BY <1>5, DevsAreInts
<1>8. pkt \in Packet /\ pkt.hdr = OutHeader(d)
  BY <1>3, <1>6, <1>7, MacUpdatingType, MacUpdatingHdr DEF OutHeader
<1>9. PICK buffer : buffer = Append(tx_buffer[d], pkt)
  OBVIOUS
<1>10. buffer \in Seq(Packet) /\ AllHdr(buffer, OutHeader(d))
  BY <1>5, <1>8, <1>9, AllHdrAppend DEF HeaderInv
<1>11. \A p \in Devs : AllHdr(tx_buffer'[p], OutHeader(p)') /\ AllHdr(wire'[p], OutHeader(p)')
  <2>1. CASE Len(buffer) < MaxPktBurst
    <3>1. tx_buffer' = [tx_buffer EXCEPT ![d] = buffer] /\ UNCHANGED wire
      BY <1>4, <1>9, <2>1 DEF rte_eth_tx_buffer
    <3>2. \A p : OutHeader(p)' = OutHeader(p)
      BY <1>5 DEF OutHeader
    <3>3. tx_buffer'[d] = buffer /\ \A p \in Devs \ {d} : tx_buffer'[p] = tx_buffer[p]
      BY <1>5, <3>1
    <3>. QED
      BY <1>10, <3>1, <3>2, <3>3 DEF HeaderInv
  <2>2. CASE ~(Len(buffer) < MaxPktBurst)
    <3>1. rte_eth_tx_buffer_flush(d, buffer)
      BY <1>4, <1>9, <2>2 DEF rte_eth_tx_buffer
    <3>. QED
      BY <1>5, <1>10, <3>1, FlushHeaders
  <2>. QED
    BY <2>1, <2>2
<1>12. AllHdr(Tail(pkts_burst[l]), OrigHeader)
  <2>1. Tail(pkts_burst[l]) = SubSeq(pkts_burst[l], 2, Len(pkts_burst[l]))
    BY <1>5, TailIsSubSeq
  <2>2. PICK n : n = Len(pkts_burst[l])
    OBVIOUS
  <2>3. pkts_burst[l] \in Seq(Packet) /\ n \in Nat /\ n <= Len(pkts_burst[l])
    BY <1>5, <2>2
  <2>4. AllHdr(SubSeq(pkts_burst[l], 2, n), OrigHeader)
    BY <2>3, AllHdrPart DEF HeaderInv
  <2>. QED
    BY <2>1, <2>2, <2>4
<1>. QED
  BY <1>4, <1>5, <1>11, <1>12 DEF HeaderInv

LEMMA ArriveHeaders ==
    ASSUME IInv, HeaderInv, NEW p \in Devs, Arrive(p)
    PROVE  HeaderInv'
<1>1. PICK m : m = NewPacket(arrived[p] + 1)
  OBVIOUS
<1>2. /\ rx_ring \in [Devs -> Seq(Packet)] /\ rx_ring[p] \in Seq(Packet)
      /\ m \in Packet /\ m.hdr = OrigHeader
  BY <1>1, NewPacketType DEF IInv, TypeOK, PktTypeOK, NewPacket, OrigHeader
<1>3. /\ rx_ring' = [rx_ring EXCEPT ![p] = IF Len(@) < RxDesc THEN Append(@, m) ELSE @]
      /\ UNCHANGED <<pkts_burst, wire, tx_buffer, mac_updating>>
  BY <1>1 DEF Arrive, bufVars, loopVars, confVars, parseVars
<1>4. AllHdr(Append(rx_ring[p], m), OrigHeader)
  BY <1>2, AllHdrAppend DEF HeaderInv
<1>. QED
  BY <1>2, <1>3, <1>4 DEF HeaderInv, OutHeader

LEMMA HeaderInvNext == IInv /\ QuietInv /\ HeaderInv /\ [Next]_vars => HeaderInv'
<1>. SUFFICES ASSUME IInv, QuietInv, HeaderInv, [Next]_vars PROVE HeaderInv'
  OBVIOUS
<1>1. CASE ~Moves
  <2>1. Quiet
    BY <1>1, QuietStep
  <2>2. CASE phase = "args"
    <3>1. \A p \in Devs : wire[p] = <<>> /\ tx_buffer[p] = <<>>
      BY <2>2, StartingEmpty DEF QuietInv, Starting
    <3>2. \A p \in Devs : wire'[p] = <<>> /\ tx_buffer'[p] = <<>>
      BY <2>1, <3>1 DEF Quiet
    <3>. QED
      BY <2>1, <3>2 DEF Quiet, HeaderInv, AllHdr
  <2>3. CASE phase # "args"
    BY <2>1, <2>3 DEF Quiet, HeaderInv, OutHeader, Unpaired
  <2>. QED
    BY <2>2, <2>3
<1>. QED
  BY <1>1, DrainHeaders, RxBurstHeaders, ForwardHeaders, ArriveHeaders DEF Moves

\* Every packet leaves with the destination and the whole source address of
\* the port it leaves by, or untouched without MAC updating: the two octets
\* that the long store of l2fwd_mac_updating clears never reach the wire.
THEOREM HeadersCorrect == Spec => []HeadersRewritten
<1>1. Init => HeaderInv
  BY DEF Init, HeaderInv, AllHdr
<1>2. HeaderInv => HeadersRewritten
  <2>. SUFFICES ASSUME HeaderInv, NEW p \in Devs, NEW k \in DOMAIN wire[p]
                PROVE  wire[p][k].hdr = IF mac_updating THEN [d |-> p, s_hi |-> p, s_lo |-> p]
                                        ELSE NewPacket(0).hdr
    BY Zenon DEF HeadersRewritten
  <2>1. wire[p][k].hdr = OutHeader(p)
    BY DEF HeaderInv, AllHdr
  <2>. QED
    BY <2>1, Zenon DEF OutHeader, OrigHeader
<1>. QED
  BY Invariance, Quietness, HeaderInvNext, <1>1, <1>2, PTL DEF Spec

----------------------------------------------------------------------------
(* Each direction is a lossy link *)

Out(p) == IF Linked(p) THEN Ids(wire[dst_ports[p]]) ELSE <<>>

\* What a step of l2fwd has to do to be one of the link.
LEMMA LinkStutter ==
    ASSUME NEW p \in Devs, UNCHANGED <<arrived[p], Queue(p), Out(p)>>
    PROVE  LinkStep(p)
  BY DEF LinkStep, Link!vars, Out

LEMMA LinkArrive ==
    ASSUME NEW p \in Devs, arrived'[p] = arrived[p] + 1, Out(p)' = Out(p),
           Queue(p)' \in {Queue(p), Append(Queue(p), arrived[p] + 1)}
    PROVE  LinkStep(p)
  BY DEF LinkStep, Link!Next, Link!Arrive, Out

LEMMA LinkDepart ==
    ASSUME NEW p \in Devs, arrived'[p] = arrived[p],
           NEW k \in 1 .. Len(Queue(p)), NEW j \in 0 .. k,
           Out(p)' = Out(p) \o SubSeq(Queue(p), 1, j),
           Queue(p)' = SubSeq(Queue(p), k + 1, Len(Queue(p)))
    PROVE  LinkStep(p)
  BY DEF LinkStep, Link!Next, Link!Depart, Out

\* Ids keeps the shape of a sequence of packets.
LEMMA IdsFacts ==
    ASSUME NEW s \in Seq(Packet)
    PROVE  /\ Ids(s) \in Seq(Nat) /\ Len(Ids(s)) = Len(s)
           /\ \A k \in 1 .. Len(s) : Ids(s)[k] = s[k].id /\ s[k].id \in Nat
<1>1. Len(s) \in Nat /\ DOMAIN s = 1 .. Len(s) /\ \A k \in 1 .. Len(s) : s[k] \in Packet
  OBVIOUS
<1>2. \A k \in 1 .. Len(s) : s[k].id \in Nat
  BY <1>1 DEF Packet
<1>3. [k \in 1 .. Len(s) |-> s[k].id] \in Seq(Nat)
  BY <1>1, <1>2
<1>. QED
  BY <1>1, <1>2, <1>3 DEF Ids

LEMMA IdsConcat ==
    ASSUME NEW s \in Seq(Packet), NEW t \in Seq(Packet)
    PROVE  Ids(s \o t) = Ids(s) \o Ids(t)
<1>1. PICK u : u = s \o t
  OBVIOUS
<1>2. u \in Seq(Packet) /\ Len(u) = Len(s) + Len(t)
  BY <1>1
<1>3. PICK a : a = Ids(s)
  OBVIOUS
<1>4. PICK b : b = Ids(t)
  OBVIOUS
<1>5. /\ a \in Seq(Nat) /\ Len(a) = Len(s) /\ \A k \in 1 .. Len(s) : a[k] = s[k].id
      /\ b \in Seq(Nat) /\ Len(b) = Len(t) /\ \A k \in 1 .. Len(t) : b[k] = t[k].id
      /\ Ids(u) \in Seq(Nat) /\ Len(Ids(u)) = Len(u)
      /\ \A k \in 1 .. Len(u) : Ids(u)[k] = u[k].id
  BY <1>2, <1>3, <1>4, IdsFacts
<1>6. a \o b \in Seq(Nat) /\ Len(a \o b) = Len(u) /\ Len(s) \in Nat /\ Len(t) \in Nat
  <2>1. Len(a \o b) = Len(a) + Len(b) /\ a \o b \in Seq(Nat)
    BY <1>5, ConcatProperties
  <2>. QED
    BY <1>2, <1>5, <2>1
<1>7. ASSUME NEW k \in 1 .. Len(u) PROVE Ids(u)[k] = (a \o b)[k]
  <2>a. k \in 1 .. (Len(a) + Len(b)) /\ k \in 1 .. (Len(s) + Len(t)) /\ k \in Nat
    BY <1>2, <1>5, <1>6
  <2>b. u[k] = IF k <= Len(s) THEN s[k] ELSE t[k - Len(s)]
    BY <1>1, <2>a, ConcatProperties
  <2>c. (a \o b)[k] = IF k <= Len(a) THEN a[k] ELSE b[k - Len(a)]
    BY <1>5, <2>a, ConcatProperties
  <2>d. Ids(u)[k] = u[k].id
    BY <1>5
  <2>0. /\ k \in 1 .. (Len(s) + Len(t)) /\ Ids(u)[k] = u[k].id
        /\ u[k] = IF k <= Len(s) THEN s[k] ELSE t[k - Len(s)]
        /\ (a \o b)[k] = IF k <= Len(s) THEN a[k] ELSE b[k - Len(s)]
    BY <1>5, <2>a, <2>b, <2>c, <2>d
  <2>1. CASE k <= Len(s)
    BY <1>5, <2>a, <2>0, <2>1
  <2>2. CASE ~(k <= Len(s))
    <3>1. k - Len(s) \in 1 .. Len(t) /\ u[k] = t[k - Len(s)] /\ (a \o b)[k] = b[k - Len(s)]
      BY <1>5, <1>6, <2>0, <2>2
    <3>. QED
      BY <1>5, <2>d, <3>1
  <2>. QED
    BY <2>1, <2>2
<1>8. Ids(u) = a \o b
  BY <1>5, <1>6, <1>7, SeqEqual
<1>. QED
  BY <1>1, <1>3, <1>4, <1>8

LEMMA IdsPart ==
    ASSUME NEW s \in Seq(Packet), NEW m \in Nat \ {0}, NEW n \in Nat, n <= Len(s)
    PROVE  Ids(SubSeq(s, m, n)) = SubSeq(Ids(s), m, n)
<1>1. PICK a : a = Ids(s)
  OBVIOUS
<1>2. PICK u : u = SubSeq(s, m, n)
  OBVIOUS
<1>3. /\ a \in Seq(Nat) /\ Len(a) = Len(s) /\ \A k \in 1 .. Len(s) : a[k] = s[k].id
  BY <1>1, IdsFacts
<1>4. u \in Seq(Packet) /\ Len(u) = IF m <= n THEN n - m + 1 ELSE 0
  BY <1>2
<1>5. /\ Ids(u) \in Seq(Nat) /\ Len(Ids(u)) = Len(u)
      /\ \A k \in 1 .. Len(u) : Ids(u)[k] = u[k].id
  BY <1>4, IdsFacts
<1>6. SubSeq(a, m, n) \in Seq(Nat) /\ Len(SubSeq(a, m, n)) = Len(u)
  BY <1>3, <1>4
<1>7. ASSUME NEW k \in 1 .. Len(u) PROVE Ids(u)[k] = SubSeq(a, m, n)[k]
  <2>1. m <= n /\ m + k - 1 \in 1 .. Len(s)
    BY <1>4
  <2>2. u[k] = s[m + k - 1] /\ SubSeq(a, m, n)[k] = a[m + k - 1]
    BY <1>2, <1>3, <1>4, <2>1
  <2>. QED
    BY <1>3, <1>5, <2>1, <2>2
<1>8. Ids(u) = SubSeq(a, m, n)
  BY <1>5, <1>6, <1>7, SeqEqual
<1>. QED
  BY <1>1, <1>2, <1>8

LEMMA IdsAppend ==
    ASSUME NEW s \in Seq(Packet), NEW m \in Packet
    PROVE  Ids(Append(s, m)) = Append(Ids(s), m.id)
<1>1. PICK a : a = Ids(s)
  OBVIOUS
<1>2. PICK u : u = Append(s, m)
  OBVIOUS
<1>3. /\ a \in Seq(Nat) /\ Len(a) = Len(s) /\ \A k \in 1 .. Len(s) : a[k] = s[k].id
      /\ m.id \in Nat
  BY <1>1, IdsFacts DEF Packet
<1>4. u \in Seq(Packet) /\ Len(u) = Len(s) + 1 /\ Len(s) \in Nat
  BY <1>2
<1>5. /\ Ids(u) \in Seq(Nat) /\ Len(Ids(u)) = Len(u)
      /\ \A k \in 1 .. Len(u) : Ids(u)[k] = u[k].id
  BY <1>4, IdsFacts
<1>6. Append(a, m.id) \in Seq(Nat) /\ Len(Append(a, m.id)) = Len(u)
  BY <1>3, <1>4
<1>7. ASSUME NEW k \in 1 .. Len(u) PROVE Ids(u)[k] = Append(a, m.id)[k]
  <2>1. /\ u[k] = IF k <= Len(s) THEN s[k] ELSE m
        /\ Append(a, m.id)[k] = IF k <= Len(s) THEN a[k] ELSE m.id
    BY <1>2, <1>3, <1>4
  <2>2. CASE k <= Len(s)
    <3>1. k \in 1 .. Len(s) /\ Ids(u)[k] = u[k].id
      BY <1>4, <1>5, <2>2
    <3>. QED
      BY <1>3, <2>1, <2>2, <3>1
  <2>3. CASE ~(k <= Len(s))
    BY <1>5, <2>1, <2>3
  <2>. QED
    BY <2>2, <2>3
<1>8. Ids(u) = Append(a, m.id)
  BY <1>5, <1>6, <1>7, SeqEqual
<1>. QED
  BY <1>1, <1>2, <1>8

\* The front of a queue leaves it.
LEMMA SplitQueue ==
    ASSUME NEW x \in Seq(Nat), NEW y \in Seq(Nat), NEW j \in 0 .. Len(x)
    PROVE  /\ SubSeq(x \o y, 1, j) = SubSeq(x, 1, j)
           /\ SubSeq(x \o y, Len(x) + 1, Len(x \o y)) = y
<1>1. PICK u : u = x \o y
  OBVIOUS
<1>2. PICK n : n = Len(x)
  OBVIOUS
<1>3. PICK r : r = Len(y)
  OBVIOUS
<1>4. /\ u \in Seq(Nat) /\ Len(u) = n + r /\ n \in Nat /\ r \in Nat /\ j \in Nat /\ j <= n
      /\ \A k \in 1 .. n : u[k] = x[k]
      /\ \A k \in 1 .. r : u[n + k] = y[k]
  BY <1>1, <1>2, <1>3
<1>5. SubSeq(u, 1, j) = SubSeq(x, 1, j)
  <2>1. /\ SubSeq(u, 1, j) \in Seq(Nat) /\ Len(SubSeq(u, 1, j)) = j
        /\ SubSeq(x, 1, j) \in Seq(Nat) /\ Len(SubSeq(x, 1, j)) = j
        /\ \A k \in 1 .. j : SubSeq(u, 1, j)[k] = u[k] /\ SubSeq(x, 1, j)[k] = x[k]
    BY <1>2, <1>4, SMTT(30)
  <2>2. \A k \in 1 .. j : u[k] = x[k]
    BY <1>4
  <2>. QED
    BY <2>1, <2>2, SeqEqual
<1>6. SubSeq(u, n + 1, n + r) = y
  <2>1. PICK v : v = SubSeq(u, n + 1, n + r)
    OBVIOUS
  <2>2. v \in Seq(Nat) /\ Len(v) = r /\ \A k \in 1 .. r : v[k] = u[n + k]
    BY <1>4, <2>1
  <2>. QED
    BY <1>3, <1>4, <2>1, <2>2, SeqEqual
<1>. QED
  BY <1>1, <1>2, <1>4, <1>5, <1>6

\* The packets in hand for a port are those of the one lcore that forwards
\* for it.
LEMMA HeldFacts ==
    ASSUME IInv, NEW p \in Devs
    PROVE  /\ \A l \in Lcores : Forwarding(l, p) => Held(p) = pkts_burst[l]
           /\ (\A l \in Lcores : ~Forwarding(l, p)) => Held(p) = <<>>
           /\ Held(p) \in Seq(Packet)
<1>1. ASSUME NEW l \in Lcores, Forwarding(l, p) PROVE Held(p) = pkts_burst[l]
  <2>1. \A m \in Lcores : Forwarding(m, p) => m = l
    BY <1>1, Exclusive DEF Forwarding, InLoop
  <2>2. InHand(p) = {l}
    BY <1>1, <2>1 DEF InHand
  <2>. QED
    BY <2>2 DEF Held
<1>2. ASSUME \A l \in Lcores : ~Forwarding(l, p) PROVE Held(p) = <<>>
  BY <1>2 DEF Held, InHand
<1>3. Held(p) \in Seq(Packet)
  <2>1. pkts_burst \in [Lcores -> Seq(Packet)] /\ <<>> \in Seq(Packet)
    BY DEF IInv, TypeOK, LoopTypeOK
  <2>2. CASE \E l \in Lcores : Forwarding(l, p)
    BY <1>1, <2>1, <2>2
  <2>3. CASE \A l \in Lcores : ~Forwarding(l, p)
    BY <1>2, <2>1, <2>3
  <2>. QED
    BY <2>2, <2>3
<1>. QED
  BY <1>1, <1>2, <1>3

\* The queue of a link is made of three.
LEMMA QueueParts ==
    ASSUME IInv, NEW p \in Devs, Linked(p)
    PROVE  /\ dst_ports[p] \in Devs
           /\ tx_buffer[dst_ports[p]] \in Seq(Packet) /\ Held(p) \in Seq(Packet)
           /\ rx_ring[p] \in Seq(Packet) /\ wire[dst_ports[p]] \in Seq(Packet)
           /\ Queue(p) = Ids(tx_buffer[dst_ports[p]]) \o (Ids(Held(p)) \o Ids(rx_ring[p]))
           /\ Out(p) = Ids(wire[dst_ports[p]])
<1>1. dst_ports[p] \in Devs
  BY DEF Linked, IInv, PairInv, PortsPaired, EnabledPorts
<1>2. PICK a : a = tx_buffer[dst_ports[p]]
  OBVIOUS
<1>3. PICK b : b = Held(p)
  OBVIOUS
<1>4. PICK c : c = rx_ring[p]
  OBVIOUS
<1>5. a \in Seq(Packet) /\ b \in Seq(Packet) /\ c \in Seq(Packet) /\ a \o b \in Seq(Packet)
  <2>1. a \in Seq(Packet) /\ b \in Seq(Packet) /\ c \in Seq(Packet)
    BY <1>1, <1>2, <1>3, <1>4, HeldFacts DEF IInv, TypeOK, PktTypeOK
  <2>. QED
    BY <2>1, ConcatProperties
<1>6. Ids((a \o b) \o c) = (Ids(a) \o Ids(b)) \o Ids(c)
  BY <1>5, IdsConcat
<1>7. (Ids(a) \o Ids(b)) \o Ids(c) = Ids(a) \o (Ids(b) \o Ids(c))
  BY <1>5, IdsFacts, ConcatAssociative, SMTT(30)
<1>8. Queue(p) = Ids((a \o b) \o c)
  BY <1>2, <1>3, <1>4 DEF Queue
<1>9. wire[dst_ports[p]] \in Seq(Packet)
  BY <1>1 DEF IInv, TypeOK, PktTypeOK
<1>. QED
  BY <1>1, <1>2, <1>3, <1>4, <1>5, <1>6, <1>7, <1>8, <1>9 DEF Out

\* The same facts after a step.
HeldForm ==
    \A p \in Devs :
        /\ \A l \in Lcores : Forwarding(l, p) => Held(p) = pkts_burst[l]
        /\ (\A l \in Lcores : ~Forwarding(l, p)) => Held(p) = <<>>

QueueForm ==
    \A p \in Devs : Linked(p) =>
        /\ Queue(p) = Ids(tx_buffer[dst_ports[p]]) \o (Ids(Held(p)) \o Ids(rx_ring[p]))
        /\ Out(p) = Ids(wire[dst_ports[p]])

LEMMA NextForms == IInv' => HeldForm' /\ QueueForm'
<1>1. IInv => HeldForm
  BY HeldFacts DEF HeldForm
<1>2. IInv => QueueForm
  BY QueueParts DEF QueueForm
<1>. QED
  BY <1>1, <1>2, PTL

LEMMA IdsEmpty == Ids(<<>>) = <<>>
  BY DEF Ids

\* A port whose packets do not move: its link stutters.
LEMMA SamePort ==
    ASSUME NEW p \in Devs, Linked(p)' <=> Linked(p), arrived'[p] = arrived[p],
           Linked(p) => /\ dst_ports'[p] = dst_ports[p]
                        /\ tx_buffer'[dst_ports[p]] = tx_buffer[dst_ports[p]]
                        /\ wire'[dst_ports[p]] = wire[dst_ports[p]]
                        /\ rx_ring'[p] = rx_ring[p] /\ Held(p)' = Held(p)
    PROVE  LinkStep(p)
<1>1. Queue(p)' = Queue(p) /\ Out(p)' = Out(p)
  <2>1. CASE Linked(p)
    BY <2>1 DEF Queue, Out
  <2>2. CASE ~Linked(p)
    BY <2>2 DEF Queue, Out
  <2>. QED
    BY <2>1, <2>2
<1>. QED
  BY <1>1, LinkStutter

\* The packets in hand for a port change hands with the lcores only.
LEMMA SameHeld ==
    ASSUME IInv, IInv', NEW p \in Devs,
           \A l \in Lcores : /\ Forwarding(l, p)' <=> Forwarding(l, p)
                             /\ Forwarding(l, p) => pkts_burst'[l] = pkts_burst[l]
    PROVE  Held(p)' = Held(p)
<1>1. InHand(p)' = InHand(p)
  BY DEF InHand
<1>2. CASE InHand(p) = {}
  BY <1>1, <1>2 DEF Held
<1>3. CASE InHand(p) # {}
  <2>1. PICK l \in Lcores : l = (CHOOSE x \in InHand(p) : TRUE) /\ Forwarding(l, p)
    BY <1>3 DEF InHand
  <2>2. Held(p) = pkts_burst[l] /\ Held(p)' = pkts_burst'[l]
    BY <1>1, <1>3, <2>1 DEF Held
  <2>. QED
    BY <2>1, <2>2
<1>. QED
  BY <1>2, <1>3

LEMMA QuietLink ==
    ASSUME IInv, IInv', QuietInv, QuietInv', Quiet, NEW p \in Devs
    PROVE  LinkStep(p)
<1>1. \A l \in Lcores : /\ Forwarding(l, p)' <=> Forwarding(l, p)
                        /\ pkts_burst'[l] = pkts_burst[l]
  BY DEF Quiet, Forwarding, RxPort
<1>2. Held(p)' = Held(p)
  BY <1>1, SameHeld
<1>3. CASE phase \notin Unpaired
  <2>1. Linked(p)' <=> Linked(p)
    BY <1>3 DEF Quiet, Linked, EnabledPorts, Unpaired
  <2>. QED
    BY <1>2, <1>3, <2>1, SamePort DEF Quiet
<1>4. CASE phase \in Unpaired
  <2>1. phase \in Undealt /\ phase \in Starting
    BY <1>4 DEF Unpaired, Undealt, Starting
  <2>2. \A q \in Devs : /\ rx_ring[q] = <<>> /\ arrived[q] = 0 /\ wire[q] = <<>>
                        /\ tx_buffer[q] = <<>>
    BY <2>1, StartingEmpty DEF QuietInv
  <2>3. Held(p) = <<>>
    BY <2>1, HeldFacts DEF IInv, LoopInv, Forwarding
  <2>4. Queue(p) = <<>> /\ Out(p) = <<>>
    BY <1>4 DEF Queue, Out, Linked, Unpaired
  <2>5. Queue(p)' = <<>> /\ Out(p)' = <<>>
    <3>1. CASE Linked(p)'
      <4>1. dst_ports'[p] \in Devs
        BY <3>1 DEF Linked, IInv, PairInv, PortsPaired, EnabledPorts
      <4>2. /\ tx_buffer'[dst_ports'[p]] = <<>> /\ Held(p)' = <<>> /\ rx_ring'[p] = <<>>
            /\ wire'[dst_ports'[p]] = <<>>
        BY <1>2, <2>2, <2>3, <4>1 DEF Quiet
      <4>3. (<<>> \o <<>>) \o <<>> = <<>>
        OBVIOUS
      <4>. QED
        BY <3>1, <4>2, <4>3, IdsEmpty DEF Queue, Out
    <3>2. CASE ~Linked(p)'
      BY <3>2 DEF Queue, Out
    <3>. QED
      BY <3>1, <3>2
  <2>. QED
    BY <2>4, <2>5, LinkStutter DEF Quiet
<1>. QED
  BY <1>3, <1>4

\* A flush of the front x of the queue of a link, with y behind it: the driver
\* takes the first packets of x and the rest of x is dropped.
LEMMA FlushLink ==
    ASSUME NEW p \in Devs, arrived'[p] = arrived[p], NEW x \in Seq(Nat), NEW y \in Seq(Nat),
           NEW sent \in 0 .. Len(x),
           Queue(p) = x \o y, Queue(p)' = y, Out(p)' = Out(p) \o SubSeq(x, 1, sent),
           Out(p) \in Seq(Nat)
    PROVE  LinkStep(p)
<1>1. SubSeq(x \o y, 1, sent) = SubSeq(x, 1, sent)
      /\ SubSeq(x \o y, Len(x) + 1, Len(x \o y)) = y
  BY SplitQueue
<1>2. Len(x) \in Nat /\ Len(x \o y) = Len(x) + Len(y) /\ Len(y) \in Nat
  BY ConcatProperties
<1>3. CASE Len(x) = 0
  <2>1. x = <<>> /\ SubSeq(x, 1, sent) = <<>>
    BY <1>3, EmptySeq
  <2>2. Queue(p)' = Queue(p) /\ Out(p)' = Out(p)
    BY <2>1, ConcatEmptySeq
  <2>. QED
    BY <2>2, LinkStutter
<1>4. CASE Len(x) # 0
  <2>1. PICK k : k = Len(x)
    OBVIOUS
  <2>2. k \in 1 .. Len(Queue(p)) /\ sent \in 0 .. k
    BY <1>2, <1>4, <2>1
  <2>. QED
    BY <1>1, <2>1, <2>2, LinkDepart
<1>. QED
  BY <1>3, <1>4

\* What a moving lcore leaves alone: the hands of the others, and the ports
\* it does not work on.
LEMMA MoveFrame ==
    ASSUME IInv, NEW l \in Lcores, Drain(l) \/ RxBurst(l) \/ Forward(l)
    PROVE  /\ OnlyMoves(l)
           /\ pc'[l] = "fwd" => i'[l] = i[l]
           /\ \A p \in Devs \ {RxPort(l)} : rx_ring'[p] = rx_ring[p]
           /\ \A d \in Devs \ {dst_ports[RxPort(l)]} :
                tx_buffer'[d] = tx_buffer[d] /\ wire'[d] = wire[d]
<1>0. /\ dst_ports[RxPort(l)] \in Devs /\ PktTypeOK
      /\ pc \in [Lcores -> LcorePcs] /\ i \in [Lcores -> Nat \ {0}]
      /\ pkts_burst \in [Lcores -> Seq(Packet)] /\ rx_ring \in [Devs -> Seq(Packet)]
      /\ tx_buffer \in [Devs -> Seq(Packet)] /\ wire \in [Devs -> Seq(Packet)]
  BY MoveFacts DEF IInv, TypeOK, LoopTypeOK, PktTypeOK
<1>. DEFINE d0 == dst_ports[RxPort(l)]
<1>. HIDE DEF d0
<1>1. \A buffer : rte_eth_tx_buffer_flush(d0, buffer) =>
        \A d \in Devs \ {d0} : tx_buffer'[d] = tx_buffer[d] /\ wire'[d] = wire[d]
  BY <1>0 DEF rte_eth_tx_buffer_flush
<1>2. ASSUME NEW next \in {"rx", "print", "top"}, Advance(l, next), pc[l] # "fwd"
      PROVE  /\ \A m \in Lcores \ {l} : pc'[m] = pc[m] /\ i'[m] = i[m]
             /\ pc'[l] # "fwd"
  BY <1>0, <1>2 DEF Advance
<1>3. CASE Drain(l)
  <2>1. /\ UNCHANGED <<pkts_burst, rx_ring>> /\ pc[l] # "fwd"
        /\ \E next \in {"rx", "print", "top"} : Advance(l, next)
        /\ rte_eth_tx_buffer_flush(d0, tx_buffer[d0])
    BY <1>3 DEF Drain, DrainPort, d0
  <2>. QED
    BY <1>1, <1>2, <2>1 DEF OnlyMoves, d0
<1>4. CASE RxBurst(l)
  <2>1. \A m \in Lcores \ {l} : pkts_burst'[m] = pkts_burst[m]
    BY <1>0, <1>4 DEF RxBurst
  <2>2. \A p \in Devs \ {RxPort(l)} : rx_ring'[p] = rx_ring[p]
    BY <1>0, <1>4 DEF RxBurst
  <2>3. UNCHANGED <<tx_buffer, wire>> /\ pc[l] # "fwd"
    BY <1>4 DEF RxBurst, bufVars
  <2>4. Advance(l, "top") \/ (pc' = [pc EXCEPT ![l] = "fwd"] /\ UNCHANGED i)
    BY <1>4 DEF RxBurst
  <2>5. /\ \A m \in Lcores \ {l} : pc'[m] = pc[m] /\ i'[m] = i[m]
        /\ pc'[l] = "fwd" => i'[l] = i[l]
    BY <1>0, <1>2, <2>3, <2>4
  <2>. QED
    BY <2>1, <2>2, <2>3, <2>5 DEF OnlyMoves
<1>5. CASE Forward(l)
  <2>1. PICK pkt : rte_eth_tx_buffer(d0, pkt)
    BY <1>5 DEF Forward, d0
  <2>2. \A d \in Devs \ {d0} : tx_buffer'[d] = tx_buffer[d] /\ wire'[d] = wire[d]
    BY <1>0, <1>1, <2>1 DEF rte_eth_tx_buffer
  <2>3. /\ rx_ring' = rx_ring /\ pkts_burst' = [pkts_burst EXCEPT ![l] = Tail(@)]
        /\ \/ UNCHANGED <<pc, i>>
           \/ \E next \in {"rx", "top"} : \E k :
                i' = [i EXCEPT ![l] = k] /\ pc' = [pc EXCEPT ![l] = next]
    BY <1>5 DEF Forward
  <2>4. /\ \A m \in Lcores \ {l} : pc'[m] = pc[m] /\ i'[m] = i[m]
        /\ pc'[l] = "fwd" => i'[l] = i[l]
    BY <1>0, <2>3
  <2>. QED
    BY <1>0, <2>2, <2>3, <2>4 DEF OnlyMoves, d0
<1>. QED
  BY <1>3, <1>4, <1>5

\* The links of the other ports stutter.
LEMMA OtherLinks ==
    ASSUME IInv, IInv', NEW l \in Lcores, Drain(l) \/ RxBurst(l) \/ Forward(l),
           NEW p \in Devs, p # RxPort(l)
    PROVE  LinkStep(p)
<1>1. /\ UNCHANGED <<phase, mask, mac_updating, dst_ports, rx_port_list, device, arrived>>
      /\ EnabledPorts' = EnabledPorts /\ RxPort(l) \in EnabledPorts /\ phase = "run"
  BY MoveFacts
<1>2. \A m \in Lcores : /\ Forwarding(m, p)' <=> Forwarding(m, p)
                        /\ Forwarding(m, p) => pkts_burst'[m] = pkts_burst[m]
  <2>1. \A m \in Lcores \ {l} : /\ Forwarding(m, p)' <=> Forwarding(m, p)
                                /\ pkts_burst'[m] = pkts_burst[m]
    BY <1>1, MoveFrame DEF OnlyMoves, Forwarding, RxPort
  <2>2. ~Forwarding(l, p) /\ ~Forwarding(l, p)'
    BY <1>1, MoveFrame DEF Forwarding, RxPort
  <2>. QED
    BY <2>1, <2>2
<1>3. Held(p)' = Held(p)
  BY <1>2, SameHeld
<1>4. rx_ring'[p] = rx_ring[p] /\ (Linked(p)' <=> Linked(p))
  BY <1>1, MoveFrame DEF Linked
<1>5. ASSUME Linked(p)
      PROVE  /\ dst_ports'[p] = dst_ports[p]
             /\ tx_buffer'[dst_ports[p]] = tx_buffer[dst_ports[p]]
             /\ wire'[dst_ports[p]] = wire[dst_ports[p]]
  <2>1. dst_ports[p] \in Devs /\ dst_ports[p] # dst_ports[RxPort(l)]
    BY <1>1, <1>5 DEF Linked, IInv, PairInv, PortsPaired, EnabledPorts
  <2>. QED
    BY <1>1, <2>1, MoveFrame
<1>. QED
  BY <1>1, <1>3, <1>4, <1>5, SamePort

\* What the lcore works on: its port is linked, before and after.
LEMMA MovingLink ==
    ASSUME IInv, NEW l \in Lcores, Drain(l) \/ RxBurst(l) \/ Forward(l)
    PROVE  \A p : p = RxPort(l) => /\ p \in Devs /\ Linked(p) /\ Linked(p)'
                                  /\ \A m \in Lcores : Forwarding(m, p) => m = l
<1>1. /\ UNCHANGED phase /\ EnabledPorts' = EnabledPorts /\ RxPort(l) \in EnabledPorts
      /\ RxPort(l) \in Devs /\ phase = "run" /\ rx_port_list' = rx_port_list
  BY MoveFacts
<1>2. pc[l] \in InLoop
  BY DEF Drain, RxBurst, Forward, InLoop
<1>3. \A m \in Lcores : Forwarding(m, RxPort(l)) => m = l
  BY <1>2, Exclusive DEF Forwarding, InLoop
<1>4. \A p \in EnabledPorts : Linked(p) /\ Linked(p)'
  BY <1>1 DEF Linked
<1>. QED
  BY <1>1, <1>3, <1>4

\* A drain takes packets from the front of the queue of the link.
LEMMA DrainLink ==
    ASSUME IInv, IInv', NEW l \in Lcores, Drain(l), NEW p \in Devs, p = RxPort(l)
    PROVE  LinkStep(p)
<1>1. PICK d : d = dst_ports[p]
  OBVIOUS
<1>2. /\ Linked(p) /\ Linked(p)' /\ dst_ports' = dst_ports /\ arrived' = arrived
      /\ d \in Devs /\ PktTypeOK /\ UNCHANGED rx_port_list
  BY <1>1, MovingLink, MoveFacts DEF IInv, TypeOK
<1>3. rte_eth_tx_buffer_flush(d, tx_buffer[d]) /\ UNCHANGED <<pkts_burst, rx_ring>>
  BY <1>1 DEF Drain, DrainPort
<1>4. Held(p)' = Held(p)
  <2>1. \A m \in Lcores : ~Forwarding(m, p)
    BY MovingLink DEF Drain, Forwarding
  <2>2. \A m \in Lcores \ {l} : Forwarding(m, p)' <=> Forwarding(m, p)
    BY <1>2, MoveFrame DEF OnlyMoves, Forwarding, RxPort
  <2>3. ~Forwarding(l, p)'
    <3>1. \E next \in {"rx", "print"} : Advance(l, next)
      BY DEF Drain
    <3>2. pc'[l] # "fwd"
      BY <3>1, AdvanceFacts DEF Drain, InLoop, LcorePcs
    <3>. QED
      BY <3>2 DEF Forwarding
  <2>. QED
    BY <2>1, <2>2, <2>3, SameHeld
<1>5. PICK buffer : buffer = tx_buffer[d]
  OBVIOUS
<1>6. buffer \in Seq(Packet)
  BY <1>2, <1>5 DEF PktTypeOK
<1>7. PICK sent \in 0 .. Len(buffer) :
        wire'[d] = wire[d] \o SubSeq(buffer, 1, sent) /\ tx_buffer'[d] = <<>>
  BY <1>2, <1>3, <1>5, <1>6, FlushMoves
<1>8. PICK y : y = Ids(Held(p)) \o Ids(rx_ring[p])
  OBVIOUS
<1>9. PICK x : x = Ids(buffer)
  OBVIOUS
<1>10. /\ Queue(p) = x \o y /\ Out(p) = Ids(wire[d]) /\ wire[d] \in Seq(Packet)
       /\ Held(p) \in Seq(Packet) /\ rx_ring[p] \in Seq(Packet)
  BY <1>1, <1>2, <1>5, <1>8, <1>9, QueueParts
<1>11. x \in Seq(Nat) /\ y \in Seq(Nat) /\ Len(x) = Len(buffer) /\ Out(p) \in Seq(Nat)
  BY <1>6, <1>8, <1>9, <1>10, IdsFacts, ConcatProperties
<1>12. Queue(p)' = y
  <2>1. Queue(p)' = Ids(tx_buffer'[d]) \o (Ids(Held(p)') \o Ids(rx_ring'[p]))
    BY <1>1, <1>2, NextForms DEF QueueForm
  <2>2. Queue(p)' = <<>> \o y
    BY <1>3, <1>4, <1>7, <1>8, <2>1, IdsEmpty
  <2>. QED
    BY <1>11, <2>2, ConcatEmptySeq
<1>13. Out(p)' = Out(p) \o SubSeq(x, 1, sent)
  <2>1. Out(p)' = Ids(wire'[d])
    BY <1>1, <1>2, NextForms DEF QueueForm
  <2>2. SubSeq(buffer, 1, sent) \in Seq(Packet) /\ sent \in Nat /\ sent <= Len(buffer)
    BY <1>6
  <2>3. Ids(wire'[d]) = Ids(wire[d]) \o Ids(SubSeq(buffer, 1, sent))
    BY <1>7, <1>10, <2>2, IdsConcat
  <2>4. Ids(SubSeq(buffer, 1, sent)) = SubSeq(x, 1, sent)
    BY <1>6, <1>9, <2>2, IdsPart
  <2>. QED
    BY <1>10, <2>1, <2>3, <2>4
<1>14. sent \in 0 .. Len(x)
  BY <1>11
<1>. QED
  BY <1>2, <1>10, <1>11, <1>12, <1>13, <1>14, FlushLink

\* A receive burst is no step of the link: the packets go from the ring to
\* the hands of the lcore, which held none.
LEMMA RxBurstLink ==
    ASSUME IInv, IInv', NEW l \in Lcores, RxBurst(l), NEW p \in Devs, p = RxPort(l)
    PROVE  LinkStep(p)
<1>1. PICK d : d = dst_ports[p]
  OBVIOUS
<1>2. PICK ring : ring = rx_ring[p]
  OBVIOUS
<1>3. PICK n : n = IF Len(ring) < MaxPktBurst THEN Len(ring) ELSE MaxPktBurst
  OBVIOUS
<1>4. /\ Linked(p) /\ Linked(p)' /\ dst_ports' = dst_ports /\ arrived' = arrived
      /\ UNCHANGED rx_port_list
      /\ pkts_burst \in [Lcores -> Seq(Packet)] /\ rx_ring \in [Devs -> Seq(Packet)]
      /\ pc \in [Lcores -> LcorePcs]
  BY MovingLink, MoveFacts DEF IInv, TypeOK, PktTypeOK, LoopTypeOK
<1>5. /\ pkts_burst' = [pkts_burst EXCEPT ![l] = SubSeq(ring, 1, n)]
      /\ rx_ring' = [rx_ring EXCEPT ![p] = SubSeq(ring, n + 1, Len(ring))]
      /\ IF n = 0 THEN Advance(l, "top") ELSE pc' = [pc EXCEPT ![l] = "fwd"] /\ UNCHANGED i
      /\ UNCHANGED <<wire, tx_buffer>> /\ pc[l] = "rx"
  BY <1>2, <1>3 DEF RxBurst, bufVars
<1>6. /\ ring \in Seq(Packet) /\ Len(ring) \in Nat /\ n \in Nat /\ n <= Len(ring)
      /\ n + 1 \in Nat \ {0}
  BY <1>2, <1>3, <1>4, ConfigAssumption
<1>7. Held(p) = <<>>
  BY <1>5, MovingLink, HeldFacts DEF Forwarding
<1>8. Held(p)' = SubSeq(ring, 1, n)
  <2>1. CASE n = 0
    <3>1. \A m \in Lcores \ {l} : ~Forwarding(m, p)'
      <4>1. \A m \in Lcores \ {l} : ~Forwarding(m, p)
        BY MovingLink
      <4>. QED
        BY <1>4, <4>1, MoveFrame DEF OnlyMoves, Forwarding, RxPort
    <3>2. ~Forwarding(l, p)'
      <4>1. pc'[l] # "fwd"
        BY <1>5, <2>1, AdvanceFacts DEF InLoop, LcorePcs
      <4>. QED
        BY <4>1 DEF Forwarding
    <3>3. Held(p)' = <<>>
      BY <3>1, <3>2, NextForms DEF HeldForm
    <3>4. SubSeq(ring, 1, n) = <<>>
      BY <2>1, SubSeqEmpty
    <3>. QED
      BY <3>3, <3>4
  <2>2. CASE n # 0
    <3>1. Forwarding(l, p)'
      BY <1>4, <1>5, <2>2 DEF Forwarding, RxPort
    <3>2. Held(p)' = pkts_burst'[l]
      BY <3>1, NextForms DEF HeldForm
    <3>. QED
      BY <1>4, <1>5, <3>2
  <2>. QED
    BY <2>1, <2>2
<1>9. PICK a : a = Ids(tx_buffer[d])
  OBVIOUS
<1>10. PICK c : c = Ids(ring)
  OBVIOUS
<1>11. Queue(p) = a \o (<<>> \o c) /\ a \in Seq(Nat) /\ c \in Seq(Nat) /\ Len(c) = Len(ring)
  BY <1>1, <1>2, <1>4, <1>6, <1>7, <1>9, <1>10, QueueParts, IdsFacts, IdsEmpty
<1>12. Queue(p)' = a \o (SubSeq(c, 1, n) \o SubSeq(c, n + 1, Len(c)))
  <2>1. Queue(p)' = Ids(tx_buffer'[d]) \o (Ids(Held(p)') \o Ids(rx_ring'[p]))
    BY <1>1, <1>4, NextForms DEF QueueForm
  <2>2. Ids(SubSeq(ring, 1, n)) = SubSeq(c, 1, n)
    BY <1>6, <1>10, IdsPart, 1 \in Nat \ {0}
  <2>3. Ids(SubSeq(ring, n + 1, Len(ring))) = SubSeq(c, n + 1, Len(c))
    <3>1. Len(ring) <= Len(ring)
      BY <1>6
    <3>. QED
      BY <1>6, <1>10, <1>11, <3>1, IdsPart
  <2>4. rx_ring'[p] = SubSeq(ring, n + 1, Len(ring))
    BY <1>4, <1>5
  <2>. QED
    BY <1>5, <1>8, <1>9, <2>1, <2>2, <2>3, <2>4
<1>13. SubSeq(c, 1, n) \o SubSeq(c, n + 1, Len(c)) = <<>> \o c
  <2>1. PICK r : r = Len(c)
    OBVIOUS
  <2>2. 1 \in 1 .. (Len(c) + 1) /\ n \in 1 - 1 .. Len(c) /\ r \in n .. Len(c)
    BY <1>6, <1>11, <2>1
  <2>3. SubSeq(c, 1, n) \o SubSeq(c, n + 1, r) = SubSeq(c, 1, r)
    BY <1>11, <2>2, ConcatAdjacentSubSeq
  <2>4. SubSeq(c, 1, r) = c
    BY <1>11, <2>1, SubSeqFull
  <2>. QED
    BY <1>11, <2>1, <2>3, <2>4, ConcatEmptySeq
<1>14. Out(p)' = Out(p)
  BY <1>4, <1>5 DEF Out
<1>. QED
  BY <1>4, <1>11, <1>12, <1>13, <1>14, LinkStutter

LEMMA NatConcatAssociative ==
    \A s, t, u \in Seq(Nat) : (s \o t) \o u = s \o (t \o u)
  BY ConcatAssociative, SMTT(30)

\* The first packet in hand goes to the end of the buffer: the queue is the same.
LEMMA AppendHead ==
    ASSUME NEW a \in Seq(Nat), NEW b \in Seq(Nat), NEW c \in Seq(Nat), b # <<>>
    PROVE  a \o (b \o c) = Append(a, b[1]) \o (Tail(b) \o c)
<1>1. PICK e : e = b[1]
  OBVIOUS
<1>2. e \in Nat /\ <<e>> \in Seq(Nat) /\ Tail(b) \in Seq(Nat) /\ Len(b) \in Nat \ {0}
  BY <1>1, EmptySeq
<1>3. <<e>> \o Tail(b) = b
  <2>1. PICK t : t = Tail(b)
    OBVIOUS
  <2>2. t \in Seq(Nat) /\ Len(t) = Len(b) - 1 /\ \A k \in 1 .. Len(t) : t[k] = b[k + 1]
    BY <1>2, <2>1
  <2>3. PICK u : u = <<e>> \o t
    OBVIOUS
  <2>4. u \in Seq(Nat) /\ Len(u) = 1 + Len(t) /\ \A k \in 1 .. Len(u) : u[k] = IF k <= 1 THEN <<e>>[k] ELSE t[k - 1]
    BY <1>2, <2>2, <2>3
  <2>5. Len(u) = Len(b)
    BY <1>2, <2>2, <2>4
  <2>6. ASSUME NEW k \in 1 .. Len(u) PROVE u[k] = b[k]
    <3>1. CASE k = 1
      BY <1>1, <2>4, <3>1
    <3>2. CASE k # 1
      <4>1. k - 1 \in 1 .. Len(t) /\ u[k] = t[k - 1]
        BY <1>2, <2>2, <2>4, <2>5, <3>2
      <4>2. PICK j : j = k - 1
        OBVIOUS
      <4>3. j \in 1 .. Len(t) /\ j + 1 = k
        BY <4>1, <4>2
      <4>. QED
        BY <2>2, <4>1, <4>2, <4>3
    <3>. QED
      BY <3>1, <3>2
  <2>. QED
    BY <2>1, <2>3, <2>4, <2>5, <2>6, SeqEqual
<1>4. Append(a, e) = a \o <<e>>
  BY <1>2, AppendIsConcat
<1>5. PICK f : f = <<e>>
  OBVIOUS
<1>6. PICK t : t = Tail(b)
  OBVIOUS
<1>7. PICK r : r = t \o c
  OBVIOUS
<1>8. f \in Seq(Nat) /\ t \in Seq(Nat) /\ r \in Seq(Nat)
  BY <1>2, <1>5, <1>6, <1>7, ConcatProperties
<1>9. (a \o f) \o r = a \o (f \o r)
  <2>1. \A u, v \in Seq(Nat) : (a \o u) \o v = a \o (u \o v)
    BY NatConcatAssociative, Zenon
  <2>2. \A v \in Seq(Nat) : (a \o f) \o v = a \o (f \o v)
    BY <1>8, <2>1, Zenon
  <2>. QED
    BY <1>8, <2>2, Zenon
<1>10. (f \o t) \o c = f \o (t \o c)
  <2>1. \A u, v \in Seq(Nat) : (f \o u) \o v = f \o (u \o v)
    BY <1>8, NatConcatAssociative, Zenon
  <2>2. \A v \in Seq(Nat) : (f \o t) \o v = f \o (t \o v)
    BY <1>8, <2>1, Zenon
  <2>. QED
    BY <2>2, Zenon
<1>. QED
  BY <1>1, <1>3, <1>4, <1>5, <1>6, <1>7, <1>9, <1>10

\* A packet that is forwarded stays where it is in the queue of the link, or
\* leaves it with those before it.
LEMMA ForwardLink ==
    ASSUME IInv, IInv', NEW l \in Lcores, Forward(l), NEW p \in Devs, p = RxPort(l)
    PROVE  LinkStep(p)
<1>1. PICK d : d = dst_ports[p]
  OBVIOUS
<1>2. PICK burst : burst = pkts_burst[l]
  OBVIOUS
<1>3. PICK head : head = Head(burst)
  OBVIOUS
<1>4. PICK pkt : pkt = IF mac_updating THEN l2fwd_mac_updating(head, d) ELSE head
  OBVIOUS
<1>5. PICK buffer : buffer = Append(tx_buffer[d], pkt)
  OBVIOUS
<1>6. /\ Linked(p) /\ Linked(p)' /\ dst_ports' = dst_ports /\ arrived' = arrived
      /\ UNCHANGED rx_port_list /\ d \in Devs /\ PktTypeOK
      /\ pkts_burst \in [Lcores -> Seq(Packet)] /\ pc \in [Lcores -> LcorePcs]
      /\ i \in [Lcores -> Nat \ {0}]
      /\ tx_buffer \in [Devs -> Seq(Packet)] /\ tx_buffer[d] \in Seq(Packet)
      /\ burst \in Seq(Packet) /\ burst # <<>>
  BY <1>1, <1>2, MovingLink, MoveFacts DEF IInv, TypeOK, PktTypeOK, LoopTypeOK, LoopInv, Forward
<1>7. /\ rte_eth_tx_buffer(d, pkt) /\ UNCHANGED rx_ring /\ pc[l] = "fwd"
      /\ pkts_burst' = [pkts_burst EXCEPT ![l] = Tail(burst)]
      /\ Len(burst) > 1 => UNCHANGED <<pc, i>>
      /\ ~(Len(burst) > 1) => \E next \in {"rx", "top"} : pc' = [pc EXCEPT ![l] = next]
  BY <1>1, <1>2, <1>3, <1>4 DEF Forward
<1>8. head \in Packet /\ head = burst[1] /\ Tail(burst) \in Seq(Packet) /\ Len(burst) \in Nat \ {0}
      /\ Len(Tail(burst)) = Len(burst) - 1
  BY <1>3, <1>6, EmptySeq
<1>9. pkt \in Packet /\ pkt.id = head.id
  <2>1. d \in Int
    BY <1>6, DevsAreInts
  <2>. QED
    BY <1>4, <1>8, <2>1, MacUpdatingType, MacUpdatingHdr
<1>10. Held(p) = burst
  BY <1>2, <1>7, HeldFacts DEF Forwarding
<1>11. Held(p)' = Tail(burst)
  <2>1. CASE Len(burst) > 1
    <3>1. Forwarding(l, p)'
      BY <1>6, <1>7, <2>1 DEF Forwarding, RxPort
    <3>2. Held(p)' = pkts_burst'[l]
      BY <3>1, NextForms DEF HeldForm
    <3>. QED
      BY <1>6, <1>7, <3>2
  <2>2. CASE ~(Len(burst) > 1)
    <3>1. \A m \in Lcores \ {l} : ~Forwarding(m, p)'
      <4>1. \A m \in Lcores \ {l} : ~Forwarding(m, p)
        BY MovingLink
      <4>. QED
        BY <1>6, <4>1, MoveFrame DEF OnlyMoves, Forwarding, RxPort
    <3>2. ~Forwarding(l, p)'
      BY <1>6, <1>7, <2>2 DEF Forwarding
    <3>3. Held(p)' = <<>>
      BY <3>1, <3>2, NextForms DEF HeldForm
    <3>4. Len(Tail(burst)) = 0
      BY <1>8, <2>2
    <3>. QED
      BY <1>8, <3>3, <3>4, EmptySeq
  <2>. QED
    BY <2>1, <2>2
<1>12. PICK a : a = Ids(tx_buffer[d])
  OBVIOUS
<1>13. PICK b : b = Ids(burst)
  OBVIOUS
<1>14. PICK c : c = Ids(rx_ring[p])
  OBVIOUS
<1>15. /\ Queue(p) = a \o (b \o c) /\ Out(p) = Ids(wire[d]) /\ wire[d] \in Seq(Packet)
       /\ rx_ring[p] \in Seq(Packet)
  BY <1>1, <1>6, <1>10, <1>12, <1>13, <1>14, QueueParts
<1>16. /\ a \in Seq(Nat) /\ b \in Seq(Nat) /\ c \in Seq(Nat) /\ Out(p) \in Seq(Nat)
       /\ b # <<>> /\ b[1] = head.id /\ Len(b) = Len(burst)
  <2>1. Len(b) = Len(burst) /\ b[1] = head.id
    <3>1. 1 \in 1 .. Len(burst)
      BY <1>8
    <3>. QED
      BY <1>6, <1>8, <1>13, <3>1, IdsFacts
  <2>2. b # <<>>
    BY <1>8, <2>1
  <2>. QED
    BY <1>6, <1>12, <1>13, <1>14, <1>15, <2>1, <2>2, IdsFacts
<1>17. Ids(Tail(burst)) = Tail(b)
  <2>1. Tail(burst) = SubSeq(burst, 2, Len(burst)) /\ Tail(b) = SubSeq(b, 2, Len(b))
    BY <1>6, <1>16, TailIsSubSeq
  <2>2. Len(burst) \in Nat /\ Len(burst) <= Len(burst) /\ 2 \in Nat \ {0}
    BY <1>8
  <2>. QED
    BY <1>6, <1>13, <1>16, <2>1, <2>2, IdsPart
<1>18. PICK x : x = Ids(buffer)
  OBVIOUS
<1>19. PICK y : y = Tail(b) \o c
  OBVIOUS
<1>20. buffer \in Seq(Packet) /\ Len(buffer) \in Nat
  BY <1>5, <1>6, <1>9
<1>21. /\ x = Append(a, b[1]) /\ x \in Seq(Nat) /\ Len(x) = Len(buffer) /\ y \in Seq(Nat)
  <2>1. Tail(b) \in Seq(Nat)
    BY <1>16
  <2>. QED
    BY <1>5, <1>6, <1>9, <1>12, <1>16, <1>18, <1>19, <1>20, <2>1, IdsAppend, IdsFacts,
       ConcatProperties, ZenonT(40)
<1>22. Queue(p) = x \o y
  <2>1. a \o (b \o c) = Append(a, b[1]) \o (Tail(b) \o c)
    BY <1>16, AppendHead
  <2>. QED
    BY <1>15, <1>19, <1>21, <2>1
<1>23. /\ Queue(p)' = Ids(tx_buffer'[d]) \o y
       /\ Out(p)' = Ids(wire'[d])
  <2>1. /\ Queue(p)' = Ids(tx_buffer'[d]) \o (Ids(Held(p)') \o Ids(rx_ring'[p]))
        /\ Out(p)' = Ids(wire'[d])
    BY <1>1, <1>6, NextForms DEF QueueForm
  <2>2. Ids(Held(p)') = Tail(b) /\ Ids(rx_ring'[p]) = c
    BY <1>7, <1>11, <1>14, <1>17
  <2>. QED
    BY <1>19, <2>1, <2>2
<1>24. CASE Len(buffer) < MaxPktBurst
  <2>1. tx_buffer' = [tx_buffer EXCEPT ![d] = buffer] /\ UNCHANGED wire
    BY <1>5, <1>7, <1>24 DEF rte_eth_tx_buffer
  <2>2. Queue(p)' = Queue(p) /\ Out(p)' = Out(p)
    BY <1>6, <1>15, <1>18, <1>22, <1>23, <2>1
  <2>. QED
    BY <1>6, <2>2, LinkStutter
<1>25. CASE ~(Len(buffer) < MaxPktBurst)
  <2>1. rte_eth_tx_buffer_flush(d, buffer)
    BY <1>5, <1>7, <1>25 DEF rte_eth_tx_buffer
  <2>2. PICK sent \in 0 .. Len(buffer) :
          wire'[d] = wire[d] \o SubSeq(buffer, 1, sent) /\ tx_buffer'[d] = <<>>
    BY <1>6, <1>20, <2>1, FlushMoves
  <2>3. Queue(p)' = y
    BY <1>21, <1>23, <2>2, IdsEmpty, ConcatEmptySeq
  <2>4. Out(p)' = Out(p) \o SubSeq(x, 1, sent)
    <3>1. SubSeq(buffer, 1, sent) \in Seq(Packet) /\ sent \in Nat /\ sent <= Len(buffer)
          /\ 1 \in Nat \ {0}
      BY <1>20
    <3>2. Ids(wire'[d]) = Ids(wire[d]) \o Ids(SubSeq(buffer, 1, sent))
      BY <1>15, <2>2, <3>1, IdsConcat
    <3>3. Ids(SubSeq(buffer, 1, sent)) = SubSeq(x, 1, sent)
      BY <1>18, <1>20, <3>1, IdsPart
    <3>. QED
      BY <1>15, <1>23, <3>2, <3>3
  <2>5. sent \in 0 .. Len(x)
    BY <1>21
  <2>. QED
    BY <1>6, <1>16, <1>21, <1>22, <2>3, <2>4, <2>5, FlushLink
<1>. QED
  BY <1>24, <1>25

\* A packet that reaches a device enters the link behind all others, or is
\* lost at once.
LEMMA ArriveLink ==
    ASSUME IInv, IInv', QuietInv, NEW q \in Devs, Arrive(q), NEW p \in Devs
    PROVE  LinkStep(p)
<1>1. /\ UNCHANGED <<phase, mask, dst_ports, tx_buffer, wire, pc, i, pkts_burst, rx_port_list>>
      /\ device[q] = "started"
  BY DEF Arrive, confVars, parseVars, pairVars, dealVars, loopVars, bufVars
<1>2. (Linked(p)' <=> Linked(p)) /\ EnabledPorts' = EnabledPorts
  BY <1>1 DEF Linked, EnabledPorts
<1>3. Held(p)' = Held(p)
  <2>1. \A m \in Lcores : /\ Forwarding(m, p)' <=> Forwarding(m, p)
                          /\ pkts_burst'[m] = pkts_burst[m]
    BY <1>1 DEF Forwarding, RxPort
  <2>. QED
    BY <2>1, SameHeld
<1>4. CASE p # q
  <2>1. rx_ring'[p] = rx_ring[p] /\ arrived'[p] = arrived[p]
    BY <1>4 DEF Arrive, IInv, TypeOK, PktTypeOK
  <2>. QED
    BY <1>1, <1>2, <1>3, <2>1, SamePort
<1>5. CASE p = q
  <2>1. PICK m : m = NewPacket(arrived[p] + 1)
    OBVIOUS
  <2>2. m \in Packet /\ m.id = arrived[p] + 1 /\ arrived[p] \in Nat
    <3>0. arrived \in [Devs -> Nat]
      BY DEF IInv, TypeOK, PktTypeOK
    <3>1. arrived[p] \in Nat /\ arrived[p] + 1 \in Nat
      BY <3>0
    <3>2. NewPacket(arrived[p] + 1) \in Packet
      BY <3>1, NewPacketType
    <3>3. m.id = arrived[p] + 1
      BY <2>1 DEF NewPacket
    <3>. QED
      BY <2>1, <3>1, <3>2, <3>3
  <2>3. /\ arrived'[p] = arrived[p] + 1
        /\ rx_ring'[p] \in {rx_ring[p], Append(rx_ring[p], m)}
    BY <1>5, <2>1 DEF Arrive, IInv, TypeOK, PktTypeOK
  <2>4. Linked(p)
    BY <1>1, <1>5 DEF Linked, QuietInv, Undealt
  <2>5. PICK u : u = Ids(tx_buffer[dst_ports[p]])
    OBVIOUS
  <2>6. PICK b : b = Ids(Held(p))
    OBVIOUS
  <2>7. PICK c : c = Ids(rx_ring[p])
    OBVIOUS
  <2>8. /\ Queue(p) = u \o (b \o c) /\ u \in Seq(Nat) /\ b \in Seq(Nat) /\ c \in Seq(Nat)
        /\ rx_ring[p] \in Seq(Packet)
    BY <2>4, <2>5, <2>6, <2>7, QueueParts, IdsFacts
  <2>9. Queue(p)' = u \o (b \o Ids(rx_ring'[p])) /\ Out(p)' = Out(p)
    BY <1>1, <1>2, <1>3, <2>4, <2>5, <2>6, NextForms DEF QueueForm, Out
  <2>10. CASE rx_ring'[p] = rx_ring[p]
    BY <2>3, <2>7, <2>8, <2>9, <2>10, LinkArrive
  <2>11. CASE rx_ring'[p] = Append(rx_ring[p], m)
    <3>1. PICK e : e = arrived[p] + 1
      OBVIOUS
    <3>2. Ids(rx_ring'[p]) = Append(c, e) /\ e \in Nat /\ <<e>> \in Seq(Nat)
      BY <2>2, <2>7, <2>8, <2>11, <3>1, IdsAppend
    <3>3. Append(c, e) = c \o <<e>> /\ b \o c \in Seq(Nat) /\ u \o (b \o c) \in Seq(Nat)
      BY <2>8, <3>2, AppendIsConcat, ConcatProperties
    <3>4. u \o (b \o (c \o <<e>>)) = (u \o (b \o c)) \o <<e>>
      <4>1. PICK f : f = <<e>>
        OBVIOUS
      <4>2. PICK r : r = b \o c
        OBVIOUS
      <4>3. f \in Seq(Nat) /\ r \in Seq(Nat)
        BY <3>2, <3>3, <4>1, <4>2
      <4>4. (b \o c) \o f = b \o (c \o f)
        BY <2>8, <4>3, NatConcatAssociative
      <4>5. (u \o r) \o f = u \o (r \o f)
        BY <2>8, <4>3, NatConcatAssociative
      <4>. QED
        BY <4>1, <4>2, <4>4, <4>5
    <3>5. (u \o (b \o c)) \o <<e>> = Append(u \o (b \o c), e)
      BY <3>2, <3>3, AppendIsConcat
    <3>6. Queue(p)' = Append(Queue(p), e)
      BY <2>8, <2>9, <3>2, <3>3, <3>4, <3>5
    <3>. QED
      BY <2>3, <2>9, <3>1, <3>6, LinkArrive
  <2>. QED
    BY <2>3, <2>10, <2>11
<1>. QED
  BY <1>4, <1>5

LEMMA LinkStepNext == IInv /\ IInv' /\ QuietInv /\ QuietInv' /\ [Next]_vars => \A p \in Devs : LinkStep(p)
<1>. SUFFICES ASSUME IInv, IInv', QuietInv, QuietInv', [Next]_vars, NEW p \in Devs
              PROVE  LinkStep(p)
  OBVIOUS
<1>1. CASE ~Moves
  BY <1>1, QuietStep, QuietLink
<1>2. ASSUME NEW l \in Lcores, Drain(l) \/ RxBurst(l) \/ Forward(l) PROVE LinkStep(p)
  <2>1. CASE p # RxPort(l)
    BY <1>2, <2>1, OtherLinks
  <2>2. CASE p = RxPort(l)
    BY <1>2, <2>2, DrainLink, RxBurstLink, ForwardLink
  <2>. QED
    BY <2>1, <2>2
<1>3. ASSUME NEW q \in Devs, Arrive(q) PROVE LinkStep(p)
  BY <1>3, ArriveLink
<1>. QED
  BY <1>1, <1>2, <1>3 DEF Moves

\* l2fwd implements a lossy link in each direction: what leaves the partner of
\* a port is a subsequence of what reached the port, in order and without
\* duplicates, whatever the lcores, the driver and the signals do.
THEOREM LinksImplemented == Spec => ImplementsLink
<1>1. Init => \A p \in Devs : Link(p)!Init
  <2>. SUFFICES ASSUME Init, NEW p \in Devs PROVE Link(p)!Init
    OBVIOUS
  <2>1. ~Linked(p) /\ arrived[p] = 0
    BY DEF Init, Linked
  <2>. QED
    BY <2>1 DEF Link!Init, Queue
<1>. QED
  BY Invariance, Quietness, LinkStepNext, <1>1, PTL DEF Spec, ImplementsLink

----------------------------------------------------------------------------
(* print_stats: sums over the ports.                                       *)

\* What is counted at one port is as many packets as its counter says.
LEMMA OneCount ==
    ASSUME NEW p, NEW n \in Nat
    PROVE  IsFiniteSet({p} \X (1 .. n)) /\ Cardinality({p} \X (1 .. n)) = n
<1>1. IsFiniteSet({p}) /\ Cardinality({p}) = 1
  BY FS_Singleton
<1>2. IsFiniteSet(1 .. n) /\ Cardinality(1 .. n) = n
  BY FS_Interval
<1>3. IsFiniteSet({p} \X (1 .. n)) /\ Cardinality({p} \X (1 .. n)) = Cardinality({p}) * Cardinality(1 .. n)
  BY <1>1, <1>2, FS_Product
<1>. QED
  BY <1>1, <1>2, <1>3

\* Finitely many packets are counted at finitely many ports.
LEMMA CountsFinite ==
    ASSUME NEW f \in [Devs -> Nat], NEW S \in SUBSET Devs
    PROVE  IsFiniteSet(UNION {CountedAt(f, p) : p \in S})
<1>. DEFINE T == {CountedAt(f, p) : p \in S}
            g == [p \in S |-> CountedAt(f, p)]
<1>1. IsFiniteSet(S)
  <2>1. S \in SUBSET Nat /\ \A p \in S : p <= 31
    BY ConfigAssumption DEF PortIds
  <2>. QED
    BY <2>1, FS_BoundedSetOfNaturals
<1>2. g \in Surjection(S, T)
  BY DEF Surjection
<1>3. IsFiniteSet(T)
  BY <1>1, <1>2, FS_Surjection
<1>4. ASSUME NEW x \in T PROVE IsFiniteSet(x)
  <2>1. PICK p \in S : x = CountedAt(f, p)
    OBVIOUS
  <2>2. f[p] \in Nat
    OBVIOUS
  <2>. QED
    BY <2>1, <2>2, OneCount DEF CountedAt
<1>5. IsFiniteSet(UNION T)
  <2>. HIDE DEF T
  <2>. QED
    BY <1>3, <1>4, FS_UNION
<1>. QED
  BY <1>5

LEMMA SumNat ==
    ASSUME NEW f \in [Devs -> Nat], NEW S \in SUBSET Devs
    PROVE  SumOver(f, S) \in Nat
  BY CountsFinite, FS_CardinalityType DEF SumOver

LEMMA SumEmpty ==
    ASSUME NEW f \in [Devs -> Nat]
    PROVE  SumOver(f, {}) = 0
<1>1. UNION {CountedAt(f, p) : p \in {}} = {}
  OBVIOUS
<1>. QED
  BY <1>1, FS_EmptySet DEF SumOver

\* One more port adds its counter.
LEMMA SumAdd ==
    ASSUME NEW f \in [Devs -> Nat], NEW S \in SUBSET Devs, NEW p \in S
    PROVE  SumOver(f, S) = SumOver(f, S \ {p}) + f[p]
<1>. DEFINE A == UNION {CountedAt(f, q) : q \in S \ {p}}
            B == CountedAt(f, p)
<1>1. UNION {CountedAt(f, q) : q \in S} = A \cup B
  OBVIOUS
<1>2. A \cap B = {}
  BY DEF CountedAt
<1>3. IsFiniteSet(A)
  BY CountsFinite
<1>4. IsFiniteSet(B) /\ Cardinality(B) = f[p]
  BY OneCount DEF CountedAt
<1>5. Cardinality(A) \in Nat
  BY <1>3, FS_CardinalityType
<1>6. SumOver(f, S) = Cardinality(A \cup B) /\ SumOver(f, S \ {p}) = Cardinality(A)
  BY <1>1 DEF SumOver
<1>. HIDE DEF A, B
<1>7. Cardinality(A \cup B) = Cardinality(A) + Cardinality(B) - Cardinality(A \cap B)
  BY <1>3, <1>4, FS_Union
<1>. QED
  BY <1>2, <1>4, <1>5, <1>6, <1>7, FS_EmptySet

\* More ports and larger counters give no smaller sum.
LEMMA SumGrows ==
    ASSUME NEW f \in [Devs -> Nat], NEW g \in [Devs -> Nat], \A p \in Devs : f[p] <= g[p],
           NEW S \in SUBSET Devs, NEW T \in SUBSET S
    PROVE  SumOver(f, T) <= SumOver(g, S)
<1>. DEFINE A == UNION {CountedAt(f, p) : p \in T}
            B == UNION {CountedAt(g, p) : p \in S}
<1>1. ASSUME NEW p \in T PROVE CountedAt(f, p) \subseteq CountedAt(g, p)
  <2>1. f[p] \in Nat /\ g[p] \in Nat /\ f[p] <= g[p]
    OBVIOUS
  <2>2. 1 .. f[p] \subseteq 1 .. g[p]
    BY <2>1
  <2>. QED
    BY <2>2 DEF CountedAt
<1>2. A \subseteq B
  BY <1>1
<1>3. IsFiniteSet(B)
  BY CountsFinite
<1>4. SumOver(f, T) = Cardinality(A) /\ SumOver(g, S) = Cardinality(B)
  BY DEF SumOver
<1>. HIDE DEF A, B
<1>. QED
  BY <1>2, <1>3, <1>4, FS_Subset
----------------------------------------------------------------------------
(* print_stats against the lcores that count meanwhile.                    *)

\* What print_stats knows of one counter f when it has read all ports but R:
\* its total is not ahead, and with what it has still to read it is not behind
\* what was printed last.
Tally(f, E, R, total, last) ==
    /\ total <= SumOver(f, E \ R)
    /\ last <= total + SumOver(f, R)

\* The counters go on.
LEMMA TallyGrows ==
    ASSUME NEW f \in [Devs -> Nat], NEW g \in [Devs -> Nat], \A p \in Devs : f[p] <= g[p],
           NEW E \in SUBSET Devs, NEW R \in SUBSET E, NEW total \in Nat, NEW last \in Nat,
           Tally(f, E, R, total, last)
    PROVE  Tally(g, E, R, total, last)
<1>1. SumOver(f, E \ R) <= SumOver(g, E \ R) /\ SumOver(f, R) <= SumOver(g, R)
  BY SumGrows
<1>2. /\ SumOver(f, E \ R) \in Nat /\ SumOver(g, E \ R) \in Nat
      /\ SumOver(f, R) \in Nat /\ SumOver(g, R) \in Nat
  BY SumNat
<1>. QED
  BY <1>1, <1>2 DEF Tally

\* print_stats starts.
LEMMA TallyStarts ==
    ASSUME NEW f \in [Devs -> Nat], NEW E \in SUBSET Devs, NEW last \in Nat,
           last <= SumOver(f, E)
    PROVE  Tally(f, E, E, 0, last)
<1>1. E \ E = {}
  OBVIOUS
<1>2. SumOver(f, E \ E) = 0 /\ SumOver(f, E) \in Nat
  BY <1>1, SumEmpty, SumNat
<1>. QED
  BY <1>2 DEF Tally

\* It reads the counter of one port.
LEMMA TallyReads ==
    ASSUME NEW f \in [Devs -> Nat], NEW E \in SUBSET Devs, NEW R \in SUBSET E, NEW p \in R,
           NEW total \in Nat, NEW last \in Nat, Tally(f, E, R, total, last)
    PROVE  Tally(f, E, R \ {p}, total + f[p], last)
<1>1. f[p] \in Nat /\ p \in E \ (R \ {p}) /\ (E \ (R \ {p})) \ {p} = E \ R
  OBVIOUS
<1>2. E \ (R \ {p}) \in SUBSET Devs
  OBVIOUS
<1>3. SumOver(f, E \ (R \ {p})) = SumOver(f, (E \ (R \ {p})) \ {p}) + f[p]
  BY <1>1, <1>2, SumAdd
<1>4. SumOver(f, R) = SumOver(f, R \ {p}) + f[p]
  BY SumAdd
<1>5. SumOver(f, E \ R) \in Nat /\ SumOver(f, R \ {p}) \in Nat
  BY SumNat
<1>6. SumOver(f, E \ (R \ {p})) = SumOver(f, E \ R) + f[p]
  BY <1>1, <1>3
<1>. QED
  BY <1>1, <1>4, <1>5, <1>6 DEF Tally

\* It is done.
LEMMA TallyDone ==
    ASSUME NEW f \in [Devs -> Nat], NEW E \in SUBSET Devs, NEW total \in Nat, NEW last \in Nat,
           Tally(f, E, {}, total, last)
    PROVE  total <= SumOver(f, E) /\ last <= total
<1>1. E \ {} = E /\ SumOver(f, {}) = 0
  BY SumEmpty
<1>. QED
  BY <1>1 DEF Tally

NothingPrinted == printed.rx = 0 /\ printed.tx = 0 /\ printed.dropped = 0

Tallies ==
    /\ Tally(stat_rx, EnabledPorts, to_print, totals.rx, printed.rx)
    /\ Tally(stat_tx, EnabledPorts, to_print, totals.tx, printed.tx)
    /\ Tally(stat_dropped, EnabledPorts, to_print, totals.dropped, printed.dropped)

\* PrintedSound is not inductive: it says nothing of a print_stats under way.
PrintInv ==
    /\ phase = "args" => NothingPrinted
    /\ \A l \in Lcores : pc[l] = "print" => l = Master
    /\ PrintedNotAhead
    /\ pc[Master] = "print" => to_print \subseteq EnabledPorts /\ Tallies

Grows(f, g) == \A p \in Devs : f[p] <= g[p]

\* No step takes back what an lcore has counted.
LEMMA CountersGrow ==
    ASSUME IInv, IInv', [Next]_vars
    PROVE  Grows(stat_rx, stat_rx') /\ Grows(stat_tx, stat_tx') /\ Grows(stat_dropped, stat_dropped')
<1>t. /\ stat_rx \in [Devs -> Nat] /\ stat_tx \in [Devs -> Nat] /\ stat_dropped \in [Devs -> Nat]
      /\ stat_rx' \in [Devs -> Nat] /\ stat_tx' \in [Devs -> Nat] /\ stat_dropped' \in [Devs -> Nat]
  BY DEF IInv, TypeOK, PktTypeOK
<1>1. CASE phase \in Starting
  <2>1. ASSUME NEW p \in Devs
        PROVE  stat_rx[p] = 0 /\ stat_tx[p] = 0 /\ stat_dropped[p] = 0
    <3>1. stat_rx[p] = 0 /\ stat_tx[p] + stat_dropped[p] + Len(tx_buffer[p]) = 0
      BY <1>1 DEF IInv, StatInv, Accounted
    <3>2. Len(tx_buffer[p]) \in Nat /\ stat_tx[p] \in Nat /\ stat_dropped[p] \in Nat
      BY <1>t DEF IInv, TypeOK, PktTypeOK
    <3>. QED
      BY <3>1, <3>2
  <2>. QED
    BY <1>t, <2>1 DEF Grows
<1>2. CASE UNCHANGED <<stat_rx, stat_tx, stat_dropped>>
  BY <1>2, <1>t DEF Grows
<1>3. ASSUME NEW p \in Devs, NEW buffer \in Seq(Packet), rte_eth_tx_buffer_flush(p, buffer)
      PROVE  Grows(stat_tx, stat_tx') /\ Grows(stat_dropped, stat_dropped')
  <2>1. PICK sent \in 0 .. Len(buffer) :
          /\ stat_dropped' = [stat_dropped EXCEPT ![p] = @ + (Len(buffer) - sent)]
          /\ stat_tx' = [stat_tx EXCEPT ![p] = @ + sent]
    BY <1>3 DEF rte_eth_tx_buffer_flush
  <2>2. Len(buffer) - sent \in Nat /\ sent \in Nat
    OBVIOUS
  <2>. QED
    BY <1>t, <2>1, <2>2, SMTT(30) DEF Grows
<1>4. ASSUME NEW l \in Lcores, Drain(l) \/ RxBurst(l) \/ Forward(l)
      PROVE  Grows(stat_rx, stat_rx') /\ Grows(stat_tx, stat_tx') /\ Grows(stat_dropped, stat_dropped')
  <2>1. RxPort(l) \in Devs /\ dst_ports[RxPort(l)] \in Devs
    BY <1>4, MoveFacts
  <2>2. CASE Drain(l)
    <3>1. stat_rx' = stat_rx /\ tx_buffer[DrainPort(l)] \in Seq(Packet) /\ DrainPort(l) \in Devs
      BY <2>1, <2>2 DEF Drain, DrainPort, IInv, TypeOK, PktTypeOK
    <3>2. rte_eth_tx_buffer_flush(DrainPort(l), tx_buffer[DrainPort(l)])
      BY <2>2 DEF Drain
    <3>. QED
      BY <1>t, <1>3, <3>1, <3>2 DEF Grows
  <2>3. CASE RxBurst(l)
    <3>1. PICK n \in Nat : stat_rx' = [stat_rx EXCEPT ![RxPort(l)] = @ + n]
      <4>1. Len(rx_ring[RxPort(l)]) \in Nat /\ MaxPktBurst \in Nat
        BY <2>1, ConfigAssumption DEF IInv, TypeOK, PktTypeOK
      <4>. QED
        BY <2>3, <4>1 DEF RxBurst
    <3>2. UNCHANGED <<stat_tx, stat_dropped>>
      BY <2>3 DEF RxBurst, bufVars
    <3>. QED
      BY <1>t, <2>1, <3>1, <3>2 DEF Grows
  <2>4. CASE Forward(l)
    <3>. DEFINE d == dst_ports[RxPort(l)]
    <3>1. PICK m : rte_eth_tx_buffer(d, m) /\ m \in Packet
      <4>1. pkts_burst[l] \in Seq(Packet) /\ pkts_burst[l] # <<>>
        BY <2>4 DEF Forward, IInv, TypeOK, LoopTypeOK, LoopInv
      <4>2. Head(pkts_burst[l]) \in Packet
        BY <4>1
      <4>3. l2fwd_mac_updating(Head(pkts_burst[l]), d) \in Packet
        BY <2>1, <4>2, MacUpdatingType, DevsAreInts
      <4>. QED
        BY <2>4, <4>2, <4>3 DEF Forward
    <3>2. stat_rx' = stat_rx
      BY <2>4 DEF Forward
    <3>3. CASE UNCHANGED <<stat_tx, stat_dropped>>
      BY <1>t, <3>2, <3>3 DEF Grows
    <3>4. CASE rte_eth_tx_buffer_flush(d, Append(tx_buffer[d], m))
      <4>1. Append(tx_buffer[d], m) \in Seq(Packet)
        BY <2>1, <3>1 DEF IInv, TypeOK, PktTypeOK
      <4>2. d \in Devs
        BY <2>1
      <4>3. Grows(stat_tx, stat_tx') /\ Grows(stat_dropped, stat_dropped')
        BY <1>3, <3>4, <4>1, <4>2
      <4>. QED
        BY <1>t, <3>2, <4>3 DEF Grows
    <3>. QED
      BY <3>1, <3>3, <3>4 DEF rte_eth_tx_buffer
  <2>. QED
    BY <1>4, <2>2, <2>3, <2>4
<1>5. ASSUME ~(phase \in Starting), \A l \in Lcores : ~(Drain(l) \/ RxBurst(l) \/ Forward(l))
      PROVE  UNCHANGED <<stat_rx, stat_tx, stat_dropped>>
  <2>. USE DEF pktVars, bufVars
  <2>1. CASE MainStep
    BY <1>5, <2>1 DEF MainStep, ParseArgs, Pair, PairDone, Deal, DealDone, InitPort, PortsDone,
       CheckLinks, WaitLcores, ClosePort, Return, Starting
  <2>2. ASSUME NEW l \in Lcores, LcoreStep(l) PROVE UNCHANGED <<stat_rx, stat_tx, stat_dropped>>
    BY <1>5, <2>2 DEF LcoreStep, Launch, LoopTop, PrintPort, PrintDone
  <2>3. CASE (\E l \in Lcores : Tick(l)) \/ (\E p \in Devs : Arrive(p)) \/ signal_handler
    BY <2>3 DEF Tick, Arrive, signal_handler
  <2>4. CASE UNCHANGED vars
    BY <2>4 DEF vars
  <2>. QED
    BY <2>1, <2>2, <2>3, <2>4 DEF Next, Terminated
<1>. QED
  BY <1>1, <1>2, <1>4, <1>5

\* What the steps outside print_stats leave alone.
LEMMA PrintFrame ==
    ASSUME IInv, [Next]_vars, ~ParseArgs,
           \A l \in Lcores : ~(PrintPort(l) \/ PrintDone(l) \/ (Drain(l) /\ StartPrint))
    PROVE  /\ UNCHANGED printVars /\ EnabledPorts' = EnabledPorts
           /\ phase' = "args" => phase = "args"
           /\ \A l \in Lcores : pc'[l] = "print" => pc[l] = "print"
<1>. DEFINE Goal ==
        /\ UNCHANGED printVars /\ mask' = mask
        /\ phase' = "args" => phase = "args"
        /\ \A l \in Lcores : pc'[l] = "print" => pc[l] = "print"
<1>. SUFFICES Goal
  BY DEF EnabledPorts
<1>t. pc \in [Lcores -> LcorePcs]
  BY DEF IInv, TypeOK, LoopTypeOK
<1>. USE DEF confVars, parseVars, pairVars, dealVars, loopVars
<1>1. CASE MainStep
  <2>0. CASE RteExit
    BY <2>0 DEF RteExit
  <2>1. CASE Pair \/ PairDone \/ CheckLinks
    BY <2>1 DEF Pair, PairDone, CheckLinks
  <2>2. CASE Deal
    BY <2>0, <2>2 DEF Deal
  <2>3. CASE DealDone \/ PortsDone
    BY <2>0, <2>3 DEF DealDone, PortsDone
  <2>4. CASE InitPort
    BY <2>0, <2>4 DEF InitPort
  <2>5. CASE WaitLcores \/ ClosePort \/ Return
    BY <2>5 DEF WaitLcores, ClosePort, Return
  <2>. QED
    BY <1>1, <2>1, <2>2, <2>3, <2>4, <2>5 DEF MainStep
<1>2. ASSUME NEW l \in Lcores, LcoreStep(l) PROVE Goal
  <2>1. LoopFrame
    BY <1>2 DEF LcoreStep, Launch, LoopTop, Drain, PrintPort, PrintDone, RxBurst, Forward
  <2>2. UNCHANGED printVars /\ \A m \in Lcores : pc'[m] = "print" => pc[m] = "print"
    <3>1. CASE Launch(l)
      BY <1>t, <3>1 DEF Launch
    <3>2. CASE LoopTop(l)
      BY <1>t, <3>2 DEF LoopTop
    <3>3. CASE Drain(l)
      BY <1>t, <3>3 DEF Drain, Advance
    <3>4. CASE RxBurst(l)
      <4>1. pc' = [pc EXCEPT ![l] = "fwd"] \/ Advance(l, "top")
        BY <3>4 DEF RxBurst
      <4>2. UNCHANGED printVars
        BY <3>4 DEF RxBurst
      <4>. QED
        BY <1>t, <4>1, <4>2 DEF Advance
    <3>5. CASE Forward(l)
      <4>1. pc' = pc \/ pc' = [pc EXCEPT ![l] = "rx"] \/ pc' = [pc EXCEPT ![l] = "top"]
        BY <3>5 DEF Forward
      <4>2. UNCHANGED printVars
        BY <3>5 DEF Forward
      <4>. QED
        BY <1>t, <4>1, <4>2
    <3>. QED
      BY <1>2, <3>1, <3>2, <3>3, <3>4, <3>5 DEF LcoreStep
  <2>. QED
    BY <2>1, <2>2 DEF LoopFrame
<1>3. CASE (\E l \in Lcores : Tick(l)) \/ (\E p \in Devs : Arrive(p)) \/ signal_handler
  BY <1>3 DEF Tick, Arrive, signal_handler
<1>4. CASE UNCHANGED vars
  BY <1>4 DEF vars
<1>. QED
  BY <1>1, <1>2, <1>3, <1>4 DEF Next, Terminated

NeverDown ==
    /\ printed'.rx >= printed.rx /\ printed'.tx >= printed.tx
    /\ printed'.dropped >= printed.dropped

\* The parts of PrintInv in the next state.
LEMMA PrintForms ==
    /\ PrintedNotAhead' <=>
        /\ printed'.rx <= SumOver(stat_rx', EnabledPorts')
        /\ printed'.tx <= SumOver(stat_tx', EnabledPorts')
        /\ printed'.dropped <= SumOver(stat_dropped', EnabledPorts')
    /\ Tallies' <=>
        /\ Tally(stat_rx', EnabledPorts', to_print', totals'.rx, printed'.rx)
        /\ Tally(stat_tx', EnabledPorts', to_print', totals'.tx, printed'.tx)
        /\ Tally(stat_dropped', EnabledPorts', to_print', totals'.dropped, printed'.dropped)
  BY DEF PrintedNotAhead, Tallies, Tally, SumOver, CountedAt

LEMMA PrintTypes ==
    ASSUME IInv
    PROVE  /\ stat_rx \in [Devs -> Nat] /\ stat_tx \in [Devs -> Nat] /\ stat_dropped \in [Devs -> Nat]
           /\ totals.rx \in Nat /\ totals.tx \in Nat /\ totals.dropped \in Nat
           /\ printed.rx \in Nat /\ printed.tx \in Nat /\ printed.dropped \in Nat
           /\ EnabledPorts \in SUBSET Devs /\ pc \in [Lcores -> LcorePcs] /\ Master \in Lcores
  BY ConfigAssumption DEF IInv, TypeOK, PktTypeOK, PrintTypeOK, Totals, LoopTypeOK, EnabledPorts

\* What is not ahead stays so while the counters go on.
LEMMA AheadGrows ==
    ASSUME NEW f \in [Devs -> Nat], NEW g \in [Devs -> Nat], Grows(f, g),
           NEW E \in SUBSET Devs, NEW last \in Nat, last <= SumOver(f, E)
    PROVE  last <= SumOver(g, E)
<1>1. SumOver(f, E) <= SumOver(g, E) /\ SumOver(f, E) \in Nat /\ SumOver(g, E) \in Nat
  BY SumGrows, SumNat DEF Grows
<1>. QED
  BY <1>1

LEMMA PrintNext ==
    ASSUME IInv, IInv', PrintInv, [Next]_vars
    PROVE  PrintInv' /\ NeverDown
<1>t. /\ stat_rx \in [Devs -> Nat] /\ stat_tx \in [Devs -> Nat] /\ stat_dropped \in [Devs -> Nat]
      /\ totals.rx \in Nat /\ totals.tx \in Nat /\ totals.dropped \in Nat
      /\ printed.rx \in Nat /\ printed.tx \in Nat /\ printed.dropped \in Nat
      /\ EnabledPorts \in SUBSET Devs /\ pc \in [Lcores -> LcorePcs] /\ Master \in Lcores
  BY PrintTypes
<1>u. /\ stat_rx' \in [Devs -> Nat] /\ stat_tx' \in [Devs -> Nat] /\ stat_dropped' \in [Devs -> Nat]
      /\ EnabledPorts' \in SUBSET Devs
  BY DEF IInv, TypeOK, PktTypeOK, EnabledPorts
<1>g. Grows(stat_rx, stat_rx') /\ Grows(stat_tx, stat_tx') /\ Grows(stat_dropped, stat_dropped')
  BY CountersGrow
<1>a. /\ printed.rx <= SumOver(stat_rx, EnabledPorts)
      /\ printed.tx <= SumOver(stat_tx, EnabledPorts)
      /\ printed.dropped <= SumOver(stat_dropped, EnabledPorts)
  BY DEF PrintInv, PrintedNotAhead
<1>b. /\ printed.rx <= SumOver(stat_rx', EnabledPorts)
      /\ printed.tx <= SumOver(stat_tx', EnabledPorts)
      /\ printed.dropped <= SumOver(stat_dropped', EnabledPorts)
  BY <1>t, <1>u, <1>g, <1>a, AheadGrows
<1>1. CASE ParseArgs
  <2>1. phase = "args" /\ UNCHANGED <<printed, pc>>
    BY <1>1 DEF ParseArgs, RteExit, loopVars, printVars
  <2>2. printed.rx = 0 /\ printed.tx = 0 /\ printed.dropped = 0
    BY <2>1 DEF PrintInv, NothingPrinted
  <2>3. \A l \in Lcores : pc[l] = "wait"
    BY <2>1 DEF IInv, LoopInv, Starting
  <2>4. SumOver(stat_rx', EnabledPorts') \in Nat /\ SumOver(stat_tx', EnabledPorts') \in Nat
        /\ SumOver(stat_dropped', EnabledPorts') \in Nat
    BY <1>u, SumNat
  <2>5. PrintedNotAhead'
    BY <2>1, <2>2, <2>4, PrintForms
  <2>6. NothingPrinted'
    BY <2>1, <2>2 DEF NothingPrinted
  <2>7. NeverDown
    BY <2>1, <2>2 DEF NeverDown
  <2>. QED
    BY <1>t, <2>1, <2>3, <2>5, <2>6, <2>7 DEF PrintInv
<1>2. ASSUME NEW l \in Lcores, Drain(l), StartPrint PROVE PrintInv' /\ NeverDown
  <2>1. LoopFrame /\ pc[l] = "drain"
    BY <1>2 DEF Drain
  <2>2. /\ EnabledPorts' = EnabledPorts /\ to_print' = EnabledPorts /\ printed' = printed
        /\ totals'.rx = 0 /\ totals'.tx = 0 /\ totals'.dropped = 0
    BY <1>2, <2>1, LoopFrameKeeps DEF StartPrint
  <2>3. PrintedNotAhead'
    BY <1>b, <2>2, PrintForms
  <2>4. Tallies'
    <3>1. /\ Tally(stat_rx', EnabledPorts, EnabledPorts, 0, printed.rx)
          /\ Tally(stat_tx', EnabledPorts, EnabledPorts, 0, printed.tx)
          /\ Tally(stat_dropped', EnabledPorts, EnabledPorts, 0, printed.dropped)
      BY <1>t, <1>u, <1>b, TallyStarts
    <3>. QED
      BY <2>2, <3>1, PrintForms
  <2>5. \A m \in Lcores : pc'[m] = "print" => m = Master
    <3>1. \A m \in Lcores : pc[m] = "print" => m = Master
      BY DEF PrintInv
    <3>2. CASE l = Master
      <4>1. \A m \in Lcores \ {l} : pc'[m] = pc[m]
        BY <1>2, <1>t DEF Drain, Advance
      <4>. QED
        BY <3>1, <3>2, <4>1
    <3>3. CASE l # Master
      <4>1. Advance(l, "rx")
        BY <1>2, <3>3 DEF Drain
      <4>2. \A m \in Lcores : pc'[m] = "print" => pc[m] = "print"
        BY <1>t, <4>1 DEF Advance
      <4>. QED
        BY <3>1, <4>2
    <3>. QED
      BY <3>2, <3>3
  <2>6. phase' # "args"
    BY <1>2, MoveFacts
  <2>7. NeverDown
    BY <1>t, <2>2 DEF NeverDown
  <2>. QED
    BY <2>2, <2>3, <2>4, <2>5, <2>6, <2>7 DEF PrintInv
<1>3. ASSUME NEW l \in Lcores, PrintPort(l) PROVE PrintInv' /\ NeverDown
  <2>1. /\ LoopFrame /\ pc[l] = "print" /\ l = Master /\ to_print \subseteq EnabledPorts /\ Tallies
        /\ UNCHANGED <<pc, printed, stat_rx, stat_tx, stat_dropped>>
    BY <1>3 DEF PrintPort, PrintInv, loopVars, bufVars
  <2>2. EnabledPorts' = EnabledPorts /\ phase' = phase
    BY <2>1, LoopFrameKeeps
  <2>3. PICK p \in to_print :
            /\ to_print' = to_print \ {p}
            /\ totals'.rx = totals.rx + stat_rx[p] /\ totals'.tx = totals.tx + stat_tx[p]
            /\ totals'.dropped = totals.dropped + stat_dropped[p]
    BY <1>3 DEF PrintPort
  <2>4. Tallies'
    <3>1. /\ Tally(stat_rx, EnabledPorts, to_print \ {p}, totals.rx + stat_rx[p], printed.rx)
          /\ Tally(stat_tx, EnabledPorts, to_print \ {p}, totals.tx + stat_tx[p], printed.tx)
          /\ Tally(stat_dropped, EnabledPorts, to_print \ {p}, totals.dropped + stat_dropped[p],
                   printed.dropped)
      BY <1>t, <2>1, TallyReads DEF Tallies
    <3>. QED
      BY <2>1, <2>2, <2>3, <3>1, PrintForms
  <2>5. PrintedNotAhead' /\ NeverDown
    BY <1>a, <1>t, <2>1, <2>2, PrintForms DEF NeverDown
  <2>6. to_print' \subseteq EnabledPorts' /\ (NothingPrinted' <=> NothingPrinted)
    BY <2>1, <2>2, <2>3 DEF NothingPrinted
  <2>. QED
    BY <2>1, <2>2, <2>4, <2>5, <2>6 DEF PrintInv
<1>4. ASSUME NEW l \in Lcores, PrintDone(l) PROVE PrintInv' /\ NeverDown
  <2>1. /\ LoopFrame /\ pc[l] = "print" /\ l = Master /\ Tallies /\ to_print = {}
        /\ UNCHANGED <<stat_rx, stat_tx, stat_dropped>> /\ printed' = totals
    BY <1>4 DEF PrintDone, PrintInv, bufVars
  <2>2. EnabledPorts' = EnabledPorts /\ phase' = phase
    BY <2>1, LoopFrameKeeps
  <2>3. \A m \in Lcores : pc'[m] # "print"
    <3>1. pc'[l] = "rx" /\ \A m \in Lcores \ {l} : pc'[m] = pc[m]
      BY <1>4, <1>t DEF PrintDone
    <3>. QED
      BY <2>1, <3>1 DEF PrintInv
  <2>4. /\ totals.rx <= SumOver(stat_rx, EnabledPorts) /\ printed.rx <= totals.rx
        /\ totals.tx <= SumOver(stat_tx, EnabledPorts) /\ printed.tx <= totals.tx
        /\ totals.dropped <= SumOver(stat_dropped, EnabledPorts) /\ printed.dropped <= totals.dropped
    BY <1>t, <2>1, TallyDone DEF Tallies
  <2>5. PrintedNotAhead'
    BY <2>1, <2>2, <2>4, PrintForms
  <2>6. NeverDown
    BY <1>t, <2>1, <2>4 DEF NeverDown
  <2>7. phase = "run"
    BY <2>1, OwnPort DEF InLoop
  <2>. QED
    BY <1>t, <2>2, <2>3, <2>5, <2>6, <2>7 DEF PrintInv
<1>5. CASE /\ ~ParseArgs
           /\ \A l \in Lcores : ~(PrintPort(l) \/ PrintDone(l) \/ (Drain(l) /\ StartPrint))
  <2>1. /\ UNCHANGED <<to_print, totals, printed>> /\ EnabledPorts' = EnabledPorts
        /\ phase' = "args" => phase = "args"
        /\ \A l \in Lcores : pc'[l] = "print" => pc[l] = "print"
    BY <1>5, PrintFrame DEF printVars
  <2>2. PrintedNotAhead'
    BY <1>b, <2>1, PrintForms
  <2>3. NeverDown
    BY <1>t, <2>1 DEF NeverDown
  <2>4. ASSUME to_print \subseteq EnabledPorts, Tallies PROVE Tallies'
    <3>1. /\ Tally(stat_rx', EnabledPorts, to_print, totals.rx, printed.rx)
          /\ Tally(stat_tx', EnabledPorts, to_print, totals.tx, printed.tx)
          /\ Tally(stat_dropped', EnabledPorts, to_print, totals.dropped, printed.dropped)
      BY <1>t, <1>u, <1>g, <2>4, TallyGrows DEF Tallies, Grows
    <3>. QED
      BY <2>1, <3>1, PrintForms
  <2>5. NothingPrinted => NothingPrinted'
    BY <2>1 DEF NothingPrinted
  <2>. QED
    BY <1>t, <2>1, <2>2, <2>3, <2>4, <2>5 DEF PrintInv
<1>. QED
  BY <1>1, <1>2, <1>3, <1>4, <1>5

\* print_stats takes no lock and reads the counters of other lcores one after
\* another, yet the totals it prints are never ahead of the counters and none
\* goes down from one time to the next.
THEOREM PrintCorrect == Spec => PrintedSound
<1>1. Init => PrintInv
  <2>. SUFFICES ASSUME Init PROVE PrintInv
    OBVIOUS
  <2>1. /\ printed.rx = 0 /\ printed.tx = 0 /\ printed.dropped = 0
        /\ \A l \in Lcores : pc[l] = "wait"
    BY DEF Init
  <2>2. SumOver(stat_rx, EnabledPorts) \in Nat /\ SumOver(stat_tx, EnabledPorts) \in Nat
        /\ SumOver(stat_dropped, EnabledPorts) \in Nat
    BY InitIInv, PrintTypes, SumNat
  <2>. QED
    BY <2>1, <2>2, ConfigAssumption DEF PrintInv, PrintedNotAhead, NothingPrinted
<1>2. IInv /\ IInv' /\ PrintInv /\ [Next]_vars => PrintInv'
  BY PrintNext
<1>3. IInv /\ IInv' /\ PrintInv /\ [Next]_vars
        => [/\ PrintedNotAhead'
            /\ printed'.rx >= printed.rx /\ printed'.tx >= printed.tx
            /\ printed'.dropped >= printed.dropped]_vars
  BY PrintNext DEF PrintInv, NeverDown
<1>. QED
  BY Invariance, <1>1, <1>2, <1>3, PTL DEF Spec, PrintedSound

=============================================================================
