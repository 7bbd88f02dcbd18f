------------------------------- MODULE L2fwd -------------------------------
(***************************************************************************)
(* The l2fwd virtual network function: the DPDK program that every         *)
(* loopback scenario of the testbed runs in its virtual machines           *)
(* (docker/dpdk-suite/dpdk-stable-18.11.2/examples/l2fwd/main.c), with the *)
(* transmit buffers of librte_ethdev it is built on.                       *)
(*                                                                         *)
(* main() runs on the master lcore.  It parses the arguments, pairs the    *)
(* enabled ports, deals them out to the lcores, initialises them, waits    *)
(* for the links, launches l2fwd_main_loop on every lcore and, once every  *)
(* lcore has returned, closes the ports.  The lcores share tx_buffer,      *)
(* the port statistics, force_quit and the devices, without any lock.      *)
(*                                                                         *)
(* A packet is its arrival number on the port it came in by, with the      *)
(* three parts of its Ethernet header that l2fwd_mac_updating writes.      *)
(* Time is abstracted to due[l]: the TSC has moved by more than drain_tsc  *)
(* since lcore l last drained its buffers.                                 *)
(***************************************************************************)
EXTENDS Integers, Sequences, FiniteSets

CONSTANTS
    Devs,            \* the ids of the available Ethernet devices
    Lcores,          \* the ids of the enabled logical cores
    Master,          \* rte_get_master_lcore()
    Args,            \* the command lines: [p, q, T, mac] (see ParseArgs)
    MaxPktBurst,     \* MAX_PKT_BURST: RX burst and TX buffer size
    MaxRxQueue,      \* MAX_RX_QUEUE_PER_LCORE
    MaxTimerPeriod,  \* MAX_TIMER_PERIOD
    MaxCheckTime,    \* MAX_CHECK_TIME: rounds of the link check
    RxDesc,          \* descriptors of a receive ring
    MaxArrivals      \* bound: packets that reach one port

\* RTE_MAX_ETHPORTS: the port ids a 32-bit port mask can name.
PortIds == 0 .. 31

\* What getopt found: a list of ports, text that is no hexadecimal number, or
\* no -p at all.
BadMask == {-1}
NoMask == {-2}

ASSUME ConfigAssumption ==
    /\ Devs \subseteq PortIds
    /\ Lcores \subseteq Nat /\ Master \in Lcores
    /\ MaxPktBurst \in Nat \ {0} /\ MaxRxQueue \in Nat /\ RxDesc \in Nat
    /\ MaxCheckTime \in Nat \ {0} /\ MaxTimerPeriod \in Nat /\ MaxArrivals \in Nat

ASSUME ArgsAssumption ==
    Args \subseteq [p : (SUBSET PortIds) \cup {BadMask, NoMask}, q : Nat, T : Int, mac : BOOLEAN]

VARIABLES
    phase,            \* where main() is
    mask,             \* l2fwd_enabled_port_mask, as a set of port ids
    per_lcore,        \* l2fwd_rx_queue_per_lcore
    mac_updating,     \* mac_updating
    timer_on,         \* timer_period > 0
    todo,             \* the devices RTE_ETH_FOREACH_DEV has yet to visit
    last_port,        \* last_port
    nb_ports_in_mask, \* nb_ports_in_mask
    dst_ports,        \* l2fwd_dst_ports
    rx_lcore_id,      \* rx_lcore_id
    rx_port_list,     \* lcore_queue_conf[l].rx_port_list
    count,            \* count of check_all_ports_link_status
    print_flag,       \* print_flag of check_all_ports_link_status
    reported,         \* the link status of every port has been printed
    force_quit,       \* force_quit
    pc,               \* where lcore l is in l2fwd_main_loop
    i,                \* its index in rx_port_list
    pkts_burst,       \* the packets of its burst not yet forwarded
    due,              \* diff_tsc > drain_tsc
    device,           \* state of each device
    rx_ring,          \* receive ring of each device
    arrived,          \* packets that have reached each device
    tx_buffer,        \* tx_buffer[p]: the packets waiting in it
    wire,             \* what each device has transmitted
    stat_rx, stat_tx, stat_dropped,   \* port_statistics
    to_print,         \* ports print_stats has yet to read
    totals,           \* the running totals of print_stats
    printed           \* the totals it printed last

parseVars == <<mask, per_lcore, mac_updating, timer_on>>
pairVars  == <<last_port, nb_ports_in_mask, dst_ports>>
dealVars  == <<rx_lcore_id, rx_port_list>>
linkVars  == <<count, print_flag, reported>>
confVars  == <<parseVars, pairVars, dealVars>>
loopVars  == <<pc, i, pkts_burst, due>>
bufVars   == <<tx_buffer, wire, stat_tx, stat_dropped>>
pktVars   == <<rx_ring, arrived, stat_rx, bufVars>>
printVars == <<to_print, totals, printed>>
vars == <<phase, todo, confVars, linkVars, force_quit, loopVars, device, pktVars, printVars>>

----------------------------------------------------------------------------
(* Packets *)

\* A header: destination address, first two and last four octets of the
\* source address.  Orig is what the packet came with, Zero an octet of zeros
\* and a port id stands for the address the program writes for that port.
Orig == -1
Zero == -2
Header == [d : Int, s_hi : Int, s_lo : Int]
Packet == [id : Nat, hdr : Header]

NewPacket(n) == [id |-> n, hdr |-> [d |-> Orig, s_hi |-> Orig, s_lo |-> Orig]]

\* The two stores of l2fwd_mac_updating: eight octets at the start of the
\* header (so two octets too many), then the six of the source address.
StoreDst(h, port) == [h EXCEPT !.d = port, !.s_hi = Zero]
StoreSrc(h, port) == [h EXCEPT !.s_hi = port, !.s_lo = port]

\* Mutant: the source address is copied before the long store.
l2fwd_mac_updating_swapped(m, port) ==
    [m EXCEPT !.hdr = StoreDst(StoreSrc(m.hdr, port), port)]

l2fwd_mac_updating(m, port) ==
    [m EXCEPT !.hdr = StoreSrc(StoreDst(m.hdr, port), port)]

----------------------------------------------------------------------------
(* The first steps of main(): arguments, pairing, lcores *)

EnabledPorts == Devs \cap mask

Init ==
    /\ phase = "args"
    /\ mask = {} /\ per_lcore = 1 /\ mac_updating = TRUE /\ timer_on = TRUE
    /\ todo = {} /\ last_port = 0 /\ nb_ports_in_mask = 0
    /\ dst_ports = [p \in Devs |-> 0]
    /\ rx_lcore_id = 0 /\ rx_port_list = [l \in Lcores |-> <<>>]
    /\ count = 0 /\ print_flag = FALSE /\ reported = FALSE
    /\ force_quit = FALSE
    /\ pc = [l \in Lcores |-> "wait"] /\ i = [l \in Lcores |-> 1]
    /\ pkts_burst = [l \in Lcores |-> <<>>] /\ due = [l \in Lcores |-> TRUE]
    /\ device = [p \in Devs |-> "down"]
    /\ rx_ring = [p \in Devs |-> <<>>] /\ arrived = [p \in Devs |-> 0]
    /\ tx_buffer = [p \in Devs |-> <<>>] /\ wire = [p \in Devs |-> <<>>]
    /\ stat_rx = [p \in Devs |-> 0] /\ stat_tx = [p \in Devs |-> 0]
    /\ stat_dropped = [p \in Devs |-> 0]
    /\ to_print = {} /\ totals = [rx |-> 0, tx |-> 0, dropped |-> 0]
    /\ printed = totals

\* l2fwd_parse_portmask returns -1 for text that is no number and for a mask
\* of zero; stored in the unsigned mask, -1 enables every port.
l2fwd_parse_portmask(p) == IF p \in {BadMask, {}} THEN PortIds ELSE p

\* Without -p l2fwd_enabled_port_mask keeps its initial value, 0.
enabled_port_mask(p) == IF p = NoMask THEN {} ELSE l2fwd_parse_portmask(p)

\* 0 stands for "invalid queue number".
l2fwd_parse_nqueue(n) == IF n >= MaxRxQueue THEN 0 ELSE n

\* A negative result stands for "invalid timer period".
l2fwd_parse_timer_period(n) == IF n >= MaxTimerPeriod THEN -1 ELSE n

\* rte_exit: the process ends where it is.
RteExit ==
    /\ phase' = "exit"
    /\ UNCHANGED <<todo, confVars, linkVars, force_quit, loopVars, device, pktVars, printVars>>

\* main() up to the pairing loop: the arguments, the device count and the mask.
\* The devices are numbered from 0 only if none is detached: the mask is
\* compared with the number of devices, not with their ids.
ParseArgs ==
    /\ phase = "args"
    /\ \E a \in Args :
        LET m == enabled_port_mask(a.p)
            q == l2fwd_parse_nqueue(a.q)
            t == l2fwd_parse_timer_period(a.T)
        IN  IF q = 0 \/ t < 0 \/ Devs = {} \/ ~(m \subseteq 0 .. (Cardinality(Devs) - 1))
            THEN RteExit
            ELSE /\ phase' = "pair"
                 /\ todo' = Devs \cap m
                 /\ mask' = m /\ per_lcore' = q
                 /\ mac_updating' = a.mac /\ timer_on' = (t > 0)
                 /\ UNCHANGED <<pairVars, dealVars, linkVars, force_quit, loopVars,
                                device, pktVars, printVars>>

\* RTE_ETH_FOREACH_DEV visits the devices in increasing order; the loops skip
\* the ports that are not enabled.
First(S, p) == p \in S /\ \A x \in S : p <= x

\* Mutant: an odd port is sent back to the last port, which keeps its own
\* (zeroed) destination.
PairPort_OneWay(p) ==
    /\ IF nb_ports_in_mask % 2 = 1
       THEN /\ dst_ports' = [dst_ports EXCEPT ![p] = last_port]
            /\ UNCHANGED last_port
       ELSE last_port' = p /\ UNCHANGED dst_ports
    /\ nb_ports_in_mask' = nb_ports_in_mask + 1

\* One iteration of the pairing loop.
PairPort(p) ==
    /\ IF nb_ports_in_mask % 2 = 1
       THEN /\ dst_ports' = [dst_ports EXCEPT ![p] = last_port, ![last_port] = p]
            /\ UNCHANGED last_port
       ELSE last_port' = p /\ UNCHANGED dst_ports
    /\ nb_ports_in_mask' = nb_ports_in_mask + 1

Pair ==
    /\ phase = "pair"
    /\ \E p \in todo :
        /\ First(todo, p)
        /\ PairPort(p)
        /\ todo' = todo \ {p}
    /\ UNCHANGED <<phase, parseVars, dealVars, linkVars, force_quit, loopVars, device,
                   pktVars, printVars>>

\* After the loop: a port left over is paired with itself.
PairDone ==
    /\ phase = "pair" /\ todo = {}
    /\ dst_ports' = IF nb_ports_in_mask % 2 = 1
                    THEN [dst_ports EXCEPT ![last_port] = last_port]
                    ELSE dst_ports
    /\ phase' = "deal" /\ todo' = EnabledPorts
    /\ UNCHANGED <<last_port, nb_ports_in_mask, parseVars, dealVars, linkVars, force_quit,
                   loopVars, device, pktVars, printVars>>

\* The lcores the while loop can stop at, from rx_lcore_id on.
Candidates == {l \in Lcores : l >= rx_lcore_id /\ Len(rx_port_list[l]) # per_lcore}

\* One iteration of the loop that gives each port to an lcore.
Deal ==
    /\ phase = "deal"
    /\ \E p \in todo :
        /\ First(todo, p)
        /\ IF Candidates = {}
           THEN RteExit
           ELSE /\ \E l \in Candidates :
                    /\ First(Candidates, l)
                    /\ rx_lcore_id' = l
                    /\ rx_port_list' = [rx_port_list EXCEPT ![l] = Append(@, p)]
                /\ todo' = todo \ {p}
                /\ UNCHANGED <<phase, parseVars, pairVars, linkVars, force_quit, loopVars,
                               device, pktVars, printVars>>

\* The mbuf pool is created, or cannot be.
DealDone ==
    /\ phase = "deal" /\ todo = {}
    /\ \/ RteExit
       \/ /\ phase' = "ports" /\ todo' = EnabledPorts
          /\ UNCHANGED <<confVars, linkVars, force_quit, loopVars, device, pktVars, printVars>>

----------------------------------------------------------------------------
(* Port initialisation and link check *)

\* memset(&port_statistics, 0, ...)
ZeroStats ==
    /\ stat_rx' = [p \in Devs |-> 0]
    /\ stat_tx' = [p \in Devs |-> 0]
    /\ stat_dropped' = [p \in Devs |-> 0]

\* One iteration of the loop over the ports: configure, set up the two
\* queues, allocate the TX buffer, start.  Each call can fail.
InitPort ==
    /\ phase = "ports"
    /\ \E p \in todo :
        /\ First(todo, p)
        /\ \/ RteExit
           \/ /\ device' = [device EXCEPT ![p] = "started"]
              /\ tx_buffer' = [tx_buffer EXCEPT ![p] = <<>>]
              /\ ZeroStats
              /\ todo' = todo \ {p}
              /\ UNCHANGED <<phase, confVars, linkVars, force_quit, loopVars, rx_ring, arrived,
                             wire, printVars>>

\* "All available ports are disabled" or on to the link check.
PortsDone ==
    /\ phase = "ports" /\ todo = {}
    /\ IF EnabledPorts = {}
       THEN RteExit
       ELSE /\ phase' = "links"
            /\ UNCHANGED <<todo, confVars, linkVars, force_quit, loopVars, device, pktVars,
                           printVars>>

LastRound == count = MaxCheckTime - 1

\* One round of check_all_ports_link_status: whether every link is up is the
\* environment's choice.  The loop ends on a signal, after the round that
\* prints, or when count has passed MAX_CHECK_TIME.
CheckLinks ==
    /\ phase = "links"
    /\ IF force_quit
       THEN phase' = "run" /\ UNCHANGED linkVars
       ELSE IF print_flag
       THEN phase' = "run" /\ reported' = TRUE /\ UNCHANGED <<count, print_flag>>
       ELSE /\ \E all_ports_up \in BOOLEAN : print_flag' = (all_ports_up \/ LastRound)
            /\ count' = count + 1
            /\ phase' = IF count' <= MaxCheckTime THEN "links" ELSE "run"
            /\ UNCHANGED reported
    /\ UNCHANGED <<todo, confVars, force_quit, loopVars, device, pktVars, printVars>>

----------------------------------------------------------------------------
(* librte_ethdev: the transmit buffer *)

\* Mutant: the length of the buffer is not reset.
rte_eth_tx_buffer_flush_kept(p, buffer) ==
    \E sent \in 0 .. Len(buffer) :
        /\ wire' = [wire EXCEPT ![p] = @ \o SubSeq(buffer, 1, sent)]
        /\ tx_buffer' = [tx_buffer EXCEPT ![p] = buffer]
        /\ stat_dropped' = [stat_dropped EXCEPT ![p] = @ + (Len(buffer) - sent)]
        /\ stat_tx' = [stat_tx EXCEPT ![p] = @ + sent]

\* Mutant: no callback counts the packets the driver refuses.
rte_eth_tx_buffer_flush_uncounted(p, buffer) ==
    \E sent \in 0 .. Len(buffer) :
        /\ wire' = [wire EXCEPT ![p] = @ \o SubSeq(buffer, 1, sent)]
        /\ tx_buffer' = [tx_buffer EXCEPT ![p] = <<>>]
        /\ stat_tx' = [stat_tx EXCEPT ![p] = @ + sent]
        /\ UNCHANGED stat_dropped

\* rte_eth_tx_burst (the driver) takes the first `sent' packets.  The others
\* go to rte_eth_tx_buffer_count_callback, which frees and counts them.  The
\* caller adds `sent' to its own statistics.
rte_eth_tx_buffer_flush(p, buffer) ==
    \E sent \in 0 .. Len(buffer) :
        /\ wire' = [wire EXCEPT ![p] = @ \o SubSeq(buffer, 1, sent)]
        /\ tx_buffer' = [tx_buffer EXCEPT ![p] = <<>>]
        /\ stat_dropped' = [stat_dropped EXCEPT ![p] = @ + (Len(buffer) - sent)]
        /\ stat_tx' = [stat_tx EXCEPT ![p] = @ + sent]

\* Mutant: the buffer is flushed one packet too late.
rte_eth_tx_buffer_late(p, m) ==
    LET buffer == Append(tx_buffer[p], m)
    IN  IF Len(buffer) <= MaxPktBurst
        THEN /\ tx_buffer' = [tx_buffer EXCEPT ![p] = buffer]
             /\ UNCHANGED <<wire, stat_tx, stat_dropped>>
        ELSE rte_eth_tx_buffer_flush(p, buffer)

rte_eth_tx_buffer(p, m) ==
    LET buffer == Append(tx_buffer[p], m)
    IN  IF Len(buffer) < MaxPktBurst
        THEN /\ tx_buffer' = [tx_buffer EXCEPT ![p] = buffer]
             /\ UNCHANGED <<wire, stat_tx, stat_dropped>>
        ELSE rte_eth_tx_buffer_flush(p, buffer)

----------------------------------------------------------------------------
(* l2fwd_main_loop on lcore l *)

n_rx_port(l) == Len(rx_port_list[l])
RxPort(l) == rx_port_list[l][i[l]]

\* What every step of the main loop leaves alone.
LoopFrame == UNCHANGED <<phase, todo, confVars, linkVars, force_quit, device, arrived>>

\* To the next port of the list in the same part of the loop, or to the first
\* port in the part called next.
Advance(l, next) ==
    IF i[l] < n_rx_port(l)
    THEN i' = [i EXCEPT ![l] = @ + 1] /\ UNCHANGED pc
    ELSE i' = [i EXCEPT ![l] = 1] /\ pc' = [pc EXCEPT ![l] = next]

\* rte_eal_mp_remote_launch reaches lcore l.
Launch(l) ==
    /\ phase = "run" /\ pc[l] = "wait"
    /\ pc' = [pc EXCEPT ![l] = IF n_rx_port(l) = 0 THEN "returned" ELSE "top"]
    /\ UNCHANGED <<i, pkts_burst, due, rx_ring, stat_rx, bufVars, printVars>>
    /\ LoopFrame

\* Mutant: a signal only sends the lcore round the loop again.
LoopTop_Deaf(l) ==
    /\ pc[l] = "top"
    /\ pc' = [pc EXCEPT ![l] = IF due[l] /\ ~force_quit THEN "drain" ELSE "rx"]
    /\ due' = [due EXCEPT ![l] = FALSE]
    /\ UNCHANGED <<i, pkts_burst, rx_ring, stat_rx, bufVars, printVars>>
    /\ LoopFrame

\* Mutant: prev_tsc moves in every iteration, so that the drain is never due.
LoopTop_NeverDue(l) ==
    /\ pc[l] = "top"
    /\ pc' = [pc EXCEPT ![l] = IF force_quit THEN "returned" ELSE "rx"]
    /\ due' = [due EXCEPT ![l] = FALSE]
    /\ UNCHANGED <<i, pkts_burst, rx_ring, stat_rx, bufVars, printVars>>
    /\ LoopFrame

\* The head of the loop: force_quit, then the comparison of the two time stamps.
LoopTop(l) ==
    /\ pc[l] = "top"
    /\ pc' = [pc EXCEPT ![l] = IF force_quit THEN "returned" ELSE IF due[l] THEN "drain" ELSE "rx"]
    /\ due' = [due EXCEPT ![l] = IF force_quit THEN @ ELSE FALSE]
    /\ UNCHANGED <<i, pkts_burst, rx_ring, stat_rx, bufVars, printVars>>
    /\ LoopFrame

\* The port whose buffer the current iteration of the drain loop flushes.
DrainPort(l) == dst_ports[RxPort(l)]

\* Mutant: print_stats goes on from the totals of the last time.
StartPrint_Kept ==
    /\ to_print' = EnabledPorts
    /\ UNCHANGED <<totals, printed>>

\* The totals of print_stats are zeroed before it visits the ports.
StartPrint ==
    /\ to_print' = EnabledPorts
    /\ totals' = [rx |-> 0, tx |-> 0, dropped |-> 0]
    /\ UNCHANGED printed

\* One iteration of the drain loop.  After the last one the master may find
\* that timer_tsc has reached timer_period.
Drain(l) ==
    /\ pc[l] = "drain"
    /\ rte_eth_tx_buffer_flush(DrainPort(l), tx_buffer[DrainPort(l)])
    /\ \/ Advance(l, "rx") /\ UNCHANGED printVars
       \/ /\ i[l] = n_rx_port(l) /\ l = Master /\ timer_on
          /\ Advance(l, "print")
          /\ StartPrint
    /\ UNCHANGED <<pkts_burst, due, rx_ring, stat_rx>>
    /\ LoopFrame

\* print_stats, one port at a time: the other lcores go on counting.
PrintPort(l) ==
    /\ pc[l] = "print"
    /\ \E p \in to_print :
        /\ First(to_print, p)
        /\ totals' = [rx      |-> totals.rx + stat_rx[p],
                      tx      |-> totals.tx + stat_tx[p],
                      dropped |-> totals.dropped + stat_dropped[p]]
        /\ to_print' = to_print \ {p}
    /\ UNCHANGED <<loopVars, rx_ring, stat_rx, bufVars, printed>>
    /\ LoopFrame

PrintDone(l) ==
    /\ pc[l] = "print" /\ to_print = {}
    /\ printed' = totals
    /\ pc' = [pc EXCEPT ![l] = "rx"]
    /\ UNCHANGED <<i, pkts_burst, due, rx_ring, stat_rx, bufVars, to_print, totals>>
    /\ LoopFrame

\* rte_eth_rx_burst on the next port of the list.
RxBurst(l) ==
    LET p  == RxPort(l)
        nb_rx == IF Len(rx_ring[p]) < MaxPktBurst THEN Len(rx_ring[p]) ELSE MaxPktBurst
    IN  /\ pc[l] = "rx"
        /\ pkts_burst' = [pkts_burst EXCEPT ![l] = SubSeq(rx_ring[p], 1, nb_rx)]
        /\ rx_ring' = [rx_ring EXCEPT ![p] = SubSeq(@, nb_rx + 1, Len(@))]
        /\ stat_rx' = [stat_rx EXCEPT ![p] = @ + nb_rx]
        /\ IF nb_rx = 0
           THEN Advance(l, "top")
           ELSE pc' = [pc EXCEPT ![l] = "fwd"] /\ UNCHANGED i
        /\ UNCHANGED <<due, bufVars, printVars>>
        /\ LoopFrame

\* l2fwd_simple_forward of the next packet of the burst.
Forward(l) ==
    LET m   == Head(pkts_burst[l])
        dst == dst_ports[RxPort(l)]
    IN  /\ pc[l] = "fwd"
        /\ rte_eth_tx_buffer(dst, IF mac_updating THEN l2fwd_mac_updating(m, dst) ELSE m)
        /\ pkts_burst' = [pkts_burst EXCEPT ![l] = Tail(@)]
        /\ IF Len(pkts_burst[l]) > 1
           THEN UNCHANGED <<pc, i>>
           ELSE IF i[l] < n_rx_port(l)
           THEN i' = [i EXCEPT ![l] = @ + 1] /\ pc' = [pc EXCEPT ![l] = "rx"]
           ELSE i' = [i EXCEPT ![l] = 1] /\ pc' = [pc EXCEPT ![l] = "top"]
        /\ UNCHANGED <<due, rx_ring, stat_rx, printVars>>
        /\ LoopFrame

----------------------------------------------------------------------------
(* The end of main(), and the environment *)

\* Mutant: main() does not wait for the slave lcores.
AllReturned_MasterOnly == pc[Master] = "returned"

\* The master has left its own loop and rte_eal_wait_lcore has returned for
\* every slave.
AllReturned == \A l \in Lcores : pc[l] = "returned"

WaitLcores ==
    /\ phase = "run" /\ AllReturned
    /\ phase' = "close" /\ todo' = EnabledPorts
    /\ UNCHANGED <<confVars, linkVars, force_quit, loopVars, device, pktVars, printVars>>

\* rte_eth_dev_stop and rte_eth_dev_close.
ClosePort ==
    /\ phase = "close"
    /\ \E p \in todo :
        /\ First(todo, p)
        /\ device' = [device EXCEPT ![p] = "closed"]
        /\ todo' = todo \ {p}
    /\ UNCHANGED <<phase, confVars, linkVars, force_quit, loopVars, pktVars, printVars>>

Return ==
    /\ phase = "close" /\ todo = {}
    /\ phase' = "done"
    /\ UNCHANGED <<todo, confVars, linkVars, force_quit, loopVars, device, pktVars, printVars>>

Over == phase \in {"exit", "done"}

\* signal_handler: SIGINT or SIGTERM at any point of the run.
signal_handler ==
    /\ ~Over
    /\ force_quit' = TRUE
    /\ UNCHANGED <<phase, todo, confVars, linkVars, loopVars, device, pktVars, printVars>>

\* A packet reaches a started device: into its ring, or lost if that is full.
Arrive(p) ==
    /\ ~Over
    /\ device[p] = "started" /\ arrived[p] < MaxArrivals
    /\ arrived' = [arrived EXCEPT ![p] = @ + 1]
    /\ rx_ring' = [rx_ring EXCEPT ![p] =
                      IF Len(@) < RxDesc THEN Append(@, NewPacket(arrived[p] + 1)) ELSE @]
    /\ UNCHANGED <<phase, todo, confVars, linkVars, force_quit, loopVars, device, stat_rx,
                   bufVars, printVars>>

\* The TSC moves past prev_tsc + drain_tsc.
Tick(l) ==
    /\ ~Over
    /\ due' = [due EXCEPT ![l] = TRUE]
    /\ UNCHANGED <<phase, todo, confVars, linkVars, force_quit, pc, i, pkts_burst, device,
                   pktVars, printVars>>

Terminated == Over /\ UNCHANGED vars

MainStep ==
    \/ ParseArgs \/ Pair \/ PairDone \/ Deal \/ DealDone \/ InitPort \/ PortsDone
    \/ CheckLinks \/ WaitLcores \/ ClosePort \/ Return

LcoreStep(l) ==
    \/ Launch(l) \/ LoopTop(l) \/ Drain(l) \/ PrintPort(l) \/ PrintDone(l)
    \/ RxBurst(l) \/ Forward(l)

Next ==
    \/ MainStep
    \/ \E l \in Lcores : LcoreStep(l) \/ Tick(l)
    \/ \E p \in Devs : Arrive(p)
    \/ signal_handler
    \/ Terminated

Spec == Init /\ [][Next]_vars

\* Every lcore is a thread pinned to a core of its own that never blocks,
\* and the TSC never stops.
Fairness ==
    /\ WF_vars(MainStep)
    /\ \A l \in Lcores : WF_vars(LcoreStep(l)) /\ WF_vars(Tick(l))

FairSpec == Spec /\ Fairness

----------------------------------------------------------------------------
(* Properties *)

Phases == {"args", "pair", "deal", "ports", "links", "run", "close", "done", "exit"}
LcorePcs == {"wait", "top", "drain", "print", "rx", "fwd", "returned"}
Totals == [rx : Nat, tx : Nat, dropped : Nat]

ConfTypeOK ==
    /\ mask \subseteq PortIds /\ per_lcore \in Nat
    /\ mac_updating \in BOOLEAN /\ timer_on \in BOOLEAN
    /\ last_port \in Int /\ nb_ports_in_mask \in Nat
    /\ dst_ports \in [Devs -> Int]
    /\ rx_lcore_id \in Nat /\ rx_port_list \in [Lcores -> Seq(Devs)]

LoopTypeOK ==
    /\ pc \in [Lcores -> LcorePcs] /\ i \in [Lcores -> Nat \ {0}]
    /\ pkts_burst \in [Lcores -> Seq(Packet)] /\ due \in [Lcores -> BOOLEAN]

PktTypeOK ==
    /\ rx_ring \in [Devs -> Seq(Packet)] /\ arrived \in [Devs -> Nat]
    /\ tx_buffer \in [Devs -> Seq(Packet)] /\ wire \in [Devs -> Seq(Packet)]
    /\ stat_rx \in [Devs -> Nat] /\ stat_tx \in [Devs -> Nat]
    /\ stat_dropped \in [Devs -> Nat]

PrintTypeOK == to_print \subseteq Devs /\ totals \in Totals /\ printed \in Totals

\* The types of the variables.
TypeOK ==
    /\ phase \in Phases /\ todo \subseteq Devs
    /\ count \in Nat /\ print_flag \in BOOLEAN /\ reported \in BOOLEAN
    /\ force_quit \in BOOLEAN
    /\ device \in [Devs -> {"down", "started", "closed"}]
    /\ ConfTypeOK /\ LoopTypeOK /\ PktTypeOK /\ PrintTypeOK

\* The pairing loop of main() gives every enabled port an enabled partner, and
\* partners point at each other (a port left over is its own partner), so no
\* two ports forward to the same port.
PortsPaired ==
    phase \notin {"args", "pair"} =>
        \A p \in EnabledPorts :
            dst_ports[p] \in EnabledPorts /\ dst_ports[dst_ports[p]] = p

Dealt(p) == \E l \in Lcores : \E k \in DOMAIN rx_port_list[l] : rx_port_list[l][k] = p

\* Every enabled port is polled, and by one lcore only, from one place in its
\* list; no list is longer than -q asked for, nor than its array.
PortsDealt ==
    /\ phase \notin {"args", "pair", "deal", "exit"} => \A p \in EnabledPorts : Dealt(p)
    /\ \A l1, l2 \in Lcores :
        \A k1 \in DOMAIN rx_port_list[l1], k2 \in DOMAIN rx_port_list[l2] :
            rx_port_list[l1][k1] = rx_port_list[l2][k2] => l1 = l2 /\ k1 = k2
    /\ \A l \in Lcores : n_rx_port(l) <= per_lcore
    /\ phase \notin {"args", "exit"} => per_lcore < MaxRxQueue

\* Two lcores never work on the same receive queue, nor on the same transmit
\* queue and transmit buffer.  There is one of each per port and no lock:
\* l2fwd_main_loop is correct only if this never happens.
NoQueueRace ==
    \A l1, l2 \in Lcores : l1 # l2 =>
        /\ (pc[l1] \in {"rx", "fwd"} /\ pc[l2] \in {"rx", "fwd"}) => RxPort(l1) # RxPort(l2)
        /\ (pc[l1] \in {"drain", "fwd"} /\ pc[l2] \in {"drain", "fwd"}) =>
                dst_ports[RxPort(l1)] # dst_ports[RxPort(l2)]

\* rte_eth_tx_buffer stores before it compares: there must be room in
\* buffer->pkts for one more packet whenever it is called.
TxBufferHasRoom == \A p \in Devs : Len(tx_buffer[p]) < MaxPktBurst

Forwarding(l, p) == pc[l] = "fwd" /\ RxPort(l) = p

\* The packets that went the way of port d: sent, dropped or still buffered.
Accounted(d) == stat_tx[d] + stat_dropped[d] + Len(tx_buffer[d])

\* The statistics lose no packet: what a port has received has been sent or
\* dropped by its partner, waits in the partner's buffer, or is in the hands
\* of the lcore that is forwarding it.
PacketsConserved ==
    phase \in {"run", "close", "done"} =>
        \A p \in EnabledPorts :
            /\ \A l \in Lcores : Forwarding(l, p) =>
                    stat_rx[p] = Accounted(dst_ports[p]) + Len(pkts_burst[l])
            /\ (\A l \in Lcores : ~Forwarding(l, p)) => stat_rx[p] = Accounted(dst_ports[p])

\* main() returns without a last flush: when the program is over the
\* statistics miss the packets left in the buffers, fewer than MAX_PKT_BURST
\* for each port.
ExitLossBounded ==
    phase = "done" =>
        \A p \in EnabledPorts :
            LET d == dst_ports[p]
            IN  stat_rx[p] - (stat_tx[d] + stat_dropped[d]) \in 0 .. (MaxPktBurst - 1)

Ids(s) == [k \in DOMAIN s |-> s[k].id]
InHand(p) == {l \in Lcores : Forwarding(l, p)}
Held(p) == IF InHand(p) = {} THEN <<>> ELSE pkts_burst[CHOOSE l \in InHand(p) : TRUE]

\* With MAC updating a packet leaves with the destination and the whole source
\* address of the port it leaves by; without it, as it came: the store of eight
\* octets for a six-octet address must not survive in the source address.
HeadersRewritten ==
    \A p \in Devs : \A k \in DOMAIN wire[p] :
        wire[p][k].hdr = IF mac_updating THEN [d |-> p, s_hi |-> p, s_lo |-> p]
                         ELSE NewPacket(0).hdr

\* No lcore works on a port that main() has closed or has not started.
OnlyStartedPortsUsed ==
    \A l \in Lcores : pc[l] \in {"drain", "rx", "fwd"} =>
        device[RxPort(l)] = "started" /\ device[dst_ports[RxPort(l)]] = "started"

\* "Check the link status of all ports in up to 9s, and print them finally":
\* unless a signal comes first the status is printed before the lcores start,
\* even when the links stay down for all MAX_CHECK_TIME rounds.
LinksReported ==
    phase \in {"run", "close", "done"} => reported \/ force_quit

\* The sum of f over the ports of S, as the number of packets counted there.
CountedAt(f, p) == {p} \X (1 .. f[p])
SumOver(f, S) == Cardinality(UNION {CountedAt(f, p) : p \in S})

\* print_stats runs while the other lcores count: what it prints is never
\* ahead of the counters.
PrintedNotAhead ==
    /\ printed.rx <= SumOver(stat_rx, EnabledPorts)
    /\ printed.tx <= SumOver(stat_tx, EnabledPorts)
    /\ printed.dropped <= SumOver(stat_dropped, EnabledPorts)

\* print_stats reads the counters of other lcores while they change: the
\* totals it prints are no snapshot, but they are never ahead of the counters
\* and none goes down from one print_stats to the next.
PrintedSound ==
    [][/\ PrintedNotAhead'
       /\ printed'.rx >= printed.rx /\ printed'.tx >= printed.tx
       /\ printed'.dropped >= printed.dropped]_vars

\* A signal ends the program, at whatever point it comes.
QuitTerminates == force_quit ~> Over

\* A packet does not wait for ever in a transmit buffer that does not fill up.
BufferDrained == \A p \in Devs : (tx_buffer[p] # <<>>) ~> (tx_buffer[p] = <<>> \/ force_quit)

=============================================================================
