---------------------------- MODULE FloWatcher -----------------------------
(***************************************************************************)
(* FloWatcher-DPDK, the traffic meter that runs in the virtual machine at  *)
(* the end of a p2v or v2v experiment                                      *)
(* (docker/dpdk-suite/FloWatcher-DPDK/main.c).                             *)
(*                                                                         *)
(* A slave lcore polls the port and adds to `re'.  The master prints `re'  *)
(* once a second from a timer.  SIGINT, which the start script sends after *)
(* a fixed time, runs handler(): it reads the counters of the device, stops*)
(* the device under the polling lcore, sleeps, appends a line to tmp.txt   *)
(* and exits.                                                              *)
(*                                                                         *)
(* The kernel gives a signal to the main thread unless that one is already *)
(* in the handler, which blocks the signal; then to some other thread.  So *)
(* a second SIGINT (timeout(1) signals its child and then its group) runs  *)
(* a second handler beside the first.                                      *)
(*                                                                         *)
(* Packets are counted, never told apart.                                  *)
(***************************************************************************)
EXTENDS Integers, Sequences

CONSTANTS
    Main,        \* the main thread, on the master lcore
    Slaves,      \* the slave lcores, numbered: one thread each
    Ctrl,        \* another thread of the EAL
    RxRingSize,  \* RX_RING_SIZE
    BurstSize,   \* BURST_SIZE
    MaxPkts,     \* bound: packets that reach the port
    MaxSignals   \* bound: signals delivered

RX_RINGS == 1

ASSUME ThreadsAssumption ==
    /\ Main \in Int /\ Ctrl \in Int /\ Slaves \subseteq Int
    /\ Main # Ctrl /\ Main \notin Slaves /\ Ctrl \notin Slaves

ASSUME SizesAssumption ==
    /\ RxRingSize \in Nat \ {0} /\ BurstSize \in Nat \ {0}
    /\ MaxPkts \in Nat /\ MaxSignals \in Nat

Threads == {Main, Ctrl} \cup Slaves

VARIABLES
    phase,      \* where main() is
    dev,        \* the state of port PORT_ID
    queue_id,   \* queue_id of main()
    unlaunched, \* slaves RTE_LCORE_FOREACH_SLAVE has yet to visit
    lpc,        \* where each slave is in lcore_main
    queue,      \* its argument p: the queue it polls
    nb_rx,      \* the packets of its burst
    reg,        \* the value of re its addition has loaded
    ring,       \* packets waiting in the receive ring
    ipackets, imissed, ierrors,   \* the device's counters
    arrived,    \* packets that have reached the port
    re,         \* re
    old,        \* old of timer_cb: the total it printed last
    hpc,        \* where each thread is in handler()
    eth_stats,  \* eth_stats of each handler
    at_signal,  \* packets that had arrived when its signal came
    signals,    \* signals delivered
    tmp_txt,    \* the lines appended to tmp.txt
    process     \* "alive", or how the process ended

mainVars == <<phase, queue_id, unlaunched, old>>
pollVars == <<lpc, queue, nb_rx, reg, re>>
nicVars  == <<dev, ring, ipackets, imissed, ierrors, arrived>>
handVars == <<hpc, eth_stats, at_signal, signals, tmp_txt>>
vars == <<mainVars, pollVars, nicVars, handVars, process>>

Stats == [total : Nat, imissed : Nat, valid : BOOLEAN]

\* The core list (-l) names the slaves, or the main lcore only.
Init ==
    /\ phase = "eal" /\ dev = "none" /\ queue_id = 0 /\ unlaunched \in {Slaves, {}}
    /\ lpc = [w \in Slaves |-> "idle"] /\ queue = [w \in Slaves |-> 0]
    /\ nb_rx = [w \in Slaves |-> 0] /\ reg = [w \in Slaves |-> 0]
    /\ ring = 0 /\ ipackets = 0 /\ imissed = 0 /\ ierrors = 0 /\ arrived = 0
    /\ re = 0 /\ old = 0
    /\ hpc = [t \in Threads |-> "none"]
    /\ eth_stats = [t \in Threads |-> [total |-> 0, imissed |-> 0, valid |-> FALSE]]
    /\ at_signal = [t \in Threads |-> 0]
    /\ signals = 0 /\ tmp_txt = <<>> /\ process = "alive"

\* A thread in the handler does nothing else, and never leaves it.
Free(t) == process = "alive" /\ hpc[t] = "none"

----------------------------------------------------------------------------
(* main() *)

rte_exit == process' = "exit" /\ UNCHANGED <<mainVars, pollVars, nicVars, handVars>>

\* rte_eal_init finds a port, finds none, or fails; then the timer is armed.
EalInit ==
    /\ Free(Main) /\ phase = "eal"
    /\ \/ rte_exit
       \/ /\ dev' \in {"none", "attached"} /\ phase' = "pool"
          /\ UNCHANGED <<queue_id, unlaunched, old, pollVars, ring, ipackets, imissed,
                         ierrors, arrived, handVars, process>>

PoolCreate ==
    /\ Free(Main) /\ phase = "pool"
    /\ \/ rte_exit
       \/ /\ phase' = "port"
          /\ UNCHANGED <<queue_id, unlaunched, old, pollVars, nicVars, handVars, process>>

\* No port, or a call that fails, ends the program.
port_init ==
    /\ Free(Main) /\ phase = "port"
    /\ \/ rte_exit
       \/ /\ dev = "attached"
          /\ dev' = "started" /\ phase' = "launch"
          /\ UNCHANGED <<queue_id, unlaunched, old, pollVars, ring, ipackets, imissed,
                         ierrors, arrived, handVars, process>>

\* (queue_id)++ == RX_RINGS - 1
LastQueue == queue_id = RX_RINGS - 1

\* One iteration of the loop over the slaves.
Launch ==
    /\ Free(Main) /\ phase = "launch"
    /\ \E w \in unlaunched :
        /\ \A x \in unlaunched : w <= x
        /\ lpc' = [lpc EXCEPT ![w] = "poll"] /\ queue' = [queue EXCEPT ![w] = queue_id]
        /\ unlaunched' = unlaunched \ {w}
    /\ queue_id' = queue_id + 1
    /\ phase' = IF LastQueue THEN "timer" ELSE "launch"
    /\ UNCHANGED <<old, nb_rx, reg, re, nicVars, handVars, process>>

LaunchDone ==
    /\ Free(Main) /\ phase = "launch" /\ unlaunched = {}
    /\ phase' = "timer"
    /\ UNCHANGED <<queue_id, unlaunched, old, pollVars, nicVars, handVars, process>>

\* rte_timer_manage finds the timer expired: re is read and printed.
timer_cb ==
    /\ Free(Main) /\ phase = "timer"
    /\ old' = re
    /\ UNCHANGED <<phase, queue_id, unlaunched, pollVars, nicVars, handVars, process>>

MainStep ==
    EalInit \/ PoolCreate \/ port_init \/ Launch \/ LaunchDone \/ timer_cb

----------------------------------------------------------------------------
(* lcore_main *)

\* Into rte_eth_rx_burst.
RxEnter(w) ==
    /\ Free(w) /\ lpc[w] = "poll"
    /\ lpc' = [lpc EXCEPT ![w] = "burst"]
    /\ UNCHANGED <<queue, nb_rx, reg, re, mainVars, nicVars, handVars, process>>

\* The driver has released the ring of a port that was stopped: a burst from
\* it is empty, or the process crashes.
AfterBurst == IF dev = "stopped" THEN {"alive", "crash"} ELSE {"alive"}

\* Mutant: an empty burst ends the loop.
RxReturn_Breaks(w) ==
    LET n == IF ring < BurstSize THEN ring ELSE BurstSize
    IN  /\ Free(w) /\ lpc[w] = "burst"
        /\ nb_rx' = [nb_rx EXCEPT ![w] = n]
        /\ ring' = ring - n
        /\ lpc' = [lpc EXCEPT ![w] = IF n = 0 THEN "idle" ELSE "load"]
        /\ process' \in AfterBurst
        /\ UNCHANGED <<queue, reg, re, mainVars, dev, ipackets, imissed, ierrors, arrived,
                       handVars>>

\* It returns up to BURST_SIZE packets.
RxReturn(w) ==
    LET n == IF ring < BurstSize THEN ring ELSE BurstSize
    IN  /\ Free(w) /\ lpc[w] = "burst"
        /\ nb_rx' = [nb_rx EXCEPT ![w] = n]
        /\ ring' = ring - n
        /\ lpc' = [lpc EXCEPT ![w] = IF n = 0 THEN "poll" ELSE "load"]
        /\ process' \in AfterBurst
        /\ UNCHANGED <<queue, reg, re, mainVars, dev, ipackets, imissed, ierrors, arrived,
                       handVars>>

\* re += nb_rx is a load and a store: re has no lock.
AddLoad(w) ==
    /\ Free(w) /\ lpc[w] = "load"
    /\ reg' = [reg EXCEPT ![w] = re]
    /\ lpc' = [lpc EXCEPT ![w] = "store"]
    /\ UNCHANGED <<queue, nb_rx, re, mainVars, nicVars, handVars, process>>

\* Mutant: the size of the burst asked for is added, not of the one received.
AddStore_Burst(w) ==
    /\ Free(w) /\ lpc[w] = "store"
    /\ re' = reg[w] + BurstSize
    /\ nb_rx' = [nb_rx EXCEPT ![w] = 0]
    /\ lpc' = [lpc EXCEPT ![w] = "poll"]
    /\ UNCHANGED <<queue, reg, mainVars, nicVars, handVars, process>>

\* The store; then the packets are freed.
AddStore(w) ==
    /\ Free(w) /\ lpc[w] = "store"
    /\ re' = reg[w] + nb_rx[w]
    /\ nb_rx' = [nb_rx EXCEPT ![w] = 0]
    /\ lpc' = [lpc EXCEPT ![w] = "poll"]
    /\ UNCHANGED <<queue, reg, mainVars, nicVars, handVars, process>>

lcore_main(w) == RxEnter(w) \/ RxReturn(w) \/ AddLoad(w) \/ AddStore(w)

----------------------------------------------------------------------------
(* The device *)

\* A packet reaches the port: in the ring, missed because that is full, or bad.
Arrive ==
    /\ process = "alive" /\ dev = "started" /\ arrived < MaxPkts
    /\ arrived' = arrived + 1
    /\ \/ /\ ring < RxRingSize
          /\ ring' = ring + 1 /\ ipackets' = ipackets + 1
          /\ UNCHANGED <<imissed, ierrors>>
       \/ /\ ring = RxRingSize
          /\ imissed' = imissed + 1 /\ UNCHANGED <<ring, ipackets, ierrors>>
       \/ ierrors' = ierrors + 1 /\ UNCHANGED <<ring, ipackets, imissed>>
    /\ UNCHANGED <<dev, mainVars, pollVars, handVars, process>>

----------------------------------------------------------------------------
(* handler() *)

\* Where a main thread interrupted in its start-up can hold the lock of malloc.
StartUp == {"eal", "pool", "port", "launch"}

\* SIGINT, to the main thread if that one can take it, else to another thread
\* that exists.  If it interrupts malloc, the handler waits for ever in fopen
\* or in printf for the lock its own thread holds: "stuck".
Signal(t) ==
    /\ Free(t) /\ signals < MaxSignals
    /\ t # Main => hpc[Main] # "none" /\ phase # "eal"
    /\ signals' = signals + 1
    /\ hpc' \in {[hpc EXCEPT ![t] = h] :
                    h \in {"stats"} \cup (IF t = Main /\ phase \in StartUp THEN {"stuck"} ELSE {})}
    /\ at_signal' = [at_signal EXCEPT ![t] = arrived]
    /\ UNCHANGED <<eth_stats, tmp_txt, mainVars, pollVars, nicVars, process>>

\* Mutant: the missed packets are left out of the total.
Total_Received == ipackets + ierrors

Total == ipackets + imissed + ierrors

\* rte_eth_stats_get leaves eth_stats as it is on the stack when there is no
\* such port: anything can be in it.
Garbage == MaxPkts + 1
StatsGet(t) ==
    /\ process = "alive" /\ hpc[t] = "stats"
    /\ hpc' = [hpc EXCEPT ![t] = "check"]
    /\ IF dev = "none"
       THEN \E x, y \in {0, Garbage} :
                eth_stats' = [eth_stats EXCEPT ![t] = [total |-> x, imissed |-> y, valid |-> FALSE]]
       ELSE eth_stats' = [eth_stats EXCEPT ![t] =
                            [total |-> Total, imissed |-> imissed, valid |-> TRUE]]
    /\ UNCHANGED <<at_signal, signals, tmp_txt, mainVars, pollVars, nicVars, process>>

\* rte_eth_dev_stop returns at once unless the port is valid and started.
StopCheck(t) ==
    /\ process = "alive" /\ hpc[t] = "check"
    /\ hpc' = [hpc EXCEPT ![t] = IF dev = "started" THEN "stop" ELSE "sleep"]
    /\ UNCHANGED <<eth_stats, at_signal, signals, tmp_txt, mainVars, pollVars, nicVars, process>>

\* The driver releases the ring.  If a slave is in rte_eth_rx_burst, or another
\* handler has been through the test as well, two threads work on the ring at
\* once: the process may crash.
Racing(t) ==
    \/ \E w \in Slaves \ {t} : lpc[w] = "burst" /\ hpc[w] = "none"
    \/ \E x \in Threads \ {t} : hpc[x] = "stop"
    \/ dev = "stopped"

StopAct(t) ==
    /\ process = "alive" /\ hpc[t] = "stop"
    /\ dev' = "stopped" /\ ring' = 0
    /\ hpc' = [hpc EXCEPT ![t] = "sleep"]
    /\ process' \in (IF Racing(t) THEN {"alive", "crash"} ELSE {"alive"})
    /\ UNCHANGED <<eth_stats, at_signal, signals, tmp_txt, mainVars, pollVars, ipackets,
                   imissed, ierrors, arrived>>

Sleep(t) ==
    /\ process = "alive" /\ hpc[t] = "sleep"
    /\ hpc' = [hpc EXCEPT ![t] = "write"]
    /\ UNCHANGED <<eth_stats, at_signal, signals, tmp_txt, mainVars, pollVars, nicVars, process>>

\* Mutant: WRITE_FILE is not defined.
WriteFile_Off(t) ==
    /\ process = "alive" /\ hpc[t] = "write"
    /\ hpc' = [hpc EXCEPT ![t] = "exit"]
    /\ UNCHANGED <<eth_stats, at_signal, signals, tmp_txt, mainVars, pollVars, nicVars, process>>

\* The result of fopen is not checked: without a file fprintf crashes.
WriteFile(t) ==
    /\ process = "alive" /\ hpc[t] = "write"
    /\ \/ /\ tmp_txt' = Append(tmp_txt, [thread |-> t, stats |-> eth_stats[t]])
          /\ hpc' = [hpc EXCEPT ![t] = "exit"]
          /\ UNCHANGED process
       \/ process' = "crash" /\ UNCHANGED <<tmp_txt, hpc>>
    /\ UNCHANGED <<eth_stats, at_signal, signals, mainVars, pollVars, nicVars>>

Exit(t) ==
    /\ process = "alive" /\ hpc[t] = "exit"
    /\ process' = "exit"
    /\ UNCHANGED <<mainVars, pollVars, nicVars, handVars>>

handler(t) ==
    StatsGet(t) \/ StopCheck(t) \/ StopAct(t) \/ Sleep(t) \/ WriteFile(t) \/ Exit(t)

----------------------------------------------------------------------------

\* The process has ended, or main() waits for a lock that it holds itself.
Terminated == (process # "alive" \/ hpc[Main] = "stuck") /\ UNCHANGED vars

Next ==
    \/ MainStep
    \/ \E w \in Slaves : lcore_main(w)
    \/ Arrive
    \/ \E t \in Threads : Signal(t) \/ handler(t)
    \/ Terminated

Spec == Init /\ [][Next]_vars

\* Each lcore has a core of its own and polls without ever blocking; a thread
\* in the handler runs on, and its sleep ends.
Fairness ==
    /\ WF_vars(MainStep)
    /\ \A w \in Slaves : WF_vars(lcore_main(w))
    /\ \A t \in Threads : WF_vars(handler(t))

FairSpec == Spec /\ Fairness

----------------------------------------------------------------------------
(* Properties *)

Phases == {"eal", "pool", "port", "launch", "timer"}
LcorePcs == {"idle", "poll", "burst", "load", "store"}
HandlerPcs == {"none", "stuck", "stats", "check", "stop", "sleep", "write", "exit"}

\* The types of the variables.
TypeOK ==
    /\ phase \in Phases /\ dev \in {"none", "attached", "started", "stopped"}
    /\ queue_id \in Nat /\ unlaunched \subseteq Slaves
    /\ lpc \in [Slaves -> LcorePcs] /\ queue \in [Slaves -> Nat]
    /\ nb_rx \in [Slaves -> Nat] /\ reg \in [Slaves -> Nat]
    /\ ring \in Nat /\ ipackets \in Nat /\ imissed \in Nat /\ ierrors \in Nat
    /\ arrived \in Nat /\ re \in Nat /\ old \in Nat
    /\ hpc \in [Threads -> HandlerPcs] /\ eth_stats \in [Threads -> Stats]
    /\ at_signal \in [Threads -> Nat] /\ signals \in Nat
    /\ tmp_txt \in Seq([thread : Threads, stats : Stats])
    /\ process \in {"alive", "exit", "crash"}

Running(w) == lpc[w] # "idle"

\* Only one slave runs lcore_main, on a queue the port has: the ring has one
\* reader and re, which has no lock, one writer.
OneReader ==
    /\ \A w \in Slaves : Running(w) => queue[w] < RX_RINGS
    /\ \A w, x \in Slaves : Running(w) /\ Running(x) => w = x

\* While the port runs, every packet it accepted is in re, in the ring or in
\* the burst the slave is about to add: none is counted twice, none forgotten.
CountExact ==
    dev = "started" =>
        /\ \A w \in Slaves : Running(w) => ipackets = re + ring + nb_rx[w]
        /\ (\A w \in Slaves : ~Running(w)) => ipackets = re + ring

\* A line of tmp.txt that was read from a port (and is not what happened to be
\* on the stack) counts every packet that had arrived when the signal came, and
\* none that had not arrived when it was written.
LineBracketed ==
    \A k \in DOMAIN tmp_txt :
        LET line == tmp_txt[k]
        IN  line.stats.valid =>
                /\ at_signal[line.thread] <= line.stats.total
                /\ line.stats.total <= arrived
                /\ line.stats.imissed <= line.stats.total

\* The total in such a line is never behind a total that timer_cb printed,
\* though the one comes from the device and the other from lcore_main.
LineNotBehindTimer ==
    \A k \in DOMAIN tmp_txt : tmp_txt[k].stats.valid => old <= tmp_txt[k].stats.total

\* Once main() has reached its timer loop a signal leads to a line in tmp.txt
\* and to the end of the process, unless stopping the port under the polling
\* slave, or a tmp.txt that cannot be opened, crashes it.
SignalEnds ==
    (phase = "timer" /\ hpc[Main] # "none")
        ~> (process = "crash" \/ (process = "exit" /\ tmp_txt # <<>>))

\* Once main() has launched lcore_main, every packet the port accepts is counted
\* sooner or later, unless a signal comes first.
AllCounted ==
    \A n \in 1 .. MaxPkts :
        (ipackets = n /\ queue_id # 0) ~> (re >= n \/ hpc[Main] # "none")

=============================================================================
