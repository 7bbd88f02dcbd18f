------------------------- MODULE MeasurementProofs -------------------------
(***************************************************************************)
(* How a measurement is made: the safety properties of FloWatcher, for any *)
(* number of slave lcores, packets and signals (IInv holds initially and   *)
(* is kept by every step), and those of the loop that runs the scripts of  *)
(* an experiment, Harness, for any number of measurements (LoopInv).       *)
(***************************************************************************)
EXTENDS FloWatcher, Harness, TLAPS

----------------------------------------------------------------------------
(* The inductive invariant behind the safety properties *)

Handling == {"check", "stop", "sleep", "write", "exit"}

\* lcore_main runs only after the launch loop has ended, and on a port that has
\* been started; once any thread is in the handler, the main thread is.
OrderInv ==
    /\ phase # "timer" => queue_id = 0 /\ \A w \in Slaves : ~Running(w)
    /\ phase \in {"eal", "pool", "port"} => dev \in {"none", "attached"}
    /\ \A t \in Threads : hpc[t] # "none" => hpc[Main] # "none"
    /\ \A t \in Threads : hpc[t] = "stop" => dev \in {"started", "stopped"}
    /\ OneReader

\* The counters: what the device has counted bounds what the program has, also
\* after the ring has been thrown away.
CountInv ==
    /\ arrived = ipackets + imissed + ierrors
    /\ dev \in {"none", "attached"} => ipackets = 0
    /\ \A w \in Slaves :
        /\ lpc[w] \notin {"load", "store"} => nb_rx[w] = 0
        /\ lpc[w] = "store" => reg[w] = re
        /\ Running(w) => re + ring + nb_rx[w] <= ipackets
    /\ re + ring <= ipackets
    /\ old <= re
    /\ CountExact

GoodLine(t, stats) ==
    stats.valid =>
        /\ at_signal[t] <= stats.total /\ stats.total <= arrived
        /\ stats.imissed <= stats.total /\ old <= stats.total

\* What a handler has read stays good until it is written, and each line is the
\* one its thread wrote.
LineInv ==
    /\ \A t \in Threads : hpc[t] # "none" => at_signal[t] <= arrived
    /\ \A t \in Threads : hpc[t] \in Handling => GoodLine(t, eth_stats[t])
    /\ \A k \in DOMAIN tmp_txt :
        /\ hpc[tmp_txt[k].thread] = "exit"
        /\ GoodLine(tmp_txt[k].thread, tmp_txt[k].stats)

\* The conjunction is inductive.
IInv == TypeOK /\ OrderInv /\ CountInv /\ LineInv

-----------------------------------------------------------------------------

\* Arithmetic: a sum of naturals bounds its parts.
LEMMA PartOfSum == \A a, b, c, d \in Nat : a + b + c <= d => a + b <= d
  OBVIOUS

\* The state the process starts from satisfies the inductive invariant.
LEMMA InitIInv == Init => IInv
<1>. SUFFICES ASSUME Init PROVE IInv
  OBVIOUS
<1>. USE ThreadsAssumption, SizesAssumption DEF Init
<1>1. TypeOK
  BY DEF TypeOK, Phases, LcorePcs, HandlerPcs, Stats
<1>2. OrderInv
  BY DEF OrderInv, OneReader, Running, RX_RINGS
<1>3. CountInv
  BY DEF CountInv, CountExact, Running
<1>4. LineInv
  BY DEF LineInv, Handling
<1>. QED
  BY <1>1, <1>2, <1>3, <1>4 DEF IInv

\* A line of tmp.txt names the thread that wrote it.
LEMMA LineTypes ==
    ASSUME TypeOK
    PROVE  \A k \in DOMAIN tmp_txt :
                /\ k \in 1 .. Len(tmp_txt)
                /\ tmp_txt[k].thread \in Threads /\ tmp_txt[k].stats \in Stats
<1>. DEFINE R == [thread : Threads, stats : Stats]
<1>1. tmp_txt \in Seq(R)
  BY DEF TypeOK
<1>. HIDE DEF R
<1>2. \A k \in DOMAIN tmp_txt : k \in 1 .. Len(tmp_txt) /\ tmp_txt[k] \in R
  BY <1>1
<1>. QED
  BY <1>2 DEF R

\* rte_exit and the steps that only move main() on keep the invariant.
LEMMA MainQuiet ==
    ASSUME IInv, EalInit \/ PoolCreate \/ port_init \/ LaunchDone
    PROVE  IInv'
<1>. USE DEF EalInit, PoolCreate, port_init, LaunchDone, rte_exit,
             mainVars, pollVars, nicVars, handVars
<1>1. TypeOK'
  BY DEF IInv, TypeOK, Phases
<1>2. OrderInv'
  BY DEF IInv, TypeOK, Phases, OrderInv, OneReader, Running, RX_RINGS, Free
<1>3. CountInv'
  <2>1. /\ UNCHANGED <<arrived, ipackets, imissed, ierrors, lpc, nb_rx, reg, re, ring, old>>
    OBVIOUS
  <2>2. dev' = "started" => dev = "started" \/ \A w \in Slaves : ~Running(w)
    BY DEF IInv, OrderInv
  <2>3. CASE dev' # "started" \/ dev = "started"
    BY <2>1, <2>3 DEF IInv, OrderInv, CountInv, CountExact, Running
  <2>4. CASE dev = "attached" /\ dev' = "started"
    <3>1. ipackets = 0 /\ re = 0 /\ ring = 0
      BY <2>4 DEF IInv, TypeOK, CountInv
    <3>. QED
      BY <2>1, <2>2, <2>4, <3>1 DEF IInv, CountInv, CountExact, Running
  <2>. QED
    BY <2>2, <2>3, <2>4
<1>4. LineInv'
  BY DEF IInv, LineInv, GoodLine, Handling
<1>. QED
  BY <1>1, <1>2, <1>3, <1>4 DEF IInv

\* The launch loop starts one slave and ends.
LEMMA LaunchStep ==
    ASSUME IInv, Launch
    PROVE  IInv'
<1>. PICK w \in unlaunched :
            /\ lpc' = [lpc EXCEPT ![w] = "poll"]
            /\ queue' = [queue EXCEPT ![w] = queue_id]
            /\ unlaunched' = unlaunched \ {w}
  BY DEF Launch
<1>1. /\ phase = "launch" /\ queue_id = 0 /\ w \in Slaves
      /\ queue_id' = 1 /\ phase' = "timer"
      /\ \A x \in Slaves : lpc[x] = "idle" /\ nb_rx[x] = 0
      /\ UNCHANGED <<old, nb_rx, reg, re, nicVars, handVars, process>>
  BY SMTT(30) DEF Launch, IInv, TypeOK, OrderInv, CountInv, Running, LastQueue, RX_RINGS
<1>2. TypeOK'
  BY <1>1 DEF IInv, TypeOK, Phases, LcorePcs, nicVars, handVars
<1>3. OrderInv'
  BY <1>1 DEF IInv, TypeOK, OrderInv, OneReader, Running, RX_RINGS, nicVars, handVars
<1>4. CountInv'
  <2>1. \A x \in Slaves : nb_rx[x] = 0 /\ lpc'[x] \in {"idle", "poll"}
    BY <1>1 DEF IInv, TypeOK
  <2>2. /\ re + ring <= ipackets /\ re \in Nat /\ ring \in Nat
        /\ dev = "started" => ipackets = re + ring
    BY <1>1 DEF IInv, TypeOK, CountInv, CountExact, Running
  <2>3. \A x \in Slaves : re + ring + nb_rx[x] = re + ring
    BY <2>1, <2>2
  <2>4. CountExact'
    BY <1>1, <2>2, <2>3 DEF CountExact, nicVars
  <2>. QED
    BY <1>1, <2>1, <2>2, <2>3, <2>4 DEF IInv, CountInv, nicVars
<1>5. LineInv'
  BY <1>1 DEF IInv, LineInv, GoodLine, Handling, nicVars, handVars
<1>. QED
  BY <1>2, <1>3, <1>4, <1>5 DEF IInv

\* timer_cb runs on a main thread outside the handler, so no line is out yet
\* that the total it prints could overtake.
LEMMA TimerStep ==
    ASSUME IInv, timer_cb
    PROVE  IInv'
<1>. USE DEF timer_cb, pollVars, nicVars, handVars
<1>1. TypeOK'
  BY DEF IInv, TypeOK
<1>2. OrderInv'
  BY DEF IInv, OrderInv, OneReader, Running
<1>3. CountInv'
  BY DEF IInv, TypeOK, CountInv, CountExact, Running
<1>4. LineInv'
  <2>1. \A t \in Threads : hpc[t] = "none"
    BY DEF Free, IInv, OrderInv
  <2>2. \A k \in DOMAIN tmp_txt : tmp_txt[k].thread \in Threads
    BY LineTypes DEF IInv
  <2>. QED
    BY <2>1, <2>2 DEF IInv, LineInv, Handling
<1>. QED
  BY <1>1, <1>2, <1>3, <1>4 DEF IInv

\* A step of the slave moves packets from the ring to its burst and from there
\* to re, and touches nothing the handlers have read.
LEMMA LcoreStep ==
    ASSUME IInv, NEW w \in Slaves, lcore_main(w)
    PROVE  IInv'
<1>. USE DEF mainVars, handVars
<1>1. /\ Running(w) /\ \A x \in Slaves : x # w => ~Running(x)
      /\ \A x \in Slaves : x # w => lpc'[x] = lpc[x] /\ nb_rx'[x] = nb_rx[x]
      /\ UNCHANGED <<mainVars, handVars, queue, dev, arrived, ipackets, imissed, ierrors>>
      /\ process' \in {"alive", "crash"}
  <2>1. Running(w)
    BY DEF lcore_main, RxEnter, RxReturn, AddLoad, AddStore, Running
  <2>2. \A x \in Slaves : x # w => ~Running(x)
    BY <2>1 DEF IInv, OrderInv, OneReader
  <2>. QED
    BY <2>1, <2>2 DEF lcore_main, RxEnter, RxReturn, AddLoad, AddStore, IInv, TypeOK,
                      nicVars, Free, AfterBurst
<1>2. /\ lpc'[w] \in LcorePcs \ {"idle"} /\ lpc' \in [Slaves -> LcorePcs]
      /\ nb_rx' \in [Slaves -> Nat] /\ reg' \in [Slaves -> Nat] /\ re' \in Nat /\ ring' \in Nat
      /\ re' >= re
      /\ re' + ring' + nb_rx'[w] = re + ring + nb_rx[w]
      /\ lpc'[w] \notin {"load", "store"} => nb_rx'[w] = 0
      /\ lpc'[w] = "store" => reg'[w] = re'
  <2>0. /\ lpc \in [Slaves -> LcorePcs] /\ nb_rx \in [Slaves -> Nat] /\ reg \in [Slaves -> Nat]
        /\ re \in Nat /\ ring \in Nat
        /\ lpc[w] \notin {"load", "store"} => nb_rx[w] = 0
        /\ lpc[w] = "store" => reg[w] = re
    BY DEF IInv, TypeOK, CountInv
  <2>1. CASE RxEnter(w)
    BY <2>0, <2>1 DEF RxEnter, LcorePcs, nicVars
  <2>2. CASE RxReturn(w)
    BY <2>0, <2>2, SizesAssumption DEF RxReturn, LcorePcs
  <2>3. CASE AddLoad(w)
    BY <2>0, <2>3 DEF AddLoad, LcorePcs, nicVars
  <2>4. CASE AddStore(w)
    BY <2>0, <2>4 DEF AddStore, LcorePcs, nicVars
  <2>. QED
    BY <2>1, <2>2, <2>3, <2>4 DEF lcore_main
<1>3. TypeOK'
  BY <1>1, <1>2 DEF IInv, TypeOK
<1>4. OrderInv'
  BY <1>1, <1>2 DEF IInv, OrderInv, OneReader, Running
<1>5. CountInv'
  <2>1. /\ re + ring + nb_rx[w] <= ipackets
        /\ dev = "started" => ipackets = re + ring + nb_rx[w]
        /\ old <= re /\ re \in Nat /\ ring \in Nat /\ old \in Nat /\ ipackets \in Nat
        /\ nb_rx[w] \in Nat
    BY <1>1 DEF IInv, TypeOK, CountInv, CountExact
  <2>2. /\ re' + ring' + nb_rx'[w] <= ipackets
        /\ re' + ring' <= ipackets /\ old <= re'
        /\ dev = "started" => ipackets = re' + ring' + nb_rx'[w]
    <3>1. re' \in Nat /\ ring' \in Nat /\ nb_rx'[w] \in Nat
      BY <1>2
    <3>2. re' >= re /\ re' + ring' + nb_rx'[w] = re + ring + nb_rx[w]
      BY <1>2
    <3>3. re' + ring' + nb_rx'[w] <= ipackets /\ (dev = "started" => ipackets = re' + ring' + nb_rx'[w])
      BY <2>1, <3>2
    <3>4. re' + ring' <= ipackets
      BY <2>1, <3>1, <3>3, PartOfSum
    <3>5. old <= re'
      BY <2>1, <3>1, <3>2
    <3>. QED
      BY <3>3, <3>4, <3>5
  <2>3. CountExact'
    BY <1>1, <1>2, <2>2 DEF CountExact, Running
  <2>4. \A x \in Slaves : x # w => lpc[x] = "idle" /\ nb_rx[x] = 0
    BY <1>1 DEF Running, IInv, CountInv
  <2>. QED
    BY <1>1, <1>2, <2>2, <2>3, <2>4 DEF IInv, CountInv, Running
<1>6. LineInv'
  BY <1>1 DEF IInv, LineInv, GoodLine, Handling
<1>. QED
  BY <1>3, <1>4, <1>5, <1>6 DEF IInv

----------------------------------------------------------------------------
(* The device and the handlers *)

\* An arrival moves the device's counters only.
LEMMA ArriveStep ==
    ASSUME IInv, Arrive
    PROVE  IInv'
<1>. USE DEF mainVars, pollVars, handVars
<1>1. /\ dev = "started"
      /\ UNCHANGED <<dev, mainVars, pollVars, handVars, process>>
  BY DEF Arrive
<1>2. /\ ring' \in Nat /\ ipackets' \in Nat /\ imissed' \in Nat /\ ierrors' \in Nat
      /\ arrived' = arrived + 1 /\ arrived' = ipackets' + imissed' + ierrors'
      /\ ipackets' + ring = ipackets + ring'
  <2>1. /\ ring \in Nat /\ ipackets \in Nat /\ imissed \in Nat /\ ierrors \in Nat
        /\ arrived = ipackets + imissed + ierrors
    BY DEF IInv, TypeOK, CountInv
  <2>2. arrived' = arrived + 1
    BY DEF Arrive
  <2>3. \/ ring' = ring + 1 /\ ipackets' = ipackets + 1 /\ imissed' = imissed /\ ierrors' = ierrors
        \/ ring' = ring /\ ipackets' = ipackets /\ imissed' = imissed + 1 /\ ierrors' = ierrors
        \/ ring' = ring /\ ipackets' = ipackets /\ imissed' = imissed /\ ierrors' = ierrors + 1
    BY DEF Arrive
  <2>. QED
    BY <2>1, <2>2, <2>3
<1>3. TypeOK'
  BY <1>1, <1>2 DEF IInv, TypeOK
<1>4. OrderInv'
  BY <1>1 DEF IInv, OrderInv, OneReader, Running
<1>5. CountInv'
  <2>1. /\ re \in Nat /\ ring \in Nat /\ ipackets \in Nat
        /\ \A w \in Slaves : nb_rx[w] \in Nat
    BY DEF IInv, TypeOK
  <2>2. \A n \in Nat :
            /\ re + ring + n <= ipackets => re + ring' + n <= ipackets'
            /\ ipackets = re + ring + n => ipackets' = re + ring' + n
    <3>. TAKE n \in Nat
    <3>1. /\ re \in Nat /\ ring \in Nat /\ ring' \in Nat /\ ipackets \in Nat /\ ipackets' \in Nat
          /\ ipackets' + ring = ipackets + ring' /\ n \in Nat
      BY <1>2, <2>1
    <3>2. PICK r1 \in Nat : r1 = ring'
      BY <3>1
    <3>3. PICK c1 \in Nat : c1 = ipackets'
      BY <3>1
    <3>4. c1 + ring = ipackets + r1
      BY <3>1, <3>2, <3>3
    <3>5. /\ re + ring + n <= ipackets => re + r1 + n <= c1
          /\ ipackets = re + ring + n => c1 = re + r1 + n
      BY <3>1, <3>4
    <3>. QED
      BY <3>2, <3>3, <3>5
  <2>3. /\ re + ring <= ipackets => re + ring' <= ipackets'
        /\ ipackets = re + ring => ipackets' = re + ring'
    <3>1. 0 \in Nat /\ re + ring + 0 = re + ring /\ re + ring' + 0 = re + ring'
      BY <1>2, <2>1
    <3>. QED
      BY <2>2, <3>1
  <2>4. CountExact'
    BY <1>1, <2>1, <2>2, <2>3 DEF IInv, CountInv, CountExact, Running
  <2>. QED
    BY <1>1, <1>2, <2>1, <2>2, <2>3, <2>4 DEF IInv, CountInv, Running
<1>6. LineInv'
  <2>1. \A n \in Nat : n <= arrived => n <= arrived'
    BY <1>2 DEF IInv, TypeOK
  <2>2. \A t \in Threads : eth_stats[t].total \in Nat /\ at_signal[t] \in Nat
    BY DEF IInv, TypeOK, Stats
  <2>3. \A k \in DOMAIN tmp_txt : tmp_txt[k].stats.total \in Nat
    BY LineTypes DEF IInv, Stats
  <2>. QED
    BY <1>1, <2>1, <2>2, <2>3 DEF IInv, LineInv, GoodLine, Handling
<1>. QED
  BY <1>3, <1>4, <1>5, <1>6 DEF IInv

\* A signal starts one handler; what has arrived by then is on record.
LEMMA SignalStep ==
    ASSUME IInv, NEW t \in Threads, Signal(t)
    PROVE  IInv'
<1>. USE DEF mainVars, pollVars, nicVars
<1>1. /\ hpc[t] = "none" /\ (t # Main => hpc[Main] # "none")
      /\ signals' = signals + 1
      /\ \E h \in {"stats", "stuck"} : hpc' = [hpc EXCEPT ![t] = h]
      /\ at_signal' = [at_signal EXCEPT ![t] = arrived]
      /\ UNCHANGED <<eth_stats, tmp_txt, mainVars, pollVars, nicVars, process>>
  BY DEF Signal, Free
<1>2. PICK h \in {"stats", "stuck"} : hpc' = [hpc EXCEPT ![t] = h]
  BY <1>1
<1>3. TypeOK'
  BY <1>1, <1>2 DEF IInv, TypeOK, HandlerPcs
<1>4. OrderInv'
  BY <1>1, <1>2, Main \in Threads DEF IInv, TypeOK, OrderInv, OneReader, Running, Threads
<1>5. CountInv'
  BY <1>1 DEF IInv, CountInv, CountExact, Running
<1>6. LineInv'
  <2>1. \A x \in Threads : x # t => hpc'[x] = hpc[x] /\ at_signal'[x] = at_signal[x]
    BY <1>1, <1>2 DEF IInv, TypeOK
  <2>2. hpc'[t] \in {"stats", "stuck"} /\ at_signal'[t] = arrived
    BY <1>1, <1>2 DEF IInv, TypeOK
  <2>3. \A k \in DOMAIN tmp_txt : tmp_txt[k].thread \in Threads \ {t}
    BY <1>1, LineTypes DEF IInv, LineInv
  <2>4. arrived \in Nat
    BY DEF IInv, TypeOK
  <2>. QED
    BY <1>1, <2>1, <2>2, <2>3, <2>4 DEF IInv, LineInv, GoodLine, Handling
<1>. QED
  BY <1>3, <1>4, <1>5, <1>6 DEF IInv

\* A step of a handler leaves main() and the slaves alone.  It has the types
\* and the order right if it only moves its own thread on.
LEMMA HandlerFrame ==
    ASSUME IInv, NEW t \in Threads, NEW h \in HandlerPcs \ {"none"},
           hpc[t] # "none", hpc' = [hpc EXCEPT ![t] = h], h = "stop" => dev = "started",
           eth_stats' \in [Threads -> Stats],
           tmp_txt' \in Seq([thread : Threads, stats : Stats]),
           process' \in {"alive", "exit", "crash"},
           UNCHANGED <<at_signal, signals, mainVars, pollVars, nicVars>>
    PROVE  TypeOK' /\ OrderInv' /\ CountInv'
<1>. USE DEF mainVars, pollVars, nicVars
<1>1. TypeOK'
  BY DEF IInv, TypeOK
<1>2. OrderInv'
  <2>1. Main \in Threads
    BY DEF Threads
  <2>. QED
    BY <2>1 DEF IInv, TypeOK, HandlerPcs, OrderInv, OneReader, Running
<1>3. CountInv'
  BY DEF IInv, CountInv, CountExact, Running
<1>. QED
  BY <1>1, <1>2, <1>3

\* Reading the counters of a port gives a good line: the device has counted all
\* that had arrived, and at least what the program has counted and printed.
LEMMA StatsGetStep ==
    ASSUME IInv, NEW t \in Threads, StatsGet(t)
    PROVE  IInv'
<1>. USE DEF mainVars, pollVars, nicVars
<1>0. /\ hpc[t] = "stats" /\ hpc' = [hpc EXCEPT ![t] = "check"]
      /\ UNCHANGED <<at_signal, signals, tmp_txt, mainVars, pollVars, nicVars, process>>
  BY DEF StatsGet
<1>. DEFINE good == [total |-> Total, imissed |-> imissed, valid |-> TRUE]
<1>1. PICK st \in Stats : /\ eth_stats' = [eth_stats EXCEPT ![t] = st]
                          /\ st.valid => st = good
  <2>1. good \in Stats
    BY DEF IInv, TypeOK, Stats, Total
  <2>2. \A x, y \in {0, Garbage} :
            /\ [total |-> x, imissed |-> y, valid |-> FALSE] \in Stats
            /\ ~[total |-> x, imissed |-> y, valid |-> FALSE].valid
    BY SizesAssumption DEF Stats, Garbage
  <2>. QED
    BY <2>1, <2>2 DEF StatsGet
<1>2. TypeOK' /\ OrderInv' /\ CountInv'
  <2>1. eth_stats' \in [Threads -> Stats] /\ tmp_txt' \in Seq([thread : Threads, stats : Stats])
        /\ process' \in {"alive", "exit", "crash"}
    BY <1>0, <1>1 DEF IInv, TypeOK
  <2>. QED
    BY <1>0, <2>1, HandlerFrame DEF HandlerPcs
<1>3. GoodLine(t, good)
  <2>1. Total = arrived /\ imissed <= Total
    BY DEF IInv, TypeOK, CountInv, Total
  <2>2. at_signal[t] <= arrived
    BY <1>0 DEF IInv, LineInv
  <2>3. old <= arrived
    <3>1. old \in Nat /\ re \in Nat /\ ring \in Nat /\ ipackets \in Nat /\ imissed \in Nat
          /\ ierrors \in Nat /\ old <= re /\ re + ring <= ipackets
          /\ arrived = ipackets + imissed + ierrors
      BY DEF IInv, TypeOK, CountInv
    <3>. QED
      BY <3>1
  <2>4. arrived \in Nat
    BY DEF IInv, TypeOK
  <2>. QED
    BY <2>1, <2>2, <2>3, <2>4 DEF GoodLine
<1>. HIDE DEF good
<1>4. LineInv'
  <2>1. GoodLine(t, st)
    BY <1>1, <1>3 DEF GoodLine
  <2>2. \A x \in Threads : x # t => hpc'[x] = hpc[x] /\ eth_stats'[x] = eth_stats[x]
    BY <1>0, <1>1 DEF IInv, TypeOK
  <2>3. hpc'[t] = "check" /\ eth_stats'[t] = st
    BY <1>0, <1>1 DEF IInv, TypeOK
  <2>4. \A k \in DOMAIN tmp_txt : tmp_txt[k].thread \in Threads \ {t}
    BY <1>0, LineTypes DEF IInv, LineInv
  <2>. QED
    BY <1>0, <2>1, <2>2, <2>3, <2>4 DEF IInv, LineInv, GoodLine, Handling
<1>. QED
  BY <1>2, <1>4 DEF IInv

\* rte_eth_dev_stop returning early, the sleep and exit keep what was read.
LEMMA HandlerQuiet ==
    ASSUME IInv, NEW t \in Threads, StopCheck(t) \/ Sleep(t) \/ Exit(t)
    PROVE  IInv'
<1>. USE DEF mainVars, pollVars, nicVars
<1>1. PICK h \in Handling :
        /\ hpc[t] \in Handling /\ hpc' = [hpc EXCEPT ![t] = h]
        /\ hpc[t] = "exit" => h = "exit"
        /\ h = "stop" => dev = "started"
  <2>1. CASE StopCheck(t)
    BY <2>1 DEF StopCheck, Handling
  <2>2. CASE Sleep(t)
    BY <2>2 DEF Sleep, Handling
  <2>3. CASE Exit(t)
    <3>1. hpc' = [hpc EXCEPT ![t] = "exit"] /\ hpc[t] = "exit"
      BY <2>3 DEF Exit, handVars, IInv, TypeOK
    <3>. QED
      BY <3>1 DEF Handling
  <2>. QED
    BY <2>1, <2>2, <2>3
<1>2. /\ UNCHANGED <<eth_stats, at_signal, signals, tmp_txt, mainVars, pollVars, nicVars>>
      /\ process' \in {process, "exit"}
  BY DEF StopCheck, Sleep, Exit, handVars
<1>3. TypeOK' /\ OrderInv' /\ CountInv'
  <2>1. eth_stats' \in [Threads -> Stats] /\ tmp_txt' \in Seq([thread : Threads, stats : Stats])
        /\ process' \in {"alive", "exit", "crash"}
    BY <1>2 DEF IInv, TypeOK
  <2>. QED
    BY <1>1, <1>2, <2>1, HandlerFrame DEF HandlerPcs, Handling
<1>4. LineInv'
  <2>1. \A x \in Threads : x # t => hpc'[x] = hpc[x]
    BY <1>1 DEF IInv, TypeOK
  <2>2. hpc'[t] = h
    BY <1>1 DEF IInv, TypeOK
  <2>3. \A k \in DOMAIN tmp_txt : tmp_txt[k].thread \in Threads
    BY LineTypes DEF IInv
  <2>. QED
    BY <1>1, <1>2, <2>1, <2>2, <2>3 DEF IInv, LineInv, GoodLine, Handling
<1>. QED
  BY <1>3, <1>4 DEF IInv

\* Stopping the port throws the ring away: the device stays ahead of re.
LEMMA StopActStep ==
    ASSUME IInv, NEW t \in Threads, StopAct(t)
    PROVE  IInv'
<1>. USE DEF mainVars, pollVars
<1>0. /\ hpc[t] = "stop" /\ hpc' = [hpc EXCEPT ![t] = "sleep"]
      /\ dev' = "stopped" /\ ring' = 0 /\ process' \in {"alive", "crash"}
      /\ UNCHANGED <<eth_stats, at_signal, signals, tmp_txt, mainVars, pollVars, ipackets,
                     imissed, ierrors, arrived>>
  BY DEF StopAct
<1>1. TypeOK'
  BY <1>0 DEF IInv, TypeOK, HandlerPcs
<1>2. OrderInv'
  <2>1. Main \in Threads
    BY DEF Threads
  <2>2. dev \in {"started", "stopped"}
    BY <1>0 DEF IInv, OrderInv
  <2>3. phase \notin {"eal", "pool", "port"}
    BY <2>2 DEF IInv, OrderInv
  <2>. QED
    BY <1>0, <2>1, <2>3 DEF IInv, TypeOK, OrderInv, OneReader, Running
<1>3. CountInv'
  <2>1. /\ re \in Nat /\ ring \in Nat /\ ipackets \in Nat /\ re + ring <= ipackets
        /\ \A w \in Slaves : nb_rx[w] \in Nat
        /\ \A w \in Slaves : Running(w) => re + ring + nb_rx[w] <= ipackets
    BY DEF IInv, TypeOK, CountInv
  <2>2. re + 0 <= ipackets
    BY <2>1
  <2>3. \A w \in Slaves : Running(w) => re + 0 + nb_rx[w] <= ipackets
    <3>. TAKE w \in Slaves
    <3>1. PICK n \in Nat : n = nb_rx[w]
      BY <2>1
    <3>2. re + ring + n <= ipackets => re + 0 + n <= ipackets
      BY <2>1
    <3>. QED
      BY <2>1, <3>1, <3>2
  <2>. QED
    BY <1>0, <2>2, <2>3 DEF IInv, CountInv, CountExact, Running
<1>4. LineInv'
  <2>1. \A x \in Threads : x # t => hpc'[x] = hpc[x]
    BY <1>0 DEF IInv, TypeOK
  <2>2. hpc'[t] = "sleep"
    BY <1>0 DEF IInv, TypeOK
  <2>3. \A k \in DOMAIN tmp_txt : tmp_txt[k].thread \in Threads \ {t}
    BY <1>0, LineTypes DEF IInv, LineInv
  <2>. QED
    BY <1>0, <2>1, <2>2, <2>3 DEF IInv, LineInv, GoodLine, Handling
<1>. QED
  BY <1>1, <1>2, <1>3, <1>4 DEF IInv

\* A line is what its thread read; no thread writes twice.
LEMMA WriteFileStep ==
    ASSUME IInv, NEW t \in Threads, WriteFile(t)
    PROVE  IInv'
<1>. DEFINE line == [thread |-> t, stats |-> eth_stats[t]]
<1>a. CASE process' = "crash" /\ UNCHANGED <<tmp_txt, hpc>>
  BY <1>a DEF WriteFile, mainVars, pollVars, nicVars, IInv, TypeOK, OrderInv, OneReader, Running,
              CountInv, CountExact, LineInv, GoodLine, Handling
<1>. SUFFICES ASSUME ~(process' = "crash" /\ UNCHANGED <<tmp_txt, hpc>>) PROVE IInv'
  BY <1>a
<1>0. /\ hpc[t] = "write" /\ hpc' = [hpc EXCEPT ![t] = "exit"]
      /\ tmp_txt' = Append(tmp_txt, line)
      /\ UNCHANGED <<eth_stats, at_signal, signals, mainVars, pollVars, nicVars, process>>
  BY DEF WriteFile
<1>1. /\ line \in [thread : Threads, stats : Stats]
      /\ line.thread = t /\ line.stats = eth_stats[t]
      /\ tmp_txt \in Seq([thread : Threads, stats : Stats])
  BY DEF IInv, TypeOK
<1>2. TypeOK' /\ OrderInv' /\ CountInv'
  <2>1. eth_stats' \in [Threads -> Stats] /\ tmp_txt' \in Seq([thread : Threads, stats : Stats])
        /\ process' \in {"alive", "exit", "crash"}
    BY <1>0, <1>1 DEF IInv, TypeOK
  <2>. QED
    BY <1>0, <2>1, HandlerFrame DEF HandlerPcs
<1>. HIDE DEF line
<1>3. \A k \in DOMAIN tmp_txt' :
        \/ k \in DOMAIN tmp_txt /\ tmp_txt'[k] = tmp_txt[k]
        \/ tmp_txt'[k] = line
  BY <1>0, <1>1
<1>4. LineInv'
  <2>0. UNCHANGED <<arrived, old>>
    BY <1>0 DEF nicVars, mainVars
  <2>1. \A x \in Threads : x # t => hpc'[x] = hpc[x]
    BY <1>0 DEF IInv, TypeOK
  <2>2. hpc'[t] = "exit"
    BY <1>0 DEF IInv, TypeOK
  <2>3. GoodLine(t, eth_stats[t])
    BY <1>0 DEF IInv, LineInv, Handling
  <2>4. \A k \in DOMAIN tmp_txt : tmp_txt[k].thread \in Threads \ {t}
    BY <1>0, LineTypes DEF IInv, LineInv
  <2>. QED
    BY <1>0, <1>1, <1>3, <2>0, <2>1, <2>2, <2>3, <2>4 DEF IInv, LineInv, GoodLine, Handling
<1>. QED
  BY <1>2, <1>4 DEF IInv

----------------------------------------------------------------------------

\* Every step of the process, of the device and of the kernel keeps the
\* inductive invariant.
LEMMA NextIInv == IInv /\ [Next]_vars => IInv'
<1>. SUFFICES ASSUME IInv, [Next]_vars PROVE IInv'
  OBVIOUS
<1>1. CASE MainStep
  BY <1>1, MainQuiet, LaunchStep, TimerStep DEF MainStep
<1>2. CASE \E w \in Slaves : lcore_main(w)
  BY <1>2, LcoreStep
<1>3. CASE Arrive
  BY <1>3, ArriveStep
<1>4. CASE \E t \in Threads : Signal(t) \/ handler(t)
  BY <1>4, SignalStep, StatsGetStep, HandlerQuiet, StopActStep, WriteFileStep DEF handler
<1>5. CASE UNCHANGED vars
  BY <1>5 DEF vars, mainVars, pollVars, nicVars, handVars, IInv, TypeOK, OrderInv, OneReader,
              Running, CountInv, CountExact, LineInv, GoodLine, Handling
<1>. QED
  BY <1>1, <1>2, <1>3, <1>4, <1>5 DEF Next, Terminated

\* The inductive invariant of FloWatcher holds in every state of every run.
THEOREM Invariance == Spec => []IInv
  BY InitIInv, NextIInv, PTL DEF Spec

\* Every variable keeps its type: the counters of main.c never go negative,
\* and a line of tmp.txt names a thread of the process.
THEOREM TypeCorrect == Spec => []TypeOK
<1>1. IInv => TypeOK
  BY DEF IInv
<1>. QED
  BY <1>1, Invariance, PTL

\* lcore_main never runs on two slaves, whatever the core list, so that re needs
\* no lock.
THEOREM SingleReader == Spec => []OneReader
<1>1. IInv => OneReader
  BY DEF IInv, OrderInv
<1>. QED
  BY <1>1, Invariance, PTL

\* While the port runs the software count and the device's agree, up to what is
\* in the ring and in the slave's hands.
THEOREM CountCorrect == Spec => []CountExact
<1>1. IInv => CountExact
  BY DEF IInv, CountInv
<1>. QED
  BY <1>1, Invariance, PTL

\* A line of tmp.txt read from a port counts what had arrived at the signal and
\* nothing that had not arrived when it was written, however many handlers run.
THEOREM LineCorrect == Spec => []LineBracketed
<1>1. IInv => LineBracketed
  BY DEF IInv, LineInv, GoodLine, LineBracketed
<1>. QED
  BY <1>1, Invariance, PTL

\* The total in tmp.txt is never behind one that timer_cb printed.
THEOREM TimerCorrect == Spec => []LineNotBehindTimer
<1>1. IInv => LineNotBehindTimer
  BY DEF IInv, LineInv, GoodLine, LineNotBehindTimer
<1>. QED
  BY <1>1, Invariance, PTL

----------------------------------------------------------------------------
(* The measurement loop: what is alive at each command of the script.      *)

\* From the start of its daemon to killall the measurement has no other one;
\* the next measurement meets at most a daemon that was told to stop.
DaemonInv ==
    pc \notin {"start", "done"} => \A d \in bessd : d.run = run /\ ~d.stopping

\* perf lives from its start to kill_perf and watches the run's own daemon.
PerfInv ==
    /\ pc \notin {"moongen", "sleep", "kill_perf"} => perf = {}
    /\ \A p \in perf : p.run = run /\ p.watches = {run}

\* The sleep is long enough for the generator to be found by its name, so that
\* none outlives its measurement.
MoonGenInv ==
    /\ pc \notin {"sleep", "kill_perf", "kill_moongen"} => MoonGen = {}
    /\ pc \in {"kill_perf", "kill_moongen"} => \A g \in MoonGen : g.up
    /\ \A g \in MoonGen : g.run = run

\* Who is not there although it was started is among the crashed, and a daemon
\* without a pipeline among the idle.
AliveInv ==
    run \notin crashed =>
        /\ pc = "run_file" => \E d \in bessd : d.run = run
        /\ pc \in {"perf", "moongen", "sleep"} =>
             \E d \in bessd : d.run = run /\ (d.loaded \/ run \in idle)
        /\ pc \in {"moongen", "sleep"} => \E p \in perf : run \in p.watches
        /\ pc = "sleep" /\ script = "cbr" => \E g \in MoonGen : g.run = run

\* The conjunction is inductive.
LoopInv ==
    LoopTypeOK /\ DaemonInv /\ PerfInv /\ MoonGenInv /\ AliveInv /\ CompleteUnlessFailed

\* The loop starts with nothing running.
LEMMA LoopInitInv == LoopInit => LoopInv
  BY RunsAssumption DEF LoopInit, LoopInv, LoopTypeOK, Runs, Steps, Scripts, DaemonInv, PerfInv,
     MoonGenInv, AliveInv, CompleteUnlessFailed

\* A daemon starts only when no other one is left.
LEMMA StartOkLoop == LoopInv /\ StartOk => LoopInv'
<1>. SUFFICES ASSUME LoopInv, StartOk PROVE LoopInv'
  OBVIOUS
<1>. USE DEF LoopInv, StartOk, history
<1>1. LoopTypeOK'
  BY DEF LoopTypeOK, Steps
<1>2. DaemonInv'
  BY DEF DaemonInv
<1>3. PerfInv'
  BY DEF PerfInv
<1>4. MoonGenInv'
  BY DEF MoonGenInv
<1>5. AliveInv'
  BY DEF AliveInv
<1>6. CompleteUnlessFailed'
  BY DEF CompleteUnlessFailed
<1>. QED
  BY <1>1, <1>2, <1>3, <1>4, <1>5, <1>6

\* The daemon has its pipeline, or is noted as idle.
LEMMA RunFileLoop == LoopInv /\ RunFile => LoopInv'
<1>. SUFFICES ASSUME LoopInv, RunFile PROVE LoopInv'
  OBVIOUS
<1>. USE DEF LoopInv, RunFile
<1>0. CASE bessd' = {[d EXCEPT !.loaded = TRUE] : d \in bessd} /\ UNCHANGED idle
  <2>. DEFINE Loaded(d) == [d EXCEPT !.loaded = TRUE]
  <2>1. \A d \in bessd : /\ Loaded(d) \in [run : Runs, loaded : BOOLEAN, stopping : BOOLEAN]
                         /\ Loaded(d).run = d.run /\ Loaded(d).loaded
                         /\ Loaded(d).stopping = d.stopping
    BY DEF LoopTypeOK
  <2>2. /\ \A d \in bessd : Loaded(d) \in bessd'
        /\ \A e \in bessd' : \E d \in bessd : e = Loaded(d)
    BY <1>0
  <2>. HIDE DEF Loaded
  <2>3. bessd' \subseteq [run : Runs, loaded : BOOLEAN, stopping : BOOLEAN]
    BY <2>1, <2>2
  <2>4. LoopTypeOK'
    BY <1>0, <2>3 DEF LoopTypeOK, Steps
  <2>5. DaemonInv'
    BY <2>1, <2>2 DEF DaemonInv
  <2>6. PerfInv' /\ MoonGenInv' /\ CompleteUnlessFailed'
    BY DEF PerfInv, MoonGenInv, CompleteUnlessFailed
  <2>7. AliveInv'
    BY <2>1, <2>2 DEF AliveInv
  <2>. QED
    BY <2>4, <2>5, <2>6, <2>7
<1>1. CASE UNCHANGED bessd /\ idle' = idle \cup {run}
  <2>1. LoopTypeOK'
    BY <1>1 DEF LoopTypeOK, Steps
  <2>2. DaemonInv' /\ PerfInv' /\ MoonGenInv' /\ CompleteUnlessFailed'
    BY <1>1 DEF DaemonInv, PerfInv, MoonGenInv, CompleteUnlessFailed
  <2>3. AliveInv'
    BY <1>1 DEF AliveInv
  <2>. QED
    BY <2>1, <2>2, <2>3
<1>. QED
  BY <1>0, <1>1

\* pidof finds the daemon of this measurement, or none if it crashed.
LEMMA StartPerfLoop == LoopInv /\ StartPerf => LoopInv'
<1>. SUFFICES ASSUME LoopInv, StartPerf PROVE LoopInv'
  OBVIOUS
<1>. USE DEF LoopInv, StartPerf, history
<1>1. LoopTypeOK'
  BY DEF LoopTypeOK, Steps
<1>2. DaemonInv'
  BY DEF DaemonInv
<1>3. PerfInv'
  BY DEF PerfInv, DaemonInv
<1>4. MoonGenInv'
  BY DEF MoonGenInv
<1>5. AliveInv'
  <2>1. run \notin crashed => \E d \in bessd : d.run = run
    BY DEF AliveInv
  <2>. DEFINE P == [run |-> run, watches |-> {d.run : d \in bessd}]
  <2>2. bessd # {} => P \in perf' /\ \A d \in bessd : d.run \in P.watches
    OBVIOUS
  <2>. QED
    BY <2>1, <2>2 DEF AliveInv
<1>6. CompleteUnlessFailed'
  BY DEF CompleteUnlessFailed
<1>. QED
  BY <1>1, <1>2, <1>3, <1>4, <1>5, <1>6

\* No generator is left when a new one is started.
LEMMA StartMoonGenLoop == LoopInv /\ StartMoonGen => LoopInv'
<1>. SUFFICES ASSUME LoopInv, StartMoonGen PROVE LoopInv'
  OBVIOUS
<1>. USE DEF LoopInv, StartMoonGen, history
<1>1. LoopTypeOK'
  <2>1. [run |-> run, up |-> FALSE] \in [run : Runs, up : BOOLEAN]
    BY DEF LoopTypeOK
  <2>. QED
    BY <2>1 DEF LoopTypeOK, Steps
<1>2. DaemonInv'
  BY DEF DaemonInv
<1>3. PerfInv'
  BY DEF PerfInv
<1>4. MoonGenInv'
  BY DEF MoonGenInv
<1>5. AliveInv'
  <2>1. [run |-> run, up |-> FALSE] \in MoonGen'
    OBVIOUS
  <2>. QED
    BY <2>1 DEF AliveInv
<1>6. CompleteUnlessFailed'
  BY DEF CompleteUnlessFailed
<1>. QED
  BY <1>1, <1>2, <1>3, <1>4, <1>5, <1>6

\* At the end of the sleep the generator is up, or has given up.
LEMMA ScriptSleepLoop == LoopInv /\ ScriptSleep => LoopInv'
<1>. SUFFICES ASSUME LoopInv, ScriptSleep PROVE LoopInv'
  OBVIOUS
<1>. USE DEF LoopInv, ScriptSleep, SleepIsLong, procs, history
<1>1. LoopTypeOK'
  BY DEF LoopTypeOK, Steps
<1>2. DaemonInv'
  BY DEF DaemonInv
<1>3. PerfInv'
  BY DEF PerfInv
<1>4. MoonGenInv'
  BY DEF MoonGenInv
<1>5. AliveInv'
  BY DEF AliveInv
<1>6. CompleteUnlessFailed'
  BY DEF CompleteUnlessFailed, AliveInv, LoopTypeOK, DaemonInv
<1>. QED
  BY <1>1, <1>2, <1>3, <1>4, <1>5, <1>6

\* perf is always found by its name.
LEMMA KillPerfLoop == LoopInv /\ KillPerf => LoopInv'
<1>. SUFFICES ASSUME LoopInv, KillPerf PROVE LoopInv'
  OBVIOUS
<1>. USE DEF LoopInv, KillPerf, history
<1>1. LoopTypeOK'
  BY DEF LoopTypeOK, Steps
<1>2. DaemonInv'
  BY DEF DaemonInv
<1>3. PerfInv'
  BY DEF PerfInv
<1>4. MoonGenInv'
  BY DEF MoonGenInv
<1>5. AliveInv'
  BY DEF AliveInv
<1>6. CompleteUnlessFailed'
  BY DEF CompleteUnlessFailed
<1>. QED
  BY <1>1, <1>2, <1>3, <1>4, <1>5, <1>6

\* Every generator is up by now, so pidof finds it.
LEMMA KillMoonGenLoop == LoopInv /\ KillMoonGen => LoopInv'
<1>. SUFFICES ASSUME LoopInv, KillMoonGen PROVE LoopInv'
  OBVIOUS
<1>. USE DEF LoopInv, KillMoonGen, history
<1>1. LoopTypeOK'
  BY DEF LoopTypeOK, Steps
<1>2. DaemonInv'
  BY DEF DaemonInv
<1>3. PerfInv'
  BY DEF PerfInv
<1>4. MoonGenInv'
  BY DEF MoonGenInv
<1>5. AliveInv'
  BY DEF AliveInv
<1>6. CompleteUnlessFailed'
  BY DEF CompleteUnlessFailed
<1>. QED
  BY <1>1, <1>2, <1>3, <1>4, <1>5, <1>6

\* The daemon that is told to stop is the next measurement's to wait for.
LEMMA KillBessdLoop == LoopInv /\ KillBessd => LoopInv'
<1>. SUFFICES ASSUME LoopInv, KillBessd PROVE LoopInv'
  OBVIOUS
<1>. USE DEF LoopInv, KillBessd, history
<1>1. LoopTypeOK'
  <2>1. \A d \in bessd : [d EXCEPT !.stopping = TRUE] \in [run : Runs, loaded : BOOLEAN, stopping : BOOLEAN]
    BY DEF LoopTypeOK
  <2>2. bessd' \subseteq [run : Runs, loaded : BOOLEAN, stopping : BOOLEAN]
    BY <2>1
  <2>. QED
    BY <2>2, RunsAssumption DEF LoopTypeOK, Runs, Steps
<1>2. DaemonInv'
  BY DEF DaemonInv
<1>3. PerfInv'
  BY DEF PerfInv
<1>4. MoonGenInv'
  BY DEF MoonGenInv
<1>5. AliveInv'
  BY DEF AliveInv
<1>6. CompleteUnlessFailed'
  BY DEF CompleteUnlessFailed
<1>. QED
  BY <1>1, <1>2, <1>3, <1>4, <1>5, <1>6

\* Only a daemon that was told to stop exits, which is after the measurement.
LEMMA BessdExitsLoop == LoopInv /\ BessdExits => LoopInv'
<1>. SUFFICES ASSUME LoopInv, BessdExits PROVE LoopInv'
  OBVIOUS
<1>. USE DEF LoopInv, BessdExits, history
<1>1. LoopTypeOK'
  BY DEF LoopTypeOK
<1>2. DaemonInv'
  BY DEF DaemonInv
<1>3. PerfInv'
  BY DEF PerfInv
<1>4. MoonGenInv'
  BY DEF MoonGenInv
<1>5. AliveInv'
  BY DEF AliveInv, DaemonInv
<1>6. CompleteUnlessFailed'
  BY DEF CompleteUnlessFailed
<1>. QED
  BY <1>1, <1>2, <1>3, <1>4, <1>5, <1>6

\* A crash of the daemon is recorded with its measurement.
LEMMA BessdCrashesLoop == LoopInv /\ BessdCrashes => LoopInv'
<1>. SUFFICES ASSUME LoopInv, BessdCrashes PROVE LoopInv'
  OBVIOUS
<1>. USE DEF LoopInv, BessdCrashes
<1>1. LoopTypeOK'
  BY DEF LoopTypeOK
<1>2. DaemonInv'
  BY DEF DaemonInv
<1>3. PerfInv'
  BY DEF PerfInv
<1>4. MoonGenInv'
  BY DEF MoonGenInv
<1>5. AliveInv'
  BY DEF AliveInv
<1>6. CompleteUnlessFailed'
  BY DEF CompleteUnlessFailed
<1>. QED
  BY <1>1, <1>2, <1>3, <1>4, <1>5, <1>6

\* perf does not end while its daemon lives.
LEMMA PerfExitsLoop == LoopInv /\ PerfExits => LoopInv'
<1>. SUFFICES ASSUME LoopInv, PerfExits PROVE LoopInv'
  OBVIOUS
<1>. USE DEF LoopInv, PerfExits, history
<1>1. LoopTypeOK'
  BY DEF LoopTypeOK
<1>2. DaemonInv'
  BY DEF DaemonInv
<1>3. PerfInv'
  BY DEF PerfInv
<1>4. MoonGenInv'
  BY DEF MoonGenInv
<1>5. AliveInv'
  BY DEF AliveInv
<1>6. CompleteUnlessFailed'
  BY DEF CompleteUnlessFailed
<1>. QED
  BY <1>1, <1>2, <1>3, <1>4, <1>5, <1>6

\* A generator that comes up is still the same generator.
LEMMA MoonGenUpLoop == LoopInv /\ MoonGenUp => LoopInv'
<1>. SUFFICES ASSUME LoopInv, MoonGenUp PROVE LoopInv'
  OBVIOUS
<1>. USE DEF LoopInv, MoonGenUp, history
<1>1. LoopTypeOK'
  BY DEF LoopTypeOK
<1>2. DaemonInv'
  BY DEF DaemonInv
<1>3. PerfInv'
  BY DEF PerfInv
<1>4. MoonGenInv'
  BY DEF MoonGenInv, LoopTypeOK
<1>5. AliveInv'
  <2>1. PICK g \in MoonGen : MoonGen' = (MoonGen \ {g}) \cup {[g EXCEPT !.up = TRUE]}
    OBVIOUS
  <2>2. [g EXCEPT !.up = TRUE].run = g.run
    BY DEF LoopTypeOK
  <2>3. (\E h \in MoonGen : h.run = run) => \E h \in MoonGen' : h.run = run
    BY <2>1, <2>2
  <2>. QED
    BY <2>3 DEF AliveInv
<1>6. CompleteUnlessFailed'
  BY DEF CompleteUnlessFailed
<1>. QED
  BY <1>1, <1>2, <1>3, <1>4, <1>5, <1>6

\* A generator that ends early is recorded with its measurement.
LEMMA MoonGenEndsLoop == LoopInv /\ MoonGenEnds => LoopInv'
<1>. SUFFICES ASSUME LoopInv, MoonGenEnds PROVE LoopInv'
  OBVIOUS
<1>. USE DEF LoopInv, MoonGenEnds
<1>1. LoopTypeOK'
  BY DEF LoopTypeOK
<1>2. DaemonInv'
  BY DEF DaemonInv
<1>3. PerfInv'
  BY DEF PerfInv
<1>4. MoonGenInv'
  BY DEF MoonGenInv
<1>5. AliveInv'
  BY DEF AliveInv
<1>6. CompleteUnlessFailed'
  BY DEF CompleteUnlessFailed
<1>. QED
  BY <1>1, <1>2, <1>3, <1>4, <1>5, <1>6

\* A failed start, like a step of nobody, changes nothing.
LEMMA LoopStutter == LoopInv /\ UNCHANGED loopVars => LoopInv'
  BY DEF LoopInv, loopVars, LoopTypeOK, DaemonInv, PerfInv, MoonGenInv, AliveInv, CompleteUnlessFailed

\* No command of a script and no step of a process breaks the invariant.
LEMMA LoopNextInv == LoopInv /\ [LoopNext]_loopVars => LoopInv'
<1>. SUFFICES ASSUME LoopInv, [LoopNext]_loopVars PROVE LoopInv'
  OBVIOUS
<1>1. CASE Script
  BY <1>1, StartOkLoop, RunFileLoop, StartPerfLoop, StartMoonGenLoop, ScriptSleepLoop, KillPerfLoop,
     KillMoonGenLoop, KillBessdLoop, LoopStutter DEF Script, StartFails
<1>2. CASE Process
  BY <1>2, BessdExitsLoop, BessdCrashesLoop, PerfExitsLoop, MoonGenUpLoop, MoonGenEndsLoop DEF Process
<1>3. CASE Done \/ UNCHANGED loopVars
  BY <1>3, LoopStutter DEF Done
<1>. QED
  BY <1>1, <1>2, <1>3 DEF LoopNext

\* What is alive at each command, in every state of the loop, whatever the
\* number of measurements and whoever crashes (cbr.sh, start_bess.sh).
THEOREM LoopInvariance == Loop => []LoopInv
  BY LoopInitInv, LoopNextInv, PTL DEF Loop

\* What perf records is the daemon and the traffic of its own measurement and
\* of no other: the retry loop of start_bess.sh outlasts the daemon that the
\* measurement before told to stop, and the sleep outlasts the time in which a
\* generator cannot be found by its name.
THEOREM ExperimentOwn == Loop => []OwnExperiment
<1>1. LoopInv => OwnExperiment
  BY DEF LoopInv, OwnExperiment, OwnSwitch, OwnTraffic, PerfInv, MoonGenInv, DaemonInv
<1>. QED
  BY <1>1, LoopInvariance, PTL

\* A measurement with a fixed rate is complete when its processes are killed,
\* unless the daemon, or the generator, gave up by itself during it or bessctl
\* run file (start_bess.sh:25) left the daemon without a pipeline.
THEOREM MeasurementComplete == Loop => []CompleteUnlessFailed
<1>1. LoopInv => CompleteUnlessFailed
  BY DEF LoopInv
<1>. QED
  BY <1>1, LoopInvariance, PTL
=============================================================================
