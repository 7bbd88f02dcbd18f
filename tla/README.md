# A TLA+ model of the software-switches testbed

The repository measures seven software switches (BESS, FastClick, OVS-DPDK, Snabb, VPP,
t4p4s, netmap/VALE), Lagopus and ClickNF in physical and virtual forwarding scenarios. This directory
models the parts of it that carry logic of their own and that a measurement relies on:

* the **l2fwd** program that forwards packets inside every virtual machine of a service chain,
* the **FloWatcher-DPDK** meter whose line in `tmp.txt` is the result of a measurement,
* the **service chains**: what the switches' configuration files, the VMs and MoonGen do together,
* the **DPDK run time** under the first two: the lock-free ring, the mempool with its caches, the
  timers and the launch of functions on lcores,
* the **learning switch** that controls Lagopus, and
* the **measurement loop** of shell scripts that starts, samples and kills all this.

Paths below are relative to `src/`. `l2fwd/main.c` stands for
`docker/dpdk-suite/dpdk-stable-18.11.2/examples/l2fwd/main.c`, `FloWatcher/main.c` for
`docker/dpdk-suite/FloWatcher-DPDK/main.c`, and `lib/` for
`docker/dpdk-suite/dpdk-stable-18.11.2/lib/`.

## Inventory

| Component | State | Operations | Interacts with | What is hard |
|---|---|---|---|---|
| l2fwd (`l2fwd/main.c`, `rte_ethdev.h`) | enabled ports and their partners, lcore port lists, transmit buffers, statistics, `force_quit` | `main()` start-up and shutdown, `l2fwd_main_loop` per lcore, `print_stats`, `signal_handler` | NIC rings, TSC, signals; the VM's two vhost ports | no lock anywhere; exclusion by configuration only; partial transmit bursts; drain timer; signal at any point |
| FloWatcher (`FloWatcher/main.c`, `FloWatcher-DPDK/Flowatcher-DPDK.sh`) | `re`, `old`, device counters, one `eth_stats` per handler, `tmp.txt` | `main()`, `lcore_main`, `timer_cb`, `handler` | NIC counters, `timeout -s SIGINT` | a signal handler that does I/O, stops the port under a polling lcore and sleeps; two signals; signal before the port exists |
| Switch wiring (`bess/`, `fastclick/`, `snabb/scripts/`, `ovs-dpdk/`, `vpp/`, `t4p4s/`) | rule lists or the MAC table, rings | configuration, forwarding rounds | MoonGen through the NICs, VMs through vhost sockets | five port numberings written by hand; t4p4s steers by the MAC address that the previous VM wrote; VMs started under traffic; rings at their limit |
| VM scripts (`*/loopback-vmK.sh`, `t4p4s/cmd.txt`) | which sockets a VM takes | start a VM, launch the forwarder | the switch, l2fwd or testpmd | start order is free |
| MoonGen programs (`moongen/*.lua`) | rates, counters, histograms | load and timestamping tasks | the NICs | rate steps against fixed sleeps; loss computed from two counters read apart |
| librte_ring (`lib/librte_ring/`) | head and tail of either side modulo 2^32, the slots | bulk and burst enqueue and dequeue, by one or many threads | the free list of every mempool | compare-and-set against heads out of date; copies finish in any order; wrap of slots and of indexes |
| librte_mempool (`lib/librte_mempool/`) | the ring, a cache per lcore | get, put, flush of a cache | the mbufs of l2fwd and FloWatcher; freed on other lcores than they were taken on | caches without locks; put before the check; two accesses to the ring in one get |
| librte_timer (`lib/librte_timer/rte_timer.c`) | a list, its lock and its first expiry per lcore; status, expiry and period of a timer | reset, stop, manage; callbacks that reset and stop | FloWatcher's `timer_cb` | lists broken before their timers are marked; unlocked check; reload of a timer others may take |
| EAL launch (`lib/librte_eal/.../eal_thread.c`, `eal_common_launch.c`) | state, function, result and two pipes per lcore | launch on one or all, wait for one or all | `main()` of l2fwd and FloWatcher | no lock; order of the state, the result and the acknowledgement |
| Experiment harness (`bess/*.sh`, `*/cbr.sh`, `*_data_collection.sh`) | processes, found by name; csv files | start switch, perf and MoonGen, sleep, kill | every process of the testbed | fixed sleeps; a daemon that still stops as the next measurement starts; crashes |
| Lagopus with Ryu (`lagopus/simple_switch_13.py`) | `mac_to_port`, flow tables, buffers | switch features, packet-in; flow-mod, packet-out | OpenFlow channel | packet-ins race with the flow-mods they cause; hosts that move; a switch that restarts |
| netmap VALE (`netmap/*.sh`) | VALE bridges | attach, detach, start VMs | netmap kernel module | bridges learn addresses and flood |
| ClickNF files (`clickNF/*.click`) | two port pipelines | forwarding | the NICs | as the switch wiring |
| pktgen scripts, Docker image, data files | - | - | - | no logic of their own |

What makes each part correct: l2fwd must never let two lcores touch one queue, must account for
every packet and keep order, and must stop when told. FloWatcher must write one line whose
total is the traffic between known points. A chain must send each packet through every VM
exactly once and give it back on the other NIC, whatever switch is used; otherwise the reported
throughput belongs to a different experiment. The ring must be a bounded queue, whatever the
threads do; a buffer must have one owner; a timer must be on one list and fire once per
period on one lcore; a launched function must run once and a wait must return its result. The
learning switch must send each packet once, to where its destination is. A csv file of the harness
must hold the counters of its own switch under its own load.

## Modules

| Module | Models |
|---|---|
| `L2fwd` | l2fwd: `main()`, the lcores, the transmit buffer of librte_ethdev, signals, NIC and TSC as environment |
| `LossyLink` | abstract specification: one direction of a forwarder that may lose, never reorder or duplicate |
| `L2fwdLink` | the refinement mapping from `L2fwd` to one `LossyLink` per port |
| `MCL2fwd` | command lines for the runs |
| `L2fwdProofs` | proofs about `L2fwd`, and that it implements the links |
| `FloWatcher` | the meter |
| `ServiceChain` | MoonGen, the rule files of six switches as functions of the chain length, VMs that behave as lossy links |
| `LossyPath` | abstract specification: one direction of a chain of forwarders, which may lose any packet under way and delivers the oldest first |
| `ChainPath` | the refinement mapping from `ServiceChain` to one `LossyPath` per direction |
| `MCServiceChain`, `ServiceChainProofs` | experiments for the runs; proofs for any chain length, and that it implements the paths |
| `RteRing` | enqueue and dequeue of librte_ring, one load, store or compare-and-set per step |
| `RingFifo` | abstract specification: a bounded first-in first-out queue with atomic operations on batches |
| `MCRteRing`, `RteRingProofs` | calls for the runs; invariants of the ring, and that `RteRing` implements `RingFifo` |
| `RteMempool`, `MCRteMempool`, `RteMempoolProofs` | get, put and flush over an atomic ring; the proofs |
| `RteTimer`, `RteTimerProofs` | librte_timer; the proofs |
| `EalLaunch`, `EalLaunchProofs` | the master's launches and waits, `eal_thread_loop` of the slaves; the proofs |
| `LearningSwitch`, `LearningSwitchProofs` | `simple_switch_13.py`, with the OpenFlow switch and the hosts as environment; the proofs |
| `Harness` | the measurement loop with the scripts of BESS, and the processes they start |
| `MeasurementProofs` | proofs about `FloWatcher` and `Harness`, the two ends of a measurement; the specification of `Harness` is called `Loop`, its initial condition and its steps `LoopInit` and `LoopNext`, so that both can be used in one module |

How they compose: `RteMempool` uses its ring as a set with atomic operations. That it may is
what `RingFifo` says and `Refinement` of `RteRingProofs` proves. `FloWatcher` and `L2fwd` use launches, waits
and timers as atomic; `EalLaunch` (RunsLaunched, WaitReturnsResult) and `RteTimer` (OwnRun, NotEarly) are the justification.
`ServiceChain` uses l2fwd as a lossy link, which is `L2fwdLink` and proved (`LinksImplemented`); all of it together, switch, VMs and their
forwarders, is to MoonGen one lossy path in each direction, which is `ChainPath` and proved for any number of VMs (`PathsImplemented`).

The inductive invariants are in the `*Proofs` modules, before the proofs that need them. They can be given to TLC too: a module that
extends one of them and the MC module of a run checks its invariant on the instance of that run.

### L2fwd and its code

Variables keep the names of the C globals and locals (`dst_ports` is `l2fwd_dst_ports`,
`rx_port_list` the list in `lcore_queue_conf`, and so on). `phase` is where `main()` is, `pc[l]`
where lcore `l` is in `l2fwd_main_loop`. Every loop iteration of the code is one action: `Pair`
and `Deal` are the loops that pair ports and give them to lcores, `InitPort` the port loop,
`CheckLinks` a round of `check_all_ports_link_status`; on an lcore `LoopTop`, `Drain`, `RxBurst`
and `Forward` (one packet) follow the loop body, `PrintPort` reads one port's counters.
`rte_exit` on any failing call is the disjunct `RteExit`.

Abstractions. A port mask is a set of port ids, with the result -1 of `l2fwd_parse_portmask`
turned into all 32 bits as the unsigned assignment does; without `-p` (`NoMask`) it is 0, and start-up
ends when no port is available. The three counters of a port are read, and what a flush sent is added to its counter, in the step
that uses them: one lcore owns them. A packet is its arrival number plus
the three header parts the two stores of `l2fwd_mac_updating` write (the destination store is eight octets
wide and overlaps the source). The TSC is `due[l]`: more than `drain_tsc` has gone by. How many
packets a driver takes in `rte_eth_tx_burst` is a free choice.

### FloWatcher and its code

A slave's `re += nb_rx` is a load and a store. Each thread may be in `handler()`, whose steps
are actions: `StatsGet`, the test and the act of `rte_eth_dev_stop`, `Sleep`, `WriteFile`,
`Exit`. The result of `rte_eth_stats_get` is not checked by the code, so before the port exists
the counters are any value (`Garbage`, marked not `valid`). Stopping the port while a slave is
inside `rte_eth_rx_burst`, or while another handler stops it too, may crash the process:
undefined behaviour modelled as a choice (`Racing`), and so may a burst on the stopped port (`AfterBurst`) and an `fopen`
that returns NULL, which `WriteFile` does not test. A signal that interrupts start-up inside `malloc`
may leave the handler waiting for its own thread (`stuck`). The kernel delivers a signal to the
main thread unless it is blocked there.

### ServiceChain and its code

Ports have device numbers: 0 and 1 the NICs, 2k and 2k+1 those of VM k. `V`, `Vi` and `OfPort`
translate the numbering of BESS, Snabb and OVS. `BessRules`, `ClickRules`, `SnabbLinks`, `OvsFlows`, `VppPatches`
and `T4p4sTable` are the files `loopback*.{bess,click,lua,sh,txt}` as functions of the chain
length N; the shipped files for one to five VMs all follow these patterns. The unidirectional and the
`-bi` files of BESS, FastClick and Snabb are told apart by `setup.bi`. `Rules` picks the switch of the experiment and `Switch` is its
data plane, which is not in the repository: it moves the oldest packet of a port as the files say, and drops what a ring has no room for. `Guest` is the forwarder in a VM:
it swaps the port, rewrites the destination as l2fwd (`02:00:00:00:00:<port>`, the same in every VM)
or testpmd (`--eth-peer`, different in every VM) does, or loses the packet. That the forwarder behaves like this is not assumed for
l2fwd: it is the property `ImplementsLink` of `L2fwdLink`, and a theorem.

### RteRing and its code

`__rte_ring_do_enqueue` and `_dequeue` are the actions `ReadHead`, `ReadTail` (with the test and
the early return), `MoveHead` (the compare-and-set, or the store of the single-thread
path), `CopyIn`/`CopyOut` (one pointer each) and `UpdateTail` (enabled when the spin ends).
`head` and `tail` count without a limit; what the code computes with is always `U32` of them, with
`Modulus` for 2^32, so that a wrap really happens in the runs. `log` is a history
variable: what each slot was claimed for. The two read barriers keep the loads of a call in program order;
the model assumes that.

### RteMempool, RteTimer, EalLaunch and their code

`Get` is `__mempool_generic_get` up to its second access to the ring, `RingDequeue` the label
`ring_dequeue`; `Put` copies into the cache or the ring, `FlushExcess` is the flush behind it. `room` bounds
what the users hold, as descriptors do.

In `RteTimer` a call is `Reset` or `Stop`, then `SetConfig` (or `SetConfigFails`, the return of
-1), `timer_del`, `timer_add`, `Publish` or `MarkStopped`. `rte_timer_manage` is `Manage` (time),
`QuickCheck` (without the lock), `BreakList`, `MarkRunning` per timer, `ManageUnlock`, `CallBack`,
`CallBackEnds` and `Reload`, which continues in the actions of a reset with the lock held. A skip
list is the set of its timers; `Firsts` and `Earliest` are its order. The loop around a compare-and-set of the
status word that starts again when the word has changed is one step.

In `EalLaunch` the pipes are counters of bytes, a job is a number; the slave's `SetRunning`,
`SendAck`, `CallFunction`, `StoreRet` and `Finish` are separate steps in the order of `eal_thread_loop`.

### LearningSwitch and its code

`_packet_in_handler` is one action, as Ryu runs an application's handlers one at a time: `Learn` updates
`mac_to_port`, `Answer` is the sequence of messages it sends. The connection is a FIFO each way; a restart
of the switch loses both directions, its flows and its buffers, and the controller keeps `mac_to_port`. Packet-ins that Ryu has
received and queued before the restart are lost with the connection in the model; the handler would still learn from them.
Line 50 of the file is indented with tabs inside a block of spaces, which Python rejects; the model is the file without it.

### Harness and its code

One action per command of `cbr.sh` and `start_bess.sh` that starts, loads or ends a process; directories, modules and echoes are left out. `StartFails` and
`StartOk` are the loop around `bessctl daemon start`; `RunFile` is `bessctl run file`, whose status nobody looks at: when it fails
the daemon has no pipeline (`loaded` is FALSE, the run is in `idle`) and the measurement goes on with it. A process is a record with the
number of the measurement that started it. `pidof` and `killall` see every process of that name. `varied_rate.sh` differs in running
MoonGen in the foreground. `BessdExits`, `BessdCrashes`, `PerfExits`, `MoonGenUp` and `MoonGenEnds` are the processes.
`SleepIsLong` states the assumption hidden in the fixed sleep: MoonGen comes up, or gives up, within 30 seconds.

## Runs

One run per question, mostly under the fair specification, so that safety, action and liveness
properties are checked of the same instance. What is proved for every instance and follows from
a stronger property is not checked again by a run (see Proofs).

| Run | Checks | Shows |
|---|---|---|
| `l2fwd_args` | PortsPaired, NoQueueRace, OnlyStartedPortsUsed | every command line (bad ones too) over 3 devices and 3 lcores: enabled ports are matched and dealt to one lcore each, so lock-free queues are not shared; no port is closed while in use |
| `l2fwd_two` | TxBufferHasRoom, PacketsConserved, HeadersRewritten, ImplementsLink | two ports, two lcores, traffic and signals: exact accounting and rewriting; each direction of l2fwd is a lossy FIFO link |
| `l2fwd_live` | QuitTerminates, BufferDrained, PrintedSound | a signal at any point ends the program; a half-full buffer is drained; totals printed while other lcores count are never ahead and never go down |
| `flowatcher` | CountExact, LineBracketed, SignalEnds, AllCounted | up to two signals at any point, start-up included: exact counts, a line that brackets the traffic, and an end of every signal in a line or in the crash |
| `chain` | ChainVisited, NoLoop, ImplementsPath, Returns | two VMs, all six switches, both directions, VMs started under traffic, overflowing rings: each direction is one lossy path that keeps the order and counts what it loses |
| `chain_t4p4s_l2fwd` | NoLoop (violated) | the finding below |
| `ring` | NoSlotShared, HonestRefusal, ImplementsFifo, ReturnsUnlessBeaten | two producers and two consumers, bursts over the end of the ring, indexes that wrap: the ring is a bounded queue, refuses only calls that do not fit, and a call returns unless others go on moving the head before it |
| `mempool` | Conserved, CacheBounded, FailsWhenOut | buffers taken on one lcore and freed on another, with a thread that has no cache |
| `timer` | ListsSound, OwnRun, NotEarly, Fires | two lcores reset, stop and run each other's timers; a pending timer is called back or reconfigured |
| `launch` | RunsLaunched, WaitReturnsResult, CallsReturn | launches and waits in any order on two slaves and a service core |
| `lagopus` | OnlyBuffer0Keeps, SentOnce, FlowsSound, SenderKnown, FlowInstalled | hosts that move, a switch that restarts, packets in no buffer or in a buffer, 0 among them: only one in buffer 0 is forgotten; two hosts that keep talking end up with flows |
| `harness` | OwnExperiment, CompleteUnlessFailed, Ends | three measurements with asynchronous stops and crashes and pipelines that fail to load: a measurement is complete but for these; the data collection ends |

`ListsSound`, `FlowsSound` and `OwnExperiment` are conjunctions of the named parts
defined above them in their modules and include the type invariant of their module.

### Finding: t4p4s with l2fwd in a chain of two

`t4p4s/README.md:78` tells the reader to launch l2fwd in both VMs of the 2-VNF experiment.
l2fwd writes the destination `02:00:00:00:00:01` on what leaves the second port of *every* VM,
but `t4p4s/loopback-2-vm_table.txt:3` sends that address to the first port of VM 2. TLC's trace: a packet leaves VM 2
and the switch sends it into VM 2 again, for ever; nothing reaches NIC 1. The tables fit testpmd
with the addresses of `t4p4s/cmd.txt`; with one VM both
forwarders work (`SoundSetups`, which the theorems about the chain cover).
The theorem `T4p4sAstray` says the same of every chain of two or more VMs: nothing at all comes back on NIC 1, and
what comes back on NIC 0 has visited VM N alone.

### Other observations

Met while modelling; none of them affects the experiments, and no run is spent on them.

* `rte_ring_generic.h:76-80`: "'free_entries' is always between 0 and capacity". The head and the
  other side's tail are read at different times; between them others may enqueue and
  dequeue past the head that was read, and the difference is more than the capacity. The compare-and-set
  fails for such a head, and IndexOrder and HonestRefusal are proved without the comment's claim.
* `rte_mempool.h:1366-1371`: "If that fails, we are truly out of buffers". The ring is asked for all n
  objects and the lcore's cache is not: a get of two fails with one buffer in each. It is true of a
  get of one buffer (FailsWhenOut).
* `rte_timer.c:283`: "timer must be in a list". `rte_timer_manage` takes expired timers off the list while they are
  PENDING, and makes a periodic timer PENDING before it is on a list; a reset from another lcore then
  deletes a timer that is in no list. ListsSound shows that nothing goes wrong.
* `simple_switch_13.py:107` says that with a valid `buffer_id` the flow-mod replaces the packet-out, and the
  handler returns after it. `add_flow` tests `if buffer_id:`, which is false for buffer 0: the
  flow-mod does not name the buffer and nobody sends the packet. OnlyBuffer0Keeps says that this is the only way a packet is
  forgotten. It takes a switch that buffers although the table-miss entry asks for `OFPCML_NO_BUFFER`.
* `bess/start_bess.sh:25` does not look at the status of `bessctl run file`: a measurement with a daemon that forwards nothing is
  recorded like any other (CompleteUnlessFailed, `idle`).

### Bounds

* `l2fwd_args`: three devices are the least with an odd set of ports, a mask with a hole and two
  ports on one lcore; the lcores are 0, 2 and 3, with a hole and with a master that is not the
  first. `-q` runs over every accepted value and the rejected ones. One packet per port: the run is about start-up and who works on what.
* `l2fwd_two`: a burst of two and three arrivals let a buffer fill and be flushed, be drained when
  half full and have a packet left over, on both ports at once, with and without MAC updating.
* `l2fwd_live`: two arrivals: one fills half of a buffer, the case the drain is for; two are counted while a print is under way.
* `flowatcher`: a core list with two slaves (the start script gives two, of which one may run) or with none, which the
  launch loop accepts and where nobody polls; ring and burst of two and three
  packets, so the ring overflows; two signals, as `timeout(1)` can send.
* `chain`: two VMs have a link between VMs, which every file writes by a pattern of its own; the theorems hold for any number.
  Rings of two and three packets per direction overflow and allow overtaking if there were any.
* `ring`: bursts of two in four slots, from index 6 of 8: they run over the end of the ring and of the index range; two
  threads a side contend for every claim, and a capacity of two (less than size - 1, as an exact-size ring has) fills up.
  `MaxObjs` = 3 objects are offered. With three objects in four slots no slot is used twice in the run: that a producer does not overtake a reader is shown by the theorems
  only (`NoSlotShared` among them). The bound also ends all contention, so that in the run every call returns; the property says what holds without it. `NoLap` excludes that the others move the head once around 2^32 while a thread is between its
  read of the head and its compare-and-set (the ABA problem that the code leaves to the width of the index).
* `mempool`: seven buffers, caches of two and calls of up to `MaxN` = 5 reach the cache, the backfill, the direct ring access and
  puts larger than a cache. Buffers are alike, hence the symmetry.
* `timer`: two lcores and two timers contend for every list and status; `MaxCalls` = 3 resets or stops and `MaxNow` = 2 ticks let a
  timer expire, be reloaded and be reset from elsewhere meanwhile.
* `launch`: two slaves, so that a launch on all has a second one; `MaxJobs` = 3 gives a lcore a third job.
* `lagopus`: two hosts, three ports (one to flood to in vain, one to move to), two `Packets` on their way, two moves (away and back), one
  restart, the buffers 0 and 1. Ports are alike, so one placement of the hosts is enough to start from.
* `harness`: `MaxRuns` = 3: a measurement with one before and one behind it.

The chain runs switch off the deadlock check: once every packet has been sent and has come back,
the experiment really stops. So does the timer run, where clock and calls are bounded, and `lagopus`: a packet that is ignored or
in buffer 0 keeps its buffer, and when both `Packets` do and the restart is used there is none left to send.

### Fairness

Every lcore is a thread pinned to its own core that polls and never blocks, so each lcore, and
`main()`, is weakly fair; the TSC always advances (`Tick`). A thread inside FloWatcher's handler
runs on and `sleep(1)` returns. Likewise a thread inside a ring call (no more than that: a thread whose compare-and-set fails
time and again is not promised a success, hence the premise in ReturnsUnlessBeaten), the master inside a launch or a wait, each slave
thread, and each lcore in a timer call or in `rte_timer_manage`, which the applications call again and again; weak fairness is
enough for a spinlock there, since with two lcores and bounded calls it does not go on being taken for ever. The controller and the
switch go on reading their connection; FlowInstalled names the hosts' sending as its premise. In the harness the shell goes on,
a daemon told to stop stops, a generator comes to its end, and an attempt to start the daemon that is possible again and
again succeeds at last (strong fairness: the loop of `start_bess.sh` is built on it). The switches and the guests poll (`Switch`, `Guest`). Nothing is assumed about arrivals, signals,
MoonGen or about somebody starting the VMs.

## Proofs

All proofs hold for every value of the constants under the named `ASSUME`s, which TLC evaluates
in the runs.

* **L2fwd** (`ConfigAssumption`: port ids below 32, the master is an lcore, a burst is positive;
  `ArgsAssumption`: the shape of the command line).
  `IInv` = TypeOK /\ PairInv /\ DealInv /\ LoopInv /\ DeviceInv /\ StatInv. PortsPaired is not inductive:
  `PairInv` adds the loop invariant (the ports visited are matched, but for `last_port` when their number
  is odd). `DealInv` says that a port still to be dealt is in no list, which makes the lists disjoint. `LoopInv` ties
  each lcore's position to the phase of `main()`. `StatInv` holds the accounting.
  From it: `TypeCorrect`, `PairingCorrect`, `DealingCorrect`, `RaceFree`, `BufferSafe`, `Conservation`,
  `ExitLoss`, `PortsLive`. `LinksTold` has an invariant of its own (`LinkInv`: the last round sets `print_flag`, and the
  check ends only with a report or a signal). `RaceFree` needs both: two lcores that share a transmit
  buffer would poll two ports with one partner (matching), hence one port from two lists (dealing).
  `HeadersCorrect` says of every place a packet may be in (the rest of a burst, a transmit buffer, the wire) which header it
  has there; the rest of a burst still has the header it came with.
  `LinksImplemented` is the refinement: a link's queue is what waits in the NIC, in the burst that an lcore holds and in the transmit buffer of
  the partner. It rests on what makes `RaceFree` true (`IInv`: a burst is the only one in hand of its port, and a
  buffer is filled from one port only) and on `QuietInv` (nothing arrives at a port before its device is started, nothing is sent before the lcores are launched).
  A lemma per action shows that it is a step of its own link and a stutter of the others.
  `PrintCorrect` is about a print that reads one port after another while other lcores count. What it has summed so far is at most the counters of
  the ports it has read, and together with those of the ports still to be read at least what was printed last (`Tally`, one for each of the three
  totals, in `PrintInv`). A counter that grows keeps this, and at the last port it is PrintedSound. A sum over a set of ports is the cardinality of
  a set of pairs (`SumOver`), so that the library's theorems on finite sets say what one more port adds (`SumAdd`) and that sums grow
  with the counters (`SumGrows`); no induction is needed.
* **FloWatcher** (`ThreadsAssumption`, `SizesAssumption`). `IInv` = TypeOK /\ OrderInv /\ CountInv /\ LineInv.
  `OrderInv` shows that the launch loop ends after the first slave, hence one reader and one writer;
  with it a loaded `re` cannot be stale (`reg = re`), which `CountInv` needs. `LineInv`
  carries the bracket from the read to the write. From it: `TypeCorrect`, `SingleReader`, `CountCorrect`, `LineCorrect`, `TimerCorrect`.
* **Harness** (`RunsAssumption`). `LoopInv` says for every command of the scripts what may be alive there: no daemon but the run's own between its
  start and `killall` (`DaemonInv`), perf only from its start to its kill (`PerfInv`), no generator that outlives its run, because by the end of the
  sleep it can be found by its name (`MoonGenInv`, which rests on `SleepIsLong`), and whoever is missing is among the crashed, a
  daemon without a pipeline among the idle (`AliveInv`). OwnExperiment alone is not inductive: it says nothing of the daemon that `pidof` will find. From it: `ExperimentOwn`,
  `MeasurementComplete`, for any number of measurements.
* **ServiceChain** (`NAssumption`, `BoundAssumption`, `SetupAssumption`; the theorems assume
  `Setups \subseteq SoundSetups`, which excludes exactly t4p4s with l2fwd in a chain of two or more).
  ChainVisited speaks only of packets that came back; `Located` says for every port what path a
  packet there must have taken and which address it carries. The lemmas `RulesAreChain` (all five rule files
  are the same relation, whatever their numbering) and `NextHop` reduce the six switches to one argument. From it: `TypeCorrect`, `ChainCorrect`, `LoopFree`,
  `HairpinFree`, for any N. `DeliveryCorrect` needs more: `DeliveryInv` adds `Ordered` (of two packets of one direction the one with
  more queues behind it, or ahead in the same queue, was sent first), `Counted` and `Present`. OrderKept alone is not
  inductive, as it says nothing of packets still under way; `Ordered` is, since by `Located` all packets of a
  direction follow the same sequence of queues (lemma `EquallyFar`: equally far means in the same queue).
  `PathsImplemented` is the refinement. A direction's `pending` is the set of its packets in any queue that does not lead to MoonGen; by
  `Counted`, `Present` and the uniqueness of slots it is what was sent and is neither lost nor back (`InTransitInv`), so a step of the
  path can be read off `sent`, `lost` and the queue of the other NIC. What is left is that the packet that reaches MoonGen is the oldest
  under way (`LastIsOldest`): it is at the head of the last queue of its direction, and all others are behind it there or
  further back.
  `T4p4sAstray` is about the experiment that `SoundSetups` leaves out (`Setups \subseteq AstraySetups`, N >= 2). `AstrayInv` says where its
  packets can be: those from NIC 0 only at VM 1 and VM 2, those from NIC 1 only at VM N and then back at NIC 0.
* **RteRing** (`SizeAssumption`: the capacity is less than the size and the index range a multiple of it;
  `ThreadAssumption`, `CallAssumption`, `BoundAssumption`). `IInv` = TypeOK /\ IndexInv /\ DataInv.
  IndexOrder is not inductive: `Locals` says that the head a call has read is not ahead of the
  head and less than an index range behind it, so that the differences modulo 2^32 are exact, equality modulo 2^32 is
  equality, and a claim stays below the other side's tail. `Apart` says that claims of one side are disjoint intervals,
  `Alone` replaces both on the single-thread path. `Wrote` and `Took` are the loop invariants of the copies. A slot belongs to
  one position between the tails because the capacity is less than the size (lemmas on `%`). From it: `TypeCorrect`, `IndexesOrdered`, `SlotsOwned`,
  `SlotsFaithful`, `DequeueDelivers`, `RefusalHonest`.
  `Refinement` shows that `RteRing` implements `RingFifo`: an enqueue takes effect as `UpdateTail` moves the producers' tail, a dequeue as `MoveHead` moves the consumers'
  head; `Got` is what a dequeue will have read, which no other step changes since its slots are its own. Every other step is a stutter.
* **RteMempool** (`PoolAssumption`). `IInv` = types /\ Conserved /\ Short /\ Filled: `Filled` bounds a cache also between the copy and
  the flush of a put, `Short` says that a lcore on its way to the ring has a cache that cannot serve it. From it: `TypeCorrect`, `Conservation`, `CacheSafe`, `GetHonest`.
* **EalLaunch** (`LcoreAssumption`). `IInv` = TypeOK /\ SlaveInv /\ PipeInv /\ MasterInv: `PipeInv` says that there is one byte, or a slave about to write it,
  exactly while the master waits for the acknowledgement, which is what makes the unlocked `f` and `state` safe.
  From it: `TypeCorrect`, `RunsInOrder`, `FreeDone`, `MpLaunches`, `WaitResult`.
* **RteTimer** (`TimerAssumption`). `IInv` is a conjunction of facts about one lcore (`OpOK`, `ConfigOK`, `LockOK`, `RunOK`, `HeadOK`) and about
  one timer and one list (`Owned`, `PendingOK`, `UnmarkedOK`, `RunlistOK`, `LinkedOK`). ListsSound is not inductive: a
  timer is found through its status word, and the word and the list change in different steps. `Listed` and `Publishing` name the windows in between (configured and
  not yet deleted, added and not yet published), so that each timer has one home at any time (lemma `OneHome`). `HeadOK` is the unlocked head, from lemmas about
  `Earliest`, which rest on the least-number principle (`LeastNumber`, from the well-foundedness of the naturals). From it: `ListsCorrect`, `RunsAlone`,
  and `CallsInTime`, which is about steps: once a broken list is marked its timers are RUNNING, so nobody can reset them, and their expiry is not after the time that `rte_timer_manage` read.
* **LearningSwitch** (`PortAssumption`, `BufferAssumption`: FLOOD and NO_BUFFER are no ports and buffers; `HostAssumption`: there are hosts, and a
  port for each; `BoundAssumption`). `IInv` = TypeOK /\ BuffersOK /\ ChannelsOK /\ CarriedOnce /\ LearntOK /\ ReachesDst, and `InOrder` for every host
  that came back to no port. SentOnce needs `CarriedOnce` (over both directions of the connection no two messages carry one packet) and that a named buffer is not empty: only then is a
  buffer that is used again named by no message that is still under way. FlowsLearnt and ReachesDst need the same of the controller's table, of the packets
  and of the messages (`FlowOK`, `PacketOutOK`). SenderKnown needs `InOrder`: the packet-ins of a host tell of its ports in the order of its moves, so
  one that is handled late does not overwrite a newer port. The steps of the switch and of the controller are instances of three lemmas (`OutputKeeps`,
  `HandlerKeeps`, `SentKeeps`). From it: `TypeCorrect`, `SentAtMostOnce`, `LearntCorrect`, `SenderStaysKnown` and, by an induction of its own that uses `IInv`, `NoneIsForgotten`: the packet of a packet-in that names buffer 0 is in it, and nothing but a message that carries it empties the buffer.

Proved and not checked by a run: TypeOK of the modules whose runs do not name it, the inductive invariants, PortsDealt, ExitLossBounded, LinksReported,
OneReader, LineNotBehindTimer, NoHairpin, Astray, Delivery (OrderKept and Accounted), IndexOrder, SlotsHold, Delivered, FreeMeansDone and MpLaunchesAll.

Only model-checked: the liveness properties (QuitTerminates, BufferDrained, SignalEnds, AllCounted, Returns, ReturnsUnlessBeaten, CallsReturn, Fires,
FlowInstalled, Ends), which need fairness and are outside the prover's reach. Every other property of a passing run is also a theorem.

## Not modelled

* Traffic while a switch is being configured (the default flow of a new OVS bridge, VPP interfaces
  still down). The chain starts with the rules installed.
* The MAC-learning digest of `l2fwd.p4`, and `bcast` on a table miss: with the addresses of
  the modelled programs a miss cannot happen (TypeOK of `ServiceChain`).
  `moongen/l2-poisson-load-latency.lua` sends to an address in no table.
* The inside of the switches and of the drivers: third-party code, modelled by what the files ask of it.
* Weak memory: the ring's barriers are taken to do what their comments say. `rte_ring_c11_mem.h` is not built on x86.
* The size of l2fwd's pool (`l2fwd/main.c:611`) against what descriptors and caches can keep.
* Creation and population of rings and pools, timers' `_sync` variants (loops around the modelled calls), statistics.
* The other switches' harness scripts, which follow the ones of BESS step by step with another daemon; what MoonGen computes.
* The rest of the vendored DPDK and pktgen, more than a million lines the experiments' own programs do not touch.
* Link up and down after start-up, hot-plugging, promiscuous mode.
* `rte_panic` on a failing pipe and the return value of the master's own job in `EalLaunch`; in `RteTimer` the -1 of a reset for a disabled lcore and callers without an lcore id.
* Printed text, plots, csv contents, Docker images, pktgen scripts; the ClickNF files, until the p2p scenarios are.

## Plan

1. Done: `L2fwd`, `LossyLink`, `L2fwdLink`, `FloWatcher`, `ServiceChain`, `LossyPath`, `ChainPath`; `RteRing`, `RingFifo`, `RteMempool`,
   `RteTimer`, `EalLaunch`, `LearningSwitch`, `Harness`; the theorems above.
2. The other scenarios (p2p, p2v, v2v, v2v-latency) of each switch, with the VALE
   bridges of netmap: each direction of each of them shown to implement `LossyPath`.
3. MoonGen: rate tables of `varied_cbr_rate.lua`, counters and loss computation, timestamping task against load task.
