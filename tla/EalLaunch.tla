------------------------------ MODULE EalLaunch ------------------------------
(***************************************************************************)
(* How l2fwd and FloWatcher start their lcores and wait for them: the      *)
(* master hands a function to a slave through lcore_config and a pair of   *)
(* pipes (eal_thread.c, eal_common_launch.c).  The only synchronisation is *)
(* one byte in each direction and the state word.                          *)
(*                                                                         *)
(* A function with its argument is a job number; a job returns its number. *)
(***************************************************************************)
EXTENDS Integers, Sequences

CONSTANTS
    Slaves,     \* lcores of RTE_LCORE_FOREACH_SLAVE
    Service,    \* lcores with ROLE_SERVICE
    None,
    MaxJobs     \* bound on the calls of a launch function

ASSUME LcoreAssumption ==
    Slaves \cap Service = {} /\ None \notin Slaves \cup Service /\ MaxJobs \in Nat

Remote == Slaves \cup Service
EBUSY == -16

VARIABLES
    state, f, ret,    \* lcore_config[l]: state; f and arg; ret
    mstate,           \* the state of the master lcore
    m2s, s2m,         \* bytes in pipe_master2slave and pipe_slave2master
    spc, job,         \* slave l: where it is in eal_thread_loop, its job
    mpc, slave_id, todo,  \* master: where it is, the lcore at hand, those to come
    mode,             \* master: "one" lcore, "all" slaves, or all "and_master"
    mret,             \* what the last call on the master returned
    jobs,             \* number of the last job
    launched, ran     \* history: jobs launched on l, jobs that l ran

vars == <<state, f, ret, mstate, m2s, s2m, spc, job, mpc, slave_id, todo, mode, mret,
          jobs, launched, ran>>
slave == <<ret, spc, job, ran>>
master == <<f, mstate, mpc, slave_id, todo, mode, mret, jobs, launched>>

Init ==
    /\ state = [l \in Remote |-> "WAIT"]
    /\ f = [l \in Remote |-> 0] /\ ret = [l \in Remote |-> 0]
    /\ m2s = [l \in Remote |-> 0] /\ s2m = [l \in Remote |-> 0]
    /\ spc = [l \in Remote |-> "read"] /\ job = [l \in Remote |-> 0]
    /\ mpc = "idle" /\ slave_id = None /\ todo = {} /\ mode = "one"
    /\ mstate = "WAIT" /\ mret = 0 /\ jobs = 0
    /\ launched = [l \in Remote |-> <<>>] /\ ran = [l \in Remote |-> <<>>]

-----------------------------------------------------------------------------
(* The master.                                                             *)

\* The call on the lcore at hand is over: go on with another, run the function
\* on the master too, or return.  A call on all slaves ignores the results.
Continue(label, r) ==
    /\ slave_id' = None
    /\ mpc' = IF todo # {} THEN label ELSE IF mode = "and_master" THEN "master" ELSE "idle"
    /\ mret' = IF mode = "one" THEN r ELSE 0
    /\ UNCHANGED <<mstate, mode>>

Enter(label, S, m) ==
    /\ mpc = "idle"
    /\ mpc' = label /\ todo' = S /\ mode' = m
    /\ UNCHANGED <<state, f, mstate, m2s, s2m, slave, slave_id, mret, launched>>

NewJob == jobs < MaxJobs /\ jobs' = jobs + 1

\* rte_eal_remote_launch of one lcore.
RemoteLaunch(l) == NewJob /\ Enter("launch", {l}, "one")

\* rte_eal_mp_remote_launch: EBUSY unless all slaves wait.
MpRemoteLaunch(m) ==
    /\ NewJob
    /\ \/ /\ \A l \in Slaves : state[l] = "WAIT"
          /\ Enter("launch", Slaves, m)
       \/ /\ \E l \in Slaves : state[l] # "WAIT"
          /\ mpc = "idle" /\ mret' = EBUSY
          /\ UNCHANGED <<state, f, mstate, m2s, s2m, slave, mpc, slave_id, todo, mode, launched>>

\* rte_eal_wait_lcore of one lcore, and rte_eal_mp_wait_lcore.
WaitLcore(l) == Enter("wait", {l}, "one") /\ UNCHANGED jobs
MpWaitLcore == Enter("wait", Slaves, "all") /\ UNCHANGED jobs

\* The next lcore of a loop over lcores.
NextLcore ==
    /\ mpc \in {"launch", "wait"} /\ slave_id = None
    /\ \E l \in todo : slave_id' = l /\ todo' = todo \ {l}
    /\ UNCHANGED <<state, f, mstate, m2s, s2m, slave, mpc, mode, mret, jobs, launched>>

\* Mutant: the function is stored without looking at the state.
SetFunction_always ==
    LET l == slave_id IN
    /\ mpc = "launch" /\ l # None
    /\ f' = [f EXCEPT ![l] = jobs]
    /\ mpc' = "send"
    /\ UNCHANGED <<state, mstate, m2s, s2m, slave, slave_id, todo, mode, mret, jobs, launched>>

SetFunction ==
    LET l == slave_id IN
    /\ mpc = "launch" /\ l # None
    /\ \/ /\ state[l] # "WAIT"
          /\ Continue("launch", EBUSY)
          /\ UNCHANGED f
       \/ /\ state[l] = "WAIT"
          /\ f' = [f EXCEPT ![l] = jobs]
          /\ mpc' = "send"
          /\ UNCHANGED <<slave_id, mret, mstate, mode>>
    /\ UNCHANGED <<state, m2s, s2m, slave, todo, jobs, launched>>

SendCommand ==
    LET l == slave_id IN
    /\ mpc = "send"
    /\ m2s' = [m2s EXCEPT ![l] = @ + 1]
    /\ launched' = [launched EXCEPT ![l] = Append(@, jobs)]
    /\ mpc' = "ack"
    /\ UNCHANGED <<state, f, mstate, s2m, slave, slave_id, todo, mode, mret, jobs>>

WaitAck ==
    LET l == slave_id IN
    /\ mpc = "ack" /\ s2m[l] > 0
    /\ s2m' = [s2m EXCEPT ![l] = @ - 1]
    /\ Continue("launch", 0)
    /\ UNCHANGED <<state, f, m2s, slave, todo, jobs, launched>>

\* CALL_MASTER: the function runs on the master as well.
RunMaster ==
    /\ mpc = "master"
    /\ mstate' = "FINISHED"
    /\ mpc' = "idle"
    /\ UNCHANGED <<state, f, m2s, s2m, slave, slave_id, todo, mode, mret, jobs, launched>>

\* rte_eal_wait_lcore: a lcore in WAIT has nothing to wait for.
WaitEntry ==
    /\ mpc = "wait" /\ slave_id # None
    /\ \/ state[slave_id] = "WAIT" /\ Continue("wait", 0)
       \/ /\ state[slave_id] # "WAIT"
          /\ mpc' = "spin"
          /\ UNCHANGED <<slave_id, mret, mstate, mode>>
    /\ UNCHANGED <<state, f, m2s, s2m, slave, todo, jobs, launched>>

\* Mutant: a finished lcore sends the call back to its beginning.
WaitFinished_again ==
    /\ mpc = "spin" /\ state[slave_id] \in {"WAIT", "FINISHED"}
    /\ mpc' = "wait"
    /\ UNCHANGED <<state, f, mstate, m2s, s2m, slave, slave_id, todo, mode, mret, jobs, launched>>

\* It spins until the lcore has finished.
WaitFinished ==
    /\ mpc = "spin" /\ state[slave_id] \in {"WAIT", "FINISHED"}
    /\ state' = [state EXCEPT ![slave_id] = "WAIT"]
    /\ Continue("wait", ret[slave_id])
    /\ UNCHANGED <<f, m2s, s2m, slave, todo, jobs, launched>>

-----------------------------------------------------------------------------
(* The slave: eal_thread_loop.                                             *)
SGoto(l, label) == spc' = [spc EXCEPT ![l] = label]

ReadCommand(l) ==
    /\ spc[l] = "read" /\ m2s[l] > 0
    /\ m2s' = [m2s EXCEPT ![l] = @ - 1]
    /\ SGoto(l, "running")
    /\ UNCHANGED <<state, ret, s2m, job, ran, master>>

SetRunning(l) ==
    /\ spc[l] = "running"
    /\ state' = [state EXCEPT ![l] = "RUNNING"]
    /\ SGoto(l, "ack")
    /\ UNCHANGED <<ret, m2s, s2m, job, ran, master>>

SendAck(l) ==
    /\ spc[l] = "ack"
    /\ s2m' = [s2m EXCEPT ![l] = @ + 1]
    /\ SGoto(l, "call")
    /\ UNCHANGED <<state, ret, m2s, job, ran, master>>

CallFunction(l) ==
    /\ spc[l] = "call"
    /\ job' = [job EXCEPT ![l] = f[l]]
    /\ ran' = [ran EXCEPT ![l] = Append(@, f[l])]
    /\ SGoto(l, "return")
    /\ UNCHANGED <<state, ret, m2s, s2m, master>>

\* Mutant: the state is set before the result is stored.
StoreRet_late(l) ==
    /\ \/ /\ spc[l] = "return"
          /\ state' = [state EXCEPT ![l] = "FINISHED"]
          /\ SGoto(l, "late") /\ UNCHANGED <<ret, job>>
       \/ /\ spc[l] = "late"
          /\ ret' = [ret EXCEPT ![l] = job[l]] /\ job' = [job EXCEPT ![l] = 0]
          /\ SGoto(l, "read") /\ UNCHANGED state
    /\ UNCHANGED <<m2s, s2m, ran, master>>

StoreRet(l) ==
    /\ spc[l] = "return"
    /\ ret' = [ret EXCEPT ![l] = job[l]]
    /\ job' = [job EXCEPT ![l] = 0]
    /\ SGoto(l, "finish")
    /\ UNCHANGED <<state, m2s, s2m, ran, master>>

\* Nobody waits for a service core: it goes back to WAIT by itself.
Finish(l) ==
    /\ spc[l] = "finish"
    /\ state' = [state EXCEPT ![l] = IF l \in Service THEN "WAIT" ELSE "FINISHED"]
    /\ SGoto(l, "read")
    /\ UNCHANGED <<ret, m2s, s2m, job, ran, master>>

-----------------------------------------------------------------------------
MasterCall ==
    \/ MpRemoteLaunch("all") \/ MpRemoteLaunch("and_master") \/ MpWaitLcore
    \/ \E l \in Remote : RemoteLaunch(l) \/ WaitLcore(l)

MasterStep ==
    NextLcore \/ SetFunction \/ SendCommand \/ WaitAck \/ RunMaster \/ WaitEntry \/ WaitFinished

SlaveStep(l) ==
    ReadCommand(l) \/ SetRunning(l) \/ SendAck(l) \/ CallFunction(l) \/ StoreRet(l) \/ Finish(l)

Next == MasterCall \/ MasterStep \/ \E l \in Remote : SlaveStep(l)

Spec == Init /\ [][Next]_vars

\* The threads run, and the functions of the model return.
FairSpec == Spec /\ WF_vars(MasterStep) /\ \A l \in Remote : WF_vars(SlaveStep(l))

-----------------------------------------------------------------------------
(* Properties.                                                             *)

\* Every variable keeps its type; a pipe holds one byte at most.
TypeOK ==
    /\ state \in [Remote -> {"WAIT", "RUNNING", "FINISHED"}]
    /\ f \in [Remote -> Nat] /\ ret \in [Remote -> Nat] /\ job \in [Remote -> Nat]
    /\ m2s \in [Remote -> 0 .. 1] /\ s2m \in [Remote -> 0 .. 1]
    /\ spc \in [Remote -> {"read", "running", "ack", "call", "return", "finish"}]
    /\ mpc \in {"idle", "launch", "send", "ack", "master", "wait", "spin"}
    /\ mode \in {"one", "all", "and_master"} /\ mstate \in {"WAIT", "FINISHED"}
    /\ slave_id \in Remote \cup {None} /\ todo \subseteq Remote
    /\ mret \in Int /\ jobs \in 0 .. MaxJobs
    /\ launched \in [Remote -> Seq(Nat)] /\ ran \in [Remote -> Seq(Nat)]

\* A slave runs the jobs launched on it, each once and in order, and is at
\* most one behind: no launch overwrites a function before the slave took it.
RunsLaunched ==
    \A l \in Remote :
        \/ ran[l] = launched[l]
        \/ Len(launched[l]) > 0 /\ ran[l] = SubSeq(launched[l], 1, Len(launched[l]) - 1)

\* A lcore that rte_eal_remote_launch and rte_eal_wait_lcore take for free
\* (WAIT) has run everything, but for a launch that is not yet acknowledged.
FreeMeansDone ==
    \A l \in Remote : state[l] = "WAIT" /\ ~(mpc = "ack" /\ slave_id = l) =>
        ran[l] = launched[l] /\ spc[l] = "read"

\* A wait for a slave that has a job returns once the job has run, with the
\* result of that job and not of an earlier one.
WaitReturnsResult ==
    [][\A l \in Slaves : state[l] # "WAIT" /\ state'[l] = "WAIT" =>
         /\ ran[l] = launched[l]
         /\ mode = "one" => mret' = launched[l][Len(launched[l])]]_vars

\* rte_eal_mp_remote_launch ignores what its launches return: it may, since
\* every slave it found waiting still waits as its turn comes.
MpLaunchesAll ==
    mode # "one" /\ mpc = "launch" =>
        \A l \in Slaves : l \in todo \/ l = slave_id => state[l] = "WAIT"

\* Every launch and wait of the master returns: neither side of the pipes is
\* left waiting for the other (rte_eal_remote_launch, rte_eal_wait_lcore).
CallsReturn == mpc # "idle" ~> mpc = "idle"

=============================================================================
