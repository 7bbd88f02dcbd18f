--------------------------- MODULE EalLaunchProofs ---------------------------
(***************************************************************************)
(* Proofs about EalLaunch, for any set of slaves and service cores and any *)
(* number of launches.                                                     *)
(***************************************************************************)
EXTENDS EalLaunch, SequenceTheorems, TLAPS

\* The launch of l that is not yet acknowledged.
Acking(l) == mpc = "ack" /\ slave_id = l

AllRun(l) == ran[l] = launched[l]
OneLeft(l) == launched[l] = Append(ran[l], f[l])
IsLast(l, r) == launched[l] # <<>> /\ r = launched[l][Len(launched[l])]

\* What the slave's place in eal_thread_loop says of its state and its jobs.
SlaveInv(l) ==
    /\ spc[l] = "read" /\ m2s[l] = 0 => state[l] \in {"WAIT", "FINISHED"} /\ AllRun(l)
    /\ m2s[l] = 1 => spc[l] = "read" /\ state[l] = "WAIT" /\ OneLeft(l)
    /\ spc[l] = "running" => state[l] = "WAIT" /\ OneLeft(l)
    /\ spc[l] \in {"ack", "call"} => state[l] = "RUNNING" /\ OneLeft(l)
    /\ spc[l] \in {"return", "finish"} => state[l] = "RUNNING" /\ AllRun(l)
    /\ spc[l] = "return" => IsLast(l, job[l])
    /\ spc[l] = "finish" \/ state[l] = "FINISHED" => IsLast(l, ret[l])

\* While the master waits for an acknowledgement there is one byte, or one
\* slave about to write it; otherwise the pipes are empty.
PipeInv(l) ==
    /\ (m2s[l] = 1 \/ spc[l] \in {"running", "ack"} \/ s2m[l] = 1) <=> Acking(l)
    /\ m2s[l] = 1 => s2m[l] = 0
    /\ spc[l] \in {"running", "ack"} => m2s[l] = 0 /\ s2m[l] = 0

MasterInv ==
    /\ mpc \in {"idle", "master"} => slave_id = None
    /\ mpc \in {"send", "ack", "spin"} => slave_id \in Remote
    /\ mpc = "send" => state[slave_id] = "WAIT" /\ f[slave_id] = jobs
    /\ mode # "one" /\ mpc \in {"launch", "send", "ack"} =>
        /\ todo \subseteq Slaves
        /\ \A l \in todo : l # slave_id /\ state[l] = "WAIT"
        /\ mpc = "launch" /\ slave_id # None => state[slave_id] = "WAIT"

IInv == TypeOK /\ (\A l \in Remote : SlaveInv(l) /\ PipeInv(l)) /\ MasterInv

-----------------------------------------------------------------------------
(* Sequences of jobs.                                                      *)
LEMMA AppendFacts ==
    ASSUME NEW s \in Seq(Nat), NEW x \in Nat
    PROVE  /\ Append(s, x) \in Seq(Nat) /\ Append(s, x) # <<>>
           /\ Append(s, x)[Len(Append(s, x))] = x
           /\ Len(Append(s, x)) = Len(s) + 1
           /\ SubSeq(Append(s, x), 1, Len(s)) = s
<1>1. /\ Append(s, x) \in Seq(Nat) /\ Append(s, x) # <<>>
      /\ Len(Append(s, x)) = Len(s) + 1 /\ Len(s) \in Nat
      /\ Append(s, x)[Len(s) + 1] = x
  BY AppendProperties
<1>2. SubSeq(Append(s, x), 1, Len(s)) = s
  <2>1. /\ SubSeq(Append(s, x), 1, Len(s)) \in Seq(Nat)
        /\ Len(SubSeq(Append(s, x), 1, Len(s))) = Len(s)
        /\ \A k \in 1 .. Len(s) : SubSeq(Append(s, x), 1, Len(s))[k] = s[k]
    BY <1>1
  <2> QED  BY <2>1, SeqEqual
<1> QED  BY <1>1, <1>2

\* A lcore that a step does not touch.
LEMMA Untouched ==
    ASSUME NEW u \in Remote, SlaveInv(u), PipeInv(u),
           /\ state'[u] = state[u] /\ f'[u] = f[u] /\ ret'[u] = ret[u]
           /\ m2s'[u] = m2s[u] /\ s2m'[u] = s2m[u] /\ spc'[u] = spc[u] /\ job'[u] = job[u]
           /\ launched'[u] = launched[u] /\ ran'[u] = ran[u],
           Acking(u)' <=> Acking(u)
    PROVE  SlaveInv(u)' /\ PipeInv(u)'
BY DEF SlaveInv, PipeInv, AllRun, OneLeft, IsLast

LEMMA InitOK == Init => IInv
<1> SUFFICES ASSUME Init PROVE IInv  OBVIOUS
<1>1. TypeOK  BY LcoreAssumption DEF Init, TypeOK, Remote
<1>2. \A l \in Remote : SlaveInv(l) /\ PipeInv(l)
  BY DEF Init, SlaveInv, PipeInv, Acking, AllRun
<1>3. MasterInv  BY DEF Init, MasterInv
<1> QED  BY <1>1, <1>2, <1>3 DEF IInv

-----------------------------------------------------------------------------
(* Steps of a slave.                                                       *)

\* The master's part of the invariant speaks of lcores in WAIT: no slave step
\* but the ones after a command changes that.
LEMMA SlaveKeepsMaster ==
    ASSUME IInv, NEW l \in Remote, UNCHANGED master,
           \A u \in Remote : u # l => state'[u] = state[u],
           state[l] = "WAIT" => Acking(l) \/ state'[l] = "WAIT"
    PROVE  MasterInv'
BY DEF IInv, MasterInv, Acking, TypeOK, master, Remote

LEMMA SlaveOK ==
    ASSUME IInv, NEW l \in Remote, SlaveStep(l)
    PROVE  IInv'
<1> USE DEF IInv
<1>a. SlaveInv(l) /\ PipeInv(l)  OBVIOUS
<1>m. UNCHANGED master
  BY DEF SlaveStep, ReadCommand, SetRunning, SendAck, CallFunction, StoreRet, Finish
<1>0. /\ f' = f /\ launched' = launched /\ mpc' = mpc /\ slave_id' = slave_id
      /\ \A u \in Remote : Acking(u)' <=> Acking(u)
  BY <1>m DEF master, Acking
<1>u. ASSUME \A u \in Remote : u # l =>
               /\ state'[u] = state[u] /\ ret'[u] = ret[u] /\ m2s'[u] = m2s[u]
               /\ s2m'[u] = s2m[u] /\ spc'[u] = spc[u] /\ job'[u] = job[u] /\ ran'[u] = ran[u]
      PROVE  \A u \in Remote : u # l => SlaveInv(u)' /\ PipeInv(u)'
  BY <1>0, <1>u, Untouched
<1>1. CASE ReadCommand(l)
  <2>0. spc[l] = "read" /\ m2s[l] = 1  BY <1>1 DEF ReadCommand, TypeOK
  <2>1. /\ spc[l] = "read" /\ m2s[l] = 1
        /\ m2s' = [m2s EXCEPT ![l] = 0] /\ spc' = [spc EXCEPT ![l] = "running"]
        /\ state' = state /\ ret' = ret /\ s2m' = s2m /\ job' = job /\ ran' = ran
    BY <2>0, <1>1 DEF ReadCommand, SGoto
  <2>2. TypeOK'  BY <2>1, <1>m DEF TypeOK, master
  <2>3. \A u \in Remote : u # l => SlaveInv(u)' /\ PipeInv(u)'
    BY <2>1, <1>u DEF TypeOK
  <2>4. m2s'[l] = 0 /\ spc'[l] = "running"  BY <2>1 DEF TypeOK
  <2>5. SlaveInv(l)' /\ PipeInv(l)'
    BY <1>a, <1>0, <2>1, <2>4 DEF SlaveInv, PipeInv, OneLeft, IsLast
  <2>6. MasterInv'  BY <1>m, <2>1, SlaveKeepsMaster
  <2> QED  BY <2>2, <2>3, <2>5, <2>6
<1>2. CASE SetRunning(l)
  <2>1. /\ spc[l] = "running" /\ state' = [state EXCEPT ![l] = "RUNNING"]
        /\ spc' = [spc EXCEPT ![l] = "ack"]
        /\ m2s' = m2s /\ ret' = ret /\ s2m' = s2m /\ job' = job /\ ran' = ran
    BY <1>2 DEF SetRunning, SGoto
  <2>2. TypeOK'  BY <2>1, <1>m DEF TypeOK, master
  <2>3. \A u \in Remote : u # l => SlaveInv(u)' /\ PipeInv(u)'
    BY <2>1, <1>u DEF TypeOK
  <2>4. state'[l] = "RUNNING" /\ spc'[l] = "ack"  BY <2>1 DEF TypeOK
  <2>5. SlaveInv(l)' /\ PipeInv(l)'
    BY <1>a, <1>0, <2>1, <2>4 DEF SlaveInv, PipeInv, OneLeft
  <2>6. MasterInv'
    <3>1. Acking(l)  BY <1>a, <2>1 DEF PipeInv
    <3> QED  BY <1>m, <2>1, <3>1, SlaveKeepsMaster DEF TypeOK
  <2> QED  BY <2>2, <2>3, <2>5, <2>6
<1>3. CASE SendAck(l)
  <2>0. m2s[l] = 0 /\ s2m[l] = 0  BY <1>a, <1>3 DEF SendAck, PipeInv
  <2>1. /\ spc[l] = "ack" /\ s2m' = [s2m EXCEPT ![l] = 1]
        /\ spc' = [spc EXCEPT ![l] = "call"]
        /\ m2s' = m2s /\ ret' = ret /\ state' = state /\ job' = job /\ ran' = ran
    BY <2>0, <1>3 DEF SendAck, SGoto, TypeOK
  <2>2. TypeOK'  BY <2>1, <1>m DEF TypeOK, master
  <2>3. \A u \in Remote : u # l => SlaveInv(u)' /\ PipeInv(u)'
    BY <2>1, <1>u DEF TypeOK
  <2>4. s2m'[l] = 1 /\ spc'[l] = "call"  BY <2>1 DEF TypeOK
  <2>5. SlaveInv(l)' /\ PipeInv(l)'
    BY <1>a, <1>0, <2>0, <2>1, <2>4 DEF SlaveInv, PipeInv, OneLeft
  <2>6. MasterInv'  BY <1>m, <2>1, SlaveKeepsMaster
  <2> QED  BY <2>2, <2>3, <2>5, <2>6
<1>4. CASE CallFunction(l)
  <2>1. /\ spc[l] = "call" /\ job' = [job EXCEPT ![l] = f[l]]
        /\ ran' = [ran EXCEPT ![l] = Append(ran[l], f[l])]
        /\ spc' = [spc EXCEPT ![l] = "return"]
        /\ m2s' = m2s /\ ret' = ret /\ state' = state /\ s2m' = s2m
    BY <1>4 DEF CallFunction, SGoto
  <2>2. ran[l] \in Seq(Nat) /\ f[l] \in Nat  BY DEF TypeOK
  <2>3. Append(ran[l], f[l]) \in Seq(Nat)  BY <2>2, AppendFacts
  <2>4. TypeOK'  BY <2>1, <2>2, <2>3, <1>m DEF TypeOK, master
  <2>5. \A u \in Remote : u # l => SlaveInv(u)' /\ PipeInv(u)'
    BY <2>1, <1>u DEF TypeOK
  <2>6. /\ job'[l] = f[l] /\ spc'[l] = "return" /\ ran'[l] = launched[l]
        /\ state[l] = "RUNNING"
    BY <1>a, <2>1 DEF TypeOK, SlaveInv, OneLeft
  <2>7. launched[l] # <<>> /\ launched[l][Len(launched[l])] = f[l]
    <3>1. launched[l] = Append(ran[l], f[l])  BY <1>a, <2>1 DEF SlaveInv, OneLeft
    <3>2. PICK s : s = Append(ran[l], f[l])  OBVIOUS
    <3>3. s # <<>> /\ s[Len(s)] = f[l]  BY <2>2, <3>2, AppendFacts
    <3> QED  BY <3>1, <3>2, <3>3
  <2>8. SlaveInv(l)' /\ PipeInv(l)'
    BY <1>a, <1>0, <2>1, <2>6, <2>7 DEF SlaveInv, PipeInv, AllRun, IsLast
  <2>9. MasterInv'  BY <1>m, <2>1, SlaveKeepsMaster
  <2> QED  BY <2>4, <2>5, <2>8, <2>9
<1>5. CASE StoreRet(l)
  <2>1. /\ spc[l] = "return" /\ ret' = [ret EXCEPT ![l] = job[l]]
        /\ job' = [job EXCEPT ![l] = 0] /\ spc' = [spc EXCEPT ![l] = "finish"]
        /\ m2s' = m2s /\ ran' = ran /\ state' = state /\ s2m' = s2m
    BY <1>5 DEF StoreRet, SGoto
  <2>2. TypeOK'  BY <2>1, <1>m DEF TypeOK, master
  <2>3. \A u \in Remote : u # l => SlaveInv(u)' /\ PipeInv(u)'
    BY <2>1, <1>u DEF TypeOK
  <2>4. ret'[l] = job[l] /\ spc'[l] = "finish"  BY <2>1 DEF TypeOK
  <2>5. SlaveInv(l)' /\ PipeInv(l)'
    BY <1>a, <1>0, <2>1, <2>4 DEF SlaveInv, PipeInv, AllRun, IsLast
  <2>6. MasterInv'  BY <1>m, <2>1, SlaveKeepsMaster
  <2> QED  BY <2>2, <2>3, <2>5, <2>6
<1>6. CASE Finish(l)
  <2>0. PICK w \in {"WAIT", "FINISHED"} : state' = [state EXCEPT ![l] = w]
    BY <1>6 DEF Finish
  <2>1. /\ spc[l] = "finish" /\ spc' = [spc EXCEPT ![l] = "read"]
        /\ m2s' = m2s /\ ran' = ran /\ ret' = ret /\ s2m' = s2m /\ job' = job
    BY <1>6 DEF Finish, SGoto
  <2>2. TypeOK'  BY <2>0, <2>1, <1>m DEF TypeOK, master
  <2>3. \A u \in Remote : u # l => SlaveInv(u)' /\ PipeInv(u)'
    BY <2>0, <2>1, <1>u DEF TypeOK
  <2>4. state'[l] = w /\ spc'[l] = "read" /\ state[l] = "RUNNING"
    BY <1>a, <2>0, <2>1 DEF TypeOK, SlaveInv
  <2>5. SlaveInv(l)' /\ PipeInv(l)'
    BY <1>a, <1>0, <2>1, <2>4 DEF SlaveInv, PipeInv, AllRun, IsLast
  <2>6. MasterInv'  BY <1>m, <2>0, <2>4, SlaveKeepsMaster DEF TypeOK
  <2> QED  BY <2>2, <2>3, <2>5, <2>6
<1> QED  BY <1>1, <1>2, <1>3, <1>4, <1>5, <1>6 DEF SlaveStep

-----------------------------------------------------------------------------
(* Steps of the master.                                                    *)

\* A step that touches no lcore, outside the wait for an acknowledgement.
LEMMA QuietOK ==
    ASSUME IInv, UNCHANGED <<state, f, m2s, s2m, slave, launched>>, mpc # "ack", mpc' # "ack"
    PROVE  \A l \in Remote : SlaveInv(l)' /\ PipeInv(l)'
<1> SUFFICES ASSUME NEW l \in Remote PROVE SlaveInv(l)' /\ PipeInv(l)'  OBVIOUS
<1>1. SlaveInv(l) /\ PipeInv(l)  BY DEF IInv
<1>2. Acking(l)' <=> Acking(l)  BY DEF Acking
<1>3. /\ state' = state /\ f' = f /\ ret' = ret /\ m2s' = m2s /\ s2m' = s2m
      /\ spc' = spc /\ job' = job /\ launched' = launched /\ ran' = ran
  BY DEF slave
<1> QED  BY <1>1, <1>2, <1>3, Untouched

\* What a free lcore has done, seen from the master.
LEMMA FreeOK ==
    ASSUME IInv, NEW l \in Remote, state[l] \in {"WAIT", "FINISHED"}, ~Acking(l)
    PROVE  spc[l] = "read" /\ m2s[l] = 0 /\ s2m[l] = 0 /\ AllRun(l)
<1>1. SlaveInv(l) /\ PipeInv(l)  BY DEF IInv
<1>2. m2s[l] = 0 /\ s2m[l] = 0 /\ spc[l] \notin {"running", "ack"}
  BY <1>1 DEF PipeInv, IInv, TypeOK
<1>3. spc[l] = "read"  BY <1>1, <1>2 DEF SlaveInv, IInv, TypeOK
<1> QED  BY <1>1, <1>2, <1>3 DEF SlaveInv

\* The call on one lcore is over.
LEMMA ContinueOK ==
    ASSUME TypeOK, MasterInv, NEW label \in {"launch", "wait"}, NEW r \in Int,
           Continue(label, r), todo' = todo,
           label = "launch" => mpc \in {"launch", "ack"} /\ \A l \in todo : state'[l] = state[l]
    PROVE  /\ MasterInv' /\ mpc' \in {"launch", "wait", "master", "idle"} /\ mret' \in Int
           /\ slave_id' \in Remote \cup {None} /\ mstate' = mstate /\ mode' = mode
<1>1. None \notin todo  BY LcoreAssumption DEF TypeOK, Remote
<1>2. /\ slave_id' = None /\ mpc' \in {label, "master", "idle"} /\ mode' = mode
      /\ mstate' = mstate /\ mret' \in Int
  BY DEF Continue
<1>3. MasterInv'
  BY <1>1, <1>2 DEF MasterInv
<1> QED  BY <1>2, <1>3

LEMMA MasterCallOK ==
    ASSUME IInv, MasterCall
    PROVE  IInv'
<1> USE DEF IInv
<1>0. mpc = "idle" /\ UNCHANGED <<state, f, m2s, s2m, slave, launched>>
  BY DEF MasterCall, MpRemoteLaunch, MpWaitLcore, RemoteLaunch, WaitLcore, Enter
<1>1. slave_id = None  BY <1>0 DEF MasterInv
<1>2. UNCHANGED <<mstate, slave_id>>
  BY DEF MasterCall, MpRemoteLaunch, MpWaitLcore, RemoteLaunch, WaitLcore, Enter
<1>3. jobs' \in 0 .. MaxJobs
  <2>1. jobs' = jobs \/ NewJob
    BY DEF MasterCall, MpRemoteLaunch, MpWaitLcore, RemoteLaunch, WaitLcore
  <2> QED  BY <2>1, LcoreAssumption DEF TypeOK, NewJob
<1>4. mret' \in Int
  <2>1. mret' = mret \/ mret' = EBUSY
    BY DEF MasterCall, MpRemoteLaunch, MpWaitLcore, RemoteLaunch, WaitLcore, Enter
  <2> QED  BY <2>1 DEF TypeOK, EBUSY
<1>5. \/ mpc' = "idle" /\ todo' = todo /\ mode' = mode
      \/ mpc' = "wait" /\ todo' \subseteq Remote /\ mode' \in {"one", "all"}
      \/ mpc' = "launch" /\ todo' \subseteq Remote /\ mode' = "one"
      \/ /\ mpc' = "launch" /\ todo' = Slaves /\ mode' \in {"all", "and_master"}
         /\ \A l \in Slaves : state[l] = "WAIT"
  BY <1>0 DEF MasterCall, MpRemoteLaunch, MpWaitLcore, RemoteLaunch, WaitLcore, Enter, Remote
<1>6. TypeOK'
  <2>1. /\ mpc' \in {"idle", "wait", "launch"} /\ todo' \subseteq Remote
        /\ mode' \in {"one", "all", "and_master"}
    BY <1>5 DEF TypeOK, Remote
  <2> QED  BY <1>0, <1>2, <1>3, <1>4, <2>1 DEF TypeOK, slave
<1>7. MasterInv'
  <2>1. None \notin Slaves  BY LcoreAssumption
  <2> QED  BY <1>0, <1>1, <1>2, <1>5, <2>1 DEF MasterInv
<1>8. \A l \in Remote : SlaveInv(l)' /\ PipeInv(l)'  BY <1>0, <1>5, QuietOK
<1> QED  BY <1>6, <1>7, <1>8

LEMMA MasterStepOK ==
    ASSUME IInv, MasterStep
    PROVE  IInv'
<1> USE DEF IInv
<1>n. None \notin Remote  BY LcoreAssumption DEF Remote
<1>1. CASE NextLcore
  <2>1. /\ mpc \in {"launch", "wait"} /\ slave_id = None /\ mpc' = mpc /\ mode' = mode
        /\ UNCHANGED <<state, f, m2s, s2m, slave, launched>>
        /\ UNCHANGED <<mstate, mret, jobs>>
    BY <1>1 DEF NextLcore
  <2>2. PICK l \in todo : slave_id' = l /\ todo' = todo \ {l}  BY <1>1 DEF NextLcore
  <2>3. TypeOK'  BY <2>1, <2>2 DEF TypeOK, slave
  <2>4. MasterInv'  BY <2>1, <2>2 DEF MasterInv
  <2>5. \A u \in Remote : SlaveInv(u)' /\ PipeInv(u)'  BY <2>1, QuietOK
  <2> QED  BY <2>3, <2>4, <2>5
<1>2. CASE SetFunction
  <2>1. /\ mpc = "launch" /\ slave_id \in Remote
        /\ UNCHANGED <<state, m2s, s2m, slave, todo, jobs, launched>>
    BY <1>2 DEF SetFunction, TypeOK
  <2>2. CASE Continue("launch", EBUSY) /\ UNCHANGED f
    <3>1. /\ MasterInv' /\ mpc' \in {"launch", "wait", "master", "idle"} /\ mret' \in Int
          /\ slave_id' \in Remote \cup {None} /\ mstate' = mstate /\ mode' = mode
      BY <2>1, <2>2, ContinueOK DEF EBUSY
    <3>2. TypeOK'  BY <2>1, <2>2, <3>1 DEF TypeOK, slave
    <3>3. \A u \in Remote : SlaveInv(u)' /\ PipeInv(u)'  BY <2>1, <2>2, <3>1, QuietOK
    <3> QED  BY <3>1, <3>2, <3>3
  <2>3. CASE /\ state[slave_id] = "WAIT" /\ f' = [f EXCEPT ![slave_id] = jobs]
             /\ mpc' = "send" /\ UNCHANGED <<slave_id, mret, mstate, mode>>
    <3>1. jobs \in Nat /\ f'[slave_id] = jobs  BY <2>1, <2>3, LcoreAssumption DEF TypeOK
    <3>2. TypeOK'  BY <2>1, <2>3, <3>1 DEF TypeOK, slave
    <3>3. MasterInv'  BY <2>1, <2>3, <3>1 DEF MasterInv
    <3>4. ASSUME NEW u \in Remote PROVE SlaveInv(u)' /\ PipeInv(u)'
      <4>0. /\ SlaveInv(u) /\ PipeInv(u) /\ ~Acking(u) /\ ~Acking(u)'
            /\ UNCHANGED <<state, ret, m2s, s2m, spc, job, launched, ran>>
        BY <2>1, <2>3 DEF Acking, slave
      <4>1. CASE u = slave_id
        <5>1. spc[u] = "read" /\ m2s[u] = 0 /\ s2m[u] = 0 /\ AllRun(u) /\ state[u] = "WAIT"
          BY <4>0, <4>1, <2>3, FreeOK
        <5> QED  BY <4>0, <5>1 DEF SlaveInv, PipeInv, AllRun, IsLast
      <4>2. CASE u # slave_id
        <5>1. f'[u] = f[u]  BY <4>2, <2>1, <2>3 DEF TypeOK
        <5> QED  BY <4>0, <5>1, Untouched
      <4> QED  BY <4>1, <4>2
    <3> QED  BY <3>2, <3>3, <3>4
  <2> QED  BY <1>2, <2>2, <2>3 DEF SetFunction
<1>3. CASE SendCommand
  <2>1. PICK l \in Remote : l = slave_id  BY <1>3 DEF SendCommand, MasterInv
  <2>2. /\ mpc = "send" /\ mpc' = "ack" /\ state[l] = "WAIT" /\ f[l] = jobs
        /\ UNCHANGED <<state, f, mstate, s2m, slave, slave_id, todo, mode, mret, jobs>>
    BY <1>3, <2>1 DEF SendCommand, MasterInv
  <2>3. spc[l] = "read" /\ m2s[l] = 0 /\ s2m[l] = 0 /\ AllRun(l)
    BY <2>2, FreeOK DEF Acking
  <2>4. /\ m2s' = [m2s EXCEPT ![l] = 1]
        /\ launched' = [launched EXCEPT ![l] = Append(launched[l], jobs)]
    BY <1>3, <2>1, <2>3 DEF SendCommand, TypeOK
  <2>5. jobs \in Nat /\ launched[l] \in Seq(Nat)  BY LcoreAssumption DEF TypeOK
  <2>6. Append(launched[l], jobs) \in Seq(Nat)  BY <2>5, AppendFacts
  <2>7. TypeOK'  BY <2>2, <2>4, <2>6, SMTT(30) DEF TypeOK, slave
  <2>8. MasterInv'  BY <2>1, <2>2 DEF MasterInv
  <2>9. ASSUME NEW u \in Remote PROVE SlaveInv(u)' /\ PipeInv(u)'
    <3>0. SlaveInv(u) /\ PipeInv(u) /\ UNCHANGED <<state, f, ret, s2m, spc, job, ran>>
      BY <2>2 DEF slave
    <3>1. CASE u = l
      <4>1. m2s'[u] = 1 /\ launched'[u] = Append(ran[u], f[u])
        BY <3>1, <2>2, <2>3, <2>4 DEF TypeOK, AllRun
      <4>2. Acking(u)'  BY <3>1, <2>1, <2>2 DEF Acking
      <4> QED  BY <3>0, <3>1, <2>2, <2>3, <4>1, <4>2 DEF SlaveInv, PipeInv, OneLeft
    <3>2. CASE u # l
      <4>1. m2s'[u] = m2s[u] /\ launched'[u] = launched[u]  BY <3>2, <2>4 DEF TypeOK
      <4>2. ~Acking(u) /\ ~Acking(u)'  BY <3>2, <2>1, <2>2 DEF Acking
      <4> QED  BY <3>0, <4>1, <4>2, Untouched
    <3> QED  BY <3>1, <3>2
  <2> QED  BY <2>7, <2>8, <2>9
<1>4. CASE WaitAck
  <2>1. PICK l \in Remote : l = slave_id  BY <1>4 DEF WaitAck, MasterInv
  <2>2. /\ mpc = "ack" /\ s2m[l] = 1 /\ Continue("launch", 0)
        /\ UNCHANGED <<state, f, m2s, slave, todo, jobs, launched>>
    BY <1>4, <2>1 DEF WaitAck, TypeOK
  <2>3. s2m' = [s2m EXCEPT ![l] = 0]  BY <1>4, <2>1, <2>2 DEF WaitAck
  <2>4. /\ MasterInv' /\ mpc' \in {"launch", "wait", "master", "idle"} /\ mret' \in Int
        /\ slave_id' \in Remote \cup {None} /\ mstate' = mstate /\ mode' = mode
    BY <2>2, ContinueOK
  <2>5. TypeOK'  BY <2>2, <2>3, <2>4, SMTT(30) DEF TypeOK, slave
  <2>6. ASSUME NEW u \in Remote PROVE SlaveInv(u)' /\ PipeInv(u)'
    <3>0. /\ SlaveInv(u) /\ PipeInv(u) /\ ~Acking(u)'
          /\ UNCHANGED <<state, f, ret, m2s, spc, job, launched, ran>>
      BY <2>2, <2>4 DEF slave, Acking
    <3>1. CASE u = l
      <4>1. s2m'[u] = 0  BY <3>1, <2>3 DEF TypeOK
      <4>2. m2s[u] # 1 /\ spc[u] \notin {"running", "ack"}  BY <3>0, <3>1, <2>2 DEF PipeInv
      <4>3. PipeInv(u)'  BY <3>0, <4>1, <4>2 DEF PipeInv
      <4>4. SlaveInv(u)'  BY <3>0 DEF SlaveInv, AllRun, OneLeft, IsLast
      <4> QED  BY <4>3, <4>4
    <3>2. CASE u # l
      <4>1. s2m'[u] = s2m[u]  BY <3>2, <2>3 DEF TypeOK
      <4>2. ~Acking(u)  BY <3>2, <2>1 DEF Acking
      <4> QED  BY <3>0, <4>1, <4>2, Untouched
    <3> QED  BY <3>1, <3>2
  <2> QED  BY <2>4, <2>5, <2>6
<1>5. CASE RunMaster
  <2>1. /\ mpc = "master" /\ mpc' = "idle" /\ mstate' = "FINISHED"
        /\ UNCHANGED <<state, f, m2s, s2m, slave, launched>>
        /\ UNCHANGED <<slave_id, todo, mode, mret, jobs>>
    BY <1>5 DEF RunMaster
  <2>2. TypeOK'  BY <2>1 DEF TypeOK, slave
  <2>3. MasterInv'  BY <2>1 DEF MasterInv
  <2>4. \A u \in Remote : SlaveInv(u)' /\ PipeInv(u)'  BY <2>1, QuietOK
  <2> QED  BY <2>2, <2>3, <2>4
<1>6. CASE WaitEntry
  <2>1. /\ mpc = "wait" /\ slave_id \in Remote
        /\ UNCHANGED <<state, f, m2s, s2m, slave, launched>> /\ UNCHANGED <<todo, jobs>>
    BY <1>6 DEF WaitEntry, TypeOK
  <2>2. CASE Continue("wait", 0)
    <3>1. /\ MasterInv' /\ mpc' \in {"launch", "wait", "master", "idle"} /\ mret' \in Int
          /\ slave_id' \in Remote \cup {None} /\ mstate' = mstate /\ mode' = mode
      BY <2>1, <2>2, ContinueOK
    <3>2. TypeOK'  BY <2>1, <3>1 DEF TypeOK, slave
    <3>3. \A u \in Remote : SlaveInv(u)' /\ PipeInv(u)'  BY <2>1, <3>1, QuietOK
    <3> QED  BY <3>1, <3>2, <3>3
  <2>3. CASE mpc' = "spin" /\ UNCHANGED <<slave_id, mret, mstate, mode>>
    <3>1. TypeOK'  BY <2>1, <2>3 DEF TypeOK, slave
    <3>2. MasterInv'  BY <2>1, <2>3 DEF MasterInv
    <3>3. \A u \in Remote : SlaveInv(u)' /\ PipeInv(u)'  BY <2>1, <2>3, QuietOK
    <3> QED  BY <3>1, <3>2, <3>3
  <2> QED  BY <1>6, <2>2, <2>3 DEF WaitEntry
<1>7. CASE WaitFinished
  <2>1. PICK l \in Remote : l = slave_id  BY <1>7 DEF WaitFinished, MasterInv
  <2>2. /\ mpc = "spin" /\ state[l] \in {"WAIT", "FINISHED"} /\ Continue("wait", ret[l])
        /\ state' = [state EXCEPT ![l] = "WAIT"]
        /\ UNCHANGED <<f, m2s, s2m, slave, todo, jobs, launched>>
    BY <1>7, <2>1 DEF WaitFinished
  <2>3. ret[l] \in Int  BY DEF TypeOK
  <2>4. /\ MasterInv' /\ mpc' \in {"launch", "wait", "master", "idle"} /\ mret' \in Int
        /\ slave_id' \in Remote \cup {None} /\ mstate' = mstate /\ mode' = mode
    BY <2>2, <2>3, ContinueOK
  <2>5. TypeOK'  BY <2>2, <2>4 DEF TypeOK, slave
  <2>6. ASSUME NEW u \in Remote PROVE SlaveInv(u)' /\ PipeInv(u)'
    <3>0. /\ SlaveInv(u) /\ PipeInv(u) /\ ~Acking(u) /\ ~Acking(u)'
          /\ UNCHANGED <<f, ret, m2s, s2m, spc, job, launched, ran>>
      BY <2>2, <2>4 DEF slave, Acking
    <3>1. CASE u = l
      <4>1. state'[u] = "WAIT"  BY <3>1, <2>2 DEF TypeOK
      <4>2. spc[u] = "read" /\ m2s[u] = 0 /\ s2m[u] = 0 /\ AllRun(u)
        BY <3>0, <3>1, <2>2, FreeOK
      <4> QED  BY <3>0, <4>1, <4>2 DEF SlaveInv, PipeInv, AllRun
    <3>2. CASE u # l
      <4>1. state'[u] = state[u]  BY <3>2, <2>2 DEF TypeOK
      <4> QED  BY <3>0, <4>1, Untouched
    <3> QED  BY <3>1, <3>2
  <2> QED  BY <2>4, <2>5, <2>6
<1> QED  BY <1>1, <1>2, <1>3, <1>4, <1>5, <1>6, <1>7 DEF MasterStep

-----------------------------------------------------------------------------
(* The invariant and what follows from it.                                 *)
LEMMA NextOK == IInv /\ [Next]_vars => IInv'
<1> SUFFICES ASSUME IInv, [Next]_vars PROVE IInv'  OBVIOUS
<1>1. CASE MasterCall  BY <1>1, MasterCallOK
<1>2. CASE MasterStep  BY <1>2, MasterStepOK
<1>3. ASSUME NEW l \in Remote, SlaveStep(l) PROVE IInv'  BY <1>3, SlaveOK
<1>4. CASE UNCHANGED vars
  BY <1>4 DEF IInv, TypeOK, SlaveInv, PipeInv, MasterInv, Acking, AllRun, OneLeft, IsLast, vars
<1> QED  BY <1>1, <1>2, <1>3, <1>4 DEF Next

\* The two pipes, the state word and the places of both threads stay in step:
\* what eal_thread.c and eal_common_launch.c rely on.
THEOREM Invariance == Spec => []IInv
BY InitOK, NextOK, PTL DEF Spec

\* Every variable keeps its type, and a pipe never holds more than one byte.
THEOREM TypeCorrect == Spec => []TypeOK
<1>1. IInv => TypeOK  BY DEF IInv
<1> QED  BY <1>1, Invariance, PTL

\* A slave runs the jobs launched on it, each once and in order.
THEOREM RunsInOrder == Spec => []RunsLaunched
<1>1. IInv => RunsLaunched
  <2> SUFFICES ASSUME IInv, NEW l \in Remote
               PROVE \/ ran[l] = launched[l]
                     \/ /\ Len(launched[l]) > 0
                        /\ ran[l] = SubSeq(launched[l], 1, Len(launched[l]) - 1)
    BY DEF RunsLaunched
  <2>1. AllRun(l) \/ OneLeft(l)
    <3>1. SlaveInv(l)  BY DEF IInv
    <3> QED  BY <3>1 DEF SlaveInv, IInv, TypeOK
  <2>2. PICK s \in Seq(Nat) : s = ran[l]  BY DEF IInv, TypeOK
  <2>3. PICK x \in Nat : x = f[l]  BY DEF IInv, TypeOK
  <2>4. PICK t : t = Append(s, x)  OBVIOUS
  <2>5. Len(s) \in Nat /\ Len(t) = Len(s) + 1 /\ SubSeq(t, 1, Len(s)) = s
    BY <2>4, AppendFacts, LenProperties
  <2>6. Len(t) > 0 /\ s = SubSeq(t, 1, Len(t) - 1)
    <3>1. Len(t) - 1 = Len(s) /\ Len(t) > 0  BY <2>5
    <3> QED  BY <3>1, <2>5
  <2> QED  BY <2>1, <2>2, <2>3, <2>4, <2>6 DEF AllRun, OneLeft
<1> QED  BY <1>1, Invariance, PTL

\* A lcore found in WAIT has run everything and reads the next command.
THEOREM FreeDone == Spec => []FreeMeansDone
<1>1. IInv => FreeMeansDone  BY FreeOK DEF FreeMeansDone, Acking, AllRun
<1> QED  BY <1>1, Invariance, PTL

\* rte_eal_mp_remote_launch never meets a busy slave in its second loop.
THEOREM MpLaunches == Spec => []MpLaunchesAll
<1>1. IInv => MpLaunchesAll
  BY LcoreAssumption DEF IInv, MasterInv, MpLaunchesAll, Remote
<1> QED  BY <1>1, Invariance, PTL

\* rte_eal_wait_lcore returns the result of the last job, after it has run.
THEOREM WaitResult == Spec => WaitReturnsResult
<1> DEFINE Ok == \A l \in Slaves : state[l] # "WAIT" /\ state'[l] = "WAIT" =>
                     /\ ran[l] = launched[l]
                     /\ mode = "one" => mret' = launched[l][Len(launched[l])]
<1>1. IInv /\ [Next]_vars => [Ok]_vars
  <2> SUFFICES ASSUME IInv, Next, NEW l \in Slaves, state[l] # "WAIT", state'[l] = "WAIT"
               PROVE  /\ ran[l] = launched[l]
                      /\ mode = "one" => mret' = launched[l][Len(launched[l])]
    OBVIOUS
  <2>0. l \in Remote /\ l \notin Service  BY LcoreAssumption DEF Remote
  <2>1. WaitFinished
    <3>1. ~MasterCall
      BY DEF MasterCall, MpRemoteLaunch, MpWaitLcore, RemoteLaunch, WaitLcore, Enter
    <3>2. MasterStep => WaitFinished
      BY DEF MasterStep, NextLcore, SetFunction, SendCommand, WaitAck, RunMaster, WaitEntry
    <3>3. ASSUME NEW u \in Remote, SlaveStep(u) PROVE FALSE
      <4>1. CASE SetRunning(u)  BY <4>1, <2>0 DEF SetRunning, IInv, TypeOK
      <4>2. CASE Finish(u)  BY <4>2, <2>0 DEF Finish, IInv, TypeOK
      <4> QED  BY <3>3, <4>1, <4>2 DEF SlaveStep, ReadCommand, SendAck, CallFunction, StoreRet
    <3> QED  BY <3>1, <3>2, <3>3 DEF Next
  <2>2. slave_id = l /\ mpc = "spin" /\ state[l] = "FINISHED" /\ Continue("wait", ret[l])
    BY <2>0, <2>1 DEF WaitFinished, IInv, TypeOK
  <2>3. AllRun(l)  BY <2>0, <2>2, FreeOK DEF Acking
  <2>4. IsLast(l, ret[l])  BY <2>0, <2>2 DEF IInv, SlaveInv
  <2> QED  BY <2>2, <2>3, <2>4 DEF AllRun, IsLast, Continue
<1>2. [][Ok]_vars <=> WaitReturnsResult  BY DEF WaitReturnsResult
<1> QED  BY <1>1, Invariance, <1>2, PTL DEF Spec
=============================================================================
