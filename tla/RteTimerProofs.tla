--------------------------- MODULE RteTimerProofs ---------------------------
(***************************************************************************)
(* For any number of lcores and timers: a timer is in one list at most,    *)
(* none is lost, the head that is read without the lock is up to date, and *)
(* a callback has its timer for itself and never starts early.             *)
(*                                                                         *)
(* A lemma per step says first what the step does to each lcore and timer  *)
(* (step e), and then takes the parts of the invariant one by one.         *)
(***************************************************************************)
EXTENDS RteTimer, WellFoundedInduction, FiniteSetTheorems, TLAPS

-----------------------------------------------------------------------------
(* The inductive invariant.                                                *)

\* Lcore l is between its call and its return, and from SetConfig on the
\* timer is its own.
Calling(l) == pc[l] \in {"config", "del", "reset", "publish", "stop"}
Configuring(l) == pc[l] \in {"del", "reset", "publish", "stop"}

\* The list of l is broken and being marked; l runs the callbacks.
Marking(l) == pc[l] \in {"mark", "unlock"}
CallingBack(l) == pc[l] \in {"next", "callback", "reload"} \/ op[l].ret # "idle"

\* What a reset or stop knows of its own call.
OpOK(l) ==
    /\ ~Calling(l) => op[l] = NoOp
    /\ Calling(l) => op[l].tim \in Timers /\ op[l].kind \in {"reset", "stop"}
    /\ op[l].kind = "reset" => op[l].lcore \in Lcores
    /\ pc[l] \in {"reset", "publish"} => op[l].kind = "reset"
    /\ pc[l] = "del" => op[l].prev \in Lcores
    /\ op[l].locked => op[l].lcore = l /\ op[l].ret = "next"

\* A timer under configuration says by whom.
Owned(t) == status[t].state # "STOP" => status[t].owner \in Lcores
ConfigOK(l) == Configuring(l) => status[op[l].tim] = St("CONFIG", l)

\* Who holds the lock of a list, and what nobody can take off it meanwhile.
LockOK(l) ==
    /\ Marking(l) \/ op[l].locked => list_lock[l] = l
    /\ pc[l] = "publish" => list_lock[op[l].lcore] = l /\ op[l].tim \in pending[op[l].lcore]

\* The status word names m as the list of t, or did when its configuration
\* began and timer_del is still to come.
Listed(t, m) ==
    \/ status[t] = St("PENDING", m)
    \/ \E l \in Lcores : pc[l] = "del" /\ op[l].tim = t /\ op[l].prev = m

Publishing(t, m) == \E l \in Lcores : pc[l] = "publish" /\ op[l].tim = t /\ op[l].lcore = m

\* What the status word says of a timer in a list, and the other way round.
PendingOK(t, m) == t \in pending[m] => Listed(t, m) \/ Publishing(t, m)

UnmarkedOK(t, m) ==
    t \in unmarked[m] =>
        Listed(t, m) /\ t \notin pending[m] /\ pc[m] = "mark" /\ expire[t] <= cur_time[m]

RunlistOK(t, m) ==
    t \in runlist[m] =>
        /\ status[t] = St("RUNNING", m) /\ t # running_tim[m]
        /\ expire[t] <= cur_time[m] /\ (Marking(m) \/ CallingBack(m))

LinkedOK(t, m) ==
    status[t] = St("PENDING", m) =>
        \/ t \in pending[m] \cup unmarked[m]
        \/ op[m].locked /\ pc[m] = "config" /\ op[m].tim = t

\* The timer that is called back.
RunOK(l) ==
    /\ cur_time[l] <= now
    /\ ~CallingBack(l) => running_tim[l] = None
    /\ Inside(l) \/ pc[l] = "reload" => running_tim[l] \in Timers
    /\ pc[l] = "reload" => ~updated[l]
    /\ (Inside(l) \/ pc[l] = "reload") /\ ~updated[l] => status[running_tim[l]] = St("RUNNING", l)

\* The head is up to date whenever the list is whole.
HeadOK(l) == ~Marking(l) => head_expire[l] = Earliest(pending[l], expire)

IInv ==
    /\ TypeOK
    /\ \A l \in Lcores : OpOK(l) /\ ConfigOK(l) /\ LockOK(l) /\ RunOK(l) /\ HeadOK(l)
    /\ \A t \in Timers : Owned(t)
    /\ \A t \in Timers, m \in Lcores :
          PendingOK(t, m) /\ UnmarkedOK(t, m) /\ RunlistOK(t, m) /\ LinkedOK(t, m)

-----------------------------------------------------------------------------

\* A status word is its state and its owner.
LEMMA StFacts ==
    \A s1, s2, o1, o2 :
        /\ St(s1, o1).state = s1 /\ St(s1, o1).owner = o1
        /\ St(s1, o1) = St(s2, o2) <=> s1 = s2 /\ o1 = o2
BY DEF St

\* A lcore that is in no call.
LEMMA NoOpFacts ==
    NoOp.kind = "none" /\ NoOp.ret = "idle" /\ NoOp.locked = FALSE /\ ~NoOp.locked
BY DEF NoOp

\* The record of a call keeps its type when prev is noted.
OpRecords ==
    [tim : Timers \cup {None}, kind : {"none", "reset", "stop"}, expire : Nat, period : Nat,
     lcore : Lcores \cup {None}, locked : BOOLEAN, prev : Lcores \cup {None},
     ret : {"idle", "callback", "next"}]

LEMMA PrevNoted ==
    ASSUME NEW r \in OpRecords, NEW x \in Lcores \cup {None}
    PROVE  [r EXCEPT !.prev = x] \in OpRecords
BY DEF OpRecords

\* Every set of numbers that is not empty has a least one.
LEMMA LeastNumber ==
    ASSUME NEW T, T \subseteq Nat, T # {}
    PROVE  \E x \in T : \A y \in T : x <= y
<1>1. PICK x \in T : \A y \in T : ~ (<<y, x>> \in OpToRel(<, Nat))
  BY NatLessThanWellFounded, WFMin, Zenon
<1>2. \A y \in T : ~(y < x)
  BY <1>1, Zenon DEF OpToRel
<1> QED
  BY <1>2

\* What Earliest says of a list.
LEMMA EarliestFacts ==
    ASSUME NEW S \in SUBSET Timers, NEW e \in [Timers -> Nat]
    PROVE  /\ Earliest(S, e) \in Nat
           /\ S # {} => /\ \A t \in S : Earliest(S, e) <= e[t]
                        /\ \E t \in S : Earliest(S, e) = e[t]
<1>1. CASE S = {}
  BY <1>1 DEF Earliest
<1>2. CASE S # {}
  <2>1. PICK T : T = {e[t] : t \in S}
    OBVIOUS
  <2>2. T \subseteq Nat /\ T # {}
    BY <1>2, <2>1
  <2>3. \E x \in T : \A t \in S : x <= e[t]
    BY <2>1, <2>2, LeastNumber
  <2>4. Earliest(S, e) \in T /\ \A t \in S : Earliest(S, e) <= e[t]
    BY <1>2, <2>1, <2>3 DEF Earliest
  <2> QED
    BY <2>1, <2>2, <2>4
<1> QED
  BY <1>1, <1>2

\* The expiry of a timer that is not on the list does not count.
LEMMA EarliestSame ==
    ASSUME NEW S \in SUBSET Timers, NEW e \in [Timers -> Nat], NEW f \in [Timers -> Nat],
           \A t \in S : e[t] = f[t]
    PROVE  Earliest(S, e) = Earliest(S, f)
<1>1. {e[t] : t \in S} = {f[t] : t \in S}
  OBVIOUS
<1>2. CASE S = {}
  BY <1>2 DEF Earliest
<1>3. CASE S # {}
  <2>1. PICK a, b : a = Earliest(S, e) /\ b = Earliest(S, f)
    OBVIOUS
  <2>2. /\ a \in Nat /\ \A t \in S : a <= e[t]
        /\ \E t \in S : a = e[t]
    BY <1>3, <2>1, EarliestFacts
  <2>3. /\ b \in Nat /\ \A t \in S : b <= f[t]
        /\ \E t \in S : b = f[t]
    BY <1>3, <2>1, EarliestFacts
  <2>4. a = b
    BY <2>2, <2>3
  <2> QED
    BY <2>1, <2>4
<1> QED
  BY <1>2, <1>3

\* timer_del of a timer that is not the first leaves the head as it is.
LEMMA EarliestRest ==
    ASSUME NEW S \in SUBSET Timers, expire \in [Timers -> Nat], NEW t \in Timers, t \notin Firsts(S)
    PROVE  Earliest(S \ {t}, expire) = Earliest(S, expire)
<1>1. CASE t \notin S
  <2>1. S \ {t} = S
    BY <1>1
  <2> QED
    BY <2>1
<1>2. CASE t \in S
  <2>1. PICK a, b : a = Earliest(S, expire) /\ b = Earliest(S \ {t}, expire)
    OBVIOUS
  <2>2. PICK u \in S : ~(expire[t] <= expire[u])
    BY <1>2 DEF Firsts
  <2>3. u \in S \ {t}
    BY <2>2
  <2>4. /\ a \in Nat /\ \A v \in S : a <= expire[v]
        /\ \E v \in S : a = expire[v]
    BY <1>2, <2>1, EarliestFacts
  <2>5. PICK R : R = S \ {t}
    OBVIOUS
  <2>6. R \in SUBSET Timers /\ R # {} /\ u \in R
    BY <2>3, <2>5
  <2>7. /\ b \in Nat /\ \A v \in R : b <= expire[v]
        /\ \E v \in R : b = expire[v]
    BY <2>1, <2>5, <2>6, EarliestFacts
  <2>8. a = b
    BY <2>2, <2>4, <2>5, <2>6, <2>7
  <2> QED
    BY <2>1, <2>8
<1> QED
  BY <1>1, <1>2

\* The parts of the invariant.
LEMMA Parts ==
    ASSUME IInv
    PROVE  /\ TypeOK
           /\ \A m \in Lcores : OpOK(m) /\ ConfigOK(m) /\ LockOK(m) /\ RunOK(m) /\ HeadOK(m)
           /\ \A t \in Timers : Owned(t)
           /\ \A t \in Timers, m \in Lcores :
                PendingOK(t, m) /\ UnmarkedOK(t, m) /\ RunlistOK(t, m) /\ LinkedOK(t, m)
BY DEF IInv

\* timer_set_config_state gives up: the call returns and changes no timer.
LEMMA SetConfigFailsInv ==
    ASSUME IInv, NEW l \in Lcores, SetConfigFails(l)
    PROVE  IInv'
<1> USE TimerAssumption, Parts, StFacts, NoOpFacts
<1>e. /\ pc'[l] = op[l].ret /\ \A m \in Lcores \ {l} : pc'[m] = pc[m]
      /\ op'[l] = NoOp /\ \A m \in Lcores \ {l} : op'[m] = op[m]
      /\ op[l].locked => list_lock'[l] = None
      /\ ~op[l].locked => list_lock' = list_lock
      /\ \A m \in Lcores \ {l} : list_lock'[m] = list_lock[m]
      /\ pc[l] = "config" /\ Busy(l, op[l].tim)
      /\ op[l].ret \in {"idle", "callback", "next"} /\ op[l].tim \in Timers
      /\ UNCHANGED <<now, status, expire, period, pending, head_expire, updated,
                     running_tim, runlist, unmarked, cur_time, calls>>
  <2>1. /\ op[l].ret \in {"idle", "callback", "next"} /\ op[l].tim \in Timers
        /\ pc[l] = "config" /\ Busy(l, op[l].tim)
    BY DEF SetConfigFails, TypeOK, OpOK, Calling
  <2>2. pc'[l] = op[l].ret /\ \A m \in Lcores \ {l} : pc'[m] = pc[m]
    BY DEF SetConfigFails, Return, Goto, TypeOK
  <2>3. op'[l] = NoOp /\ \A m \in Lcores \ {l} : op'[m] = op[m]
    BY DEF SetConfigFails, Return, TypeOK
  <2>4. /\ op[l].locked => list_lock'[l] = None
        /\ ~op[l].locked => list_lock' = list_lock
        /\ \A m \in Lcores \ {l} : list_lock'[m] = list_lock[m]
    BY DEF SetConfigFails, TypeOK
  <2> QED
    BY <2>1, <2>2, <2>3, <2>4 DEF SetConfigFails, lists, manage
<1>1. TypeOK'
  BY <1>e DEF TypeOK, SetConfigFails, Goto, Return, Labels, NoOp
<1>2. ASSUME NEW m \in Lcores PROVE OpOK(m)'
  BY <1>e, <1>2 DEF OpOK, Calling
<1>3. ASSUME NEW m \in Lcores PROVE ConfigOK(m)'
  BY <1>e, <1>3 DEF ConfigOK, Configuring, OpOK, Calling
<1>4. ASSUME NEW m \in Lcores PROVE LockOK(m)'
  BY <1>e, <1>4 DEF LockOK, Marking, OpOK, Calling
<1>5. ASSUME NEW m \in Lcores PROVE RunOK(m)'
  BY <1>e, <1>5 DEF RunOK, Inside, CallingBack, OpOK, Calling
<1>6. ASSUME NEW m \in Lcores PROVE HeadOK(m)'
  BY <1>e, <1>6 DEF HeadOK, Marking
<1>7. ASSUME NEW t \in Timers PROVE Owned(t)'
  BY <1>e, <1>7 DEF Owned, OpOK
<1>8. ASSUME NEW t \in Timers, NEW m \in Lcores PROVE PendingOK(t, m)'
  BY <1>e, <1>8 DEF PendingOK, Listed, Publishing
<1>9. ASSUME NEW t \in Timers, NEW m \in Lcores PROVE UnmarkedOK(t, m)'
  BY <1>e, <1>9 DEF UnmarkedOK, Listed, LockOK, Marking
<1>10. ASSUME NEW t \in Timers, NEW m \in Lcores PROVE RunlistOK(t, m)'
  BY <1>e, <1>10 DEF RunlistOK, Marking, CallingBack, OpOK, Calling
<1>11. ASSUME NEW t \in Timers, NEW m \in Lcores PROVE LinkedOK(t, m)'
  BY <1>e, <1>11 DEF LinkedOK, LockOK, Marking, Busy, OpOK
<1> QED
  BY <1>1, <1>2, <1>3, <1>4, <1>5, <1>6, <1>7, <1>8, <1>9, <1>10, <1>11 DEF IInv

\* The timer is the caller's from now on.
LEMMA SetConfigInv ==
    ASSUME IInv, NEW l \in Lcores, SetConfig(l)
    PROVE  IInv'
<1> USE TimerAssumption, Parts, StFacts, NoOpFacts
<1>e. /\ pc[l] = "config" /\ ~Busy(l, op[l].tim)
      /\ op[l].tim \in Timers /\ op[l].kind \in {"reset", "stop"}
      /\ pc'[l] = (IF status[op[l].tim].state = "PENDING" THEN "del" ELSE op[l].kind)
      /\ \A m \in Lcores \ {l} : pc'[m] = pc[m]
      /\ status'[op[l].tim] = St("CONFIG", l)
      /\ \A t \in Timers \ {op[l].tim} : status'[t] = status[t]
      /\ op'[l].prev = status[op[l].tim].owner /\ op'[l].tim = op[l].tim /\ op'[l].kind = op[l].kind
      /\ op'[l].lcore = op[l].lcore /\ (op'[l].locked <=> op[l].locked) /\ op'[l].ret = op[l].ret
      /\ \A m \in Lcores \ {l} : op'[m] = op[m]
      /\ ~updated'[l] => ~updated[l] /\ status[op[l].tim].state # "RUNNING"
      /\ \A m \in Lcores \ {l} : updated'[m] = updated[m]
      /\ UNCHANGED <<now, expire, period, pending, head_expire, list_lock, running_tim,
                     runlist, unmarked, cur_time, calls>>
  <2>1. op[l].tim \in Timers /\ op[l].kind \in {"reset", "stop"} /\ pc[l] = "config"
    BY DEF SetConfig, OpOK, Calling
  <2>2. /\ status'[op[l].tim] = St("CONFIG", l)
        /\ \A t \in Timers \ {op[l].tim} : status'[t] = status[t]
    BY <2>1 DEF SetConfig, TypeOK
  <2>3. /\ op'[l].prev = status[op[l].tim].owner /\ op'[l].tim = op[l].tim
        /\ op'[l].kind = op[l].kind /\ op'[l].lcore = op[l].lcore
        /\ (op'[l].locked <=> op[l].locked) /\ op'[l].ret = op[l].ret
        /\ \A m \in Lcores \ {l} : op'[m] = op[m]
    BY DEF SetConfig, TypeOK
  <2>4. /\ ~updated'[l] => ~updated[l] /\ status[op[l].tim].state # "RUNNING"
        /\ \A m \in Lcores \ {l} : updated'[m] = updated[m]
    <3>1. PICK b \in BOOLEAN : b <=> updated[l] \/ status[op[l].tim].state = "RUNNING"
      OBVIOUS
    <3>2. updated' = [updated EXCEPT ![l] = b]
      BY <3>1, Zenon DEF SetConfig
    <3>3. updated'[l] = b /\ \A m \in Lcores \ {l} : updated'[m] = updated[m]
      BY <3>2 DEF TypeOK
    <3> QED
      BY <3>1, <3>3
  <2>5. /\ pc'[l] = (IF status[op[l].tim].state = "PENDING" THEN "del" ELSE op[l].kind)
        /\ \A m \in Lcores \ {l} : pc'[m] = pc[m]
    BY DEF SetConfig, Goto, TypeOK
  <2> QED
    BY <2>1, <2>2, <2>3, <2>4, <2>5 DEF SetConfig, lists, manage
<1>1. TypeOK'
  <2>1. status' \in [Timers -> [state : States, owner : Lcores \cup {None}]]
    BY <1>e DEF TypeOK, SetConfig, St, States
  <2>2. op' \in [Lcores -> OpRecords]
    <3>1. status[op[l].tim].owner \in Lcores \cup {None}
      BY <1>e DEF TypeOK
    <3>2. PICK o : o = [op[l] EXCEPT !.prev = status[op[l].tim].owner]
      OBVIOUS
    <3>3. o \in OpRecords
      <4>1. op[l] \in OpRecords
        BY DEF TypeOK, OpRecords
      <4> QED
        BY <3>1, <3>2, <4>1, PrevNoted
    <3>4. op' = [op EXCEPT ![l] = o]
      BY <3>2 DEF SetConfig
    <3> QED
      BY <3>3, <3>4 DEF TypeOK, OpRecords
  <2>3. pc' \in [Lcores -> Labels]
    BY <1>e DEF TypeOK, SetConfig, Goto, Return, Labels
  <2>4. updated' \in [Lcores -> BOOLEAN]
    BY DEF TypeOK, SetConfig
  <2> QED
    BY <2>1, <2>2, <2>3, <2>4, <1>e DEF TypeOK, OpRecords
<1>2. ASSUME NEW m \in Lcores PROVE OpOK(m)'
  BY <1>e, <1>2 DEF OpOK, Calling, Owned
<1>3. ASSUME NEW m \in Lcores PROVE ConfigOK(m)'
  BY <1>e, <1>3 DEF ConfigOK, Configuring, OpOK, Calling, Busy
<1>4. ASSUME NEW m \in Lcores PROVE LockOK(m)'
  BY <1>e, <1>4 DEF LockOK, Marking, OpOK, Calling
<1>5. ASSUME NEW m \in Lcores PROVE RunOK(m)'
  BY <1>e, <1>5 DEF RunOK, Inside, CallingBack, OpOK, Calling, Busy, Owned
<1>6. ASSUME NEW m \in Lcores PROVE HeadOK(m)'
  BY <1>e, <1>6 DEF HeadOK, Marking
<1>7. ASSUME NEW t \in Timers PROVE Owned(t)'
  BY <1>e, <1>7 DEF Owned, OpOK
<1>8. ASSUME NEW t \in Timers, NEW m \in Lcores PROVE PendingOK(t, m)'
  BY <1>e, <1>8 DEF PendingOK, Listed, Publishing, Busy, Owned
<1>9. ASSUME NEW t \in Timers, NEW m \in Lcores PROVE UnmarkedOK(t, m)'
  BY <1>e, <1>9 DEF UnmarkedOK, Listed, LockOK, Marking, Busy, Owned
<1>10. ASSUME NEW t \in Timers, NEW m \in Lcores PROVE RunlistOK(t, m)'
  BY <1>e, <1>10 DEF RunlistOK, Marking, CallingBack, OpOK, Calling, Busy, RunOK, Inside
<1>11. ASSUME NEW t \in Timers, NEW m \in Lcores PROVE LinkedOK(t, m)'
  BY <1>e, <1>11 DEF LinkedOK, LockOK, Marking, Busy
<1> QED
  BY <1>1, <1>2, <1>3, <1>4, <1>5, <1>6, <1>7, <1>8, <1>9, <1>10, <1>11 DEF IInv

\* timer_del under the lock of the list: the timer is then on no list.
LEMMA timer_delInv ==
    ASSUME IInv, NEW l \in Lcores, timer_del(l)
    PROVE  IInv'
<1> USE TimerAssumption, Parts, StFacts, NoOpFacts
<1>e. /\ pc[l] = "del" /\ MayUse(l, op[l].prev)
      /\ op[l].tim \in Timers /\ op[l].prev \in Lcores /\ op[l].kind \in {"reset", "stop"}
      /\ pc'[l] = op[l].kind /\ \A m \in Lcores \ {l} : pc'[m] = pc[m]
      /\ pending'[op[l].prev] = pending[op[l].prev] \ {op[l].tim}
      /\ \A m \in Lcores \ {op[l].prev} : pending'[m] = pending[m]
      /\ UNCHANGED <<now, status, expire, period, list_lock, updated, running_tim,
                     runlist, unmarked, cur_time, op, calls>>
  BY DEF TypeOK, timer_del, Goto, Return, lists, manage, NoOp, OpOK, Calling, RunOK, Inside, Firsts
<1>1. TypeOK'
  <2>1. pending' \in [Lcores -> SUBSET Timers]
    BY <1>e DEF TypeOK, timer_del
  <2>2. head_expire' \in [Lcores -> Nat]
    <3>1. Earliest(pending[op[l].prev] \ {op[l].tim}, expire) \in Nat
      BY <1>e, EarliestFacts DEF TypeOK
    <3> QED
      BY <1>e, <3>1 DEF TypeOK, timer_del
  <2>3. pc' \in [Lcores -> Labels]
    BY <1>e DEF TypeOK, timer_del, Goto, Return, Labels
  <2> QED
    BY <2>1, <2>2, <2>3, <1>e DEF TypeOK
<1>2. ASSUME NEW m \in Lcores PROVE OpOK(m)'
  BY <1>e, <1>2 DEF OpOK, Calling
<1>3. ASSUME NEW m \in Lcores PROVE ConfigOK(m)'
  BY <1>e, <1>3 DEF ConfigOK, Configuring, OpOK, Calling
<1>4. ASSUME NEW m \in Lcores PROVE LockOK(m)'
  BY <1>e, <1>4 DEF LockOK, Marking, OpOK, Calling, MayUse, ConfigOK, Configuring
<1>5. ASSUME NEW m \in Lcores PROVE RunOK(m)'
  BY <1>e, <1>5 DEF RunOK, Inside, CallingBack, OpOK, Calling
<1>6. ASSUME NEW m \in Lcores PROVE HeadOK(m)'
  <2>1. PICK p : p = op[l].prev
    OBVIOUS
  <2>2. PICK S : S = pending[p]
    OBVIOUS
  <2>3. p \in Lcores /\ S \in SUBSET Timers /\ expire \in [Timers -> Nat] /\ expire' = expire
    BY <1>e, <2>1, <2>2 DEF TypeOK
  <2>4. CASE m = p
    <3>1. pending'[m] = S \ {op[l].tim} /\ (~Marking(m)' => ~Marking(m))
      <4>1. ~Marking(l)
        BY <1>e DEF Marking
      <4> QED
        BY <1>e, <2>1, <2>2, <2>4, <4>1 DEF Marking
    <3>2. CASE op[l].tim \in Firsts(S)
      <4>1. head_expire'[m] = Earliest(S \ {op[l].tim}, expire)
        BY <2>1, <2>2, <2>3, <2>4, <3>2 DEF timer_del, TypeOK
      <4> QED
        BY <2>3, <3>1, <4>1 DEF HeadOK
    <3>3. CASE op[l].tim \notin Firsts(S)
      <4>1. head_expire'[m] = head_expire[m]
        BY <2>1, <2>2, <3>3 DEF timer_del
      <4>2. Earliest(S \ {op[l].tim}, expire) = Earliest(S, expire)
        BY <1>e, <2>3, <3>3, EarliestRest
      <4>3. HeadOK(m) /\ pending[m] = S
        BY <2>2, <2>4
      <4> QED
        BY <2>3, <3>1, <4>1, <4>2, <4>3 DEF HeadOK
    <3> QED
      BY <3>2, <3>3
  <2>5. CASE m # p
    <3>1. head_expire'[m] = head_expire[m] /\ pending'[m] = pending[m]
      BY <1>e, <2>1, <2>3, <2>5 DEF timer_del, TypeOK
    <3>2. ~Marking(m)' => ~Marking(m)
      BY <1>e DEF Marking
    <3> QED
      BY <2>3, <3>1, <3>2 DEF HeadOK
  <2> QED
    BY <2>4, <2>5
<1>7. ASSUME NEW t \in Timers PROVE Owned(t)'
  BY <1>e, <1>7 DEF Owned, OpOK
<1>8. ASSUME NEW t \in Timers, NEW m \in Lcores PROVE PendingOK(t, m)'
  BY <1>e, <1>8 DEF PendingOK, Listed, Publishing, ConfigOK, Configuring, OpOK, Calling
<1>9. ASSUME NEW t \in Timers, NEW m \in Lcores PROVE UnmarkedOK(t, m)'
  BY <1>e, <1>9 DEF UnmarkedOK, Listed, LockOK, Marking, ConfigOK, Configuring, MayUse, OpOK
<1>10. ASSUME NEW t \in Timers, NEW m \in Lcores PROVE RunlistOK(t, m)'
  BY <1>e, <1>10 DEF RunlistOK, Marking, CallingBack, OpOK, Calling
<1>11. ASSUME NEW t \in Timers, NEW m \in Lcores PROVE LinkedOK(t, m)'
  BY <1>e, <1>11 DEF LinkedOK, LockOK, Marking, ConfigOK, Configuring, OpOK, Calling
<1> QED
  BY <1>1, <1>2, <1>3, <1>4, <1>5, <1>6, <1>7, <1>8, <1>9, <1>10, <1>11 DEF IInv

\* timer_add under the lock of the list: the timer was on no list.
LEMMA timer_addInv ==
    ASSUME IInv, NEW l \in Lcores, timer_add(l)
    PROVE  IInv'
<1> USE TimerAssumption, Parts, StFacts, NoOpFacts
<1>e. /\ pc[l] = "reset" /\ MayUse(l, op[l].lcore)
      /\ op[l].tim \in Timers /\ op[l].lcore \in Lcores
      /\ pc'[l] = "publish" /\ \A m \in Lcores \ {l} : pc'[m] = pc[m]
      /\ list_lock'[op[l].lcore] = l
      /\ \A m \in Lcores \ {op[l].lcore} : list_lock'[m] = list_lock[m]
      /\ pending'[op[l].lcore] = pending[op[l].lcore] \cup {op[l].tim}
      /\ \A m \in Lcores \ {op[l].lcore} : pending'[m] = pending[m]
      /\ \A t \in Timers \ {op[l].tim} : expire'[t] = expire[t]
      /\ UNCHANGED <<now, status, updated, running_tim, runlist, unmarked, cur_time, op,
                     calls>>
  BY DEF TypeOK, timer_add, Goto, Return, lists, manage, NoOp, OpOK, Calling, RunOK, Inside, Firsts
<1>1. TypeOK'
  <2>1. pending' \in [Lcores -> SUBSET Timers]
    BY <1>e DEF TypeOK, timer_add
  <2>2. expire' \in [Timers -> Nat] /\ period' \in [Timers -> Nat]
    BY <1>e DEF TypeOK, timer_add
  <2>3. head_expire' \in [Lcores -> Nat]
    <3>1. pending'[op[l].lcore] \in SUBSET Timers
      BY <1>e, <2>1
    <3>2. Earliest(pending'[op[l].lcore], expire') \in Nat
      BY <3>1, <2>2, EarliestFacts
    <3> QED
      BY <1>e, <3>2 DEF TypeOK, timer_add
  <2>4. list_lock' \in [Lcores -> Lcores \cup {None}]
    BY <1>e DEF TypeOK, timer_add
  <2>5. pc' \in [Lcores -> Labels]
    BY <1>e DEF TypeOK, timer_add, Goto, Return, Labels
  <2> QED
    BY <2>1, <2>2, <2>3, <2>4, <2>5, <1>e DEF TypeOK
<1>2. ASSUME NEW m \in Lcores PROVE OpOK(m)'
  BY <1>e, <1>2 DEF OpOK, Calling
<1>3. ASSUME NEW m \in Lcores PROVE ConfigOK(m)'
  BY <1>e, <1>3 DEF ConfigOK, Configuring, OpOK, Calling
<1>4. ASSUME NEW m \in Lcores PROVE LockOK(m)'
  BY <1>e, <1>4 DEF LockOK, Marking, OpOK, Calling, MayUse
<1>5. ASSUME NEW m \in Lcores PROVE RunOK(m)'
  BY <1>e, <1>5 DEF RunOK, Inside, CallingBack, OpOK, Calling
<1>6. ASSUME NEW m \in Lcores PROVE HeadOK(m)'
  <2>1. PICK p : p = op[l].lcore
    OBVIOUS
  <2>2. p \in Lcores /\ expire \in [Timers -> Nat] /\ expire' \in [Timers -> Nat]
    BY <1>e, <1>1, <2>1 DEF TypeOK
  <2>3. CASE m = p
    <3>1. head_expire'[m] = Earliest(pending'[m], expire')
      BY <2>1, <2>2, <2>3 DEF timer_add, TypeOK
    <3> QED
      BY <3>1 DEF HeadOK
  <2>4. CASE m # p
    <3>1. head_expire'[m] = head_expire[m] /\ pending'[m] = pending[m]
      BY <1>e, <2>1, <2>2, <2>4 DEF timer_add, TypeOK
    <3>2. ~Marking(m)' => ~Marking(m)
      BY <1>e DEF Marking
    <3>3. op[l].tim \notin pending[m]
      BY <1>e DEF PendingOK, Listed, Publishing, ConfigOK, Configuring, OpOK, Calling
    <3>4. pending[m] \in SUBSET Timers /\ \A t \in pending[m] : expire'[t] = expire[t]
      BY <1>e, <3>3 DEF TypeOK
    <3>5. Earliest(pending[m], expire') = Earliest(pending[m], expire)
      BY <2>2, <3>4, EarliestSame
    <3> QED
      BY <3>1, <3>2, <3>5 DEF HeadOK
  <2> QED
    BY <2>3, <2>4
<1>7. ASSUME NEW t \in Timers PROVE Owned(t)'
  BY <1>e, <1>7 DEF Owned, OpOK
<1>8. ASSUME NEW t \in Timers, NEW m \in Lcores PROVE PendingOK(t, m)'
  BY <1>e, <1>8 DEF PendingOK, Listed, Publishing, OpOK
<1>9. ASSUME NEW t \in Timers, NEW m \in Lcores PROVE UnmarkedOK(t, m)'
  BY <1>e, <1>9 DEF UnmarkedOK, Listed, LockOK, Marking, ConfigOK, Configuring, OpOK
<1>10. ASSUME NEW t \in Timers, NEW m \in Lcores PROVE RunlistOK(t, m)'
  BY <1>e, <1>10 DEF RunlistOK, Marking, CallingBack, OpOK, Calling, ConfigOK, Configuring
<1>11. ASSUME NEW t \in Timers, NEW m \in Lcores PROVE LinkedOK(t, m)'
  BY <1>e, <1>11 DEF LinkedOK, LockOK, Marking, OpOK, MayUse
<1> QED
  BY <1>1, <1>2, <1>3, <1>4, <1>5, <1>6, <1>7, <1>8, <1>9, <1>10, <1>11 DEF IInv

\* The timer is PENDING, and then the list is unlocked.
LEMMA PublishInv ==
    ASSUME IInv, NEW l \in Lcores, Publish(l)
    PROVE  IInv'
<1> USE TimerAssumption, Parts, StFacts, NoOpFacts
<1>e. /\ pc[l] = "publish" /\ op[l].lcore \in Lcores
      /\ op[l].ret \in {"idle", "callback", "next"} /\ op[l].tim \in Timers
      /\ pc'[l] = op[l].ret /\ \A m \in Lcores \ {l} : pc'[m] = pc[m]
      /\ op'[l] = NoOp /\ \A m \in Lcores \ {l} : op'[m] = op[m]
      /\ list_lock'[op[l].lcore] = None
      /\ \A m \in Lcores \ {op[l].lcore} : list_lock'[m] = list_lock[m]
      /\ status'[op[l].tim] = St("PENDING", op[l].lcore)
      /\ \A t \in Timers \ {op[l].tim} : status'[t] = status[t]
      /\ UNCHANGED <<now, expire, period, pending, head_expire, updated, running_tim,
                     runlist, unmarked, cur_time, calls>>
  BY DEF TypeOK, Publish, Goto, Return, lists, manage, NoOp, OpOK, Calling, RunOK, Inside, Firsts
<1>1. TypeOK'
  <2>1. status' \in [Timers -> [state : States, owner : Lcores \cup {None}]]
    BY <1>e DEF TypeOK, Publish, St, States
  <2>2. op' \in [Lcores -> OpRecords]
    BY <1>e DEF TypeOK, Publish, Return, NoOp, OpRecords
  <2>3. pc' \in [Lcores -> Labels]
    BY <1>e DEF TypeOK, Publish, Goto, Return, Labels
  <2>4. list_lock' \in [Lcores -> Lcores \cup {None}]
    BY <1>e DEF TypeOK, Publish
  <2> QED
    BY <2>1, <2>2, <2>3, <2>4, <1>e DEF TypeOK, OpRecords
<1>2. ASSUME NEW m \in Lcores PROVE OpOK(m)'
  BY <1>e, <1>2 DEF OpOK, Calling
<1>3. ASSUME NEW m \in Lcores PROVE ConfigOK(m)'
  BY <1>e, <1>3 DEF ConfigOK, Configuring, OpOK, Calling
<1>4. ASSUME NEW m \in Lcores PROVE LockOK(m)'
  BY <1>e, <1>4 DEF LockOK, Marking, OpOK, Calling
<1>5. ASSUME NEW m \in Lcores PROVE RunOK(m)'
  BY <1>e, <1>5 DEF RunOK, Inside, CallingBack, OpOK, Calling, ConfigOK, Configuring
<1>6. ASSUME NEW m \in Lcores PROVE HeadOK(m)'
  BY <1>e, <1>6 DEF HeadOK, Marking
<1>7. ASSUME NEW t \in Timers PROVE Owned(t)'
  BY <1>e, <1>7 DEF Owned, OpOK
<1>8. ASSUME NEW t \in Timers, NEW m \in Lcores PROVE PendingOK(t, m)'
  BY <1>e, <1>8 DEF PendingOK, Listed, Publishing, ConfigOK, Configuring, OpOK, Calling
<1>9. ASSUME NEW t \in Timers, NEW m \in Lcores PROVE UnmarkedOK(t, m)'
  BY <1>e, <1>9 DEF UnmarkedOK, Listed, LockOK, Marking, ConfigOK, Configuring, OpOK, Calling
<1>10. ASSUME NEW t \in Timers, NEW m \in Lcores PROVE RunlistOK(t, m)'
  BY <1>e, <1>10 DEF RunlistOK, Marking, CallingBack, OpOK, Calling, ConfigOK, Configuring
<1>11. ASSUME NEW t \in Timers, NEW m \in Lcores PROVE LinkedOK(t, m)'
  BY <1>e, <1>11 DEF LinkedOK, LockOK, Marking, ConfigOK, Configuring, OpOK, Calling
<1> QED
  BY <1>1, <1>2, <1>3, <1>4, <1>5, <1>6, <1>7, <1>8, <1>9, <1>10, <1>11 DEF IInv

\* The timer is stopped.
LEMMA MarkStoppedInv ==
    ASSUME IInv, NEW l \in Lcores, MarkStopped(l)
    PROVE  IInv'
<1> USE TimerAssumption, Parts, StFacts, NoOpFacts
<1>e. /\ pc[l] = "stop"
      /\ op[l].ret \in {"idle", "callback", "next"} /\ op[l].tim \in Timers
      /\ pc'[l] = op[l].ret /\ \A m \in Lcores \ {l} : pc'[m] = pc[m]
      /\ op'[l] = NoOp /\ \A m \in Lcores \ {l} : op'[m] = op[m]
      /\ status'[op[l].tim] = St("STOP", None)
      /\ \A t \in Timers \ {op[l].tim} : status'[t] = status[t]
      /\ UNCHANGED <<now, expire, period, pending, head_expire, list_lock, updated,
                     running_tim, runlist, unmarked, cur_time, calls>>
  BY DEF TypeOK, MarkStopped, Goto, Return, lists, manage, NoOp, OpOK, Calling, RunOK, Inside, Firsts
<1>1. TypeOK'
  <2>1. status' \in [Timers -> [state : States, owner : Lcores \cup {None}]]
    BY <1>e DEF TypeOK, MarkStopped, St, States
  <2>2. op' \in [Lcores -> OpRecords]
    BY <1>e DEF TypeOK, MarkStopped, Return, NoOp, OpRecords
  <2>3. pc' \in [Lcores -> Labels]
    BY <1>e DEF TypeOK, MarkStopped, Goto, Return, Labels
  <2> QED
    BY <2>1, <2>2, <2>3, <1>e DEF TypeOK, OpRecords
<1>2. ASSUME NEW m \in Lcores PROVE OpOK(m)'
  BY <1>e, <1>2 DEF OpOK, Calling
<1>3. ASSUME NEW m \in Lcores PROVE ConfigOK(m)'
  BY <1>e, <1>3 DEF ConfigOK, Configuring, OpOK, Calling
<1>4. ASSUME NEW m \in Lcores PROVE LockOK(m)'
  BY <1>e, <1>4 DEF LockOK, Marking, OpOK, Calling
<1>5. ASSUME NEW m \in Lcores PROVE RunOK(m)'
  BY <1>e, <1>5 DEF RunOK, Inside, CallingBack, OpOK, Calling, ConfigOK, Configuring
<1>6. ASSUME NEW m \in Lcores PROVE HeadOK(m)'
  BY <1>e, <1>6 DEF HeadOK, Marking
<1>7. ASSUME NEW t \in Timers PROVE Owned(t)'
  BY <1>e, <1>7 DEF Owned, OpOK
<1>8. ASSUME NEW t \in Timers, NEW m \in Lcores PROVE PendingOK(t, m)'
  BY <1>e, <1>8 DEF PendingOK, Listed, Publishing, ConfigOK, Configuring, OpOK, Calling
<1>9. ASSUME NEW t \in Timers, NEW m \in Lcores PROVE UnmarkedOK(t, m)'
  BY <1>e, <1>9 DEF UnmarkedOK, Listed, LockOK, Marking, ConfigOK, Configuring, OpOK, Calling
<1>10. ASSUME NEW t \in Timers, NEW m \in Lcores PROVE RunlistOK(t, m)'
  BY <1>e, <1>10 DEF RunlistOK, Marking, CallingBack, OpOK, Calling, ConfigOK, Configuring
<1>11. ASSUME NEW t \in Timers, NEW m \in Lcores PROVE LinkedOK(t, m)'
  BY <1>e, <1>11 DEF LinkedOK, LockOK, Marking, ConfigOK, Configuring, OpOK, Calling
<1> QED
  BY <1>1, <1>2, <1>3, <1>4, <1>5, <1>6, <1>7, <1>8, <1>9, <1>10, <1>11 DEF IInv

\* rte_timer_manage starts.
LEMMA ManageInv ==
    ASSUME IInv, NEW l \in Lcores, Manage(l)
    PROVE  IInv'
<1> USE TimerAssumption, Parts, StFacts, NoOpFacts
<1>e. /\ pc[l] = "idle" /\ now \in Nat
      /\ pc'[l] = "quick" /\ \A m \in Lcores \ {l} : pc'[m] = pc[m]
      /\ cur_time'[l] = now /\ \A m \in Lcores \ {l} : cur_time'[m] = cur_time[m]
      /\ UNCHANGED <<now, status, expire, period, pending, head_expire, list_lock,
                     updated, running_tim, runlist, unmarked, op, calls>>
  BY DEF TypeOK, Manage, Goto, Return, lists, manage, NoOp, OpOK, Calling, RunOK, Inside, Firsts
<1>1. TypeOK'
  BY <1>e DEF TypeOK, Manage, Goto, Return, Labels, NoOp
<1>2. ASSUME NEW m \in Lcores PROVE OpOK(m)'
  BY <1>e, <1>2 DEF OpOK, Calling
<1>3. ASSUME NEW m \in Lcores PROVE ConfigOK(m)'
  BY <1>e, <1>3 DEF ConfigOK, Configuring, OpOK, Calling
<1>4. ASSUME NEW m \in Lcores PROVE LockOK(m)'
  BY <1>e, <1>4 DEF LockOK, Marking, OpOK, Calling
<1>5. ASSUME NEW m \in Lcores PROVE RunOK(m)'
  BY <1>e, <1>5 DEF RunOK, Inside, CallingBack, OpOK, Calling
<1>6. ASSUME NEW m \in Lcores PROVE HeadOK(m)'
  BY <1>e, <1>6 DEF HeadOK, Marking
<1>7. ASSUME NEW t \in Timers PROVE Owned(t)'
  BY <1>e, <1>7 DEF Owned, OpOK
<1>8. ASSUME NEW t \in Timers, NEW m \in Lcores PROVE PendingOK(t, m)'
  BY <1>e, <1>8 DEF PendingOK, Listed, Publishing
<1>9. ASSUME NEW t \in Timers, NEW m \in Lcores PROVE UnmarkedOK(t, m)'
  BY <1>e, <1>9 DEF UnmarkedOK, Listed, LockOK, Marking
<1>10. ASSUME NEW t \in Timers, NEW m \in Lcores PROVE RunlistOK(t, m)'
  BY <1>e, <1>10 DEF RunlistOK, Marking, CallingBack, OpOK, Calling
<1>11. ASSUME NEW t \in Timers, NEW m \in Lcores PROVE LinkedOK(t, m)'
  BY <1>e, <1>11 DEF LinkedOK, LockOK, Marking
<1> QED
  BY <1>1, <1>2, <1>3, <1>4, <1>5, <1>6, <1>7, <1>8, <1>9, <1>10, <1>11 DEF IInv

\* The look at the head without the lock.
LEMMA QuickCheckInv ==
    ASSUME IInv, NEW l \in Lcores, QuickCheck(l)
    PROVE  IInv'
<1> USE TimerAssumption, Parts, StFacts, NoOpFacts
<1>e. /\ pc[l] = "quick"
      /\ pc'[l] \in {"idle", "lock"}
      /\ \A m \in Lcores \ {l} : pc'[m] = pc[m]
      /\ UNCHANGED <<now, status, expire, period, pending, head_expire, list_lock,
                     updated, running_tim, runlist, unmarked, cur_time, op, calls>>
  BY DEF TypeOK, QuickCheck, Goto, Return, lists, manage, NoOp, OpOK, Calling, RunOK, Inside, Firsts
<1>1. TypeOK'
  BY <1>e DEF TypeOK, QuickCheck, Goto, Return, Labels, NoOp
<1>2. ASSUME NEW m \in Lcores PROVE OpOK(m)'
  BY <1>e, <1>2 DEF OpOK, Calling
<1>3. ASSUME NEW m \in Lcores PROVE ConfigOK(m)'
  BY <1>e, <1>3 DEF ConfigOK, Configuring, OpOK, Calling
<1>4. ASSUME NEW m \in Lcores PROVE LockOK(m)'
  BY <1>e, <1>4 DEF LockOK, Marking, OpOK, Calling
<1>5. ASSUME NEW m \in Lcores PROVE RunOK(m)'
  BY <1>e, <1>5 DEF RunOK, Inside, CallingBack, OpOK, Calling
<1>6. ASSUME NEW m \in Lcores PROVE HeadOK(m)'
  BY <1>e, <1>6 DEF HeadOK, Marking
<1>7. ASSUME NEW t \in Timers PROVE Owned(t)'
  BY <1>e, <1>7 DEF Owned, OpOK
<1>8. ASSUME NEW t \in Timers, NEW m \in Lcores PROVE PendingOK(t, m)'
  BY <1>e, <1>8 DEF PendingOK, Listed, Publishing
<1>9. ASSUME NEW t \in Timers, NEW m \in Lcores PROVE UnmarkedOK(t, m)'
  BY <1>e, <1>9 DEF UnmarkedOK, Listed, LockOK, Marking
<1>10. ASSUME NEW t \in Timers, NEW m \in Lcores PROVE RunlistOK(t, m)'
  BY <1>e, <1>10 DEF RunlistOK, Marking, CallingBack, OpOK, Calling
<1>11. ASSUME NEW t \in Timers, NEW m \in Lcores PROVE LinkedOK(t, m)'
  BY <1>e, <1>11 DEF LinkedOK, LockOK, Marking
<1> QED
  BY <1>1, <1>2, <1>3, <1>4, <1>5, <1>6, <1>7, <1>8, <1>9, <1>10, <1>11 DEF IInv

\* The expired timers leave the list, which is locked until all are marked.
LEMMA BreakListInv ==
    ASSUME IInv, NEW l \in Lcores, BreakList(l)
    PROVE  IInv'
<1> USE TimerAssumption, Parts, StFacts, NoOpFacts
<1>e. /\ pc[l] = "lock" /\ list_lock[l] = None
      /\ \A m \in Lcores \ {l} : pc'[m] = pc[m]
      /\ \A m \in Lcores \ {l} :
            pending'[m] = pending[m] /\ unmarked'[m] = unmarked[m] /\ list_lock'[m] = list_lock[m]
      /\ \/ pc'[l] = "idle" /\ pending' = pending /\ unmarked' = unmarked /\ list_lock' = list_lock
         \/ /\ pc'[l] = "mark" /\ list_lock'[l] = l /\ pending'[l] = pending[l] \ unmarked'[l]
            /\ unmarked'[l] = {t \in pending[l] : expire[t] <= cur_time[l]}
      /\ UNCHANGED <<now, status, expire, period, head_expire, updated, running_tim,
                     runlist, cur_time, op, calls>>
  BY DEF TypeOK, BreakList, Goto, Return, lists, manage, NoOp, OpOK, Calling, RunOK, Inside, Firsts
<1>1. TypeOK'
  <2>1. pending' \in [Lcores -> SUBSET Timers]
    <3>1. PICK E : E = {t \in pending[l] : expire[t] <= cur_time[l]}
      OBVIOUS
    <3>2. pending' = pending \/ pending' = [pending EXCEPT ![l] = @ \ E]
      BY <3>1 DEF BreakList
    <3> QED
      BY <3>2 DEF TypeOK
  <2>2. unmarked' \in [Lcores -> SUBSET Timers]
    BY SMTT(30) DEF TypeOK, BreakList
  <2>3. list_lock' \in [Lcores -> Lcores \cup {None}]
    BY SMTT(30) DEF TypeOK, BreakList
  <2>4. pc' \in [Lcores -> Labels]
    BY <1>e DEF TypeOK, BreakList, Goto, Return, Labels
  <2> QED
    BY <2>1, <2>2, <2>3, <2>4, <1>e DEF TypeOK
<1>2. ASSUME NEW m \in Lcores PROVE OpOK(m)'
  BY <1>e, <1>2 DEF OpOK, Calling
<1>3. ASSUME NEW m \in Lcores PROVE ConfigOK(m)'
  BY <1>e, <1>3 DEF ConfigOK, Configuring, OpOK, Calling
<1>4. ASSUME NEW m \in Lcores PROVE LockOK(m)'
  BY <1>e, <1>4 DEF LockOK, Marking, OpOK, Calling
<1>5. ASSUME NEW m \in Lcores PROVE RunOK(m)'
  BY <1>e, <1>5 DEF RunOK, Inside, CallingBack, OpOK, Calling
<1>6. ASSUME NEW m \in Lcores PROVE HeadOK(m)'
  BY <1>e, <1>6 DEF HeadOK, Marking
<1>7. ASSUME NEW t \in Timers PROVE Owned(t)'
  BY <1>e, <1>7 DEF Owned, OpOK
<1>8. ASSUME NEW t \in Timers, NEW m \in Lcores PROVE PendingOK(t, m)'
  BY <1>e, <1>8 DEF PendingOK, Listed, Publishing, UnmarkedOK, LockOK, OpOK
<1>9. ASSUME NEW t \in Timers, NEW m \in Lcores PROVE UnmarkedOK(t, m)'
  BY <1>e, <1>9 DEF UnmarkedOK, Listed, LockOK, Marking, PendingOK, Publishing
<1>10. ASSUME NEW t \in Timers, NEW m \in Lcores PROVE RunlistOK(t, m)'
  BY <1>e, <1>10 DEF RunlistOK, Marking, CallingBack, OpOK, Calling
<1>11. ASSUME NEW t \in Timers, NEW m \in Lcores PROVE LinkedOK(t, m)'
  <2>1. CASE m # l
    BY <1>e, <2>1 DEF LinkedOK
  <2>2. CASE m = l
    <3>1. ~op[l].locked
      BY <1>e DEF OpOK, Calling
    <3>2. status[t] = St("PENDING", l) => t \in pending[l] \cup unmarked[l]
      BY <3>1 DEF LinkedOK
    <3>3. unmarked[l] = {}
      BY <1>e DEF UnmarkedOK, TypeOK
    <3> QED
      BY <1>e, <2>2, <3>2, <3>3 DEF LinkedOK
  <2> QED
    BY <2>1, <2>2
<1> QED
  BY <1>1, <1>2, <1>3, <1>4, <1>5, <1>6, <1>7, <1>8, <1>9, <1>10, <1>11 DEF IInv

\* An expired timer is RUNNING, or is left to the lcore that configures it.
LEMMA MarkRunningInv ==
    ASSUME IInv, NEW l \in Lcores, MarkRunning(l)
    PROVE  IInv'
<1> USE TimerAssumption, Parts, StFacts, NoOpFacts
<1>e. PICK u \in Timers :
      /\ pc[l] = "mark" /\ u \in unmarked[l] /\ u \in Timers
      /\ pc'[l] = (IF unmarked[l] = {u} THEN "unlock" ELSE "mark")
      /\ \A m \in Lcores \ {l} : pc'[m] = pc[m]
      /\ unmarked'[l] = unmarked[l] \ {u} /\ \A m \in Lcores \ {l} : unmarked'[m] = unmarked[m]
      /\ \A m \in Lcores \ {l} : runlist'[m] = runlist[m]
      /\ \/ /\ status[u].state = "PENDING" /\ status'[u] = St("RUNNING", l)
            /\ \A t \in Timers \ {u} : status'[t] = status[t]
            /\ runlist'[l] = runlist[l] \cup {u}
         \/ status[u].state # "PENDING" /\ status' = status /\ runlist' = runlist
      /\ UNCHANGED <<now, expire, period, pending, head_expire, list_lock, updated,
                     running_tim, cur_time, op, calls>>
  <2>1. PICK u \in Firsts(unmarked[l]) :
          /\ \/ /\ status[u].state = "PENDING"
                /\ status' = [status EXCEPT ![u] = St("RUNNING", l)]
                /\ runlist' = [runlist EXCEPT ![l] = @ \cup {u}]
             \/ status[u].state # "PENDING" /\ UNCHANGED <<status, runlist>>
          /\ unmarked' = [unmarked EXCEPT ![l] = @ \ {u}]
          /\ pc' = [pc EXCEPT ![l] = IF unmarked[l] = {u} THEN "unlock" ELSE "mark"]
    BY DEF MarkRunning, Goto
  <2>2. u \in unmarked[l] /\ u \in Timers
    BY DEF Firsts, TypeOK
  <2>3. \/ /\ status[u].state = "PENDING" /\ status'[u] = St("RUNNING", l)
           /\ \A t \in Timers \ {u} : status'[t] = status[t]
           /\ runlist'[l] = runlist[l] \cup {u}
        \/ status[u].state # "PENDING" /\ status' = status /\ runlist' = runlist
    BY <2>1, <2>2 DEF TypeOK
  <2>4. \A m \in Lcores \ {l} : runlist'[m] = runlist[m]
    BY <2>1 DEF TypeOK
  <2>5. /\ unmarked'[l] = unmarked[l] \ {u}
        /\ \A m \in Lcores \ {l} : unmarked'[m] = unmarked[m]
    BY <2>1 DEF TypeOK
  <2>6. /\ pc'[l] = (IF unmarked[l] = {u} THEN "unlock" ELSE "mark")
        /\ \A m \in Lcores \ {l} : pc'[m] = pc[m]
    BY <2>1 DEF TypeOK
  <2> QED
    BY <2>2, <2>3, <2>4, <2>5, <2>6 DEF MarkRunning, lists
<1>1. TypeOK'
  <2>1. status' \in [Timers -> [state : States, owner : Lcores \cup {None}]]
    BY DEF TypeOK, MarkRunning, Firsts, St, States
  <2>2. unmarked' \in [Lcores -> SUBSET Timers]
    BY DEF TypeOK, MarkRunning
  <2>3. runlist' \in [Lcores -> SUBSET Timers]
    BY SMTT(30) DEF TypeOK, MarkRunning, Firsts
  <2>4. pc' \in [Lcores -> Labels]
    BY <1>e DEF TypeOK, MarkRunning, Goto, Return, Labels
  <2> QED
    BY <2>1, <2>2, <2>3, <2>4, <1>e DEF TypeOK
<1>2. ASSUME NEW m \in Lcores PROVE OpOK(m)'
  BY <1>e, <1>2 DEF OpOK, Calling
<1>3. ASSUME NEW m \in Lcores PROVE ConfigOK(m)'
  BY <1>e, <1>3 DEF ConfigOK, Configuring, OpOK, Calling
<1>4. ASSUME NEW m \in Lcores PROVE LockOK(m)'
  BY <1>e, <1>4 DEF LockOK, Marking, OpOK, Calling
<1>5. ASSUME NEW m \in Lcores PROVE RunOK(m)'
  BY <1>e, <1>5 DEF RunOK, Inside, CallingBack, OpOK, Calling
<1>6. ASSUME NEW m \in Lcores PROVE HeadOK(m)'
  BY <1>e, <1>6 DEF HeadOK, Marking
<1>7. ASSUME NEW t \in Timers PROVE Owned(t)'
  BY <1>e, <1>7 DEF Owned, OpOK
<1>8. ASSUME NEW t \in Timers, NEW m \in Lcores PROVE PendingOK(t, m)'
  BY <1>e, <1>8 DEF PendingOK, Listed, Publishing, UnmarkedOK, ConfigOK, Configuring, OpOK, Calling
<1>9. ASSUME NEW t \in Timers, NEW m \in Lcores PROVE UnmarkedOK(t, m)'
  BY <1>e, <1>9 DEF UnmarkedOK, Listed, LockOK, Marking, ConfigOK, Configuring, OpOK, Calling
<1>10. ASSUME NEW t \in Timers, NEW m \in Lcores PROVE RunlistOK(t, m)'
  BY <1>e, <1>10 DEF RunlistOK, Marking, CallingBack, OpOK, Calling, UnmarkedOK, Listed, ConfigOK, Configuring, RunOK
<1>11. ASSUME NEW t \in Timers, NEW m \in Lcores PROVE LinkedOK(t, m)'
  BY <1>e, <1>11 DEF LinkedOK, LockOK, Marking
<1> QED
  BY <1>1, <1>2, <1>3, <1>4, <1>5, <1>6, <1>7, <1>8, <1>9, <1>10, <1>11 DEF IInv

\* The rest of the list gets its head and is unlocked.
LEMMA ManageUnlockInv ==
    ASSUME IInv, NEW l \in Lcores, ManageUnlock(l)
    PROVE  IInv'
<1> USE TimerAssumption, Parts, StFacts, NoOpFacts
<1>e. /\ pc[l] = "unlock"
      /\ pc'[l] = "next" /\ \A m \in Lcores \ {l} : pc'[m] = pc[m]
      /\ list_lock'[l] = None /\ \A m \in Lcores \ {l} : list_lock'[m] = list_lock[m]
      /\ UNCHANGED <<now, status, expire, period, pending, updated, running_tim, runlist,
                     unmarked, cur_time, op, calls>>
  BY DEF TypeOK, ManageUnlock, Goto, Return, lists, manage, NoOp, OpOK, Calling, RunOK, Inside, Firsts
<1>1. TypeOK'
  <2>1. head_expire' \in [Lcores -> Nat]
    <3>1. Earliest(pending[l], expire) \in Nat
      BY EarliestFacts DEF TypeOK
    <3> QED
      BY <3>1 DEF TypeOK, ManageUnlock
  <2>2. list_lock' \in [Lcores -> Lcores \cup {None}]
    BY DEF TypeOK, ManageUnlock
  <2>3. pc' \in [Lcores -> Labels]
    BY <1>e DEF TypeOK, ManageUnlock, Goto, Return, Labels
  <2> QED
    BY <2>1, <2>2, <2>3, <1>e DEF TypeOK
<1>2. ASSUME NEW m \in Lcores PROVE OpOK(m)'
  BY <1>e, <1>2 DEF OpOK, Calling
<1>3. ASSUME NEW m \in Lcores PROVE ConfigOK(m)'
  BY <1>e, <1>3 DEF ConfigOK, Configuring, OpOK, Calling
<1>4. ASSUME NEW m \in Lcores PROVE LockOK(m)'
  BY <1>e, <1>4 DEF LockOK, Marking, OpOK, Calling
<1>5. ASSUME NEW m \in Lcores PROVE RunOK(m)'
  BY <1>e, <1>5 DEF RunOK, Inside, CallingBack, OpOK, Calling
<1>6. ASSUME NEW m \in Lcores PROVE HeadOK(m)'
  <2>1. CASE m = l
    <3>1. head_expire'[m] = Earliest(pending'[m], expire')
      BY <1>e, <2>1 DEF ManageUnlock, TypeOK
    <3> QED
      BY <3>1 DEF HeadOK
  <2>2. CASE m # l
    <3>1. head_expire'[m] = head_expire[m]
      BY <2>2 DEF ManageUnlock, TypeOK
    <3> QED
      BY <1>e, <2>2, <3>1 DEF HeadOK, Marking
  <2> QED
    BY <2>1, <2>2
<1>7. ASSUME NEW t \in Timers PROVE Owned(t)'
  BY <1>e, <1>7 DEF Owned, OpOK
<1>8. ASSUME NEW t \in Timers, NEW m \in Lcores PROVE PendingOK(t, m)'
  BY <1>e, <1>8 DEF PendingOK, Listed, Publishing
<1>9. ASSUME NEW t \in Timers, NEW m \in Lcores PROVE UnmarkedOK(t, m)'
  BY <1>e, <1>9 DEF UnmarkedOK, Listed, LockOK, Marking
<1>10. ASSUME NEW t \in Timers, NEW m \in Lcores PROVE RunlistOK(t, m)'
  BY <1>e, <1>10 DEF RunlistOK, Marking, CallingBack, OpOK, Calling
<1>11. ASSUME NEW t \in Timers, NEW m \in Lcores PROVE LinkedOK(t, m)'
  BY <1>e, <1>11 DEF LinkedOK, LockOK, Marking
<1> QED
  BY <1>1, <1>2, <1>3, <1>4, <1>5, <1>6, <1>7, <1>8, <1>9, <1>10, <1>11 DEF IInv

\* The next callback starts.
LEMMA CallBackInv ==
    ASSUME IInv, NEW l \in Lcores, CallBack(l)
    PROVE  IInv'
<1> USE TimerAssumption, Parts, StFacts, NoOpFacts
<1>e. PICK u \in Timers :
      /\ pc[l] = "next" /\ u \in runlist[l] /\ u \in Timers
      /\ pc'[l] = "callback" /\ \A m \in Lcores \ {l} : pc'[m] = pc[m]
      /\ runlist'[l] = runlist[l] \ {u} /\ \A m \in Lcores \ {l} : runlist'[m] = runlist[m]
      /\ running_tim'[l] = u /\ \A m \in Lcores \ {l} : running_tim'[m] = running_tim[m]
      /\ updated'[l] = FALSE /\ \A m \in Lcores \ {l} : updated'[m] = updated[m]
      /\ UNCHANGED <<now, status, expire, period, pending, head_expire, list_lock,
                     unmarked, cur_time, op, calls>>
  BY DEF TypeOK, CallBack, Goto, Return, lists, manage, NoOp, OpOK, Calling, RunOK, Inside, Firsts
<1>1. TypeOK'
  BY <1>e DEF TypeOK, CallBack, Goto, Return, Labels, NoOp
<1>2. ASSUME NEW m \in Lcores PROVE OpOK(m)'
  BY <1>e, <1>2 DEF OpOK, Calling
<1>3. ASSUME NEW m \in Lcores PROVE ConfigOK(m)'
  BY <1>e, <1>3 DEF ConfigOK, Configuring, OpOK, Calling
<1>4. ASSUME NEW m \in Lcores PROVE LockOK(m)'
  BY <1>e, <1>4 DEF LockOK, Marking, OpOK, Calling
<1>5. ASSUME NEW m \in Lcores PROVE RunOK(m)'
  BY <1>e, <1>5 DEF RunOK, Inside, CallingBack, OpOK, Calling, RunlistOK, Marking
<1>6. ASSUME NEW m \in Lcores PROVE HeadOK(m)'
  BY <1>e, <1>6 DEF HeadOK, Marking
<1>7. ASSUME NEW t \in Timers PROVE Owned(t)'
  BY <1>e, <1>7 DEF Owned, OpOK
<1>8. ASSUME NEW t \in Timers, NEW m \in Lcores PROVE PendingOK(t, m)'
  BY <1>e, <1>8 DEF PendingOK, Listed, Publishing
<1>9. ASSUME NEW t \in Timers, NEW m \in Lcores PROVE UnmarkedOK(t, m)'
  BY <1>e, <1>9 DEF UnmarkedOK, Listed, LockOK, Marking
<1>10. ASSUME NEW t \in Timers, NEW m \in Lcores PROVE RunlistOK(t, m)'
  BY <1>e, <1>10 DEF RunlistOK, Marking, CallingBack, OpOK, Calling
<1>11. ASSUME NEW t \in Timers, NEW m \in Lcores PROVE LinkedOK(t, m)'
  BY <1>e, <1>11 DEF LinkedOK, LockOK, Marking
<1> QED
  BY <1>1, <1>2, <1>3, <1>4, <1>5, <1>6, <1>7, <1>8, <1>9, <1>10, <1>11 DEF IInv

\* Every expired timer was called back.
LEMMA ManageDoneInv ==
    ASSUME IInv, NEW l \in Lcores, ManageDone(l)
    PROVE  IInv'
<1> USE TimerAssumption, Parts, StFacts, NoOpFacts
<1>e. /\ pc[l] = "next" /\ runlist[l] = {} /\ now \in Nat
      /\ pc'[l] = "idle" /\ \A m \in Lcores \ {l} : pc'[m] = pc[m]
      /\ running_tim'[l] = None /\ \A m \in Lcores \ {l} : running_tim'[m] = running_tim[m]
      /\ cur_time'[l] = 0 /\ \A m \in Lcores \ {l} : cur_time'[m] = cur_time[m]
      /\ UNCHANGED <<now, status, expire, period, pending, head_expire, list_lock,
                     updated, runlist, unmarked, op, calls>>
  BY DEF TypeOK, ManageDone, Goto, Return, lists, manage, NoOp, OpOK, Calling, RunOK, Inside, Firsts
<1>1. TypeOK'
  BY <1>e DEF TypeOK, ManageDone, Goto, Return, Labels, NoOp
<1>2. ASSUME NEW m \in Lcores PROVE OpOK(m)'
  BY <1>e, <1>2 DEF OpOK, Calling
<1>3. ASSUME NEW m \in Lcores PROVE ConfigOK(m)'
  BY <1>e, <1>3 DEF ConfigOK, Configuring, OpOK, Calling
<1>4. ASSUME NEW m \in Lcores PROVE LockOK(m)'
  BY <1>e, <1>4 DEF LockOK, Marking, OpOK, Calling
<1>5. ASSUME NEW m \in Lcores PROVE RunOK(m)'
  BY <1>e, <1>5 DEF RunOK, Inside, CallingBack, OpOK, Calling
<1>6. ASSUME NEW m \in Lcores PROVE HeadOK(m)'
  BY <1>e, <1>6 DEF HeadOK, Marking
<1>7. ASSUME NEW t \in Timers PROVE Owned(t)'
  BY <1>e, <1>7 DEF Owned, OpOK
<1>8. ASSUME NEW t \in Timers, NEW m \in Lcores PROVE PendingOK(t, m)'
  BY <1>e, <1>8 DEF PendingOK, Listed, Publishing
<1>9. ASSUME NEW t \in Timers, NEW m \in Lcores PROVE UnmarkedOK(t, m)'
  BY <1>e, <1>9 DEF UnmarkedOK, Listed, LockOK, Marking
<1>10. ASSUME NEW t \in Timers, NEW m \in Lcores PROVE RunlistOK(t, m)'
  BY <1>e, <1>10 DEF RunlistOK, Marking, CallingBack, OpOK, Calling
<1>11. ASSUME NEW t \in Timers, NEW m \in Lcores PROVE LinkedOK(t, m)'
  BY <1>e, <1>11 DEF LinkedOK, LockOK, Marking
<1> QED
  BY <1>1, <1>2, <1>3, <1>4, <1>5, <1>6, <1>7, <1>8, <1>9, <1>10, <1>11 DEF IInv

\* The callback is over.
LEMMA CallBackEndsInv ==
    ASSUME IInv, NEW l \in Lcores, CallBackEnds(l)
    PROVE  IInv'
<1> USE TimerAssumption, Parts, StFacts, NoOpFacts
<1>e. /\ pc[l] = "callback" /\ running_tim[l] \in Timers
      /\ \A m \in Lcores \ {l} : pc'[m] = pc[m]
      /\ \/ updated[l] /\ pc'[l] = "next" /\ status' = status
         \/ ~updated[l] /\ pc'[l] = "reload" /\ status' = status
         \/ /\ ~updated[l] /\ pc'[l] = "next" /\ status'[running_tim[l]] = St("STOP", None)
            /\ \A t \in Timers \ {running_tim[l]} : status'[t] = status[t]
      /\ UNCHANGED <<now, expire, period, pending, head_expire, list_lock, updated,
                     running_tim, runlist, unmarked, cur_time, op, calls>>
  BY DEF TypeOK, CallBackEnds, Goto, Return, lists, manage, NoOp, OpOK, Calling, RunOK, Inside, Firsts
<1>1. TypeOK'
  <2>1. status' \in [Timers -> [state : States, owner : Lcores \cup {None}]]
    <3>1. CASE status' = status
      BY <3>1 DEF TypeOK
    <3>2. CASE status' = [status EXCEPT ![running_tim[l]] = St("STOP", None)]
      BY <1>e, <3>2 DEF TypeOK, St, States
    <3> QED
      BY <3>1, <3>2 DEF CallBackEnds
  <2>2. pc' \in [Lcores -> Labels]
    <3>1. pc' = [pc EXCEPT ![l] = "next"] \/ pc' = [pc EXCEPT ![l] = "reload"]
      BY DEF CallBackEnds, Goto
    <3> QED
      BY <3>1 DEF TypeOK, Labels
  <2> QED
    BY <2>1, <2>2, <1>e DEF TypeOK
<1>2. ASSUME NEW m \in Lcores PROVE OpOK(m)'
  BY <1>e, <1>2 DEF OpOK, Calling
<1>3. ASSUME NEW m \in Lcores PROVE ConfigOK(m)'
  BY <1>e, <1>3 DEF ConfigOK, Configuring, OpOK, Calling, RunOK, Inside
<1>4. ASSUME NEW m \in Lcores PROVE LockOK(m)'
  BY <1>e, <1>4 DEF LockOK, Marking, OpOK, Calling
<1>5. ASSUME NEW m \in Lcores PROVE RunOK(m)'
  BY <1>e, <1>5 DEF RunOK, Inside, CallingBack, OpOK, Calling
<1>6. ASSUME NEW m \in Lcores PROVE HeadOK(m)'
  BY <1>e, <1>6 DEF HeadOK, Marking
<1>7. ASSUME NEW t \in Timers PROVE Owned(t)'
  BY <1>e, <1>7 DEF Owned, OpOK
<1>8. ASSUME NEW t \in Timers, NEW m \in Lcores PROVE PendingOK(t, m)'
  BY <1>e, <1>8 DEF PendingOK, Listed, Publishing, ConfigOK, Configuring, OpOK, Calling, RunOK, Inside
<1>9. ASSUME NEW t \in Timers, NEW m \in Lcores PROVE UnmarkedOK(t, m)'
  BY <1>e, <1>9 DEF UnmarkedOK, Listed, LockOK, Marking, ConfigOK, Configuring, OpOK, Calling, RunOK, Inside
<1>10. ASSUME NEW t \in Timers, NEW m \in Lcores PROVE RunlistOK(t, m)'
  BY <1>e, <1>10 DEF RunlistOK, Marking, CallingBack, OpOK, Calling, RunOK, Inside
<1>11. ASSUME NEW t \in Timers, NEW m \in Lcores PROVE LinkedOK(t, m)'
  BY <1>e, <1>11 DEF LinkedOK, LockOK, Marking
<1> QED
  BY <1>1, <1>2, <1>3, <1>4, <1>5, <1>6, <1>7, <1>8, <1>9, <1>10, <1>11 DEF IInv

\* A periodic timer is PENDING again and its reset starts, under the lock.
LEMMA ReloadInv ==
    ASSUME IInv, NEW l \in Lcores, Reload(l)
    PROVE  IInv'
<1> USE TimerAssumption, Parts, StFacts, NoOpFacts
<1>e. /\ pc[l] = "reload" /\ list_lock[l] = None /\ running_tim[l] \in Timers
      /\ pc'[l] = "config" /\ \A m \in Lcores \ {l} : pc'[m] = pc[m]
      /\ list_lock'[l] = l /\ \A m \in Lcores \ {l} : list_lock'[m] = list_lock[m]
      /\ status'[running_tim[l]] = St("PENDING", l)
      /\ \A t \in Timers \ {running_tim[l]} : status'[t] = status[t]
      /\ op'[l].tim = running_tim[l] /\ op'[l].kind = "reset" /\ op'[l].lcore = l
      /\ op'[l].locked = TRUE /\ op'[l].ret = "next"
      /\ \A m \in Lcores \ {l} : op'[m] = op[m]
      /\ UNCHANGED <<now, expire, period, pending, head_expire, updated, running_tim,
                     runlist, unmarked, cur_time, calls>>
  BY DEF TypeOK, Reload, Goto, Return, lists, manage, NoOp, OpOK, Calling, RunOK, Inside, Firsts
<1>1. TypeOK'
  <2>1. status' \in [Timers -> [state : States, owner : Lcores \cup {None}]]
    BY <1>e DEF TypeOK, Reload, St, States
  <2>2. op' \in [Lcores -> OpRecords]
    <3>1. expire[running_tim[l]] \in Nat /\ period[running_tim[l]] \in Nat
      BY <1>e DEF TypeOK
    <3>2. expire[running_tim[l]] + period[running_tim[l]] \in Nat
      BY <3>1
    <3> QED
      BY <1>e, <3>1, <3>2 DEF TypeOK, Reload, NoOp, OpRecords
  <2>3. list_lock' \in [Lcores -> Lcores \cup {None}]
    BY DEF TypeOK, Reload
  <2>4. pc' \in [Lcores -> Labels]
    BY <1>e DEF TypeOK, Reload, Goto, Return, Labels
  <2> QED
    BY <2>1, <2>2, <2>3, <2>4, <1>e DEF TypeOK, OpRecords
<1>2. ASSUME NEW m \in Lcores PROVE OpOK(m)'
  BY <1>e, <1>2 DEF OpOK, Calling
<1>3. ASSUME NEW m \in Lcores PROVE ConfigOK(m)'
  BY <1>e, <1>3 DEF ConfigOK, Configuring, OpOK, Calling, RunOK, Inside
<1>4. ASSUME NEW m \in Lcores PROVE LockOK(m)'
  BY <1>e, <1>4 DEF LockOK, Marking, OpOK, Calling
<1>5. ASSUME NEW m \in Lcores PROVE RunOK(m)'
  BY <1>e, <1>5 DEF RunOK, Inside, CallingBack, OpOK, Calling
<1>6. ASSUME NEW m \in Lcores PROVE HeadOK(m)'
  BY <1>e, <1>6 DEF HeadOK, Marking
<1>7. ASSUME NEW t \in Timers PROVE Owned(t)'
  BY <1>e, <1>7 DEF Owned, OpOK
<1>8. ASSUME NEW t \in Timers, NEW m \in Lcores PROVE PendingOK(t, m)'
  BY <1>e, <1>8 DEF PendingOK, Listed, Publishing, ConfigOK, Configuring, OpOK, Calling, RunOK, Inside
<1>9. ASSUME NEW t \in Timers, NEW m \in Lcores PROVE UnmarkedOK(t, m)'
  BY <1>e, <1>9 DEF UnmarkedOK, Listed, LockOK, Marking, ConfigOK, Configuring, OpOK, Calling, RunOK, Inside
<1>10. ASSUME NEW t \in Timers, NEW m \in Lcores PROVE RunlistOK(t, m)'
  BY <1>e, <1>10 DEF RunlistOK, Marking, CallingBack, OpOK, Calling, RunOK, Inside
<1>11. ASSUME NEW t \in Timers, NEW m \in Lcores PROVE LinkedOK(t, m)'
  BY <1>e, <1>11 DEF LinkedOK, LockOK, Marking, OpOK, Calling
<1> QED
  BY <1>1, <1>2, <1>3, <1>4, <1>5, <1>6, <1>7, <1>8, <1>9, <1>10, <1>11 DEF IInv

\* A reset or stop starts, outside of a callback or in one.
LEMMA CallInv ==
    ASSUME IInv, NEW l \in Lcores, NEW o \in OpRecords, o.tim \in Timers,
           o.kind \in {"reset", "stop"}, o.kind = "reset" => o.lcore \in Lcores, ~o.locked,
           Call(l, o)
    PROVE  IInv'
<1> USE TimerAssumption, Parts, StFacts, NoOpFacts
<1>e. /\ pc[l] \in {"idle", "callback"}
      /\ pc'[l] = "config" /\ \A m \in Lcores \ {l} : pc'[m] = pc[m]
      /\ op'[l].tim = o.tim /\ op'[l].kind = o.kind /\ op'[l].lcore = o.lcore
      /\ ~op'[l].locked /\ op'[l].ret = pc[l]
      /\ \A m \in Lcores \ {l} : op'[m] = op[m]
      /\ UNCHANGED <<now, status, expire, period, pending, head_expire, list_lock, updated,
                     running_tim, runlist, unmarked, cur_time>>
  <2>1. PICK r : r = [o EXCEPT !.ret = pc[l]]
    OBVIOUS
  <2>2. /\ r.tim = o.tim /\ r.kind = o.kind /\ r.lcore = o.lcore /\ (r.locked <=> o.locked)
        /\ r.ret = pc[l]
    BY <2>1 DEF OpRecords
  <2>3. op'[l] = r /\ \A m \in Lcores \ {l} : op'[m] = op[m]
    BY <2>1 DEF Call, TypeOK
  <2>4. pc'[l] = "config" /\ \A m \in Lcores \ {l} : pc'[m] = pc[m]
    BY DEF Call, Goto, TypeOK
  <2> QED
    BY <2>2, <2>3, <2>4 DEF Call, lists, manage
<1>1. TypeOK'
  <2>1. op' \in [Lcores -> OpRecords]
    <3>1. PICK r : r = [o EXCEPT !.ret = pc[l]]
      OBVIOUS
    <3>2. r \in OpRecords
      BY <1>e, <3>1 DEF OpRecords
    <3> QED
      BY <3>1, <3>2 DEF Call, TypeOK, OpRecords
  <2>2. pc' \in [Lcores -> Labels] /\ calls' \in 0 .. MaxCalls
    BY DEF Call, Goto, TypeOK, Labels
  <2> QED
    BY <1>e, <2>1, <2>2 DEF TypeOK, OpRecords
<1>2. ASSUME NEW m \in Lcores PROVE OpOK(m)'
  BY <1>e, <1>2 DEF OpOK, Calling
<1>3. ASSUME NEW m \in Lcores PROVE ConfigOK(m)'
  BY <1>e, <1>3 DEF ConfigOK, Configuring
<1>4. ASSUME NEW m \in Lcores PROVE LockOK(m)'
  BY <1>e, <1>4 DEF LockOK, Marking
<1>5. ASSUME NEW m \in Lcores PROVE RunOK(m)'
  BY <1>e, <1>5 DEF RunOK, Inside, CallingBack, OpOK, Calling
<1>6. ASSUME NEW m \in Lcores PROVE HeadOK(m)'
  BY <1>e, <1>6 DEF HeadOK, Marking
<1>7. ASSUME NEW t \in Timers PROVE Owned(t)'
  BY <1>e, <1>7 DEF Owned
<1>8. ASSUME NEW t \in Timers, NEW m \in Lcores PROVE PendingOK(t, m)'
  BY <1>e, <1>8 DEF PendingOK, Listed, Publishing
<1>9. ASSUME NEW t \in Timers, NEW m \in Lcores PROVE UnmarkedOK(t, m)'
  BY <1>e, <1>9 DEF UnmarkedOK, Listed
<1>10. ASSUME NEW t \in Timers, NEW m \in Lcores PROVE RunlistOK(t, m)'
  BY <1>e, <1>10 DEF RunlistOK, Marking, CallingBack, OpOK, Calling
<1>11. ASSUME NEW t \in Timers, NEW m \in Lcores PROVE LinkedOK(t, m)'
  BY <1>e, <1>11 DEF LinkedOK
<1> QED
  BY <1>1, <1>2, <1>3, <1>4, <1>5, <1>6, <1>7, <1>8, <1>9, <1>10, <1>11 DEF IInv

LEMMA ResetInv ==
    ASSUME IInv, NEW l \in Lcores, Reset(l)
    PROVE  IInv'
<1>1. PICK t \in Timers, k \in Ticks, dest \in Lcores, p \in BOOLEAN :
        Call(l, [NoOp EXCEPT !.tim = t, !.kind = "reset", !.expire = now + k,
                             !.period = IF p THEN k ELSE 0, !.lcore = dest])
  BY DEF Reset
<1>2. PICK o : o = [NoOp EXCEPT !.tim = t, !.kind = "reset", !.expire = now + k,
                                !.period = IF p THEN k ELSE 0, !.lcore = dest]
  OBVIOUS
<1>3. now \in Nat /\ k \in Nat
  BY TimerAssumption DEF IInv, TypeOK
<1>4. o = [tim |-> t, kind |-> "reset", expire |-> now + k, period |-> IF p THEN k ELSE 0,
           lcore |-> dest, locked |-> FALSE, prev |-> None, ret |-> "idle"]
  BY <1>2 DEF NoOp
<1>5. o \in OpRecords /\ o.tim \in Timers /\ o.kind = "reset" /\ o.lcore \in Lcores /\ ~o.locked
  BY <1>3, <1>4 DEF OpRecords
<1>6. Call(l, o)
  BY <1>1, <1>2
<1> QED
  BY <1>5, <1>6, CallInv

LEMMA StopInv ==
    ASSUME IInv, NEW l \in Lcores, Stop(l)
    PROVE  IInv'
<1>1. PICK t \in Timers : Call(l, [NoOp EXCEPT !.tim = t, !.kind = "stop"])
  BY DEF Stop
<1>2. PICK o : o = [NoOp EXCEPT !.tim = t, !.kind = "stop"]
  OBVIOUS
<1>3. o = [tim |-> t, kind |-> "stop", expire |-> 0, period |-> 0,
           lcore |-> None, locked |-> FALSE, prev |-> None, ret |-> "idle"]
  BY <1>2 DEF NoOp
<1>4. o \in OpRecords /\ o.tim \in Timers /\ o.kind = "stop" /\ ~o.locked
  BY <1>3 DEF OpRecords
<1>5. Call(l, o)
  BY <1>1, <1>2
<1> QED
  BY <1>4, <1>5, CallInv

\* The clock ticks, or nothing happens.
LEMMA TickInv ==
    ASSUME IInv, now' \in Nat, now' >= now,
           UNCHANGED <<status, expire, period, lists, list_lock, updated, running_tim,
                       manage, pc, op, calls>>
    PROVE  IInv'
<1>1. TypeOK'
  BY DEF IInv, TypeOK, lists, manage
<1>2. \A l \in Lcores : (OpOK(l) /\ ConfigOK(l) /\ LockOK(l) /\ HeadOK(l))'
  BY DEF IInv, OpOK, ConfigOK, LockOK, HeadOK, Calling, Configuring, Marking, lists
<1>3. \A l \in Lcores : RunOK(l)'
  BY DEF IInv, TypeOK, RunOK, Inside, CallingBack, manage
<1>4. \A t \in Timers : Owned(t)'
  BY DEF IInv, Owned
<1>5. \A t \in Timers, m \in Lcores : (PendingOK(t, m) /\ UnmarkedOK(t, m))'
  BY DEF IInv, PendingOK, UnmarkedOK, Listed, Publishing, lists, manage
<1>6. \A t \in Timers, m \in Lcores : (RunlistOK(t, m) /\ LinkedOK(t, m))'
  BY DEF IInv, RunlistOK, LinkedOK, Marking, CallingBack, lists, manage
<1> QED
  BY <1>1, <1>2, <1>3, <1>4, <1>5, <1>6 DEF IInv

LEMMA StepInv ==
    ASSUME IInv, [Next]_vars
    PROVE  IInv'
<1>1. CASE UNCHANGED vars
  BY <1>1, TickInv DEF vars, IInv, TypeOK, lists, manage
<1>2. CASE Tick
  BY <1>2, TickInv DEF Tick, IInv, TypeOK
<1>3. ASSUME NEW l \in Lcores, ConfigStep(l) PROVE IInv'
  BY <1>3, SetConfigFailsInv, SetConfigInv, timer_delInv, timer_addInv, PublishInv,
     MarkStoppedInv DEF ConfigStep
<1>4. ASSUME NEW l \in Lcores, ManageStep(l) PROVE IInv'
  BY <1>4, ManageInv, QuickCheckInv, BreakListInv, MarkRunningInv, ManageUnlockInv,
     CallBackInv, ManageDoneInv, CallBackEndsInv, ReloadInv DEF ManageStep
<1> QED
  BY <1>1, <1>2, <1>3, <1>4, ResetInv, StopInv DEF Next

LEMMA InitInv == Init => IInv
<1> SUFFICES ASSUME Init PROVE IInv
  OBVIOUS
<1>1. TypeOK
  BY TimerAssumption DEF Init, TypeOK, States, Labels, St, NoOp
<1>2. \A l \in Lcores : OpOK(l) /\ ConfigOK(l) /\ LockOK(l)
  BY NoOpFacts DEF Init, OpOK, ConfigOK, LockOK, Calling, Configuring, Marking
<1>3. \A l \in Lcores : RunOK(l) /\ HeadOK(l)
  BY NoOpFacts DEF Init, RunOK, HeadOK, Inside, CallingBack, Earliest
<1>4. \A t \in Timers : Owned(t)
  BY StFacts DEF Init, Owned
<1>5. \A t \in Timers, m \in Lcores :
        PendingOK(t, m) /\ UnmarkedOK(t, m) /\ RunlistOK(t, m) /\ LinkedOK(t, m)
  BY StFacts DEF Init, PendingOK, UnmarkedOK, RunlistOK, LinkedOK
<1> QED
  BY <1>1, <1>2, <1>3, <1>4, <1>5 DEF IInv

-----------------------------------------------------------------------------
\* The status words, the locks and the lists agree in every state, whatever
\* the lcores reset, stop and run at a time.
THEOREM Invariance == Spec => []IInv
<1>1. IInv /\ [Next]_vars => IInv'
  BY StepInv
<1> QED
  BY <1>1, InitInv, PTL DEF Spec

\* A timer is linked in one place at most.
LEMMA OneHome ==
    ASSUME IInv, NEW t \in Timers, NEW x \in Homes(t), NEW y \in Homes(t)
    PROVE  x = y
<1> USE Parts, StFacts
<1>1. ASSUME NEW l \in Lcores, t \in pending[l] \cup unmarked[l]
      PROVE  Listed(t, l) \/ Publishing(t, l)
  BY <1>1 DEF PendingOK, UnmarkedOK
<1>2. ASSUME NEW l \in Lcores, Listed(t, l) \/ Publishing(t, l)
      PROVE  status[t] = St("PENDING", l) \/ status[t].state = "CONFIG"
  BY <1>2 DEF Listed, Publishing, ConfigOK, Configuring
<1>3. ASSUME NEW l \in Lcores, NEW m \in Lcores, Listed(t, l) \/ Publishing(t, l),
             Listed(t, m) \/ Publishing(t, m)
      PROVE  l = m /\ (Publishing(t, l) => ~Listed(t, l))
  <2>1. ASSUME NEW a \in Lcores, NEW b \in Lcores, Configuring(a), Configuring(b),
               op[a].tim = t, op[b].tim = t
        PROVE  a = b
    BY <2>1 DEF ConfigOK
  <2>2. \A a \in Lcores : op[a].tim = t /\ Configuring(a) => status[t].state = "CONFIG"
    BY DEF ConfigOK
  <2> QED
    BY <1>3, <2>1, <2>2 DEF Listed, Publishing, Configuring
<1>4. ASSUME NEW l \in Lcores, NEW m \in Lcores, t \in runlist[l]
      PROVE  (t \in runlist[m] => l = m) /\ t \notin pending[m] \cup unmarked[m]
  <2>1. status[t] = St("RUNNING", l)
    BY <1>4 DEF RunlistOK
  <2> QED
    BY <1>1, <1>2, <2>1 DEF RunlistOK
<1>5. ASSUME NEW l \in Lcores, NEW m \in Lcores, t \in unmarked[l]
      PROVE  (t \in unmarked[m] => l = m) /\ t \notin pending[m]
  <2>1. Listed(t, l) /\ t \notin pending[l]
    BY <1>5 DEF UnmarkedOK
  <2> QED
    BY <1>1, <1>3, <2>1
<1>6. ASSUME NEW l \in Lcores, NEW m \in Lcores, t \in pending[l], t \in pending[m]
      PROVE  l = m
  BY <1>1, <1>3, <1>6
<1>7. /\ \A z \in Homes(t) : \E l \in Lcores :
            \/ t \in pending[l] /\ z = <<"pending", l>>
            \/ t \in runlist[l] \cup unmarked[l] /\ z = <<"run", l>>
  BY DEF Homes
<1>8. PICK l \in Lcores : \/ t \in pending[l] /\ x = <<"pending", l>>
                          \/ t \in runlist[l] \cup unmarked[l] /\ x = <<"run", l>>
  BY <1>7
<1>9. PICK m \in Lcores : \/ t \in pending[m] /\ y = <<"pending", m>>
                          \/ t \in runlist[m] \cup unmarked[m] /\ y = <<"run", m>>
  BY <1>7
<1> QED
  BY <1>4, <1>5, <1>6, <1>8, <1>9

\* A timer in a list is not stopped, and is not one that timer_add is for.
LEMMA NoHome ==
    ASSUME IInv, NEW t \in Timers, Homes(t) # {}
    PROVE  /\ status[t].state # "STOP"
           /\ \A l \in Lcores : ~(pc[l] = "reset" /\ op[l].tim = t)
<1> USE Parts, StFacts
<1>1. PICK m \in Lcores : t \in pending[m] \cup runlist[m] \cup unmarked[m]
  BY DEF Homes
<1>2. CASE t \in runlist[m]
  BY <1>2 DEF RunlistOK, ConfigOK, Configuring
<1>3. CASE t \in pending[m] \cup unmarked[m]
  <2>1. Listed(t, m) \/ Publishing(t, m)
    BY <1>3 DEF PendingOK, UnmarkedOK
  <2> QED
    BY <2>1 DEF Listed, Publishing, ConfigOK, Configuring
<1> QED
  BY <1>1, <1>2, <1>3

\* The timers and the lists agree for any number of lcores and timers: no
\* timer is in two lists, no pending one is lost, and the head read without
\* the lock is the first expiry of the list.
THEOREM ListsCorrect == Spec => []ListsSound
<1>1. IInv => ListsSound
  <2> SUFFICES ASSUME IInv PROVE ListsSound
    OBVIOUS
  <2> USE Parts, StFacts
  <2>1. \A t \in Timers : Cardinality(Homes(t)) <= 1
    <3> SUFFICES ASSUME NEW t \in Timers PROVE Cardinality(Homes(t)) <= 1
      OBVIOUS
    <3>1. CASE Homes(t) = {}
      <4>1. Cardinality(Homes(t)) = 0
        BY <3>1, FS_EmptySet
      <4> QED
        BY <4>1
    <3>2. CASE Homes(t) # {}
      <4>1. PICK x \in Homes(t) : TRUE
        BY <3>2
      <4>2. Homes(t) = {x}
        BY OneHome
      <4>3. Cardinality(Homes(t)) = 1
        BY <4>2, FS_Singleton
      <4> QED
        BY <4>3
    <3> QED
      BY <3>1, <3>2
  <2>2. \A l \in Lcores : pc[l] = "reset" => Homes(op[l].tim) = {}
    BY NoHome DEF OpOK, Calling
  <2>3. NoneLost
    <3>1. ASSUME NEW t \in Timers, NEW l \in Lcores, status[t] = St("PENDING", l),
                 list_lock[l] = None
          PROVE  t \in pending[l]
      <4>1. ~Marking(l) /\ ~op[l].locked
        BY <3>1, TimerAssumption DEF LockOK
      <4> QED
        BY <3>1, <4>1 DEF LinkedOK, UnmarkedOK, Marking
    <3>2. ASSUME NEW t \in Timers, status[t].state = "STOP"
          PROVE  Homes(t) = {}
      BY <3>2, NoHome
    <3> QED
      BY <3>1, <3>2 DEF NoneLost
  <2>4. HeadExpire
    BY TimerAssumption DEF HeadExpire, HeadOK, LockOK
  <2> QED
    BY <2>1, <2>2, <2>3, <2>4 DEF ListsSound, OneList
<1> QED
  BY <1>1, Invariance, PTL

\* While a callback runs, no other lcore can take its timer.
THEOREM RunsAlone == Spec => []OwnRun
<1>1. IInv => OwnRun
  BY Parts DEF OwnRun, RunOK
<1> QED
  BY <1>1, Invariance, PTL

\* Only the callback loop of rte_timer_manage starts a callback.
LEMMA StartsCallBack ==
    ASSUME IInv, [Next]_vars, NEW l \in Lcores, pc[l] = "next", pc'[l] = "callback"
    PROVE  CallBack(l)
<1> USE Parts
<1>1. \A k \in Lcores \ {l} : ~ConfigStep(k) /\ ~ManageStep(k) /\ ~Reset(k) /\ ~Stop(k)
  <2>1. ASSUME NEW k \in Lcores, k # l, NEW x, pc' = [pc EXCEPT ![k] = x] PROVE FALSE
    BY <2>1 DEF TypeOK
  <2>2. ASSUME NEW k \in Lcores, k # l, ConfigStep(k) PROVE FALSE
    <3>1. PICK x : Goto(k, x)
      BY <2>2 DEF ConfigStep, SetConfigFails, SetConfig, timer_del, timer_add, Publish,
         MarkStopped, Return
    <3> QED
      BY <2>1, <2>2, <3>1 DEF Goto
  <2>3. ASSUME NEW k \in Lcores, k # l, ManageStep(k) PROVE FALSE
    <3>1. PICK x : Goto(k, x)
      BY <2>3 DEF ManageStep, Manage, QuickCheck, BreakList, MarkRunning, ManageUnlock, CallBack,
         ManageDone, CallBackEnds, Reload
    <3> QED
      BY <2>1, <2>3, <3>1 DEF Goto
  <2>4. ASSUME NEW k \in Lcores, k # l, Reset(k) \/ Stop(k) PROVE FALSE
    <3>1. Goto(k, "config")
      BY <2>4 DEF Reset, Stop, Call
    <3> QED
      BY <2>1, <2>4, <3>1 DEF Goto
  <2> QED
    BY <2>2, <2>3, <2>4
<1>2. ~ConfigStep(l) /\ ~Reset(l) /\ ~Stop(l)
  BY DEF ConfigStep, Reset, Stop, Call, SetConfigFails, SetConfig, timer_del, timer_add, Publish, MarkStopped
<1>3. ~(Manage(l) \/ QuickCheck(l) \/ BreakList(l) \/ MarkRunning(l) \/ ManageUnlock(l)
        \/ CallBackEnds(l) \/ Reload(l))
  BY DEF Manage, QuickCheck, BreakList, MarkRunning, ManageUnlock, CallBackEnds, Reload
<1>4. ~ManageDone(l)
  BY DEF ManageDone, Goto, TypeOK
<1>5. ~Tick /\ ~UNCHANGED vars
  BY DEF Tick, vars
<1> QED
  BY <1>1, <1>2, <1>3, <1>4, <1>5 DEF Next, ManageStep

\* A callback starts on the lcore that marked the timer, not before its time.
THEOREM CallsInTime == Spec => NotEarly
<1>1. IInv /\ [Next]_vars =>
        [\A l \in Lcores : pc[l] = "next" /\ pc'[l] = "callback" =>
           LET t == running_tim'[l] IN
           status[t] = St("RUNNING", l) /\ expire[t] <= now]_vars
  <2> SUFFICES ASSUME IInv, [Next]_vars, NEW l \in Lcores, pc[l] = "next", pc'[l] = "callback"
               PROVE  /\ status[running_tim'[l]] = St("RUNNING", l)
                      /\ expire[running_tim'[l]] <= now
    OBVIOUS
  <2>1. CallBack(l)
    BY StartsCallBack
  <2>2. PICK t \in runlist[l] : running_tim'[l] = t
    BY <2>1, Parts DEF CallBack, Firsts, TypeOK
  <2>3. t \in Timers /\ expire[t] \in Nat /\ cur_time[l] \in Nat /\ now \in Nat
    BY <2>2, Parts DEF TypeOK
  <2>4. status[t] = St("RUNNING", l) /\ expire[t] <= cur_time[l] /\ cur_time[l] <= now
    BY <2>2, <2>3, Parts DEF RunlistOK, RunOK
  <2> QED
    BY <2>2, <2>3, <2>4
<1> QED
  BY <1>1, Invariance, PTL DEF Spec, NotEarly

=============================================================================
