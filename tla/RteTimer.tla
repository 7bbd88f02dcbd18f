------------------------------- MODULE RteTimer -------------------------------
(***************************************************************************)
(* librte_timer (rte_timer.c), which calls FloWatcher's timer_cb once a    *)
(* second: every lcore has a list of pending timers under a spinlock, any  *)
(* lcore may reset or stop any timer, and rte_timer_manage takes the       *)
(* expired timers off the list of its lcore and calls them back with the   *)
(* list unlocked.  What keeps the lcores apart is the status word of the   *)
(* timer, changed by compare-and-set.                                      *)
(*                                                                         *)
(* A list is ordered by expiry; it is kept here as the set of its timers.  *)
(* A status is read and then compared-and-set in a loop that starts again  *)
(* if the word changed in between, so both together are one step.          *)
(***************************************************************************)
EXTENDS Naturals, FiniteSets

CONSTANTS
    Lcores, Timers,
    Ticks,       \* the delays that timers are reset with
    MaxNow,      \* bound on the clock
    MaxCalls,    \* bound on the calls of rte_timer_reset and rte_timer_stop
    None

ASSUME TimerAssumption ==
    /\ Ticks \subseteq Nat /\ MaxNow \in Nat /\ MaxCalls \in Nat
    /\ None \notin Lcores \cup Timers

VARIABLES
    now,          \* rte_get_timer_cycles
    status,       \* status[t]: [state, owner]
    expire, period,
    pending,      \* pending[l]: the timers on the list of l
    head_expire,  \* pending_head.expire of l
    list_lock,    \* list_lock[l]: the lcore that holds the lock
    updated, running_tim,
    runlist,      \* the expired timers that l has marked and not yet called
    unmarked,     \* the expired timers that l has not yet tried to mark
    cur_time,     \* the time that l's rte_timer_manage looked at
    pc, op,       \* where l is, and the reset or stop it is in
    calls

lists == <<pending, head_expire>>
manage == <<runlist, unmarked, cur_time>>
vars == <<now, status, expire, period, lists, list_lock, updated, running_tim,
          manage, pc, op, calls>>

St(s, l) == [state |-> s, owner |-> l]
NoOp == [tim |-> None, kind |-> "none", expire |-> 0, period |-> 0,
         lcore |-> None, locked |-> FALSE, prev |-> None, ret |-> "idle"]

\* rte_timer_subsystem_init, rte_timer_init.
Init ==
    /\ now = 1
    /\ status = [t \in Timers |-> St("STOP", None)]
    /\ expire = [t \in Timers |-> 0]
    /\ period = [t \in Timers |-> 0]
    /\ pending = [l \in Lcores |-> {}]
    /\ head_expire = [l \in Lcores |-> 0]
    /\ list_lock = [l \in Lcores |-> None]
    /\ updated = [l \in Lcores |-> FALSE]
    /\ running_tim = [l \in Lcores |-> None]
    /\ runlist = [l \in Lcores |-> {}]
    /\ unmarked = [l \in Lcores |-> {}]
    /\ cur_time = [l \in Lcores |-> 0]
    /\ pc = [l \in Lcores |-> "idle"]
    /\ op = [l \in Lcores |-> NoOp]
    /\ calls = 0

Goto(l, label) == pc' = [pc EXCEPT ![l] = label]

\* The timers of S that expire first, and when they do; 0 for an empty list.
Firsts(S) == {t \in S : \A u \in S : expire[t] <= expire[u]}

Earliest(S, e) ==
    IF S = {} THEN 0 ELSE CHOOSE x \in {e[t] : t \in S} : \A t \in S : x <= e[t]

-----------------------------------------------------------------------------
(* rte_timer_reset and rte_timer_stop, by an application or by a callback. *)
Call(l, o) ==
    /\ pc[l] \in {"idle", "callback"}
    /\ calls < MaxCalls
    /\ calls' = calls + 1
    /\ op' = [op EXCEPT ![l] = [o EXCEPT !.ret = pc[l]]]
    /\ Goto(l, "config")
    /\ UNCHANGED <<now, status, expire, period, lists, list_lock, updated, running_tim, manage>>

Reset(l) ==
    \E t \in Timers, k \in Ticks, dest \in Lcores, p \in BOOLEAN :
        Call(l, [NoOp EXCEPT !.tim = t, !.kind = "reset", !.expire = now + k,
                             !.period = IF p THEN k ELSE 0, !.lcore = dest])

Stop(l) == \E t \in Timers : Call(l, [NoOp EXCEPT !.tim = t, !.kind = "stop"])

\* Return from the call; the reload in rte_timer_manage unlocks the list first.
Return(l) ==
    /\ Goto(l, op[l].ret)
    /\ op' = [op EXCEPT ![l] = NoOp]

Busy(l, t) ==
    \/ status[t].state = "RUNNING" /\ (status[t].owner # l \/ running_tim[l] # t)
    \/ status[t].state = "CONFIG"

\* timer_set_config_state gives up: -1.
SetConfigFails(l) ==
    /\ pc[l] = "config"
    /\ Busy(l, op[l].tim)
    /\ Return(l)
    /\ list_lock' = IF op[l].locked THEN [list_lock EXCEPT ![l] = None] ELSE list_lock
    /\ UNCHANGED <<now, status, expire, period, lists, updated, running_tim, manage, calls>>

\* Mutant: a timer that is pending on another lcore stays on its list.
SetConfig_keep(l) ==
    LET t == op[l].tim IN
    /\ pc[l] = "config"
    /\ ~Busy(l, t)
    /\ status' = [status EXCEPT ![t] = St("CONFIG", l)]
    /\ updated' = [updated EXCEPT ![l] = @ \/ status[t].state = "RUNNING"]
    /\ op' = [op EXCEPT ![l].prev = status[t].owner]
    /\ Goto(l, IF status[t] = St("PENDING", l) THEN "del" ELSE op[l].kind)
    /\ UNCHANGED <<now, expire, period, lists, list_lock, running_tim, manage, calls>>

\* Mutant: the callback's own reset does not set updated.
SetConfig_silent(l) ==
    LET t == op[l].tim IN
    /\ pc[l] = "config"
    /\ ~Busy(l, t)
    /\ status' = [status EXCEPT ![t] = St("CONFIG", l)]
    /\ op' = [op EXCEPT ![l].prev = status[t].owner]
    /\ Goto(l, IF status[t].state = "PENDING" THEN "del" ELSE op[l].kind)
    /\ UNCHANGED <<now, expire, period, lists, list_lock, updated, running_tim, manage, calls>>

SetConfig(l) ==
    LET t == op[l].tim IN
    /\ pc[l] = "config"
    /\ ~Busy(l, t)
    /\ status' = [status EXCEPT ![t] = St("CONFIG", l)]
    /\ updated' = [updated EXCEPT ![l] = @ \/ status[t].state = "RUNNING"]
    /\ op' = [op EXCEPT ![l].prev = status[t].owner]
    /\ Goto(l, IF status[t].state = "PENDING" THEN "del" ELSE op[l].kind)
    /\ UNCHANGED <<now, expire, period, lists, list_lock, running_tim, manage, calls>>

\* The caller may use the list of m: it takes the lock unless it holds it.
MayUse(l, m) == IF op[l].locked /\ m = l THEN list_lock[m] = l ELSE list_lock[m] = None

\* timer_del: under the lock of the list that the status word named.
timer_del(l) ==
    LET t == op[l].tim  m == op[l].prev IN
    /\ pc[l] = "del"
    /\ MayUse(l, m)
    /\ head_expire' = IF t \in Firsts(pending[m])
                      THEN [head_expire EXCEPT ![m] = Earliest(pending[m] \ {t}, expire)]
                      ELSE head_expire
    /\ pending' = [pending EXCEPT ![m] = @ \ {t}]
    /\ Goto(l, op[l].kind)
    /\ UNCHANGED <<now, status, expire, period, list_lock, updated, running_tim,
                   manage, op, calls>>

\* Mutant: the list is unlocked before the status says PENDING.
timer_add_unlocked(l) ==
    LET t == op[l].tim  m == op[l].lcore IN
    /\ pc[l] = "reset"
    /\ MayUse(l, m)
    /\ expire' = [expire EXCEPT ![t] = op[l].expire]
    /\ period' = [period EXCEPT ![t] = op[l].period]
    /\ pending' = [pending EXCEPT ![m] = @ \cup {t}]
    /\ head_expire' = [head_expire EXCEPT ![m] = Earliest(pending'[m], expire')]
    /\ Goto(l, "publish")
    /\ UNCHANGED <<now, status, list_lock, updated, running_tim, manage, op, calls>>

\* The new values, the lock of the destination, and timer_add.
timer_add(l) ==
    LET t == op[l].tim  m == op[l].lcore IN
    /\ pc[l] = "reset"
    /\ MayUse(l, m)
    /\ list_lock' = [list_lock EXCEPT ![m] = l]
    /\ expire' = [expire EXCEPT ![t] = op[l].expire]
    /\ period' = [period EXCEPT ![t] = op[l].period]
    /\ pending' = [pending EXCEPT ![m] = @ \cup {t}]
    /\ head_expire' = [head_expire EXCEPT ![m] = Earliest(pending'[m], expire')]
    /\ Goto(l, "publish")
    /\ UNCHANGED <<now, status, updated, running_tim, manage, op, calls>>

\* The timer is PENDING before the list is unlocked.
Publish(l) ==
    /\ pc[l] = "publish"
    /\ status' = [status EXCEPT ![op[l].tim] = St("PENDING", op[l].lcore)]
    /\ list_lock' = [list_lock EXCEPT ![op[l].lcore] = None]
    /\ Return(l)
    /\ UNCHANGED <<now, expire, period, lists, updated, running_tim, manage, calls>>

MarkStopped(l) ==
    /\ pc[l] = "stop"
    /\ status' = [status EXCEPT ![op[l].tim] = St("STOP", None)]
    /\ Return(l)
    /\ UNCHANGED <<now, expire, period, lists, list_lock, updated, running_tim, manage, calls>>

-----------------------------------------------------------------------------
(* rte_timer_manage.                                                       *)
Manage(l) ==
    /\ pc[l] = "idle" /\ pending[l] # {}
    /\ cur_time' = [cur_time EXCEPT ![l] = now]
    /\ Goto(l, "quick")
    /\ UNCHANGED <<now, status, expire, period, lists, list_lock, updated, running_tim,
                   runlist, unmarked, op, calls>>

\* The look at pending_head.expire without the lock.
QuickCheck(l) ==
    /\ pc[l] = "quick"
    /\ Goto(l, IF head_expire[l] > cur_time[l] THEN "idle" ELSE "lock")
    /\ UNCHANGED <<now, status, expire, period, lists, list_lock, updated, running_tim,
                   manage, op, calls>>

\* "break the existing list at current time point"
BreakList(l) ==
    LET E == {t \in pending[l] : expire[t] <= cur_time[l]} IN
    /\ pc[l] = "lock" /\ list_lock[l] = None
    /\ IF E = {}
       THEN Goto(l, "idle") /\ UNCHANGED <<pending, list_lock, unmarked>>
       ELSE /\ list_lock' = [list_lock EXCEPT ![l] = l]
            /\ pending' = [pending EXCEPT ![l] = @ \ E]
            /\ unmarked' = [unmarked EXCEPT ![l] = E]
            /\ Goto(l, "mark")
    /\ UNCHANGED <<now, status, expire, period, head_expire, updated, running_tim,
                   runlist, cur_time, op, calls>>

\* Mutant: a timer that is being configured is called back all the same.
MarkRunning_any(l) ==
    /\ pc[l] = "mark"
    /\ \E t \in Firsts(unmarked[l]) :
        /\ status' = [status EXCEPT ![t] = St("RUNNING", l)]
        /\ runlist' = [runlist EXCEPT ![l] = @ \cup {t}]
        /\ unmarked' = [unmarked EXCEPT ![l] = @ \ {t}]
        /\ Goto(l, IF unmarked[l] = {t} THEN "unlock" ELSE "mark")
    /\ UNCHANGED <<now, expire, period, lists, list_lock, updated, running_tim,
                   cur_time, op, calls>>

\* timer_set_running_state; a timer under configuration leaves the run-list.
MarkRunning(l) ==
    /\ pc[l] = "mark"
    /\ \E t \in Firsts(unmarked[l]) :
        /\ \/ /\ status[t].state = "PENDING"
              /\ status' = [status EXCEPT ![t] = St("RUNNING", l)]
              /\ runlist' = [runlist EXCEPT ![l] = @ \cup {t}]
           \/ /\ status[t].state # "PENDING"
              /\ UNCHANGED <<status, runlist>>
        /\ unmarked' = [unmarked EXCEPT ![l] = @ \ {t}]
        /\ Goto(l, IF unmarked[l] = {t} THEN "unlock" ELSE "mark")
    /\ UNCHANGED <<now, expire, period, lists, list_lock, updated, running_tim,
                   cur_time, op, calls>>

ManageUnlock(l) ==
    /\ pc[l] = "unlock"
    /\ head_expire' = [head_expire EXCEPT ![l] = Earliest(pending[l], expire)]
    /\ list_lock' = [list_lock EXCEPT ![l] = None]
    /\ Goto(l, "next")
    /\ UNCHANGED <<now, status, expire, period, pending, updated, running_tim, manage, op, calls>>

\* The callback starts: tim->f(tim, tim->arg).
CallBack(l) ==
    /\ pc[l] = "next"
    /\ \E t \in Firsts(runlist[l]) :
        /\ runlist' = [runlist EXCEPT ![l] = @ \ {t}]
        /\ updated' = [updated EXCEPT ![l] = FALSE]
        /\ running_tim' = [running_tim EXCEPT ![l] = t]
    /\ Goto(l, "callback")
    /\ UNCHANGED <<now, status, expire, period, lists, list_lock, unmarked, cur_time, op, calls>>

ManageDone(l) ==
    /\ pc[l] = "next" /\ runlist[l] = {}
    /\ running_tim' = [running_tim EXCEPT ![l] = None]
    /\ cur_time' = [cur_time EXCEPT ![l] = 0]
    /\ Goto(l, "idle")
    /\ UNCHANGED <<now, status, expire, period, lists, list_lock, updated, runlist,
                   unmarked, op, calls>>

\* The callback is over: reset or stopped by itself, single, or periodic.
CallBackEnds(l) ==
    LET t == running_tim[l] IN
    /\ pc[l] = "callback"
    /\ \/ /\ updated[l] /\ Goto(l, "next") /\ UNCHANGED status
       \/ /\ ~updated[l] /\ period[t] = 0
          /\ status' = [status EXCEPT ![t] = St("STOP", None)]
          /\ Goto(l, "next")
       \/ ~updated[l] /\ period[t] # 0 /\ Goto(l, "reload") /\ UNCHANGED status
    /\ UNCHANGED <<now, expire, period, lists, list_lock, updated, running_tim, manage, op, calls>>

\* A periodic timer becomes PENDING and is then reset under the local lock.
Reload(l) ==
    LET t == running_tim[l] IN
    /\ pc[l] = "reload" /\ list_lock[l] = None
    /\ list_lock' = [list_lock EXCEPT ![l] = l]
    /\ status' = [status EXCEPT ![t] = St("PENDING", l)]
    /\ op' = [op EXCEPT ![l] =
                [NoOp EXCEPT !.tim = t, !.kind = "reset", !.expire = expire[t] + period[t],
                             !.period = period[t], !.lcore = l, !.locked = TRUE,
                             !.ret = "next"]]
    /\ Goto(l, "config")
    /\ UNCHANGED <<now, expire, period, lists, updated, running_tim, manage, calls>>

Tick ==
    /\ now < MaxNow
    /\ now' = now + 1
    /\ UNCHANGED <<status, expire, period, lists, list_lock, updated, running_tim,
                   manage, pc, op, calls>>

ConfigStep(l) ==
    SetConfigFails(l) \/ SetConfig(l) \/ timer_del(l) \/ timer_add(l) \/ Publish(l)
      \/ MarkStopped(l)

ManageStep(l) ==
    Manage(l) \/ QuickCheck(l) \/ BreakList(l) \/ MarkRunning(l) \/ ManageUnlock(l)
      \/ CallBack(l) \/ ManageDone(l) \/ CallBackEnds(l) \/ Reload(l)

Next ==
    \/ Tick
    \/ \E l \in Lcores : Reset(l) \/ Stop(l) \/ ConfigStep(l) \/ ManageStep(l)

Spec == Init /\ [][Next]_vars

\* The clock runs; a lcore goes on with what it does, calls rte_timer_manage
\* again and again, and takes a spinlock that stays free.
FairSpec ==
    /\ Spec
    /\ WF_vars(Tick)
    /\ \A l \in Lcores : WF_vars(ConfigStep(l)) /\ WF_vars(ManageStep(l))

-----------------------------------------------------------------------------
(* Properties.                                                             *)

States == {"STOP", "PENDING", "RUNNING", "CONFIG"}
Labels == {"idle", "config", "del", "reset", "publish", "stop", "quick", "lock", "mark",
           "unlock", "next", "callback", "reload"}

\* Every variable keeps its type.
TypeOK ==
    /\ now \in Nat /\ calls \in 0 .. MaxCalls
    /\ status \in [Timers -> [state : States, owner : Lcores \cup {None}]]
    /\ expire \in [Timers -> Nat] /\ period \in [Timers -> Nat]
    /\ pending \in [Lcores -> SUBSET Timers]
    /\ head_expire \in [Lcores -> Nat]
    /\ list_lock \in [Lcores -> Lcores \cup {None}]
    /\ updated \in [Lcores -> BOOLEAN]
    /\ running_tim \in [Lcores -> Timers \cup {None}]
    /\ runlist \in [Lcores -> SUBSET Timers] /\ unmarked \in [Lcores -> SUBSET Timers]
    /\ cur_time \in [Lcores -> Nat]
    /\ pc \in [Lcores -> Labels]
    /\ op \in [Lcores -> [tim : Timers \cup {None}, kind : {"none", "reset", "stop"},
                          expire : Nat, period : Nat, lcore : Lcores \cup {None},
                          locked : BOOLEAN, prev : Lcores \cup {None},
                          ret : {"idle", "callback", "next"}]]

\* Where timer t is linked: a pending list, or the run-list of a lcore.
Homes(t) == {<<"pending", l>> : l \in {m \in Lcores : t \in pending[m]}}
              \cup {<<"run", l>> : l \in {m \in Lcores : t \in runlist[m] \cup unmarked[m]}}

\* A timer is linked into one list at most, and timer_add finds it in none:
\* its link fields are never shared by two lists.
OneList ==
    /\ \A t \in Timers : Cardinality(Homes(t)) <= 1
    /\ \A l \in Lcores : pc[l] = "reset" => Homes(op[l].tim) = {}

\* No timer is lost: once no lcore holds the lock of the list, a timer whose
\* status is PENDING is on the list of its owner, and one that is STOPped is
\* on no list.
NoneLost ==
    \A t \in Timers :
        /\ \A l \in Lcores : status[t] = St("PENDING", l) /\ list_lock[l] = None =>
              t \in pending[l]
        /\ status[t].state = "STOP" => Homes(t) = {}

\* The callback of the lcore runs, or a reset or stop it called.
Inside(l) == pc[l] = "callback" \/ op[l].ret = "callback"

\* While a callback runs nobody but the callback itself changes the timer, so
\* no other lcore runs it (timer_set_running_state, timer_set_config_state).
OwnRun ==
    \A l \in Lcores : Inside(l) /\ ~updated[l] => status[running_tim[l]] = St("RUNNING", l)

\* The expiry that the unlocked check reads is the first of the list, so a
\* lcore never looks away from an expired timer.
HeadExpire ==
    \A l \in Lcores : list_lock[l] = None =>
        head_expire[l] = Earliest(pending[l], expire)

\* The timers and the lists agree, whatever two lcores configure and run at a
\* time (timer_add, timer_del, rte_timer_manage): a timer is in one list at
\* most, none is lost, and the value read without the lock is up to date.
ListsSound == TypeOK /\ OneList /\ NoneLost /\ HeadExpire

\* A callback starts on the owner, after the expiry of the timer, and not
\* after a stop that succeeded.
NotEarly ==
    [][\A l \in Lcores : pc[l] = "next" /\ pc'[l] = "callback" =>
         LET t == running_tim'[l] IN
         status[t] = St("RUNNING", l) /\ expire[t] <= now]_vars

\* A pending timer whose time comes is called back or reconfigured.
Fires ==
    \A t \in Timers, e \in 1 .. MaxNow :
        (status[t].state = "PENDING" /\ expire[t] = e)
          ~> ~(status[t].state = "PENDING" /\ expire[t] = e)

=============================================================================
