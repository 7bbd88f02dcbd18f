------------------------------- MODULE RteRing -------------------------------
(***************************************************************************)
(* The lock-free ring of librte_ring (rte_ring.h, rte_ring_generic.h): the *)
(* free list behind every mempool of l2fwd and FloWatcher, used by all     *)
(* their lcores at once.  A call moves the head of its side with a         *)
(* compare-and-set, copies the objects one by one, and then waits until    *)
(* the calls that moved the head before it have moved the tail.            *)
(*                                                                         *)
(* head and tail count the objects that ever went through the ring; what   *)
(* the code keeps is that number modulo 2^32, so every computation and     *)
(* comparison of the code goes through U32.                                *)
(***************************************************************************)
EXTENDS Integers, Sequences

CONSTANTS
    Producers, Consumers,  \* lcores that enqueue, lcores that dequeue
    Size,        \* slots of the ring, a power of two
    Capacity,    \* objects it may hold
    Modulus,     \* 2^32 in the code: the range of an index
    Start,       \* objects that went through the ring before the model starts
    Calls,       \* arguments of the calls: [n, behavior]
    MaxObjs      \* bound on the objects offered to the ring

ASSUME SizeAssumption ==
    /\ Size \in Nat \ {0} /\ Capacity \in Nat \ {0} /\ Capacity < Size
    /\ Modulus \in Nat \ {0} /\ \E k \in 1 .. Modulus : Modulus = Size * k
ASSUME BoundAssumption == Start \in Nat /\ MaxObjs \in Nat
ASSUME ThreadAssumption == Producers \cap Consumers = {}

Threads == Producers \cup Consumers
Sides == {"prod", "cons"}
Side(t) == IF t \in Producers THEN "prod" ELSE "cons"
Other(s) == IF s = "prod" THEN "cons" ELSE "prod"
Behaviors == {"fixed", "variable"}

ASSUME CallAssumption == \A a \in Calls : a.n \in Nat \ {0} /\ a.behavior \in Behaviors

\* is_sp, is_sc: the single-thread path, the default of a ring created with
\* RING_F_SP_ENQ or RING_F_SC_DEQ, is used where there is one thread.
single(t) == IF t \in Producers THEN Producers = {t} ELSE Consumers = {t}

U32(x) == x % Modulus
Slot(x) == U32(x) % Size
Slots == 0 .. Size - 1

VARIABLES
    head, tail,  \* prod and cons of struct rte_ring
    ring,        \* the slots
    pc,          \* where a lcore is in __rte_ring_do_enqueue / _dequeue
    max, behavior, \* its arguments; the locals of a call that returned
    old_head, n,   \* are dead and have their initial values
    entries,     \* free_entries of an enqueue, entries of a dequeue
    i,           \* objects copied by ENQUEUE_PTRS / DEQUEUE_PTRS so far
    obj_table,   \* an enqueue: the number of its first object;
                 \* a dequeue: the objects of the last call that got some
    offered,     \* number of objects offered so far: object k is the k-th
    log          \* history: the object that the slot was last claimed for

vars == <<head, tail, ring, pc, max, behavior, old_head, n, entries, i,
          obj_table, offered, log>>
local == <<max, behavior>>

None == 0

Init ==
    /\ head = [s \in Sides |-> Start]
    /\ tail = [s \in Sides |-> Start]
    /\ ring = [x \in Slots |-> None]
    /\ pc = [t \in Threads |-> "idle"]
    /\ max = [t \in Threads |-> 0]
    /\ behavior = [t \in Threads |-> "fixed"]
    /\ old_head = [t \in Threads |-> Start]
    /\ n = [t \in Threads |-> 0]
    /\ entries = [t \in Threads |-> 0]
    /\ i = [t \in Threads |-> 0]
    /\ obj_table = [t \in Threads |-> IF t \in Producers THEN 1 ELSE <<>>]
    /\ offered = 0
    /\ log = [x \in Slots |-> None]

-----------------------------------------------------------------------------
(* Calls.                                                                  *)
Return(t) ==
    /\ pc' = [pc EXCEPT ![t] = "idle"]
    /\ max' = [max EXCEPT ![t] = 0]
    /\ behavior' = [behavior EXCEPT ![t] = "fixed"]
    /\ old_head' = [old_head EXCEPT ![t] = Start]
    /\ n' = [n EXCEPT ![t] = 0]
    /\ entries' = [entries EXCEPT ![t] = 0]
    /\ i' = [i EXCEPT ![t] = 0]

Enqueue(t) ==
    /\ t \in Producers /\ pc[t] = "idle"
    /\ \E a \in Calls :
        /\ offered + a.n <= MaxObjs
        /\ max' = [max EXCEPT ![t] = a.n]
        /\ behavior' = [behavior EXCEPT ![t] = a.behavior]
        /\ offered' = offered + a.n
    /\ obj_table' = [obj_table EXCEPT ![t] = offered + 1]
    /\ pc' = [pc EXCEPT ![t] = "head"]
    /\ UNCHANGED <<head, tail, ring, old_head, n, entries, i, log>>

Dequeue(t) ==
    /\ t \in Consumers /\ pc[t] = "idle"
    /\ \E a \in Calls :
        /\ max' = [max EXCEPT ![t] = a.n]
        /\ behavior' = [behavior EXCEPT ![t] = a.behavior]
    /\ pc' = [pc EXCEPT ![t] = "head"]
    /\ UNCHANGED <<head, tail, ring, old_head, n, entries, i, obj_table, offered, log>>

-----------------------------------------------------------------------------
(* __rte_ring_move_prod_head and __rte_ring_move_cons_head.                *)
ReadHead(t) ==
    /\ pc[t] = "head"
    /\ old_head' = [old_head EXCEPT ![t] = head[Side(t)]]
    /\ pc' = [pc EXCEPT ![t] = "entries"]
    /\ UNCHANGED <<head, tail, ring, local, n, entries, i, obj_table, offered, log>>

free_entries(old) == U32(Capacity + tail["cons"] - old)

used_entries(old) == U32(tail["prod"] - old)

\* Mutant: an entry is kept back.
Grant_keep(want, b, e) == IF want < e THEN want ELSE IF b = "fixed" THEN 0 ELSE e

Grant(want, b, e) == IF want <= e THEN want ELSE IF b = "fixed" THEN 0 ELSE e

ReadTail(t) ==
    /\ pc[t] = "entries"
    /\ LET e == IF t \in Producers THEN free_entries(old_head[t])
                ELSE used_entries(old_head[t])
           g == Grant(max[t], behavior[t], e)
       IN  \/ /\ g = 0
              /\ Return(t)
           \/ /\ g # 0
              /\ entries' = [entries EXCEPT ![t] = e]
              /\ n' = [n EXCEPT ![t] = g]
              /\ pc' = [pc EXCEPT ![t] = "cas"]
              /\ UNCHANGED <<local, old_head, i>>
    /\ UNCHANGED <<head, tail, ring, obj_table, offered, log>>

\* Bound: while a lcore is between its read of the head and its
\* compare-and-set, the others do not take the head once around 2^32.
NoLap(t) ==
    \A u \in Threads : u # t /\ Side(u) = Side(t) /\ pc[u] \in {"entries", "cas"} =>
        old_head[t] + n[t] + Capacity < old_head[u] + Modulus

Offsets(t) == 0 .. n[t] - 1
ClaimedBy(t, s) == \E k \in Offsets(t) : s = Slot(old_head[t] + k)

\* The head moves from old_head to old_head + n.
Claim(t) ==
    /\ NoLap(t)
    /\ head' = [head EXCEPT ![Side(t)] = old_head[t] + n[t]]
    /\ i' = [i EXCEPT ![t] = 0]
    /\ pc' = [pc EXCEPT ![t] = "copy"]
    /\ log' = [s \in Slots |->
                 IF t \in Producers /\ ClaimedBy(t, s)
                 THEN obj_table[t] + CHOOSE k \in Offsets(t) : s = Slot(old_head[t] + k)
                 ELSE log[s]]
    /\ obj_table' = [obj_table EXCEPT ![t] = IF t \in Producers THEN @ ELSE <<>>]
    /\ UNCHANGED <<tail, ring, local, old_head, n, entries, offered>>

\* Mutant: the head is stored without comparing it.
MoveHead_store(t) == pc[t] = "cas" /\ Claim(t)

MoveHead(t) ==
    /\ pc[t] = "cas"
    /\ IF single(t) \/ U32(head[Side(t)]) = U32(old_head[t])
       THEN Claim(t)
       ELSE /\ pc' = [pc EXCEPT ![t] = "head"]
            /\ n' = [n EXCEPT ![t] = 0]
            /\ entries' = [entries EXCEPT ![t] = 0]
            /\ UNCHANGED <<head, tail, ring, local, old_head, i, obj_table, offered, log>>

-----------------------------------------------------------------------------
(* ENQUEUE_PTRS and DEQUEUE_PTRS: one pointer is one step.                 *)
Copied(t) ==
    /\ i' = [i EXCEPT ![t] = @ + 1]
    /\ pc' = [pc EXCEPT ![t] = IF i[t] + 1 = n[t] THEN "tail" ELSE "copy"]

CopyIn(t) ==
    /\ t \in Producers /\ pc[t] = "copy"
    /\ ring' = [ring EXCEPT ![Slot(old_head[t] + i[t])] = obj_table[t] + i[t]]
    /\ Copied(t)
    /\ UNCHANGED <<head, tail, local, old_head, n, entries, obj_table, offered, log>>

\* Mutant: always from the first claimed slot.
CopyOut_first(t) ==
    /\ t \in Consumers /\ pc[t] = "copy"
    /\ obj_table' = [obj_table EXCEPT ![t] = Append(@, ring[Slot(old_head[t])])]
    /\ Copied(t)
    /\ UNCHANGED <<head, tail, ring, local, old_head, n, entries, offered, log>>

CopyOut(t) ==
    /\ t \in Consumers /\ pc[t] = "copy"
    /\ obj_table' = [obj_table EXCEPT ![t] = Append(@, ring[Slot(old_head[t] + i[t])])]
    /\ Copied(t)
    /\ UNCHANGED <<head, tail, ring, local, old_head, n, entries, offered, log>>

-----------------------------------------------------------------------------

\* Mutant: the wait is for the new value.
UpdateTail_stuck(t) ==
    /\ pc[t] = "tail"
    /\ single(t) \/ U32(tail[Side(t)]) = U32(old_head[t] + n[t])
    /\ tail' = [tail EXCEPT ![Side(t)] = old_head[t] + n[t]]
    /\ Return(t)
    /\ UNCHANGED <<head, ring, obj_table, offered, log>>

\* update_tail: spin until the calls that moved the head before are done.
UpdateTail(t) ==
    /\ pc[t] = "tail"
    /\ single(t) \/ U32(tail[Side(t)]) = U32(old_head[t])
    /\ tail' = [tail EXCEPT ![Side(t)] = old_head[t] + n[t]]
    /\ Return(t)
    /\ UNCHANGED <<head, ring, obj_table, offered, log>>

Step(t) ==
    ReadHead(t) \/ ReadTail(t) \/ MoveHead(t) \/ CopyIn(t) \/ CopyOut(t) \/ UpdateTail(t)

Next == \E t \in Threads : Enqueue(t) \/ Dequeue(t) \/ Step(t)

Spec == Init /\ [][Next]_vars

\* A lcore that is inside a call goes on: DPDK pins one busy thread to a core.
FairSpec == Spec /\ \A t \in Threads : WF_vars(Step(t))

-----------------------------------------------------------------------------
(* Properties.                                                             *)

\* Every variable keeps its type.
TypeOK ==
    /\ head \in [Sides -> Nat] /\ tail \in [Sides -> Nat]
    /\ ring \in [Slots -> Nat]
    /\ pc \in [Threads -> {"idle", "head", "entries", "cas", "copy", "tail"}]
    /\ max \in [Threads -> Nat] /\ behavior \in [Threads -> Behaviors]
    /\ old_head \in [Threads -> Nat] /\ n \in [Threads -> Nat]
    /\ entries \in [Threads -> Nat] /\ i \in [Threads -> Nat]
    /\ \A p \in Producers : obj_table[p] \in Nat
    /\ \A c \in Consumers : obj_table[c] \in Seq(Nat)
    /\ DOMAIN obj_table = Threads
    /\ offered \in 0 .. MaxObjs
    /\ log \in [Slots -> Nat]

\* The four indexes keep their order around the wrap of the 32-bit counters:
\* the ring never holds more than its capacity, and consumers never claim an
\* object whose copy is not finished (move_prod_head, move_cons_head).
IndexOrder ==
    /\ tail["cons"] <= head["cons"]
    /\ head["cons"] <= tail["prod"]
    /\ tail["prod"] <= head["prod"]
    /\ head["prod"] <= tail["cons"] + Capacity

\* The slots a call has still to copy are its own: no other call, enqueue or
\* dequeue, has claimed one of them (the compare-and-set of the head).
Working(t) == pc[t] \in {"copy", "tail"}
NoSlotShared ==
    \A t, u \in Threads : t # u /\ Working(t) /\ Working(u) =>
        \A j \in Offsets(t), k \in Offsets(u) :
            Slot(old_head[t] + j) # Slot(old_head[u] + k)

\* What is between the consumer's and the producer's tail is what was
\* enqueued there: a slot is not reused before its reader is done, and not
\* offered before its writer is (ENQUEUE_PTRS, update_tail).
SlotsHold ==
    \A x \in tail["cons"] .. tail["prod"] - 1 : ring[Slot(x)] = log[Slot(x)]

\* A dequeue returns, in order, the objects enqueued at the positions it claimed.
Delivered ==
    \A c \in Consumers : Working(c) =>
        /\ Len(obj_table[c]) = i[c]
        /\ \A j \in 1 .. i[c] : obj_table[c][j] = log[Slot(old_head[c] + j - 1)]

\* A call gives up only when, as it looks at the other tail, the ring really
\* had too few free slots (or objects) for it, although the head it read
\* earlier may be out of date.
HonestRefusal ==
    [][\A t \in Threads :
        pc[t] = "entries" /\ pc'[t] = "idle" =>
            LET room == tail[Other(Side(t))] - head[Side(t)]
                          + (IF t \in Producers THEN Capacity ELSE 0)
            IN  IF behavior[t] = "fixed" THEN room < max[t] ELSE room <= 0]_vars

\* A call returns, unless other calls of its side go on moving the head before
\* its compare-and-set: the loop of move_prod_head and move_cons_head is
\* lock-free, not wait-free, and only the wait of update_tail is for a bounded
\* number of calls.  (MaxObjs bounds the calls that move the head, so in a
\* run every call returns.)
MovesHead(u) == pc[u] = "cas" /\ pc'[u] = "copy"
Beaten(t) == \E u \in Threads \ {t} : Side(u) = Side(t) /\ MovesHead(u)
ReturnsUnlessBeaten ==
    \A t \in Threads : []<>(pc[t] = "idle") \/ []<><<Beaten(t)>>_vars

-----------------------------------------------------------------------------
(* The ring as a bounded queue: an enqueue takes effect as the tail passes *)
(* its objects, a dequeue as the head does.                                *)
Queue == [j \in 1 .. tail["prod"] - head["cons"] |-> ring[Slot(head["cons"] + j - 1)]]

Got(c) ==
    IF pc[c] = "copy"
    THEN [j \in 1 .. n[c] |->
            IF j <= i[c] THEN obj_table[c][j] ELSE ring[Slot(old_head[c] + j - 1)]]
    ELSE obj_table[c]

Fifo == INSTANCE RingFifo WITH queue <- Queue, got <- [c \in Consumers |-> Got(c)]

\* The ring implements a bounded first-in first-out queue.
ImplementsFifo == Fifo!Spec
=============================================================================
