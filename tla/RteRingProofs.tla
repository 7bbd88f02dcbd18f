---------------------------- MODULE RteRingProofs ----------------------------
(***************************************************************************)
(* Proofs about RteRing, for any number of producers and consumers, any    *)
(* size, any starting value of the indexes and any range of an index that  *)
(* is a multiple of the size; in the end, RteRing implements RingFifo.     *)
(***************************************************************************)
EXTENDS RteRing, SequenceTheorems, TLAPS

\* How far the head of a side may go.
Lim(s) == IF s = "prod" THEN tail["cons"] + Capacity ELSE tail["prod"]

\* The locals of a call against the indexes.  The head that a call has read
\* is not ahead of the head and less than a range of an index behind it, so
\* that the free entries it computes modulo 2^32 are exact.
Locals(t) ==
    /\ pc[t] # "idle" => max[t] >= 1
    /\ pc[t] \in {"entries", "cas"} =>
        /\ old_head[t] <= head[Side(t)]
        /\ head[Side(t)] + Capacity < old_head[t] + Modulus
    /\ pc[t] = "cas" => n[t] >= 1 /\ old_head[t] + n[t] <= Lim(Side(t))
    /\ Working(t) => /\ n[t] >= 1 /\ tail[Side(t)] <= old_head[t]
                     /\ old_head[t] + n[t] <= head[Side(t)]
    /\ pc[t] = "copy" => i[t] < n[t]
    /\ pc[t] = "tail" => i[t] = n[t]

\* What the single-thread path relies on instead of a compare-and-set.
Alone(t) ==
    single(t) =>
        /\ pc[t] \in {"entries", "cas"} => old_head[t] = head[Side(t)]
        /\ ~Working(t) => tail[Side(t)] = head[Side(t)]
        /\ Working(t) => tail[Side(t)] = old_head[t] /\ head[Side(t)] = old_head[t] + n[t]

\* Two calls of a side have claimed different positions.
Apart(t, u) ==
    t # u /\ Side(t) = Side(u) /\ Working(t) /\ Working(u) =>
        old_head[t] + n[t] <= old_head[u] \/ old_head[u] + n[u] <= old_head[t]

\* What an enqueue has written so far, and what a dequeue has read.
Wrote(p) ==
    Working(p) =>
        /\ \A k \in Offsets(p) : log[Slot(old_head[p] + k)] = obj_table[p] + k
        /\ \A k \in 0 .. i[p] - 1 : ring[Slot(old_head[p] + k)] = log[Slot(old_head[p] + k)]
Took(c) ==
    Working(c) =>
        /\ Len(obj_table[c]) = i[c]
        /\ \A j \in 1 .. i[c] : obj_table[c][j] = log[Slot(old_head[c] + j - 1)]

IndexInv ==
    /\ IndexOrder
    /\ \A t \in Threads : Locals(t) /\ Alone(t)
    /\ \A t, u \in Threads : Apart(t, u)

DataInv ==
    /\ SlotsHold
    /\ \A p \in Producers : Wrote(p)
    /\ \A c \in Consumers : Took(c)

IInv == TypeOK /\ IndexInv /\ DataInv

-----------------------------------------------------------------------------
(* Arithmetic of the indexes.                                              *)
LEMMA ModFacts ==
    ASSUME NEW x \in Int, NEW m \in Nat, m > 0
    PROVE  x % m \in 0 .. m - 1 /\ x % m \in Nat
BY Z3

LEMMA ModSmall ==
    ASSUME NEW x \in Nat, NEW m \in Nat, x < m
    PROVE  x % m = x
BY Z3

LEMMA NoMultiple ==
    ASSUME NEW m \in Nat, NEW k \in Int, NEW d \in Int, d = m * k, -m < d, d < m
    PROVE  k = 0 /\ d = 0
<1>1. CASE k >= 1
  <2>1. m * k >= m  BY <1>1, Z3
  <2> QED  BY <2>1
<1>2. CASE k <= -1
  <2>1. m * k <= -m  BY <1>2, Z3
  <2> QED  BY <2>1
<1>3. CASE k = 0
  BY <1>3, Z3
<1> QED  BY <1>1, <1>2, <1>3

LEMMA DivMod ==
    ASSUME NEW x \in Nat, NEW m \in Nat, m > 0
    PROVE  \E q \in Int : x = m * q + (x % m)
<1>1. x = m * (x \div m) + (x % m)  BY Z3
<1>2. x \div m \in Int  OBVIOUS
<1> QED  BY <1>1, <1>2

\* Two indexes less than m apart that agree modulo m are equal.
LEMMA ModEqual ==
    ASSUME NEW x \in Nat, NEW y \in Nat, NEW m \in Nat, m > 0,
           x % m = y % m, -m < x - y, x - y < m
    PROVE  x = y
<1>1. PICK r \in Int : r = x % m  BY ModFacts
<1>2. PICK p \in Int : x = m * p + r  BY <1>1, DivMod
<1>3. PICK q \in Int : y = m * q + r  BY <1>1, DivMod
<1>4. x - y = m * (p - q)  BY <1>2, <1>3, Z3
<1>5. x - y = 0
  <2>1. PICK k \in Int : k = p - q  OBVIOUS
  <2>2. PICK d \in Int : d = x - y  OBVIOUS
  <2> QED  BY <1>4, <2>1, <2>2, NoMultiple
<1> QED  BY <1>5

LEMMA Constants ==
    /\ Size \in Nat /\ Size > 0 /\ Capacity \in Nat /\ Capacity >= 1 /\ Capacity < Size
    /\ Modulus \in Nat /\ Modulus > 0 /\ Capacity < Modulus
<1>1. PICK k \in 1 .. Modulus : Modulus = Size * k  BY SizeAssumption
<1>2. Size * k >= Size  BY <1>1, SizeAssumption, Z3
<1> QED  BY <1>1, <1>2, SizeAssumption

LEMMA SlotOf ==
    ASSUME NEW x \in Nat
    PROVE  /\ Slot(x) \in Slots
           /\ \E q \in Int : x = Size * q + Slot(x)
<1>1. PICK k \in 1 .. Modulus : Modulus = Size * k  BY SizeAssumption
<1>2. PICK r \in Nat : r = x % Modulus  BY Constants, ModFacts
<1>3. PICK s \in Nat : s = r % Size  BY Constants, ModFacts
<1>4. Slot(x) = s /\ s \in Slots  BY <1>2, <1>3, Constants, ModFacts DEF Slot, U32, Slots
<1>5. PICK p \in Int : x = Modulus * p + r  BY <1>2, Constants, DivMod
<1>6. PICK q \in Int : r = Size * q + s  BY <1>3, Constants, DivMod
<1>7. x = Size * (k * p + q) + s  BY <1>1, <1>5, <1>6, Constants, Z3
<1>8. k * p + q \in Int  OBVIOUS
<1> QED  BY <1>4, <1>7, <1>8

\* Positions less than a ring apart have different slots.
LEMMA SlotEqual ==
    ASSUME NEW x \in Nat, NEW y \in Nat, Slot(x) = Slot(y), -Size < x - y, x - y < Size
    PROVE  x = y
<1>1. PICK p \in Int : x = Size * p + Slot(x)  BY SlotOf
<1>2. PICK q \in Int : y = Size * q + Slot(y)  BY SlotOf
<1>3. PICK s \in Int : s = Slot(x)  BY SlotOf DEF Slots
<1>4. x - y = Size * (p - q)
  <2>1. x = Size * p + s /\ y = Size * q + s  BY <1>1, <1>2, <1>3
  <2> QED  BY <2>1, Constants, Z3
<1>5. x - y = 0
  <2>1. PICK k \in Int : k = p - q  OBVIOUS
  <2>2. PICK d \in Int : d = x - y  OBVIOUS
  <2> QED  BY <1>4, <2>1, <2>2, NoMultiple, Constants
<1> QED  BY <1>5

-----------------------------------------------------------------------------
(* Consequences of the invariant.                                          *)
LEMMA SideFacts ==
    ASSUME NEW t \in Threads
    PROVE  /\ Side(t) \in Sides
           /\ t \in Producers => Side(t) = "prod" /\ t \notin Consumers
           /\ t \in Consumers => Side(t) = "cons" /\ t \notin Producers
           /\ t \in Producers \/ t \in Consumers
BY ThreadAssumption DEF Side, Sides, Threads

LEMMA Order ==
    ASSUME TypeOK, IndexOrder, NEW s \in Sides
    PROVE  /\ tail[s] \in Nat /\ head[s] \in Nat /\ Lim(s) \in Nat /\ tail["cons"] \in Nat
           /\ tail["cons"] <= tail[s] /\ tail[s] <= head[s] /\ head[s] <= Lim(s)
           /\ Lim(s) <= tail["cons"] + Capacity
           /\ head[s] <= tail[s] + Capacity
<1>1. /\ tail["cons"] \in Nat /\ head["cons"] \in Nat /\ tail["prod"] \in Nat
      /\ head["prod"] \in Nat
  BY DEF TypeOK, Sides
<1>2. s = "prod" \/ s = "cons"  BY DEF Sides
<1>3. CASE s = "prod"  BY <1>1, <1>3, Constants DEF IndexOrder, Lim
<1>4. CASE s = "cons"  BY <1>1, <1>4, Constants DEF IndexOrder, Lim
<1> QED  BY <1>2, <1>3, <1>4

\* The positions a call has claimed are in the window of one capacity.
LEMMA Window ==
    ASSUME TypeOK, IndexInv, NEW t \in Threads, Working(t), NEW j \in Offsets(t)
    PROVE  /\ old_head[t] + j \in Nat
           /\ tail["cons"] <= old_head[t] + j /\ old_head[t] + j < tail["cons"] + Capacity
           /\ t \in Producers => tail["prod"] <= old_head[t] + j
           /\ t \in Consumers => old_head[t] + j < head["cons"]
           /\ tail["cons"] \in Nat /\ j \in Nat
<1>1. /\ n[t] \in Nat /\ old_head[t] \in Nat /\ j \in Nat /\ j < n[t]
  BY DEF TypeOK, Offsets
<1>2. tail[Side(t)] <= old_head[t] /\ old_head[t] + n[t] <= head[Side(t)]
  BY DEF IndexInv, Locals
<1>3. /\ tail[Side(t)] \in Nat /\ head[Side(t)] \in Nat /\ tail["cons"] \in Nat
      /\ tail["cons"] <= tail[Side(t)] /\ head[Side(t)] <= Lim(Side(t))
      /\ Lim(Side(t)) <= tail["cons"] + Capacity /\ Lim(Side(t)) \in Nat
  BY Order, SideFacts DEF IndexInv
<1>4. /\ old_head[t] + j \in Nat
      /\ tail[Side(t)] <= old_head[t] + j /\ old_head[t] + j < head[Side(t)]
  BY <1>1, <1>2, <1>3
<1>5. tail["cons"] <= old_head[t] + j /\ old_head[t] + j < tail["cons"] + Capacity
  BY <1>3, <1>4, Constants
<1> QED  BY <1>1, <1>3, <1>4, <1>5, SideFacts

LEMMA SlotsDiffer ==
    ASSUME NEW x \in Nat, NEW y \in Nat, NEW b \in Nat, x # y,
           b <= x, x < b + Capacity, b <= y, y < b + Capacity
    PROVE  Slot(x) # Slot(y)
<1>1. -Size < x - y /\ x - y < Size  BY Constants
<1> QED  BY <1>1, SlotEqual

LEMMA NotShared ==
    ASSUME TypeOK, IndexInv, NEW t \in Threads, NEW u \in Threads, t # u,
           Working(t), Working(u), NEW j \in Offsets(t), NEW k \in Offsets(u)
    PROVE  Slot(old_head[t] + j) # Slot(old_head[u] + k)
<1>1. PICK x \in Nat : x = old_head[t] + j  BY Window
<1>2. PICK y \in Nat : y = old_head[u] + k  BY Window
<1>3. PICK b \in Nat : b = tail["cons"]  BY Window
<1>4. b <= x /\ x < b + Capacity  BY <1>1, <1>3, Window
<1>5. b <= y /\ y < b + Capacity  BY <1>2, <1>3, Window
<1>6. x # y
  <2>1. CASE Side(t) = Side(u)
    <3>1. old_head[t] + n[t] <= old_head[u] \/ old_head[u] + n[u] <= old_head[t]
      BY <2>1 DEF IndexInv, Apart
    <3>2. /\ n[t] \in Nat /\ n[u] \in Nat /\ old_head[t] \in Nat /\ old_head[u] \in Nat
          /\ j \in Nat /\ j < n[t] /\ k \in Nat /\ k < n[u]
      BY DEF TypeOK, Offsets
    <3> QED  BY <1>1, <1>2, <3>1, <3>2
  <2>2. CASE t \in Producers /\ u \in Consumers
    <3>1. tail["prod"] <= x /\ y < head["cons"]  BY <1>1, <1>2, <2>2, Window
    <3>2. head["cons"] <= tail["prod"] /\ head["cons"] \in Nat /\ tail["prod"] \in Nat
      BY DEF IndexInv, IndexOrder, TypeOK, Sides
    <3> QED  BY <3>1, <3>2
  <2>3. CASE t \in Consumers /\ u \in Producers
    <3>1. tail["prod"] <= y /\ x < head["cons"]  BY <1>1, <1>2, <2>3, Window
    <3>2. head["cons"] <= tail["prod"] /\ head["cons"] \in Nat /\ tail["prod"] \in Nat
      BY DEF IndexInv, IndexOrder, TypeOK, Sides
    <3> QED  BY <3>1, <3>2
  <2> QED  BY <2>1, <2>2, <2>3, SideFacts
<1>7. Slot(x) # Slot(y)  BY <1>4, <1>5, <1>6, SlotsDiffer
<1> QED  BY <1>1, <1>2, <1>7

LEMMA InitOK == Init => IInv
<1> SUFFICES ASSUME Init PROVE IInv  OBVIOUS
<1>1. TypeOK
  <2>1. \A t \in Threads : obj_table[t] = IF t \in Producers THEN 1 ELSE <<>>
    BY DEF Init
  <2>2. \A p \in Producers : obj_table[p] \in Nat  BY <2>1, SideFacts DEF Threads
  <2>3. \A c \in Consumers : obj_table[c] = <<>>  BY <2>1, SideFacts DEF Threads
  <2>4. \A c \in Consumers : obj_table[c] \in Seq(Nat)  BY <2>3, EmptySeq
  <2>5. DOMAIN obj_table = Threads  BY DEF Init
  <2>6. /\ \A t \in Threads : Start \in Nat /\ 0 \in Nat /\ "fixed" \in Behaviors
        /\ None \in Nat /\ offered \in 0 .. MaxObjs
    BY BoundAssumption DEF Init, None, Behaviors
  <2>7. /\ head \in [Sides -> Nat] /\ tail \in [Sides -> Nat]
        /\ ring \in [Slots -> Nat] /\ log \in [Slots -> Nat]
    BY <2>6, BoundAssumption DEF Init
  <2>8. /\ pc \in [Threads -> {"idle", "head", "entries", "cas", "copy", "tail"}]
        /\ max \in [Threads -> Nat] /\ behavior \in [Threads -> Behaviors]
        /\ old_head \in [Threads -> Nat] /\ n \in [Threads -> Nat]
        /\ entries \in [Threads -> Nat] /\ i \in [Threads -> Nat]
    BY <2>6, BoundAssumption DEF Init, Behaviors
  <2> QED  BY <2>2, <2>4, <2>5, <2>6, <2>7, <2>8 DEF TypeOK
<1>2. IndexOrder  BY BoundAssumption, Constants DEF Init, IndexOrder, Sides
<1>3. \A t \in Threads : Locals(t) /\ Alone(t) /\ ~Working(t)
  BY SideFacts DEF Init, Locals, Alone, Working
<1>4. SlotsHold  BY BoundAssumption DEF Init, SlotsHold, Sides
<1> QED
  BY <1>1, <1>2, <1>3, <1>4 DEF IInv, IndexInv, DataInv, Apart, Wrote, Took, Threads

-----------------------------------------------------------------------------
(* Steps that leave the ring alone: the beginning of a call and its        *)
(* reading of the indexes.                                                 *)
Same(u) ==
    /\ pc'[u] = pc[u] /\ max'[u] = max[u] /\ old_head'[u] = old_head[u]
    /\ n'[u] = n[u] /\ i'[u] = i[u] /\ obj_table'[u] = obj_table[u]

LEMMA SameOK ==
    ASSUME NEW u \in Threads, Same(u), head' = head, tail' = tail
    PROVE  /\ Locals(u) => Locals(u)'
           /\ Alone(u) => Alone(u)'
           /\ Working(u)' <=> Working(u)
BY DEF Same, Locals, Alone, Working, Lim, Side, single

LEMMA PrivateOK ==
    ASSUME IInv, NEW t \in Threads, UNCHANGED <<head, tail, ring, log>>,
           \A u \in Threads : u # t => Same(u),
           ~Working(t)', Locals(t)', Alone(t)'
    PROVE  IndexInv' /\ DataInv'
<1>1. IndexOrder' /\ SlotsHold'
  BY DEF IInv, IndexInv, DataInv, IndexOrder, SlotsHold, Slot, U32
<1>2. \A u \in Threads : Locals(u)' /\ Alone(u)'
  BY SameOK DEF IInv, IndexInv
<1>3. \A u \in Threads : Working(u)' => u # t /\ Working(u) /\ Same(u)  BY SameOK
<1>4. \A u, v \in Threads : Apart(u, v)'
  <2> SUFFICES ASSUME NEW u \in Threads, NEW v \in Threads, u # v, Side(u) = Side(v),
                      Working(u)', Working(v)'
               PROVE  (\/ old_head[u] + n[u] <= old_head[v]
                       \/ old_head[v] + n[v] <= old_head[u])'
    BY DEF Apart, Side
  <2>1. Apart(u, v) /\ Working(u) /\ Working(v) /\ Same(u) /\ Same(v)
    BY <1>3 DEF IInv, IndexInv
  <2> QED  BY <2>1 DEF Apart, Same
<1>5. \A p \in Producers : Wrote(p)'
  <2> SUFFICES ASSUME NEW p \in Producers, Working(p)' PROVE Wrote(p)'
    BY DEF Wrote
  <2>1. Working(p) /\ Same(p)  BY <1>3 DEF Threads
  <2>2. Wrote(p)  BY DEF IInv, DataInv
  <2> QED  BY <2>1, <2>2 DEF Wrote, Same, Offsets, Slot, U32
<1>6. \A c \in Consumers : Took(c)'
  <2> SUFFICES ASSUME NEW c \in Consumers, Working(c)' PROVE Took(c)'
    BY DEF Took
  <2>1. Working(c) /\ Same(c)  BY <1>3 DEF Threads
  <2>2. Took(c)  BY DEF IInv, DataInv
  <2> QED  BY <2>1, <2>2 DEF Took, Same, Slot, U32
<1> QED  BY <1>1, <1>2, <1>4, <1>5, <1>6 DEF IndexInv, DataInv

LEMMA EnqueueOK ==
    ASSUME IInv, NEW t \in Threads, Enqueue(t)
    PROVE  IInv'
<1>1. PICK a \in Calls : /\ offered + a.n <= MaxObjs
                         /\ max' = [max EXCEPT ![t] = a.n]
                         /\ behavior' = [behavior EXCEPT ![t] = a.behavior]
                         /\ offered' = offered + a.n
  BY DEF Enqueue
<1>2. /\ t \in Producers /\ pc[t] = "idle"
      /\ obj_table' = [obj_table EXCEPT ![t] = offered + 1]
      /\ pc' = [pc EXCEPT ![t] = "head"]
      /\ UNCHANGED <<head, tail, ring, log>> /\ UNCHANGED <<old_head, n, entries, i>>
  BY DEF Enqueue
<1>3. a.n \in Nat /\ a.n >= 1 /\ a.behavior \in Behaviors  BY CallAssumption
<1>4. offered' \in 0 .. MaxObjs /\ offered + 1 \in Nat
  BY <1>1, <1>3, BoundAssumption DEF IInv, TypeOK
<1>5. TypeOK'
  BY <1>1, <1>2, <1>3, <1>4, SideFacts DEF IInv, TypeOK, Threads
<1>6. \A u \in Threads : u # t => Same(u)  BY <1>1, <1>2 DEF IInv, TypeOK, Same
<1>7. pc'[t] = "head" /\ max'[t] = a.n  BY <1>1, <1>2 DEF IInv, TypeOK
<1>8. Locals(t)' /\ ~Working(t)'  BY <1>3, <1>7 DEF Locals, Working
<1>9. Alone(t)'  BY <1>2, <1>7 DEF Alone, Working, IInv, IndexInv, Side, single
<1> QED  BY <1>2, <1>5, <1>6, <1>8, <1>9, PrivateOK DEF IInv

LEMMA DequeueOK ==
    ASSUME IInv, NEW t \in Threads, Dequeue(t)
    PROVE  IInv'
<1>1. PICK a \in Calls : /\ max' = [max EXCEPT ![t] = a.n]
                         /\ behavior' = [behavior EXCEPT ![t] = a.behavior]
  BY DEF Dequeue
<1>2. /\ t \in Consumers /\ pc[t] = "idle" /\ pc' = [pc EXCEPT ![t] = "head"]
      /\ UNCHANGED <<head, tail, ring, log>>
      /\ UNCHANGED <<old_head, n, entries, i, obj_table, offered>>
  BY DEF Dequeue
<1>3. a.n \in Nat /\ a.n >= 1 /\ a.behavior \in Behaviors  BY CallAssumption
<1>5. TypeOK'  BY <1>1, <1>2, <1>3 DEF IInv, TypeOK
<1>6. \A u \in Threads : u # t => Same(u)  BY <1>1, <1>2 DEF IInv, TypeOK, Same
<1>7. pc'[t] = "head" /\ max'[t] = a.n  BY <1>1, <1>2 DEF IInv, TypeOK
<1>8. Locals(t)' /\ ~Working(t)'  BY <1>3, <1>7 DEF Locals, Working
<1>9. Alone(t)'  BY <1>2, <1>7 DEF Alone, Working, IInv, IndexInv, Side, single
<1> QED  BY <1>2, <1>5, <1>6, <1>8, <1>9, PrivateOK DEF IInv

LEMMA ReadHeadOK ==
    ASSUME IInv, NEW t \in Threads, ReadHead(t)
    PROVE  IInv'
<1>1. /\ pc[t] = "head" /\ pc' = [pc EXCEPT ![t] = "entries"]
      /\ old_head' = [old_head EXCEPT ![t] = head[Side(t)]]
      /\ UNCHANGED <<head, tail, ring, log>>
      /\ UNCHANGED <<max, behavior, n, entries, i, obj_table, offered>>
  BY DEF ReadHead, local
<1>2. head[Side(t)] \in Nat  BY SideFacts DEF IInv, TypeOK
<1>3. TypeOK'  BY <1>1, <1>2 DEF IInv, TypeOK
<1>4. \A u \in Threads : u # t => Same(u)  BY <1>1 DEF IInv, TypeOK, Same
<1>5. pc'[t] = "entries" /\ old_head'[t] = head[Side(t)] /\ max'[t] = max[t] /\ max[t] >= 1
  BY <1>1 DEF IInv, TypeOK, IndexInv, Locals
<1>6. head[Side(t)] + Capacity < head[Side(t)] + Modulus  BY <1>2, Constants
<1>7. Locals(t)' /\ ~Working(t)'  BY <1>1, <1>2, <1>5, <1>6 DEF Locals, Working, Side
<1>8. Alone(t)'  BY <1>1, <1>5 DEF Alone, Working, IInv, IndexInv, Side, single
<1> QED  BY <1>1, <1>3, <1>4, <1>7, <1>8, PrivateOK DEF IInv

\* The entries computed modulo 2^32 are exact, for the head that was read.
LEMMA EntriesExact ==
    ASSUME TypeOK, IndexInv, NEW t \in Threads, pc[t] \in {"entries", "cas"}
    PROVE  /\ Lim(Side(t)) - old_head[t] \in Nat
           /\ (IF t \in Producers THEN free_entries(old_head[t]) ELSE used_entries(old_head[t]))
                = Lim(Side(t)) - old_head[t]
<1>1. /\ old_head[t] <= head[Side(t)] /\ head[Side(t)] + Capacity < old_head[t] + Modulus
      /\ old_head[t] \in Nat
  BY DEF IndexInv, Locals, TypeOK
<1>2. /\ head[Side(t)] \in Nat /\ Lim(Side(t)) \in Nat /\ tail[Side(t)] \in Nat
      /\ tail["cons"] \in Nat /\ tail["cons"] <= tail[Side(t)] /\ tail[Side(t)] <= head[Side(t)]
      /\ head[Side(t)] <= Lim(Side(t)) /\ Lim(Side(t)) <= tail["cons"] + Capacity
  BY SideFacts, Order DEF IndexInv
<1>3. PICK d \in Nat : d = Lim(Side(t)) - old_head[t]  BY <1>1, <1>2
<1>4. d < Modulus  BY <1>1, <1>2, <1>3, Constants
<1>5. d % Modulus = d  BY <1>4, Constants, ModSmall
<1>6. CASE t \in Producers
  <2>1. Capacity + tail["cons"] - old_head[t] = d
    BY <1>1, <1>2, <1>3, <1>6, SideFacts, Constants DEF Lim
  <2> QED  BY <1>3, <1>5, <1>6, <2>1 DEF free_entries, U32
<1>7. CASE t \notin Producers
  <2>1. tail["prod"] - old_head[t] = d  BY <1>3, <1>7, SideFacts DEF Lim
  <2> QED  BY <1>3, <1>5, <1>7, <2>1 DEF used_entries, U32
<1> QED  BY <1>6, <1>7

\* What an lcore does when it returns.
LEMMA ReturnOK ==
    ASSUME TypeOK, NEW t \in Threads, Return(t), UNCHANGED <<ring, log, offered>>,
           head' \in [Sides -> Nat], tail' \in [Sides -> Nat], UNCHANGED obj_table
    PROVE  /\ TypeOK' /\ pc'[t] = "idle"
           /\ \A u \in Threads : u # t => Same(u)
BY BoundAssumption DEF TypeOK, Return, Same, Behaviors

LEMMA ReadTailOK ==
    ASSUME IInv, NEW t \in Threads, ReadTail(t)
    PROVE  IInv'
<1>0. /\ pc[t] = "entries" /\ UNCHANGED <<head, tail, ring, log>>
      /\ UNCHANGED <<obj_table, offered>>
  BY DEF ReadTail
<1>1. PICK e \in Nat : e = Lim(Side(t)) - old_head[t]  BY <1>0, EntriesExact DEF IInv
<1>2. e = IF t \in Producers THEN free_entries(old_head[t]) ELSE used_entries(old_head[t])
  BY <1>0, <1>1, EntriesExact DEF IInv
<1>3. max[t] \in Nat /\ old_head[t] \in Nat /\ Lim(Side(t)) \in Nat
  BY SideFacts, Order DEF IInv, TypeOK, IndexInv
<1>4. PICK g \in Nat : g = Grant(max[t], behavior[t], e)  BY <1>3 DEF Grant
<1>5. g <= e  BY <1>3, <1>4 DEF Grant
<1>6. CASE g = 0 /\ Return(t)
  <2>1. /\ TypeOK' /\ pc'[t] = "idle" /\ \A u \in Threads : u # t => Same(u)
    BY <1>0, <1>6, ReturnOK DEF IInv, TypeOK
  <2>2. Locals(t)' /\ ~Working(t)'  BY <2>1 DEF Locals, Working
  <2>3. Alone(t)'  BY <1>0, <2>1 DEF Alone, Working, IInv, IndexInv, Side, single
  <2> QED  BY <1>0, <2>1, <2>2, <2>3, PrivateOK DEF IInv
<1>7. CASE /\ g # 0 /\ entries' = [entries EXCEPT ![t] = e]
           /\ n' = [n EXCEPT ![t] = g] /\ pc' = [pc EXCEPT ![t] = "cas"]
           /\ UNCHANGED <<local, old_head, i>>
  <2>1. TypeOK'  BY <1>0, <1>7 DEF IInv, TypeOK, local
  <2>2. \A u \in Threads : u # t => Same(u)  BY <1>0, <1>7 DEF IInv, TypeOK, Same, local
  <2>3. /\ pc'[t] = "cas" /\ n'[t] = g /\ old_head'[t] = old_head[t] /\ max'[t] = max[t]
        /\ Lim(Side(t))' = Lim(Side(t)) /\ head'[Side(t)] = head[Side(t)]
    BY <1>0, <1>7 DEF IInv, TypeOK, local, Lim, Side
  <2>4. old_head[t] + g <= Lim(Side(t)) /\ g >= 1  BY <1>1, <1>3, <1>5, <1>7
  <2>5. ~Working(t)'  BY <2>3 DEF Working
  <2>6. Locals(t)'
    <3>1. /\ max[t] >= 1 /\ old_head[t] <= head[Side(t)]
          /\ head[Side(t)] + Capacity < old_head[t] + Modulus
      BY <1>0 DEF IInv, IndexInv, Locals
    <3>2. Side(t)' = Side(t)  BY DEF Side
    <3>3. (old_head[t] + n[t] <= Lim(Side(t)))'  BY <2>3, <2>4
    <3> QED  BY <2>3, <2>4, <2>5, <3>1, <3>2, <3>3 DEF Locals
  <2>7. Alone(t)'  BY <1>0, <2>3 DEF Alone, Working, IInv, IndexInv, Side, single
  <2> QED  BY <1>0, <2>1, <2>2, <2>5, <2>6, <2>7, PrivateOK DEF IInv
<1> QED  BY <1>2, <1>4, <1>6, <1>7 DEF ReadTail

LEMMA RetryOK ==
    ASSUME IInv, NEW t \in Threads, pc[t] = "cas", pc' = [pc EXCEPT ![t] = "head"],
           n' = [n EXCEPT ![t] = 0], entries' = [entries EXCEPT ![t] = 0],
           UNCHANGED <<head, tail, ring, local, old_head, i, obj_table, offered, log>>
    PROVE  IInv'
<1>1. TypeOK'  BY DEF IInv, TypeOK, local
<1>2. \A u \in Threads : u # t => Same(u)  BY DEF IInv, TypeOK, Same, local
<1>3. pc'[t] = "head" /\ max'[t] = max[t] /\ max[t] >= 1
  BY DEF IInv, TypeOK, local, IndexInv, Locals
<1>4. Locals(t)' /\ ~Working(t)'  BY <1>3 DEF Locals, Working
<1>5. Alone(t)'  BY <1>3 DEF Alone, Working, IInv, IndexInv, Side, single
<1> QED  BY <1>1, <1>2, <1>4, <1>5, PrivateOK DEF IInv

-----------------------------------------------------------------------------
(* The move of the head.                                                   *)

\* A compare-and-set that succeeds modulo 2^32 found the very head that was read.
LEMMA HeadIsOld ==
    ASSUME IInv, NEW t \in Threads, pc[t] = "cas",
           single(t) \/ U32(head[Side(t)]) = U32(old_head[t])
    PROVE  head[Side(t)] = old_head[t]
<1>1. CASE single(t)  BY <1>1 DEF IInv, IndexInv, Alone
<1>2. CASE U32(head[Side(t)]) = U32(old_head[t])
  <2>1. PICK x \in Nat : x = head[Side(t)]  BY SideFacts DEF IInv, TypeOK
  <2>2. PICK y \in Nat : y = old_head[t]  BY DEF IInv, TypeOK
  <2>3. y <= x /\ x + Capacity < y + Modulus  BY <2>1, <2>2 DEF IInv, IndexInv, Locals
  <2>4. x % Modulus = y % Modulus  BY <1>2, <2>1, <2>2 DEF U32
  <2>5. -Modulus < x - y /\ x - y < Modulus  BY <2>3, Constants
  <2> QED  BY <2>1, <2>2, <2>4, <2>5, Constants, ModEqual
<1> QED  BY <1>1, <1>2

LEMMA ClaimIndexOK ==
    ASSUME IInv, NEW t \in Threads, pc[t] = "cas", head[Side(t)] = old_head[t], Claim(t)
    PROVE  IndexInv'
<1>0. PICK s \in Sides : s = Side(t)  BY SideFacts
<1>1. /\ head' = [head EXCEPT ![s] = old_head[t] + n[t]]
      /\ i' = [i EXCEPT ![t] = 0] /\ pc' = [pc EXCEPT ![t] = "copy"]
      /\ UNCHANGED <<tail, max, old_head, n>> /\ NoLap(t)
  BY <1>0 DEF Claim, local
<1>2. /\ old_head[t] \in Nat /\ n[t] \in Nat /\ n[t] >= 1 /\ old_head[t] + n[t] <= Lim(s)
      /\ max[t] >= 1 /\ head[s] = old_head[t]
  BY <1>0 DEF IInv, TypeOK, IndexInv, Locals
<1>3. /\ head'[s] = old_head[t] + n[t] /\ pc'[t] = "copy" /\ i'[t] = 0
      /\ \A r \in Sides : r # s => head'[r] = head[r]
      /\ \A u \in Threads : u # t => pc'[u] = pc[u] /\ i'[u] = i[u]
  BY <1>1 DEF IInv, TypeOK
<1>4. IndexOrder'
  <2>1. /\ tail["cons"] \in Nat /\ head["cons"] \in Nat /\ tail["prod"] \in Nat
        /\ head["prod"] \in Nat
    BY DEF IInv, TypeOK, Sides
  <2>2. CASE s = "prod"
    <3>1. head'["prod"] = old_head[t] + n[t] /\ head'["cons"] = head["cons"]
      BY <1>3, <2>2 DEF Sides
    <3> QED  BY <1>1, <1>2, <2>1, <2>2, <3>1, Constants DEF IInv, IndexInv, IndexOrder, Lim
  <2>3. CASE s = "cons"
    <3>1. head'["cons"] = old_head[t] + n[t] /\ head'["prod"] = head["prod"]
      BY <1>3, <2>3 DEF Sides
    <3> QED  BY <1>1, <1>2, <2>1, <2>3, <3>1, Constants DEF IInv, IndexInv, IndexOrder, Lim
  <2> QED  BY <2>2, <2>3 DEF Sides
<1>5. ASSUME NEW u \in Threads PROVE Locals(u)' /\ Alone(u)'
  <2>0. /\ Locals(u) /\ Alone(u) /\ Side(u)' = Side(u) /\ single(u)' = single(u)
        /\ Lim(Side(u))' = Lim(Side(u)) /\ Side(u) \in Sides
    BY <1>1, SideFacts DEF IInv, IndexInv, Side, single, Lim
  <2>1. CASE u = t
    <3>1. Working(t)' /\ tail[s] <= old_head[t] /\ tail[s] \in Nat /\ 0 < n[t]
      BY <1>2, <1>3, Order DEF Working, IInv, IndexInv
    <3>2. Locals(t)'  BY <1>0, <1>1, <1>2, <1>3, <2>0, <2>1, <3>1 DEF Locals
    <3>3. single(t) => tail[s] = old_head[t]
      BY <1>0, <1>2 DEF IInv, IndexInv, Alone, Working
    <3>4. Alone(t)'  BY <1>0, <1>1, <1>3, <2>0, <2>1, <3>1, <3>3 DEF Alone, Working
    <3> QED  BY <2>1, <3>2, <3>4
  <2>2. CASE u # t /\ Side(u) # s
    <3>1. head'[Side(u)] = head[Side(u)] /\ tail'[Side(u)] = tail[Side(u)]
      BY <1>1, <1>3, <2>0, <2>2
    <3>2. Working(u)' <=> Working(u)  BY <1>3, <2>2 DEF Working
    <3> QED  BY <1>1, <1>3, <2>0, <2>2, <3>1, <3>2 DEF Locals, Alone
  <2>3. CASE u # t /\ Side(u) = s
    <3>1. Working(u)' <=> Working(u)  BY <1>3, <2>3 DEF Working
    <3>2. pc[u] \in {"entries", "cas"} =>
            /\ old_head[u] <= head'[s] /\ head'[s] + Capacity < old_head[u] + Modulus
      <4> SUFFICES ASSUME pc[u] \in {"entries", "cas"}
                   PROVE old_head[u] <= head'[s] /\ head'[s] + Capacity < old_head[u] + Modulus
        OBVIOUS
      <4>1. old_head[t] + n[t] + Capacity < old_head[u] + Modulus
        BY <1>0, <1>1, <2>3 DEF NoLap
      <4>2. old_head[u] <= head[s] /\ old_head[u] \in Nat
        BY <2>0, <2>3 DEF Locals, IInv, TypeOK
      <4> QED  BY <1>2, <1>3, <4>1, <4>2
    <3>3. Working(u) => old_head[u] + n[u] <= head'[s]
      <4>1. Working(u) => old_head[u] + n[u] <= head[s]  BY <2>0, <2>3 DEF Locals
      <4>2. old_head[u] \in Nat /\ n[u] \in Nat  BY DEF IInv, TypeOK
      <4> QED  BY <1>2, <1>3, <4>1, <4>2
    <3>4. ~single(u)
      <4>1. t \in Producers <=> u \in Producers  BY <1>0, <2>3, SideFacts
      <4> QED  BY <2>3, <4>1, SideFacts DEF single
    <3>5. Alone(u)'  BY <2>0, <3>4 DEF Alone
    <3>6. Locals(u)'  BY <1>1, <1>3, <2>0, <2>3, <3>1, <3>2, <3>3 DEF Locals
    <3> QED  BY <3>5, <3>6
  <2> QED  BY <2>1, <2>2, <2>3
<1>6. ASSUME NEW u \in Threads, u # t, Side(u) = Side(t), Working(u)
      PROVE  old_head[u] + n[u] <= old_head[t]
  BY <1>0, <1>2, <1>6 DEF IInv, IndexInv, Locals
<1>7. ASSUME NEW u \in Threads, NEW v \in Threads PROVE Apart(u, v)'
  <2> SUFFICES ASSUME u # v, Side(u) = Side(v), Working(u)', Working(v)'
               PROVE  \/ old_head[u] + n[u] <= old_head[v]
                      \/ old_head[v] + n[v] <= old_head[u]
    BY <1>1 DEF Apart, Side
  <2>1. u # t => Working(u)  BY <1>3 DEF Working
  <2>2. v # t => Working(v)  BY <1>3 DEF Working
  <2>3. CASE u = t  BY <1>6, <2>2, <2>3
  <2>4. CASE v = t  BY <1>6, <2>1, <2>4
  <2>5. CASE u # t /\ v # t  BY <2>1, <2>2, <2>5 DEF IInv, IndexInv, Apart
  <2> QED  BY <2>3, <2>4, <2>5
<1> QED  BY <1>4, <1>5, <1>7 DEF IndexInv

\* The slots a producer claims are not those of an older position.
LEMMA ClaimFresh ==
    ASSUME IInv, NEW t \in Producers, pc[t] = "cas", head["prod"] = old_head[t],
           NEW x \in Nat, tail["cons"] <= x, x < head["prod"]
    PROVE  ~ClaimedBy(t, Slot(x))
<1> SUFFICES ASSUME NEW k \in Offsets(t), Slot(x) = Slot(old_head[t] + k) PROVE FALSE
  BY DEF ClaimedBy
<1>0. t \in Threads /\ Side(t) = "prod"  BY SideFacts DEF Threads
<1>1. /\ old_head[t] \in Nat /\ n[t] \in Nat /\ k \in Nat /\ k < n[t]
      /\ old_head[t] + n[t] <= tail["cons"] + Capacity
  BY <1>0 DEF IInv, TypeOK, IndexInv, Locals, Offsets, Lim
<1>2. PICK y \in Nat : y = old_head[t] + k  BY <1>1
<1>3. PICK b \in Nat : b = tail["cons"]  BY DEF IInv, TypeOK, Sides
<1>4. x # y /\ b <= x /\ x < b + Capacity /\ b <= y /\ y < b + Capacity
  BY <1>1, <1>2, <1>3, Constants
<1> QED  BY <1>2, <1>4, SlotsDiffer

\* The object that the history records for a slot that is claimed.
LEMMA ClaimLogs ==
    ASSUME IInv, NEW t \in Producers, pc[t] = "cas", head["prod"] = old_head[t],
           NEW k \in Offsets(t)
    PROVE  /\ ClaimedBy(t, Slot(old_head[t] + k))
           /\ k = CHOOSE j \in Offsets(t) : Slot(old_head[t] + k) = Slot(old_head[t] + j)
<1>1. ASSUME NEW j \in Offsets(t), Slot(old_head[t] + k) = Slot(old_head[t] + j)
      PROVE  j = k
  <2>0. t \in Threads /\ Side(t) = "prod"  BY SideFacts DEF Threads
  <2>1. /\ old_head[t] \in Nat /\ n[t] \in Nat /\ k \in Nat /\ k < n[t] /\ j \in Nat /\ j < n[t]
        /\ old_head[t] + n[t] <= tail["cons"] + Capacity
    BY <2>0 DEF IInv, TypeOK, IndexInv, Locals, Offsets, Lim
  <2>2. PICK x \in Nat : x = old_head[t] + k  BY <2>1
  <2>3. PICK y \in Nat : y = old_head[t] + j  BY <2>1
  <2>4. PICK b \in Nat : b = tail["cons"]  BY DEF IInv, TypeOK, Sides
  <2>5. b <= old_head[t]
    <3>1. "prod" \in Sides  BY DEF Sides
    <3> QED  BY <2>4, <3>1, <2>1, Order DEF IInv, IndexInv
  <2>6. b <= x /\ x < b + Capacity /\ b <= y /\ y < b + Capacity
    BY <2>1, <2>2, <2>3, <2>4, <2>5, Constants
  <2>7. x = y  BY <1>1, <2>2, <2>3, <2>6, SlotsDiffer
  <2> QED  BY <2>1, <2>2, <2>3, <2>7
<1>2. PICK j : j = CHOOSE c \in Offsets(t) : Slot(old_head[t] + k) = Slot(old_head[t] + c)
  OBVIOUS
<1>3. j \in Offsets(t) /\ Slot(old_head[t] + k) = Slot(old_head[t] + j)  BY <1>2
<1>4. j = k  BY <1>1, <1>3
<1> QED  BY <1>2, <1>4 DEF ClaimedBy

LEMMA LogStable ==
    ASSUME IInv, NEW t \in Threads, pc[t] = "cas", head[Side(t)] = old_head[t], Claim(t),
           NEW x \in Nat, tail["cons"] <= x, x < head["prod"]
    PROVE  log'[Slot(x)] = log[Slot(x)]
<1>1. Slot(x) \in Slots  BY SlotOf
<1>2. t \in Producers => ~ClaimedBy(t, Slot(x))  BY ClaimFresh, SideFacts
<1> QED  BY <1>1, <1>2 DEF Claim

LEMMA ClaimDataOK ==
    ASSUME IInv, NEW t \in Threads, pc[t] = "cas", head[Side(t)] = old_head[t], Claim(t)
    PROVE  DataInv'
<1>1. /\ i' = [i EXCEPT ![t] = 0] /\ pc' = [pc EXCEPT ![t] = "copy"]
      /\ obj_table' = [obj_table EXCEPT ![t] = IF t \in Producers THEN obj_table[t] ELSE <<>>]
      /\ UNCHANGED <<tail, ring, max, old_head, n>>
  BY DEF Claim, local, IInv, TypeOK
<1>2. /\ \A u \in Threads : u # t => pc'[u] = pc[u] /\ i'[u] = i[u] /\ obj_table'[u] = obj_table[u]
      /\ i'[t] = 0 /\ pc'[t] = "copy"
      /\ obj_table'[t] = IF t \in Producers THEN obj_table[t] ELSE <<>>
  BY <1>1 DEF IInv, TypeOK
<1>3. /\ tail["cons"] \in Nat /\ head["cons"] \in Nat /\ tail["prod"] \in Nat
      /\ head["prod"] \in Nat /\ head["cons"] <= tail["prod"] /\ tail["prod"] <= head["prod"]
  BY DEF IInv, TypeOK, Sides, IndexInv, IndexOrder
<1>4. SlotsHold'
  <2> SUFFICES ASSUME NEW x \in tail["cons"] .. tail["prod"] - 1
               PROVE  ring[Slot(x)] = log'[Slot(x)]
    BY <1>1 DEF SlotsHold, Slot, U32
  <2>1. x \in Nat /\ tail["cons"] <= x /\ x < head["prod"]  BY <1>3
  <2> QED  BY <2>1, LogStable DEF IInv, DataInv, SlotsHold
<1>5. ASSUME NEW p \in Producers PROVE Wrote(p)'
  <2>0. p \in Threads  BY DEF Threads
  <2>1. CASE p = t
    <3>1. head["prod"] = old_head[t]  BY <2>1, SideFacts
    <3>2. ASSUME NEW k \in Offsets(t) PROVE log'[Slot(old_head[t] + k)] = obj_table[t] + k
      <4>1. PICK s \in Slots : s = Slot(old_head[t] + k)
        <5>1. old_head[t] + k \in Nat  BY DEF IInv, TypeOK, Offsets
        <5> QED  BY <5>1, SlotOf
      <4>2. /\ ClaimedBy(t, s)
            /\ k = CHOOSE j \in Offsets(t) : s = Slot(old_head[t] + j)
        BY <2>1, <3>1, <4>1, ClaimLogs
      <4> QED  BY <2>1, <4>1, <4>2 DEF Claim
    <3>3. 0 .. i'[t] - 1 = {}  BY <1>2
    <3> QED  BY <1>1, <1>2, <2>1, <3>2, <3>3 DEF Wrote, Offsets, Slot, U32
  <2>2. CASE p # t /\ ~Working(p)  BY <1>2, <2>0, <2>2 DEF Wrote, Working
  <2>3. CASE p # t /\ Working(p)
    <3>1. Wrote(p) /\ i[p] \in Nat /\ n[p] \in Nat /\ i[p] <= n[p]
      BY <2>0, <2>3 DEF IInv, DataInv, TypeOK, IndexInv, Locals, Working
    <3>2. ASSUME NEW k \in Offsets(p)
          PROVE  log'[Slot(old_head[p] + k)] = log[Slot(old_head[p] + k)]
      <4>1. old_head[p] + k \in Nat /\ tail["cons"] <= old_head[p] + k
        BY <2>0, <2>3, Window DEF IInv
      <4>2. old_head[p] + k < head["prod"]
        <5>1. old_head[p] + n[p] <= head["prod"]
          BY <2>0, <2>3, SideFacts DEF IInv, IndexInv, Locals
        <5>2. old_head[p] \in Nat /\ n[p] \in Nat /\ k \in Nat /\ k < n[p]
          BY <2>0 DEF IInv, TypeOK, Offsets
        <5> QED  BY <1>3, <5>1, <5>2
      <4> QED  BY <4>1, <4>2, LogStable
    <3>3. \A k \in 0 .. i[p] - 1 : k \in Offsets(p)  BY <3>1 DEF Offsets
    <3> QED  BY <1>1, <1>2, <2>0, <2>3, <3>1, <3>2, <3>3 DEF Wrote, Offsets, Slot, U32
  <2> QED  BY <2>1, <2>2, <2>3
<1>6. ASSUME NEW c \in Consumers PROVE Took(c)'
  <2>0. c \in Threads /\ c \notin Producers  BY SideFacts DEF Threads
  <2>1. CASE c = t
    <3>1. obj_table'[c] = <<>> /\ i'[c] = 0  BY <1>2, <2>0, <2>1
    <3>2. Len(obj_table'[c]) = 0 /\ 1 .. i'[c] = {}  BY <3>1
    <3> QED  BY <3>1, <3>2 DEF Took
  <2>2. CASE c # t /\ ~Working(c)  BY <1>2, <2>0, <2>2 DEF Took, Working
  <2>3. CASE c # t /\ Working(c)
    <3>1. Took(c) /\ i[c] \in Nat /\ n[c] \in Nat /\ i[c] <= n[c] /\ old_head[c] \in Nat
      BY <2>0, <2>3 DEF IInv, DataInv, TypeOK, IndexInv, Locals, Working
    <3>2. ASSUME NEW j \in 1 .. i[c]
          PROVE  log'[Slot(old_head[c] + j - 1)] = log[Slot(old_head[c] + j - 1)]
      <4>1. PICK k \in Offsets(c) : k = j - 1  BY <3>1 DEF Offsets
      <4>2. PICK x \in Nat : x = old_head[c] + k  BY <2>0, <2>3, Window DEF IInv
      <4>3. tail["cons"] <= x /\ x < head["cons"]  BY <2>0, <2>3, <4>2, Window DEF IInv
      <4>4. log'[Slot(x)] = log[Slot(x)]  BY <1>3, <4>3, LogStable
      <4>5. old_head[c] + j - 1 = x  BY <3>1, <4>1, <4>2
      <4> QED  BY <4>4, <4>5
    <3> QED  BY <1>1, <1>2, <2>0, <2>3, <3>1, <3>2 DEF Took, Slot, U32
  <2> QED  BY <2>1, <2>2, <2>3
<1> QED  BY <1>4, <1>5, <1>6 DEF DataInv

LEMMA ClaimTypeOK ==
    ASSUME IInv, NEW t \in Threads, pc[t] = "cas", head[Side(t)] = old_head[t], Claim(t)
    PROVE  TypeOK'
<1>1. /\ head' = [head EXCEPT ![Side(t)] = old_head[t] + n[t]]
      /\ i' = [i EXCEPT ![t] = 0] /\ pc' = [pc EXCEPT ![t] = "copy"]
      /\ UNCHANGED <<tail, ring, max, behavior, old_head, n, entries, offered>>
  BY DEF Claim, local
<1>2. head' \in [Sides -> Nat]
  BY <1>1, SideFacts DEF IInv, TypeOK
<1>3. log' \in [Slots -> Nat]
  <2>1. ASSUME NEW s \in Slots PROVE log'[s] \in Nat
    <3>1. CASE t \in Producers /\ ClaimedBy(t, s)
      <4>1. PICK j : j = CHOOSE k \in Offsets(t) : s = Slot(old_head[t] + k)  OBVIOUS
      <4>2. j \in Offsets(t)  BY <3>1, <4>1 DEF ClaimedBy
      <4>3. log'[s] = obj_table[t] + j  BY <3>1, <4>1 DEF Claim
      <4>4. obj_table[t] \in Nat /\ n[t] \in Nat  BY <3>1 DEF IInv, TypeOK
      <4> QED  BY <4>2, <4>3, <4>4 DEF Offsets
    <3>2. CASE ~(t \in Producers /\ ClaimedBy(t, s))
      <4>1. log'[s] = log[s]  BY <3>2 DEF Claim
      <4> QED  BY <4>1 DEF IInv, TypeOK
    <3> QED  BY <3>1, <3>2
  <2>2. log' = [s \in Slots |-> log'[s]]  BY DEF Claim
  <2> QED  BY <2>1, <2>2
<1>4. /\ \A p \in Producers : obj_table'[p] \in Nat
      /\ \A c \in Consumers : obj_table'[c] \in Seq(Nat)
      /\ DOMAIN obj_table' = Threads
  <2>1. obj_table' = [obj_table EXCEPT ![t] = IF t \in Producers THEN obj_table[t] ELSE <<>>]
    BY DEF Claim
  <2>2. DOMAIN obj_table = Threads /\ DOMAIN obj_table' = Threads  BY <2>1 DEF IInv, TypeOK
  <2>3. \A u \in Threads : u # t => obj_table'[u] = obj_table[u]  BY <2>1, <2>2
  <2>4. obj_table'[t] = IF t \in Producers THEN obj_table[t] ELSE <<>>  BY <2>1, <2>2
  <2>5. ASSUME NEW p \in Producers PROVE obj_table'[p] \in Nat
    BY <2>3, <2>4 DEF IInv, TypeOK, Threads
  <2>6. ASSUME NEW c \in Consumers PROVE obj_table'[c] \in Seq(Nat)
    <3>1. c \in Threads /\ c \notin Producers  BY SideFacts DEF Threads
    <3>2. CASE c = t
      <4>1. obj_table'[c] = <<>>  BY <2>4, <3>1, <3>2
      <4> QED  BY <4>1, EmptySeq
    <3>3. CASE c # t  BY <2>3, <3>1, <3>3 DEF IInv, TypeOK
    <3> QED  BY <3>2, <3>3
  <2> QED  BY <2>2, <2>5, <2>6
<1> QED  BY <1>1, <1>2, <1>3, <1>4 DEF IInv, TypeOK

LEMMA MoveHeadOK ==
    ASSUME IInv, NEW t \in Threads, MoveHead(t)
    PROVE  IInv'
<1>1. pc[t] = "cas"  BY DEF MoveHead
<1>2. CASE single(t) \/ U32(head[Side(t)]) = U32(old_head[t])
  <2>1. Claim(t)  BY <1>2 DEF MoveHead
  <2>2. head[Side(t)] = old_head[t]  BY <1>1, <1>2, HeadIsOld
  <2> QED  BY <1>1, <2>1, <2>2, ClaimIndexOK, ClaimDataOK, ClaimTypeOK DEF IInv
<1>3. CASE ~(single(t) \/ U32(head[Side(t)]) = U32(old_head[t]))
  BY <1>1, <1>3, RetryOK DEF MoveHead
<1> QED  BY <1>2, <1>3

-----------------------------------------------------------------------------
(* The copy of one pointer.                                                *)
LEMMA CopyIndexOK ==
    ASSUME IInv, NEW t \in Threads, pc[t] = "copy", Copied(t),
           UNCHANGED <<head, tail, max, old_head, n>>
    PROVE  /\ IndexInv'
           /\ \A u \in Threads : Working(u)' <=> Working(u)
           /\ \A u \in Threads : u # t => i'[u] = i[u]
           /\ i'[t] = i[t] + 1 /\ i[t] \in Offsets(t)
           /\ i' \in [Threads -> Nat]
           /\ pc' \in [Threads -> {"idle", "head", "entries", "cas", "copy", "tail"}]
<1>1. i[t] \in Nat /\ n[t] \in Nat /\ i[t] < n[t]
  BY DEF IInv, TypeOK, IndexInv, Locals
<1>2. /\ i'[t] = i[t] + 1 /\ pc'[t] = IF i[t] + 1 = n[t] THEN "tail" ELSE "copy"
      /\ \A u \in Threads : u # t => pc'[u] = pc[u] /\ i'[u] = i[u]
      /\ i' \in [Threads -> Nat]
      /\ pc' \in [Threads -> {"idle", "head", "entries", "cas", "copy", "tail"}]
  BY <1>1 DEF Copied, IInv, TypeOK
<1>3. \A u \in Threads : Working(u)' <=> Working(u)  BY <1>2 DEF Working
<1>4. ASSUME NEW u \in Threads PROVE Locals(u)' /\ Alone(u)'
  <2>1. Locals(u) /\ Alone(u)  BY DEF IInv, IndexInv
  <2>2. Side(u)' = Side(u) /\ Lim(Side(u))' = Lim(Side(u)) /\ single(u)' = single(u)
    BY DEF Side, Lim, single
  <2>3. CASE u = t
    <3>1. CASE i[t] + 1 = n[t]
      <4>1. pc'[t] = "tail" /\ i'[t] = n[t]  BY <1>2, <3>1
      <4> QED  BY <1>3, <2>1, <2>2, <2>3, <4>1 DEF Locals, Alone
    <3>2. CASE i[t] + 1 # n[t]
      <4>1. pc'[t] = "copy" /\ i'[t] < n[t]  BY <1>1, <1>2, <3>2
      <4> QED  BY <1>3, <2>1, <2>2, <2>3, <4>1 DEF Locals, Alone
    <3> QED  BY <3>1, <3>2
  <2>4. CASE u # t
    BY <1>2, <1>3, <2>1, <2>2, <2>4 DEF Locals, Alone
  <2> QED  BY <2>3, <2>4
<1>5. IndexOrder' /\ \A u, v \in Threads : Apart(u, v)'
  BY <1>3 DEF IInv, IndexInv, IndexOrder, Apart, Side
<1> QED  BY <1>1, <1>2, <1>3, <1>4, <1>5 DEF IndexInv, Offsets

LEMMA CopyInOK ==
    ASSUME IInv, NEW t \in Threads, CopyIn(t)
    PROVE  IInv'
<1>1. /\ t \in Producers /\ pc[t] = "copy" /\ Working(t) /\ Copied(t)
      /\ UNCHANGED <<head, tail, max, old_head, n>>
      /\ UNCHANGED <<behavior, entries, obj_table, offered, log>>
  BY DEF CopyIn, local, Working
<1>2. /\ IndexInv'
      /\ \A u \in Threads : Working(u)' <=> Working(u)
      /\ \A u \in Threads : u # t => i'[u] = i[u]
      /\ i'[t] = i[t] + 1 /\ i[t] \in Offsets(t)
      /\ i' \in [Threads -> Nat]
      /\ pc' \in [Threads -> {"idle", "head", "entries", "cas", "copy", "tail"}]
  BY <1>1, CopyIndexOK
<1>3. PICK y \in Nat : y = old_head[t] + i[t]  BY <1>1, <1>2, Window DEF IInv
<1>4. Slot(y) \in Slots /\ obj_table[t] \in Nat /\ i[t] \in Nat
  BY <1>1, SlotOf DEF IInv, TypeOK
<1>5. PICK s \in Slots : s = Slot(y)  BY <1>4
<1>6. ring' = [ring EXCEPT ![s] = obj_table[t] + i[t]]  BY <1>3, <1>5 DEF CopyIn
<1>7. TypeOK'
  <2>1. obj_table[t] + i[t] \in Nat  BY <1>4
  <2>2. ring' \in [Slots -> Nat]  BY <1>6, <2>1 DEF IInv, TypeOK
  <2> QED  BY <1>1, <1>2, <2>2 DEF IInv, TypeOK
<1>8. \A r \in Slots : r # s => ring'[r] = ring[r]  BY <1>6 DEF IInv, TypeOK
<1>9. ring'[s] = log[s]
  <2>1. ring'[s] = obj_table[t] + i[t]  BY <1>6 DEF IInv, TypeOK
  <2>2. log[Slot(old_head[t] + i[t])] = obj_table[t] + i[t]
    BY <1>1, <1>2 DEF IInv, DataInv, Wrote
  <2> QED  BY <2>1, <2>2, <1>3, <1>5
<1>10. /\ tail["cons"] \in Nat /\ tail["prod"] \in Nat
       /\ tail["prod"] <= y /\ y < tail["cons"] + Capacity
  BY <1>1, <1>2, <1>3, Window DEF IInv, TypeOK, Sides
<1>11. SlotsHold'
  <2> SUFFICES ASSUME NEW x \in tail["cons"] .. tail["prod"] - 1
               PROVE  ring'[Slot(x)] = log[Slot(x)]
    BY <1>1 DEF SlotsHold, Slot, U32
  <2>1. ring[Slot(x)] = log[Slot(x)]  BY DEF IInv, DataInv, SlotsHold
  <2>2. x \in Nat /\ x # y /\ x < tail["cons"] + Capacity /\ tail["cons"] <= y /\ tail["cons"] <= x
    BY <1>10, Constants
  <2>3. Slot(x) # Slot(y)
    <3>1. PICK b \in Nat : b = tail["cons"]  BY <1>10
    <3> QED  BY <1>10, <2>2, <3>1, SlotsDiffer
  <2>4. Slot(x) \in Slots  BY <2>2, SlotOf
  <2> QED  BY <1>5, <1>8, <2>1, <2>3, <2>4
<1>12. ASSUME NEW p \in Producers PROVE Wrote(p)'
  <2>0. p \in Threads /\ Wrote(p)  BY DEF Threads, IInv, DataInv
  <2>1. CASE ~Working(p)  BY <1>2, <2>0, <2>1 DEF Wrote
  <2>2. CASE p = t
    <3> SUFFICES ASSUME NEW k \in 0 .. i'[t] - 1
                 PROVE  ring'[Slot(old_head[t] + k)] = log[Slot(old_head[t] + k)]
      BY <1>1, <2>0, <2>2 DEF Wrote, Offsets, Slot, U32
    <3>1. CASE k = i[t]  BY <1>3, <1>5, <1>9, <3>1
    <3>2. CASE k # i[t]
      <4>1. k \in 0 .. i[t] - 1  BY <1>2, <1>4, <3>2
      <4>2. ring[Slot(old_head[t] + k)] = log[Slot(old_head[t] + k)]
        BY <1>1, <2>0, <2>2, <4>1 DEF Wrote
      <4>3. k \in Offsets(t)
        <5>1. n[t] \in Nat  BY DEF IInv, TypeOK
        <5> QED  BY <5>1, <1>2, <1>4, <4>1 DEF Offsets
      <4>4. PICK x \in Nat : x = old_head[t] + k  BY <1>1, <4>3, Window DEF IInv
      <4>5. PICK b \in Nat : b = tail["cons"]  BY <1>10
      <4>6. b <= x /\ x < b + Capacity  BY <1>1, <4>3, <4>4, <4>5, Window DEF IInv
      <4>7. b <= y  BY <1>1, <1>2, <1>3, <4>5, Window DEF IInv
      <4>8. x # y
        <5>1. old_head[t] \in Nat  BY DEF IInv, TypeOK
        <5> QED  BY <5>1, <1>3, <1>4, <4>4, <4>1
      <4>9. Slot(x) # s /\ Slot(x) \in Slots
        BY <1>5, <1>10, <4>5, <4>6, <4>7, <4>8, SlotsDiffer, SlotOf
      <4> QED  BY <1>8, <4>2, <4>4, <4>9
    <3> QED  BY <3>1, <3>2
  <2>3. CASE p # t /\ Working(p)
    <3>1. ASSUME NEW k \in 0 .. i[p] - 1
          PROVE  ring'[Slot(old_head[p] + k)] = ring[Slot(old_head[p] + k)]
      <4>1. k \in Offsets(p)
        <5>1. i[p] <= n[p] /\ i[p] \in Nat /\ n[p] \in Nat
          BY <2>0, <2>3, SMTT(30) DEF IInv, IndexInv, Locals, Working, TypeOK
        <5> QED  BY <5>1 DEF Offsets
      <4>2. old_head[p] + k \in Nat  BY <2>0, <2>3, <4>1, Window DEF IInv
      <4>3. Slot(old_head[p] + k) # Slot(old_head[t] + i[t])
        BY <1>1, <1>2, <2>0, <2>3, <4>1, NotShared DEF IInv
      <4> QED  BY <1>3, <1>5, <1>8, <4>2, <4>3, SlotOf
    <3>2. i'[p] = i[p]  BY <1>2, <2>0, <2>3
    <3> QED  BY <1>1, <2>0, <2>3, <3>1, <3>2 DEF Wrote, Offsets, Slot, U32
  <2> QED  BY <2>1, <2>2, <2>3
<1>13. ASSUME NEW c \in Consumers PROVE Took(c)'
  <2>1. c \in Threads /\ c # t /\ Took(c)  BY <1>1, SideFacts DEF Threads, IInv, DataInv
  <2> QED  BY <1>1, <1>2, <2>1 DEF Took, Slot, U32
<1> QED  BY <1>2, <1>7, <1>11, <1>12, <1>13 DEF IInv, DataInv

LEMMA CopyOutOK ==
    ASSUME IInv, NEW t \in Threads, CopyOut(t)
    PROVE  IInv'
<1>1. /\ t \in Consumers /\ pc[t] = "copy" /\ Working(t) /\ Copied(t)
      /\ UNCHANGED <<head, tail, max, old_head, n>>
      /\ UNCHANGED <<behavior, entries, ring, offered, log>>
  BY DEF CopyOut, local, Working
<1>2. /\ IndexInv'
      /\ \A u \in Threads : Working(u)' <=> Working(u)
      /\ \A u \in Threads : u # t => i'[u] = i[u]
      /\ i'[t] = i[t] + 1 /\ i[t] \in Offsets(t)
      /\ i' \in [Threads -> Nat]
      /\ pc' \in [Threads -> {"idle", "head", "entries", "cas", "copy", "tail"}]
  BY <1>1, CopyIndexOK
<1>3. PICK y \in Nat : y = old_head[t] + i[t]  BY <1>1, <1>2, Window DEF IInv
<1>4. PICK v \in Nat : v = ring[Slot(y)]  BY SlotOf DEF IInv, TypeOK
<1>5. PICK q \in Seq(Nat) : q = obj_table[t]  BY <1>1 DEF IInv, TypeOK
<1>6. /\ Append(q, v) \in Seq(Nat) /\ Len(q) = i[t] /\ Len(Append(q, v)) = i[t] + 1
      /\ Append(q, v)[i[t] + 1] = v /\ \A j \in 1 .. i[t] : Append(q, v)[j] = q[j]
  <2>1. Len(q) = i[t]  BY <1>1, <1>5 DEF IInv, DataInv, Took
  <2> QED  BY <2>1, AppendProperties
<1>7. obj_table' = [obj_table EXCEPT ![t] = Append(q, v)]
  BY <1>3, <1>4, <1>5 DEF CopyOut
<1>8. /\ \A u \in Threads : u # t => obj_table'[u] = obj_table[u]
      /\ obj_table'[t] = Append(q, v) /\ DOMAIN obj_table' = Threads
  BY <1>7 DEF IInv, TypeOK
<1>9. TypeOK'
  <2>1. t \notin Producers  BY <1>1, SideFacts
  <2>2. \A p \in Producers : obj_table'[p] \in Nat
    BY <1>8, <2>1 DEF IInv, TypeOK, Threads
  <2>3. \A c \in Consumers : obj_table'[c] \in Seq(Nat)
    BY <1>6, <1>8 DEF IInv, TypeOK, Threads
  <2> QED  BY <1>1, <1>2, <1>8, <2>2, <2>3 DEF IInv, TypeOK
<1>10. v = log[Slot(y)]
  <2>1. /\ tail["cons"] <= y /\ y < head["cons"] /\ head["cons"] <= tail["prod"]
        /\ tail["cons"] \in Nat /\ head["cons"] \in Nat /\ tail["prod"] \in Nat
    BY <1>1, <1>2, <1>3, Window DEF IInv, IndexInv, IndexOrder, TypeOK, Sides
  <2>2. y \in tail["cons"] .. tail["prod"] - 1  BY <2>1
  <2> QED  BY <1>4, <2>2 DEF IInv, DataInv, SlotsHold
<1>11. SlotsHold'  BY <1>1 DEF IInv, DataInv, SlotsHold, Slot, U32
<1>12. ASSUME NEW p \in Producers PROVE Wrote(p)'
  <2>1. p \in Threads /\ p # t /\ Wrote(p)  BY <1>1, SideFacts DEF Threads, IInv, DataInv
  <2> QED  BY <1>1, <1>2, <1>8, <2>1 DEF Wrote, Offsets, Slot, U32
<1>13. ASSUME NEW c \in Consumers PROVE Took(c)'
  <2>0. c \in Threads /\ Took(c)  BY DEF Threads, IInv, DataInv
  <2>1. CASE c # t  BY <1>1, <1>2, <1>8, <2>0, <2>1 DEF Took, Slot, U32
  <2>2. CASE c = t
    <3>1. ASSUME NEW j \in 1 .. i[t] + 1
          PROVE  Append(q, v)[j] = log[Slot(old_head[t] + j - 1)]
      <4>0. i[t] \in Nat /\ old_head[t] \in Nat  BY DEF IInv, TypeOK
      <4>1. CASE j = i[t] + 1
        <5>1. old_head[t] + j - 1 = y  BY <1>3, <4>0, <4>1
        <5> QED  BY <1>6, <1>10, <4>1, <5>1
      <4>2. CASE j # i[t] + 1
        <5>1. j \in 1 .. i[t]  BY <4>0, <4>2
        <5>2. q[j] = log[Slot(old_head[t] + j - 1)]  BY <1>1, <1>5, <2>0, <2>2, <5>1 DEF Took
        <5> QED  BY <1>6, <5>1, <5>2
      <4> QED  BY <4>1, <4>2
    <3> QED  BY <1>1, <1>2, <1>6, <1>8, <2>2, <3>1 DEF Took, Slot, U32
  <2> QED  BY <2>1, <2>2
<1> QED  BY <1>2, <1>9, <1>11, <1>12, <1>13 DEF IInv, DataInv

-----------------------------------------------------------------------------
(* The move of the tail.                                                   *)

\* The wait for the calls before this one, modulo 2^32, ends at its own position.
LEMMA TailIsOld ==
    ASSUME IInv, NEW t \in Threads, pc[t] = "tail",
           single(t) \/ U32(tail[Side(t)]) = U32(old_head[t])
    PROVE  tail[Side(t)] = old_head[t]
<1>0. Working(t)  BY DEF Working
<1>1. CASE single(t)  BY <1>0, <1>1 DEF IInv, IndexInv, Alone
<1>2. CASE U32(tail[Side(t)]) = U32(old_head[t])
  <2>1. PICK x \in Nat : x = tail[Side(t)]  BY SideFacts DEF IInv, TypeOK
  <2>2. PICK y \in Nat : y = old_head[t]  BY DEF IInv, TypeOK
  <2>3. x <= y /\ y <= head[Side(t)] /\ head[Side(t)] <= x + Capacity /\ head[Side(t)] \in Nat
    <3>1. tail[Side(t)] <= old_head[t] /\ old_head[t] + n[t] <= head[Side(t)] /\ n[t] \in Nat
      BY <1>0 DEF IInv, IndexInv, Locals, TypeOK
    <3>2. head[Side(t)] <= tail[Side(t)] + Capacity /\ head[Side(t)] \in Nat
      BY SideFacts, Order DEF IInv, IndexInv
    <3> QED  BY <2>1, <2>2, <3>1, <3>2
  <2>4. x % Modulus = y % Modulus  BY <1>2, <2>1, <2>2 DEF U32
  <2>5. -Modulus < x - y /\ x - y < Modulus  BY <2>3, Constants
  <2> QED  BY <2>1, <2>2, <2>4, <2>5, Constants, ModEqual
<1> QED  BY <1>1, <1>2

LEMMA UpdateTailOK ==
    ASSUME IInv, NEW t \in Threads, UpdateTail(t)
    PROVE  IInv'
<1>0. PICK s \in Sides : s = Side(t)  BY SideFacts
<1>1. /\ pc[t] = "tail" /\ Working(t) /\ Return(t) /\ tail' = [tail EXCEPT ![s] = old_head[t] + n[t]]
      /\ UNCHANGED <<head, ring, obj_table, offered, log>>
  BY <1>0 DEF UpdateTail, Working
<1>2. tail[s] = old_head[t]  BY <1>0, <1>1, TailIsOld DEF UpdateTail
<1>3. /\ old_head[t] \in Nat /\ n[t] \in Nat /\ n[t] >= 1 /\ old_head[t] + n[t] <= head[s]
      /\ i[t] = n[t]
  BY <1>0, <1>1 DEF IInv, TypeOK, IndexInv, Locals
<1>4. /\ tail'[s] = old_head[t] + n[t] /\ tail' \in [Sides -> Nat]
      /\ \A r \in Sides : r # s => tail'[r] = tail[r]
  BY <1>1, <1>3 DEF IInv, TypeOK
<1>5. /\ TypeOK' /\ pc'[t] = "idle" /\ \A u \in Threads : u # t => Same(u)
  BY <1>1, <1>4, ReturnOK DEF IInv, TypeOK
<1>6. ~Working(t)' /\ \A u \in Threads : u # t => (Working(u)' <=> Working(u))
  BY <1>5 DEF Working, Same
<1>o. /\ tail["cons"] \in Nat /\ head["cons"] \in Nat /\ tail["prod"] \in Nat
      /\ head["prod"] \in Nat
      /\ tail["cons"] <= head["cons"] /\ head["cons"] <= tail["prod"]
      /\ tail["prod"] <= head["prod"] /\ head["prod"] <= tail["cons"] + Capacity
  BY DEF IInv, TypeOK, Sides, IndexInv, IndexOrder
<1>c. \/ /\ s = "prod" /\ tail'["prod"] = old_head[t] + n[t] /\ tail'["cons"] = tail["cons"]
      \/ /\ s = "cons" /\ tail'["cons"] = old_head[t] + n[t] /\ tail'["prod"] = tail["prod"]
  BY <1>4 DEF Sides
<1>7. IndexOrder' /\ Lim("prod") <= Lim("prod")' /\ Lim("cons") <= Lim("cons")'
  <2>1. CASE s = "prod"
    BY <1>c, <1>o, <1>1, <1>2, <1>3, <2>1, Constants DEF IndexOrder, Lim
  <2>2. CASE s = "cons"
    BY <1>c, <1>o, <1>1, <1>2, <1>3, <2>2, Constants DEF IndexOrder, Lim
  <2> QED  BY <2>1, <2>2 DEF Sides
\* The calls behind this one wait at or behind its new tail.
<1>8. ASSUME NEW u \in Threads, u # t, Working(u), Side(u) = s
      PROVE  old_head[t] + n[t] <= old_head[u]
  <2>1. old_head[t] + n[t] <= old_head[u] \/ old_head[u] + n[u] <= old_head[t]
    BY <1>0, <1>1, <1>8 DEF IInv, IndexInv, Apart
  <2>2. tail[s] <= old_head[u] /\ n[u] >= 1 /\ n[u] \in Nat /\ old_head[u] \in Nat
    BY <1>8 DEF IInv, IndexInv, Locals, TypeOK
  <2> QED  BY <1>2, <1>3, <2>1, <2>2
<1>9. ASSUME NEW u \in Threads PROVE Locals(u)' /\ Alone(u)'
  <2>0. /\ Locals(u) /\ Alone(u) /\ Side(u)' = Side(u) /\ single(u)' = single(u)
        /\ Side(u) \in Sides /\ head'[Side(u)] = head[Side(u)]
    BY <1>1, SideFacts DEF IInv, IndexInv, Side, single
  <2>1. CASE u = t
    <3>1. Locals(t)'  BY <1>5, <1>6 DEF Locals
    <3>2. single(t) => head[s] = old_head[t] + n[t]
      BY <1>0, <1>1 DEF IInv, IndexInv, Alone
    <3>3. Alone(t)'  BY <1>0, <1>4, <1>5, <1>6, <2>0, <2>1, <3>2 DEF Alone
    <3> QED  BY <2>1, <3>1, <3>3
  <2>2. CASE u # t
    <3>1. Same(u) /\ (Working(u)' <=> Working(u))  BY <1>5, <1>6, <2>2
    <3>2. Working(u) => tail'[Side(u)] <= old_head[u]
      <4>1. CASE Side(u) = s  BY <1>4, <1>8, <2>2, <4>1
      <4>2. CASE Side(u) # s  BY <1>4, <2>0, <4>2 DEF Locals
      <4> QED  BY <4>1, <4>2
    <3>3. pc[u] = "cas" => old_head[u] + n[u] <= Lim(Side(u))'
      <4>1. pc[u] = "cas" => old_head[u] + n[u] <= Lim(Side(u))  BY <2>0 DEF Locals
      <4>2. PICK l1 \in Nat : l1 = Lim(Side(u))  BY <2>0, Order DEF IInv, IndexInv
      <4>3. PICK l2 \in Nat : l2 = Lim(Side(u))'
        BY <1>4, <2>0, Constants DEF Lim, Sides
      <4>4. l1 <= l2
        <5>1. CASE Side(u) = "prod"  BY <1>7, <2>0, <4>2, <4>3, <5>1
        <5>2. CASE Side(u) = "cons"  BY <1>7, <2>0, <4>2, <4>3, <5>2
        <5> QED  BY <2>0, <5>1, <5>2 DEF Sides
      <4>5. old_head[u] \in Nat /\ n[u] \in Nat  BY DEF IInv, TypeOK
      <4> QED  BY <4>1, <4>2, <4>3, <4>4, <4>5
    <3>4. Locals(u)'
      <4>1. pc'[u] = "cas" => (old_head[u] + n[u] <= Lim(Side(u)))'  BY <3>1, <3>3 DEF Same
      <4> QED  BY <2>0, <3>1, <3>2, <4>1 DEF Locals, Same
    <3>5. Alone(u)'
      <4>1. CASE Side(u) = s
        <5>1. t \in Producers <=> u \in Producers  BY <1>0, <4>1, SideFacts
        <5>2. ~single(u)  BY <2>2, <5>1, SideFacts DEF single
        <5> QED  BY <2>0, <5>2 DEF Alone
      <4>2. CASE Side(u) # s
        <5>1. tail'[Side(u)] = tail[Side(u)]  BY <1>4, <2>0, <4>2
        <5> QED  BY <2>0, <3>1, <5>1 DEF Alone, Same
      <4> QED  BY <4>1, <4>2
    <3> QED  BY <3>4, <3>5
  <2> QED  BY <2>1, <2>2
<1>10. ASSUME NEW u \in Threads, NEW v \in Threads PROVE Apart(u, v)'
  <2> SUFFICES ASSUME u # v, Side(u) = Side(v), Working(u)', Working(v)'
               PROVE  (\/ old_head[u] + n[u] <= old_head[v]
                       \/ old_head[v] + n[v] <= old_head[u])'
    BY DEF Apart, Side
  <2>1. u # t /\ v # t  BY <1>6
  <2>2. Apart(u, v) /\ Working(u) /\ Working(v) /\ Same(u) /\ Same(v)
    BY <1>5, <1>6, <2>1 DEF IInv, IndexInv
  <2> QED  BY <2>2 DEF Apart, Same
<1>11. SlotsHold'
  <2> SUFFICES ASSUME NEW x \in tail'["cons"] .. tail'["prod"] - 1
               PROVE  ring[Slot(x)] = log[Slot(x)]
    BY <1>1 DEF SlotsHold, Slot, U32
  <2>1. CASE x \in tail["cons"] .. tail["prod"] - 1
    BY <2>1 DEF IInv, DataInv, SlotsHold
  <2>2. CASE x \notin tail["cons"] .. tail["prod"] - 1
    <3>1. s = "prod" /\ old_head[t] <= x /\ x < old_head[t] + n[t] /\ x \in Nat
      <4>1. CASE s = "prod"  BY <1>2, <1>3, <1>c, <1>o, <2>2, <4>1
      <4>2. CASE s = "cons"
        <5>1. tail["cons"] <= tail'["cons"] /\ tail'["cons"] \in Nat
          BY <1>2, <1>3, <1>c, <1>o, <4>2
        <5>2. tail'["prod"] = tail["prod"]  BY <1>c, <4>2
        <5> QED  BY <1>o, <2>2, <5>1, <5>2
      <4> QED  BY <4>1, <4>2 DEF Sides
    <3>2. t \in Producers  BY <1>0, <3>1, SideFacts
    <3>3. PICK k \in 0 .. i[t] - 1 : k = x - old_head[t]  BY <1>3, <3>1
    <3>4. ring[Slot(old_head[t] + k)] = log[Slot(old_head[t] + k)]
      BY <1>1, <3>2 DEF IInv, DataInv, Wrote
    <3>5. x = old_head[t] + k  BY <1>3, <3>1, <3>3
    <3> QED  BY <3>4, <3>5
  <2> QED  BY <2>1, <2>2
<1>12. ASSUME NEW p \in Producers PROVE Wrote(p)'
  <2>0. p \in Threads /\ Wrote(p)  BY DEF Threads, IInv, DataInv
  <2>1. CASE p = t  BY <1>6, <2>1 DEF Wrote
  <2>2. CASE p # t
    BY <1>1, <1>5, <1>6, <2>0, <2>2 DEF Wrote, Same, Offsets, Slot, U32
  <2> QED  BY <2>1, <2>2
<1>13. ASSUME NEW c \in Consumers PROVE Took(c)'
  <2>0. c \in Threads /\ Took(c)  BY DEF Threads, IInv, DataInv
  <2>1. CASE c = t  BY <1>6, <2>1 DEF Took
  <2>2. CASE c # t  BY <1>1, <1>5, <1>6, <2>0, <2>2 DEF Took, Same, Slot, U32
  <2> QED  BY <2>1, <2>2
<1> QED  BY <1>5, <1>7, <1>9, <1>10, <1>11, <1>12, <1>13 DEF IInv, IndexInv, DataInv

-----------------------------------------------------------------------------
(* The invariant and what follows from it.                                 *)
LEMMA NextOK == IInv /\ [Next]_vars => IInv'
<1> SUFFICES ASSUME IInv, [Next]_vars PROVE IInv'  OBVIOUS
<1>1. ASSUME NEW t \in Threads, Enqueue(t) \/ Dequeue(t) \/ Step(t) PROVE IInv'
  BY <1>1, EnqueueOK, DequeueOK, ReadHeadOK, ReadTailOK, MoveHeadOK, CopyInOK, CopyOutOK,
     UpdateTailOK DEF Step
<1>2. CASE UNCHANGED vars
  <2>1. TypeOK' /\ IndexOrder' /\ SlotsHold'
    BY <1>2 DEF vars, IInv, TypeOK, IndexInv, IndexOrder, DataInv, SlotsHold, Slot, U32
  <2>2. \A t \in Threads : Locals(t)' /\ Alone(t)'
    BY <1>2 DEF vars, IInv, IndexInv, Locals, Alone, Working, Lim, Side, single
  <2>3. \A t, u \in Threads : Apart(t, u)'
    BY <1>2 DEF vars, IInv, IndexInv, Apart, Working, Side
  <2>4. \A p \in Producers : Wrote(p)'
    BY <1>2 DEF vars, IInv, DataInv, Wrote, Working, Offsets, Slot, U32
  <2>5. \A c \in Consumers : Took(c)'
    BY <1>2 DEF vars, IInv, DataInv, Took, Working, Slot, U32
  <2> QED  BY <2>1, <2>2, <2>3, <2>4, <2>5 DEF IInv, IndexInv, DataInv
<1> QED  BY <1>1, <1>2 DEF Next

\* The indexes, the locals of the calls and the slots stay consistent, also
\* across the wrap of the 32-bit indexes.
THEOREM Invariance == Spec => []IInv
BY InitOK, NextOK, PTL DEF Spec

\* Every variable keeps its type: the counts of entries never go negative.
THEOREM TypeCorrect == Spec => []TypeOK
<1>1. IInv => TypeOK  BY DEF IInv
<1> QED  BY <1>1, Invariance, PTL

\* The four indexes keep their order: the ring never holds more than its
\* capacity and no object is claimed before its copy is finished.
THEOREM IndexesOrdered == Spec => []IndexOrder
<1>1. IInv => IndexOrder  BY DEF IInv, IndexInv
<1> QED  BY <1>1, Invariance, PTL

\* The compare-and-set keeps the slots of two calls apart.
THEOREM SlotsOwned == Spec => []NoSlotShared
<1>1. IInv => NoSlotShared  BY NotShared DEF IInv, NoSlotShared
<1> QED  BY <1>1, Invariance, PTL

\* A slot on offer holds what was enqueued at its position.
THEOREM SlotsFaithful == Spec => []SlotsHold
<1>1. IInv => SlotsHold  BY DEF IInv, DataInv
<1> QED  BY <1>1, Invariance, PTL

\* A dequeue returns the objects of the positions it claimed, in order.
THEOREM DequeueDelivers == Spec => []Delivered
<1>1. IInv => Delivered  BY DEF IInv, DataInv, Took, Delivered
<1> QED  BY <1>1, Invariance, PTL

\* A call that gives up found too few entries: the head it had read is not
\* ahead of the head, so that it never underestimates what there is.
THEOREM RefusalHonest == Spec => HonestRefusal
<1> DEFINE Ok == \A t \in Threads :
                   pc[t] = "entries" /\ pc'[t] = "idle" =>
                     LET room == tail[Other(Side(t))] - head[Side(t)]
                                   + (IF t \in Producers THEN Capacity ELSE 0)
                     IN  IF behavior[t] = "fixed" THEN room < max[t] ELSE room <= 0
<1>1. IInv /\ [Next]_vars => [Ok]_vars
  <2> SUFFICES ASSUME IInv, Next, NEW t \in Threads, pc[t] = "entries", pc'[t] = "idle"
               PROVE  LET room == tail[Other(Side(t))] - head[Side(t)]
                                    + (IF t \in Producers THEN Capacity ELSE 0)
                      IN  IF behavior[t] = "fixed" THEN room < max[t] ELSE room <= 0
    OBVIOUS
  <2>1. ReadTail(t)
    <3>1. PICK u \in Threads : Enqueue(u) \/ Dequeue(u) \/ Step(u)  BY DEF Next
    <3>2. pc \in [Threads -> {"idle", "head", "entries", "cas", "copy", "tail"}]
      BY DEF IInv, TypeOK
    <3>3. CASE Enqueue(u)  BY <3>2, <3>3 DEF Enqueue
    <3>4. CASE Dequeue(u)  BY <3>2, <3>4 DEF Dequeue
    <3>5. CASE ReadHead(u)  BY <3>2, <3>5 DEF ReadHead
    <3>6. CASE ReadTail(u)
      <4>1. CASE u = t  BY <3>6, <4>1
      <4>2. CASE u # t  BY <3>2, <3>6, <4>2 DEF ReadTail, Return
      <4> QED  BY <4>1, <4>2
    <3>7. CASE MoveHead(u)  BY <3>2, <3>7 DEF MoveHead, Claim
    <3>8. CASE CopyIn(u) \/ CopyOut(u)  BY <3>2, <3>8 DEF CopyIn, CopyOut, Copied
    <3>9. CASE UpdateTail(u)  BY <3>2, <3>9 DEF UpdateTail, Return
    <3> QED  BY <3>1, <3>3, <3>4, <3>5, <3>6, <3>7, <3>8, <3>9 DEF Step
  <2>2. PICK e \in Nat : e = Lim(Side(t)) - old_head[t]  BY EntriesExact DEF IInv
  <2>3. e = IF t \in Producers THEN free_entries(old_head[t]) ELSE used_entries(old_head[t])
    BY <2>2, EntriesExact DEF IInv
  <2>4. Grant(max[t], behavior[t], e) = 0
    <3>1. pc' # [pc EXCEPT ![t] = "cas"]  BY DEF IInv, TypeOK
    <3> QED  BY <2>1, <2>3, <3>1 DEF ReadTail
  <2>5. /\ max[t] \in Nat /\ max[t] >= 1 /\ old_head[t] \in Nat /\ old_head[t] <= head[Side(t)]
        /\ head[Side(t)] \in Nat /\ Lim(Side(t)) \in Nat
    BY SideFacts, Order DEF IInv, TypeOK, IndexInv, Locals
  <2>6. IF behavior[t] = "fixed" THEN e < max[t] ELSE e = 0
    BY <2>4, <2>5 DEF Grant
  <2>7. PICK room \in Int : room = Lim(Side(t)) - head[Side(t)]  BY <2>5
  <2>8. room <= e  BY <2>2, <2>5, <2>7
  <2>9. room = tail[Other(Side(t))] - head[Side(t)] + (IF t \in Producers THEN Capacity ELSE 0)
    <3>1. tail["cons"] \in Nat /\ tail["prod"] \in Nat  BY DEF IInv, TypeOK, Sides
    <3>2. CASE t \in Producers
      BY <2>5, <2>7, <3>1, <3>2, SideFacts, Constants DEF Lim, Other
    <3>3. CASE t \notin Producers
      BY <2>5, <2>7, <3>1, <3>3, SideFacts, Constants DEF Lim, Other
    <3> QED  BY <3>2, <3>3
  <2>10. IF behavior[t] = "fixed" THEN room < max[t] ELSE room <= 0
    BY <2>5, <2>6, <2>8
  <2> QED  BY <2>9, <2>10
<1>2. [][Ok]_vars <=> HonestRefusal  BY DEF HonestRefusal
<1> QED  BY <1>1, Invariance, <1>2, PTL DEF Spec

-----------------------------------------------------------------------------
(* RteRing implements RingFifo: the lock-free ring, with its indexes       *)
(* modulo 2^32 and its copies of single pointers, is a bounded first-in    *)
(* first-out queue of batches.                                             *)
Gots == [c \in Consumers |-> Got(c)]

\* The objects of an enqueue have numbers that the model gave out.
Named == \A p \in Producers : pc[p] # "idle" => obj_table[p] \in 1 .. MaxObjs

LEMMA NamedInit == Init => Named
BY DEF Init, Named, Threads

LEMMA NamedNext == IInv /\ Named /\ [Next]_vars => Named'
<1> SUFFICES ASSUME IInv, Named, [Next]_vars, NEW p \in Producers, pc'[p] # "idle"
             PROVE  obj_table'[p] \in 1 .. MaxObjs
  BY DEF Named
<1>0. /\ p \in Threads /\ p \notin Consumers
      /\ pc \in [Threads -> {"idle", "head", "entries", "cas", "copy", "tail"}]
      /\ DOMAIN obj_table = Threads
  BY SideFacts DEF Threads, IInv, TypeOK
<1>1. pc[p] # "idle" => obj_table[p] \in 1 .. MaxObjs  BY DEF Named
<1>2. CASE UNCHANGED vars  BY <1>1, <1>2 DEF vars
<1>3. ASSUME NEW t \in Threads, Enqueue(t) \/ Dequeue(t) \/ Step(t)
      PROVE  obj_table'[p] \in 1 .. MaxObjs
  <2>1. CASE Enqueue(t)
    <3>1. PICK a \in Calls : offered + a.n <= MaxObjs  BY <2>1 DEF Enqueue
    <3>2. offered + 1 \in 1 .. MaxObjs
      BY <3>1, CallAssumption, BoundAssumption DEF IInv, TypeOK
    <3> QED  BY <1>0, <1>1, <2>1, <3>2 DEF Enqueue
  <2>2. CASE Dequeue(t)  BY <1>0, <1>1, <2>2 DEF Dequeue
  <2>3. CASE ReadHead(t)  BY <1>0, <1>1, <2>3 DEF ReadHead
  <2>4. CASE ReadTail(t)  BY <1>0, <1>1, <2>4 DEF ReadTail, Return
  <2>5. CASE MoveHead(t)
    <3>1. obj_table'[p] = obj_table[p]  BY <1>0, <2>5 DEF MoveHead, Claim
    <3>2. pc[p] # "idle"  BY <1>0, <2>5 DEF MoveHead, Claim
    <3> QED  BY <1>1, <3>1, <3>2
  <2>6. CASE CopyIn(t)  BY <1>0, <1>1, <2>6 DEF CopyIn, Copied
  <2>7. CASE CopyOut(t)
    <3>1. obj_table'[p] = obj_table[p]  BY <1>0, <2>7 DEF CopyOut
    <3>2. pc[p] # "idle"  BY <1>0, <2>7 DEF CopyOut, Copied
    <3> QED  BY <1>1, <3>1, <3>2
  <2>8. CASE UpdateTail(t)  BY <1>0, <1>1, <2>8 DEF UpdateTail, Return
  <2> QED  BY <1>3, <2>1, <2>2, <2>3, <2>4, <2>5, <2>6, <2>7, <2>8 DEF Step
<1> QED  BY <1>2, <1>3 DEF Next

-----------------------------------------------------------------------------
(* The queue and the batches as functions of the state.                    *)
LEMMA QueueFacts ==
    ASSUME IInv
    PROVE  /\ Queue \in Seq(Nat) /\ Len(Queue) = tail["prod"] - head["cons"]
           /\ tail["prod"] - head["cons"] \in Nat /\ tail["prod"] - head["cons"] <= Capacity
           /\ \A j \in 1 .. Len(Queue) : Queue[j] = ring[Slot(head["cons"] + j - 1)]
<1>1. /\ tail["cons"] \in Nat /\ head["cons"] \in Nat /\ tail["prod"] \in Nat
      /\ head["prod"] \in Nat
      /\ tail["cons"] <= head["cons"] /\ head["cons"] <= tail["prod"]
      /\ tail["prod"] <= head["prod"] /\ head["prod"] <= tail["cons"] + Capacity
  BY DEF IInv, TypeOK, Sides, IndexInv, IndexOrder
<1>2. PICK m \in Nat : m = tail["prod"] - head["cons"]  BY <1>1
<1>3. ASSUME NEW j \in 1 .. m PROVE ring[Slot(head["cons"] + j - 1)] \in Nat
  <2>1. head["cons"] + j - 1 \in Nat  BY <1>1
  <2> QED  BY <2>1, SlotOf DEF IInv, TypeOK
<1>4. Queue = [j \in 1 .. m |-> ring[Slot(head["cons"] + j - 1)]]  BY <1>2 DEF Queue
<1>5. Queue \in Seq(Nat) /\ Len(Queue) = m
  BY <1>3, <1>4
<1> QED  BY <1>1, <1>2, <1>4, <1>5, Constants

\* What the two state functions depend on.
LEMMA QueueSame ==
    ASSUME tail'["prod"] = tail["prod"], head'["cons"] = head["cons"],
           \A j \in 1 .. tail["prod"] - head["cons"] :
               ring'[Slot(head["cons"] + j - 1)] = ring[Slot(head["cons"] + j - 1)]
    PROVE  Queue' = Queue
BY DEF Queue, Slot, U32

LEMMA GotSame ==
    ASSUME NEW c \in Consumers, pc'[c] = pc[c], n'[c] = n[c], i'[c] = i[c],
           old_head'[c] = old_head[c], obj_table'[c] = obj_table[c],
           pc[c] = "copy" => \A j \in 1 .. n[c] :
               ring'[Slot(old_head[c] + j - 1)] = ring[Slot(old_head[c] + j - 1)]
    PROVE  Got(c)' = Got(c)
<1>1. CASE pc[c] # "copy"  BY <1>1 DEF Got
<1>2. CASE pc[c] = "copy"  BY <1>2 DEF Got, Slot, U32
<1> QED  BY <1>1, <1>2

LEMMA GotsSame ==
    ASSUME \A c \in Consumers : Got(c)' = Got(c)
    PROVE  Gots' = Gots
BY DEF Gots

\* A private step of t is a step of nobody in the queue.
LEMMA PrivateStutters ==
    ASSUME NEW t \in Threads, tail'["prod"] = tail["prod"], head'["cons"] = head["cons"],
           ring' = ring, obj_table'[t] = obj_table[t] \/ t \notin Consumers,
           pc[t] # "copy", pc'[t] # "copy" \/ t \notin Consumers,
           \A u \in Threads : u # t => Same(u)
    PROVE  Queue' = Queue /\ Gots' = Gots
<1>1. Queue' = Queue  BY QueueSame
<1>2. ASSUME NEW c \in Consumers PROVE Got(c)' = Got(c)
  <2>1. c \in Threads  BY DEF Threads
  <2>2. CASE c = t  BY <2>2 DEF Got
  <2>3. CASE c # t  BY <2>1, <2>3, GotSame DEF Same
  <2> QED  BY <2>2, <2>3
<1> QED  BY <1>1, <1>2, GotsSame

-----------------------------------------------------------------------------
(* The steps that the queue does not see.                                  *)
LEMMA BeginStutters ==
    ASSUME IInv, NEW t \in Threads, Enqueue(t) \/ Dequeue(t) \/ ReadHead(t) \/ ReadTail(t)
    PROVE  Queue' = Queue /\ Gots' = Gots
<1>1. /\ pc \in [Threads -> {"idle", "head", "entries", "cas", "copy", "tail"}]
      /\ DOMAIN obj_table = Threads /\ max \in [Threads -> Nat]
      /\ old_head \in [Threads -> Nat] /\ n \in [Threads -> Nat] /\ i \in [Threads -> Nat]
  BY DEF IInv, TypeOK
<1>2. ring' = ring /\ head' = head /\ tail' = tail /\ pc[t] # "copy"
  BY DEF Enqueue, Dequeue, ReadHead, ReadTail
<1>3. /\ obj_table'[t] = obj_table[t] \/ t \notin Consumers
      /\ pc'[t] # "copy" /\ \A u \in Threads : u # t => Same(u)
  <2>1. CASE Enqueue(t)
    <3>1. t \notin Consumers  BY <2>1, SideFacts DEF Enqueue
    <3> QED  BY <1>1, <2>1, <3>1 DEF Enqueue, Same
  <2>2. CASE Dequeue(t)  BY <1>1, <2>2 DEF Dequeue, Same
  <2>3. CASE ReadHead(t)  BY <1>1, <2>3 DEF ReadHead, Same, local
  <2>4. CASE ReadTail(t)
    <3>1. CASE Return(t) /\ obj_table' = obj_table  BY <1>1, <3>1 DEF Return, Same
    <3>2. CASE /\ \E g : n' = [n EXCEPT ![t] = g]
               /\ pc' = [pc EXCEPT ![t] = "cas"] /\ obj_table' = obj_table
               /\ UNCHANGED <<local, old_head, i>>
      BY <1>1, <3>2 DEF Same, local
    <3> QED  BY <2>4, <3>1, <3>2 DEF ReadTail
  <2> QED  BY <2>1, <2>2, <2>3, <2>4
<1> QED  BY <1>2, <1>3, PrivateStutters

LEMMA ClaimFacts ==
    ASSUME IInv, NEW t \in Threads, pc[t] = "cas", Claim(t)
    PROVE  /\ head' = [head EXCEPT ![Side(t)] = old_head[t] + n[t]]
           /\ pc'[t] = "copy" /\ i'[t] = 0
           /\ tail' = tail /\ ring' = ring /\ old_head' = old_head /\ n' = n
           /\ \A u \in Threads : u # t => Same(u)
<1>1. /\ head' = [head EXCEPT ![Side(t)] = old_head[t] + n[t]]
      /\ i' = [i EXCEPT ![t] = 0] /\ pc' = [pc EXCEPT ![t] = "copy"]
      /\ obj_table' = [obj_table EXCEPT ![t] = IF t \in Producers THEN obj_table[t] ELSE <<>>]
      /\ tail' = tail /\ ring' = ring /\ old_head' = old_head /\ n' = n /\ max' = max
  BY DEF Claim, local
<1> QED  BY <1>1 DEF IInv, TypeOK, Same

LEMMA ProducerClaimStutters ==
    ASSUME IInv, NEW t \in Threads, t \in Producers, pc[t] = "cas", Claim(t)
    PROVE  Queue' = Queue /\ Gots' = Gots
<1>1. /\ head' = [head EXCEPT !["prod"] = old_head[t] + n[t]]
      /\ tail' = tail /\ ring' = ring /\ \A u \in Threads : u # t => Same(u)
  BY ClaimFacts, SideFacts
<1>2. head'["cons"] = head["cons"]  BY <1>1 DEF IInv, TypeOK, Sides
<1> QED  BY <1>1, <1>2, SideFacts, PrivateStutters

LEMMA RetryStutters ==
    ASSUME IInv, NEW t \in Threads, pc[t] = "cas", pc' = [pc EXCEPT ![t] = "head"],
           n' = [n EXCEPT ![t] = 0],
           UNCHANGED <<head, tail, ring, local, old_head, i, obj_table, offered, log>>
    PROVE  Queue' = Queue /\ Gots' = Gots
<1>1. \A u \in Threads : u # t => Same(u)  BY DEF IInv, TypeOK, Same, local
<1>2. pc'[t] = "head"  BY DEF IInv, TypeOK
<1> QED  BY <1>1, <1>2, PrivateStutters

\* A pointer is written to a slot that is neither in the queue nor being read.
LEMMA CopyInStutters ==
    ASSUME IInv, NEW t \in Threads, CopyIn(t)
    PROVE  Queue' = Queue /\ Gots' = Gots
<1>1. /\ t \in Producers /\ pc[t] = "copy" /\ Working(t) /\ Copied(t)
      /\ UNCHANGED <<head, tail, max, old_head, n, obj_table>>
  BY DEF CopyIn, local, Working
<1>2. i[t] \in Offsets(t) /\ \A u \in Threads : u # t => i'[u] = i[u]
  BY <1>1, CopyIndexOK
<1>3. PICK y \in Nat : y = old_head[t] + i[t]  BY <1>1, <1>2, Window DEF IInv
<1>4. PICK b \in Nat : b = tail["cons"]  BY <1>1, <1>2, Window DEF IInv
<1>5. tail["prod"] <= y /\ b <= y /\ y < b + Capacity
  BY <1>1, <1>2, <1>3, <1>4, Window DEF IInv
<1>6. ASSUME NEW x \in Nat, b <= x, x < tail["prod"]
      PROVE  ring'[Slot(x)] = ring[Slot(x)]
  <2>0. tail["prod"] \in Nat  BY DEF IInv, TypeOK, Sides
  <2>1. x # y /\ x < b + Capacity  BY <1>5, <1>6, <2>0, Constants
  <2>2. Slot(x) # Slot(y)  BY <1>5, <1>6, <2>1, SlotsDiffer
  <2>3. Slot(x) \in Slots /\ Slot(y) \in Slots  BY SlotOf
  <2>4. PICK v : ring' = [ring EXCEPT ![Slot(y)] = v]  BY <1>3 DEF CopyIn
  <2> QED  BY <2>2, <2>3, <2>4 DEF IInv, TypeOK
<1>7. /\ head["cons"] \in Nat /\ tail["prod"] \in Nat /\ b <= head["cons"]
      /\ head["cons"] <= tail["prod"]
  BY <1>4 DEF IInv, TypeOK, Sides, IndexInv, IndexOrder
<1>8. Queue' = Queue
  <2>1. ASSUME NEW j \in 1 .. tail["prod"] - head["cons"]
        PROVE  ring'[Slot(head["cons"] + j - 1)] = ring[Slot(head["cons"] + j - 1)]
    <3>1. PICK x \in Nat : x = head["cons"] + j - 1  BY <1>7
    <3>2. b <= x /\ x < tail["prod"]  BY <1>7, <3>1
    <3> QED  BY <1>6, <3>1, <3>2
  <2> QED  BY <1>1, <2>1, QueueSame
<1>9. ASSUME NEW c \in Consumers PROVE Got(c)' = Got(c)
  <2>0. c \in Threads /\ c # t  BY <1>1, SideFacts DEF Threads
  <2>1. ASSUME pc[c] = "copy", NEW j \in 1 .. n[c]
        PROVE  ring'[Slot(old_head[c] + j - 1)] = ring[Slot(old_head[c] + j - 1)]
    <3>1. n[c] \in Nat /\ old_head[c] \in Nat /\ Working(c)
      BY <2>0, <2>1 DEF IInv, TypeOK, Working
    <3>2. PICK k \in Offsets(c) : k = j - 1  BY <3>1 DEF Offsets
    <3>3. PICK x \in Nat : x = old_head[c] + k  BY <2>0, <3>1, Window DEF IInv
    <3>4. b <= x /\ x < head["cons"]  BY <1>4, <2>0, <3>1, <3>3, Window DEF IInv
    <3>5. x < tail["prod"]  BY <1>7, <3>4
    <3>6. old_head[c] + j - 1 = x  BY <3>1, <3>2, <3>3
    <3> QED  BY <1>6, <3>4, <3>5, <3>6
  <2>2. pc'[c] = pc[c]  BY <1>1, <2>0 DEF Copied, IInv, TypeOK
  <2> QED  BY <1>1, <1>2, <2>0, <2>1, <2>2, GotSame
<1> QED  BY <1>8, <1>9, GotsSame

\* A pointer that is copied out was already counted as got.
LEMMA CopyOutStutters ==
    ASSUME IInv, NEW t \in Threads, CopyOut(t)
    PROVE  Queue' = Queue /\ Gots' = Gots
<1>1. /\ t \in Consumers /\ pc[t] = "copy" /\ Working(t) /\ Copied(t)
      /\ UNCHANGED <<head, tail, max, old_head, n, ring>>
  BY DEF CopyOut, local, Working
<1>2. /\ i[t] \in Offsets(t) /\ i'[t] = i[t] + 1
      /\ \A u \in Threads : u # t => i'[u] = i[u]
  BY <1>1, CopyIndexOK
<1>3. i[t] \in Nat /\ n[t] \in Nat /\ i[t] < n[t]  BY <1>2 DEF IInv, TypeOK, Offsets
<1>4. PICK v \in Nat : v = ring[Slot(old_head[t] + i[t])]
  <2>1. old_head[t] + i[t] \in Nat  BY <1>1, <1>2, Window DEF IInv
  <2> QED  BY <2>1, SlotOf DEF IInv, TypeOK
<1>5. PICK q \in Seq(Nat) : q = obj_table[t]  BY <1>1 DEF IInv, TypeOK
<1>6. obj_table' = [obj_table EXCEPT ![t] = Append(q, v)]
  BY <1>4, <1>5 DEF CopyOut
<1>7. /\ \A u \in Threads : u # t => obj_table'[u] = obj_table[u] /\ pc'[u] = pc[u]
      /\ obj_table'[t] = Append(q, v)
      /\ pc'[t] = IF i[t] + 1 = n[t] THEN "tail" ELSE "copy"
  BY <1>1, <1>6 DEF IInv, TypeOK, Copied
<1>8. /\ Append(q, v) \in Seq(Nat) /\ Len(q) = i[t] /\ Len(Append(q, v)) = i[t] + 1
      /\ Append(q, v)[i[t] + 1] = v /\ \A j \in 1 .. i[t] : Append(q, v)[j] = q[j]
  <2>1. Len(q) = i[t]  BY <1>1, <1>5 DEF IInv, DataInv, Took
  <2> QED  BY <2>1, AppendProperties
<1>9. Queue' = Queue  BY <1>1, QueueSame
<1>w. PICK w \in Seq(Nat) : w = Append(q, v)  BY <1>8
<1>10. \A j \in 1 .. n[t] :
         (IF j <= i[t] THEN q[j] ELSE ring[Slot(old_head[t] + j - 1)])
           = IF j <= i[t] + 1 THEN w[j] ELSE ring[Slot(old_head[t] + j - 1)]
  <2> SUFFICES ASSUME NEW j \in 1 .. n[t]
               PROVE  (IF j <= i[t] THEN q[j] ELSE ring[Slot(old_head[t] + j - 1)])
                        = IF j <= i[t] + 1 THEN w[j] ELSE ring[Slot(old_head[t] + j - 1)]
    OBVIOUS
  <2>1. CASE j <= i[t]  BY <1>3, <1>8, <1>w, <2>1
  <2>2. CASE j = i[t] + 1
    <3>1. old_head[t] + j - 1 = old_head[t] + i[t]  BY <1>3, <2>2 DEF IInv, TypeOK
    <3>2. w[j] = ring[Slot(old_head[t] + j - 1)]  BY <1>4, <1>8, <1>w, <2>2, <3>1
    <3> QED  BY <1>3, <2>2, <3>2
  <2>3. CASE j > i[t] + 1  BY <1>3, <2>3
  <2>4. j <= i[t] \/ j = i[t] + 1 \/ j > i[t] + 1  BY <1>3
  <2> QED  BY <2>1, <2>2, <2>3, <2>4
<1>11. PICK g : g = [j \in 1 .. n[t] |->
                       IF j <= i[t] + 1 THEN w[j] ELSE ring[Slot(old_head[t] + j - 1)]]
  OBVIOUS
<1>12. Got(t) = g
  <2>1. Got(t) = [j \in 1 .. n[t] |->
                    IF j <= i[t] THEN q[j] ELSE ring[Slot(old_head[t] + j - 1)]]
    BY <1>1, <1>5 DEF Got
  <2> QED  BY <1>10, <1>11, <2>1
<1>13. Got(t)' = g
  <2>1. CASE i[t] + 1 # n[t]
    <3>1. pc'[t] = "copy"  BY <1>7, <2>1
    <3> QED  BY <1>1, <1>2, <1>7, <1>w, <1>11, <3>1 DEF Got, Slot, U32
  <2>2. CASE i[t] + 1 = n[t]
    <3>1. Got(t)' = w  BY <1>7, <1>w, <2>2 DEF Got
    <3>2. g = [j \in 1 .. i[t] + 1 |-> w[j]]  BY <1>3, <1>11, <2>2
    <3>3. Len(w) = i[t] + 1  BY <1>8, <1>w
    <3>4. w = [j \in 1 .. Len(w) |-> w[j]]  OBVIOUS
    <3> QED  BY <3>1, <3>2, <3>3, <3>4
  <2> QED  BY <2>1, <2>2
<1>14. ASSUME NEW c \in Consumers PROVE Got(c)' = Got(c)
  <2>1. CASE c = t  BY <1>12, <1>13, <2>1
  <2>2. CASE c # t
    <3>1. c \in Threads  BY DEF Threads
    <3> QED  BY <1>1, <1>2, <1>7, <2>2, <3>1, GotSame
  <2> QED  BY <2>1, <2>2
<1> QED  BY <1>9, <1>14, GotsSame

LEMMA ConsumerTailStutters ==
    ASSUME IInv, NEW t \in Threads, t \in Consumers, UpdateTail(t)
    PROVE  Queue' = Queue /\ Gots' = Gots
<1>1. /\ pc[t] = "tail" /\ Return(t) /\ tail' = [tail EXCEPT !["cons"] = old_head[t] + n[t]]
      /\ UNCHANGED <<head, ring, obj_table, offered, log>>
  BY SideFacts DEF UpdateTail
<1>2. tail'["prod"] = tail["prod"]  BY <1>1 DEF IInv, TypeOK, Sides
<1>3. pc'[t] = "idle" /\ \A u \in Threads : u # t => Same(u)
  BY <1>1 DEF IInv, TypeOK, Return, Same
<1> QED  BY <1>1, <1>2, <1>3, PrivateStutters

-----------------------------------------------------------------------------
(* The steps at which an operation takes effect.                           *)
LEMMA ClaimTakes ==
    ASSUME IInv, IInv', NEW t \in Threads, t \in Consumers, pc[t] = "cas",
           head[Side(t)] = old_head[t], Claim(t)
    PROVE  Fifo!Take(t)
<1>1. /\ head' = [head EXCEPT !["cons"] = old_head[t] + n[t]]
      /\ tail' = tail /\ ring' = ring /\ pc'[t] = "copy" /\ i'[t] = 0
      /\ old_head' = old_head /\ n' = n
      /\ \A u \in Threads : u # t => Same(u)
  BY ClaimFacts, SideFacts
<1>2. PICK h \in Nat : h = head["cons"]  BY DEF IInv, TypeOK, Sides
<1>3. PICK m \in Nat : m = tail["prod"] - head["cons"]  BY QueueFacts
<1>4. old_head[t] = h  BY <1>2, SideFacts
<1>5. PICK k \in Nat : k = n[t]  BY DEF IInv, TypeOK
<1>6. k >= 1 /\ k <= m
  <2>1. n[t] >= 1 /\ old_head[t] + n[t] <= tail["prod"]
    BY SideFacts DEF IInv, IndexInv, Locals, Lim
  <2>2. tail["prod"] \in Nat  BY DEF IInv, TypeOK, Sides
  <2> QED  BY <1>2, <1>3, <1>4, <1>5, <2>1, <2>2
<1>7. /\ Queue \in Seq(Nat) /\ Len(Queue) = m /\ m <= Capacity
      /\ \A j \in 1 .. m : Queue[j] = ring[Slot(h + j - 1)]
  BY <1>2, <1>3, QueueFacts
<1>8. Got(t)' = SubSeq(Queue, 1, k)
  <2>1. \A j \in 1 .. k : ~(j <= 0)  OBVIOUS
  <2>2. Got(t)' = [j \in 1 .. k |-> ring[Slot(h + j - 1)]]
    BY <1>1, <1>4, <1>5, <2>1 DEF Got, Slot, U32
  <2>3. SubSeq(Queue, 1, k) = [j \in 1 .. k |-> Queue[j]]
    <3>1. SubSeq(Queue, 1, k) = [j \in 1 .. (1 + k) - 1 |-> Queue[(j + 1) - 1]]
      BY <1>6, <1>7
    <3> QED  BY <3>1
  <2>4. \A j \in 1 .. k : Queue[j] = ring[Slot(h + j - 1)]  BY <1>6, <1>7
  <2> QED  BY <2>2, <2>3, <2>4
<1>9. Queue' = SubSeq(Queue, k + 1, Len(Queue))
  <2>1. head'["cons"] = h + k /\ tail'["prod"] = tail["prod"]
    BY <1>1, <1>4, <1>5 DEF IInv, TypeOK, Sides
  <2>2. tail["prod"] \in Nat  BY DEF IInv, TypeOK, Sides
  <2>3. tail'["prod"] - head'["cons"] = m - k  BY <1>2, <1>3, <2>1, <2>2
  <2>4. /\ Queue' \in Seq(Nat) /\ Len(Queue') = m - k
        /\ \A j \in 1 .. m - k : Queue'[j] = ring[Slot((h + k) + j - 1)]
    <3>1. /\ Queue' = [j \in 1 .. tail'["prod"] - head'["cons"] |->
                          ring'[Slot(head'["cons"] + j - 1)]]
      BY DEF Queue, Slot, U32
    <3>2. Queue' = [j \in 1 .. m - k |-> ring[Slot((h + k) + j - 1)]]
      BY <1>1, <2>1, <2>3, <3>1
    <3>3. \A j \in 1 .. m - k : ring[Slot((h + k) + j - 1)] \in Nat
      <4> SUFFICES ASSUME NEW j \in 1 .. m - k PROVE ring[Slot((h + k) + j - 1)] \in Nat
        OBVIOUS
      <4>1. (h + k) + j - 1 \in Nat  OBVIOUS
      <4> QED  BY <4>1, SlotOf DEF IInv, TypeOK
    <3>4. m - k \in Nat  BY <1>6
    <3> QED  BY <3>2, <3>3, <3>4
  <2>5. PICK w : w = SubSeq(Queue, k + 1, Len(Queue))  OBVIOUS
  <2>6. /\ w \in Seq(Nat) /\ Len(w) = m - k
        /\ \A j \in 1 .. m - k : w[j] = Queue[(k + 1) + j - 1]
    BY <1>6, <1>7, <2>5, SubSeqProperties
  <2>7. \A j \in 1 .. m - k : w[j] = Queue'[j]
    <3> SUFFICES ASSUME NEW j \in 1 .. m - k PROVE w[j] = Queue'[j]  OBVIOUS
    <3>1. PICK x \in 1 .. m : x = (k + 1) + j - 1  BY <1>6
    <3>2. w[j] = ring[Slot(h + x - 1)]  BY <1>7, <2>6, <3>1
    <3>3. h + x - 1 = (h + k) + j - 1  BY <3>1
    <3> QED  BY <2>4, <3>2, <3>3
  <2>8. PICK z : z = Queue'  OBVIOUS
  <2>9. z = w  BY <2>4, <2>6, <2>7, <2>8, SeqEqual
  <2> QED  BY <2>5, <2>8, <2>9
<1>10. Gots' = [Gots EXCEPT ![t] = SubSeq(Queue, 1, k)]
  <2>1. ASSUME NEW c \in Consumers, c # t PROVE Got(c)' = Got(c)
    <3>1. Same(c)  BY <1>1, <2>1 DEF Threads
    <3> QED  BY <1>1, <3>1, GotSame DEF Same
  <2> QED  BY <1>8, <2>1 DEF Gots
<1>11. k \in 1 .. Capacity /\ k <= Len(Queue)  BY <1>6, <1>7, Constants
<1> QED  BY <1>9, <1>10, <1>11 DEF Fifo!Take, Gots

LEMMA TailPuts ==
    ASSUME IInv, IInv', Named, NEW t \in Threads, t \in Producers, UpdateTail(t)
    PROVE  Fifo!Put
<1>1. /\ pc[t] = "tail" /\ Working(t) /\ Return(t)
      /\ tail' = [tail EXCEPT !["prod"] = old_head[t] + n[t]]
      /\ UNCHANGED <<head, ring, obj_table, offered, log>>
  BY SideFacts DEF UpdateTail, Working
<1>2. tail["prod"] = old_head[t]  BY <1>1, TailIsOld, SideFacts DEF UpdateTail
<1>3. PICK h \in Nat : h = head["cons"]  BY DEF IInv, TypeOK, Sides
<1>4. PICK m \in Nat : m = tail["prod"] - head["cons"]  BY QueueFacts
<1>5. PICK k \in Nat : k = n[t]  BY DEF IInv, TypeOK
<1>6. PICK first \in 1 .. MaxObjs : first = obj_table[t]  BY <1>1 DEF Named
<1>7. old_head[t] = h + m
  <2>1. tail["prod"] \in Nat  BY DEF IInv, TypeOK, Sides
  <2> QED  BY <1>2, <1>3, <1>4, <2>1
<1>8. k >= 1 /\ m + k <= Capacity /\ i[t] = k
  <2>1. /\ n[t] >= 1 /\ old_head[t] + n[t] <= head["prod"] /\ i[t] = n[t]
    BY <1>1, SideFacts DEF IInv, IndexInv, Locals
  <2>2. /\ head["prod"] \in Nat /\ tail["cons"] \in Nat /\ head["prod"] <= tail["cons"] + Capacity
        /\ tail["cons"] <= head["cons"]
    BY DEF IInv, TypeOK, Sides, IndexInv, IndexOrder
  <2> QED  BY <1>3, <1>5, <1>7, <2>1, <2>2, Constants
<1>9. /\ Queue \in Seq(Nat) /\ Len(Queue) = m
      /\ \A j \in 1 .. m : Queue[j] = ring[Slot(h + j - 1)]
  BY <1>3, <1>4, QueueFacts
<1>10. \A j \in 1 .. k : ring[Slot((h + m) + j - 1)] = first + j - 1
  <2> SUFFICES ASSUME NEW j \in 1 .. k PROVE ring[Slot((h + m) + j - 1)] = first + j - 1
    OBVIOUS
  <2>1. PICK x \in 0 .. k - 1 : x = j - 1  OBVIOUS
  <2>2. /\ ring[Slot(old_head[t] + x)] = log[Slot(old_head[t] + x)]
        /\ log[Slot(old_head[t] + x)] = first + x
    BY <1>1, <1>5, <1>6, <1>8 DEF IInv, DataInv, Wrote, Offsets
  <2>3. old_head[t] + x = (h + m) + j - 1 /\ first + x = first + j - 1  BY <1>7, <2>1
  <2> QED  BY <2>2, <2>3
<1>11. PICK b : b = [j \in 1 .. k |-> first + j - 1]  OBVIOUS
<1>12. b \in Seq(Nat) /\ Len(b) = k /\ \A j \in 1 .. k : b[j] = first + j - 1
  <2>1. \A j \in 1 .. k : first + j - 1 \in Nat  OBVIOUS
  <2> QED  BY <1>11, <2>1
<1>13. PICK z : z = Queue'  OBVIOUS
<1>14. /\ z \in Seq(Nat) /\ Len(z) = m + k
       /\ \A j \in 1 .. m + k : z[j] = ring[Slot(h + j - 1)]
  <2>1. tail'["prod"] = (h + m) + k /\ head'["cons"] = h
    BY <1>1, <1>3, <1>5, <1>7 DEF IInv, TypeOK, Sides
  <2>2. tail'["prod"] - head'["cons"] = m + k  BY <2>1
  <2>3. z = [j \in 1 .. m + k |-> ring[Slot(h + j - 1)]]
    BY <1>1, <1>13, <2>1, <2>2 DEF Queue, Slot, U32
  <2>4. \A j \in 1 .. m + k : ring[Slot(h + j - 1)] \in Nat
    <3> SUFFICES ASSUME NEW j \in 1 .. m + k PROVE ring[Slot(h + j - 1)] \in Nat  OBVIOUS
    <3>1. h + j - 1 \in Nat  OBVIOUS
    <3> QED  BY <3>1, SlotOf DEF IInv, TypeOK
  <2> QED  BY <2>3, <2>4
<1>15. PICK w : w = Queue \o b  OBVIOUS
<1>16. /\ w \in Seq(Nat) /\ Len(w) = m + k
       /\ \A j \in 1 .. m + k : w[j] = IF j <= m THEN Queue[j] ELSE b[j - m]
  BY <1>9, <1>12, <1>15, ConcatProperties, ZenonT(40)
<1>17. \A j \in 1 .. m + k : z[j] = w[j]
  <2> SUFFICES ASSUME NEW j \in 1 .. m + k PROVE z[j] = w[j]  OBVIOUS
  <2>1. CASE j <= m
    <3>1. j \in 1 .. m  BY <2>1
    <3>2. w[j] = Queue[j]  BY <1>16, <2>1
    <3>3. Queue[j] = ring[Slot(h + j - 1)]  BY <1>9, <3>1
    <3>4. z[j] = ring[Slot(h + j - 1)]  BY <1>14
    <3> QED  BY <3>2, <3>3, <3>4
  <2>2. CASE j > m
    <3>1. PICK x \in 1 .. k : x = j - m  BY <2>2
    <3>2. w[j] = first + x - 1  BY <1>12, <1>16, <2>2, <3>1
    <3>3. h + j - 1 = (h + m) + x - 1  BY <3>1
    <3>4. z[j] = first + x - 1  BY <1>10, <1>14, <3>3
    <3> QED  BY <3>2, <3>4
  <2> QED  BY <2>1, <2>2
<1>18. z = w  BY <1>14, <1>16, <1>17, SeqEqual
<1>19. Gots' = Gots
  <2>1. \A u \in Threads : u # t => Same(u)  BY <1>1 DEF IInv, TypeOK, Return, Same
  <2>2. ASSUME NEW c \in Consumers PROVE Got(c)' = Got(c)
    <3>1. c \in Threads /\ c # t  BY SideFacts DEF Threads
    <3> QED  BY <1>1, <2>1, <3>1, GotSame DEF Same
  <2> QED  BY <2>2, GotsSame
<1>20. k \in 1 .. Capacity /\ Len(Queue) + k <= Capacity  BY <1>8, <1>9, Constants
<1>21. Queue' = Queue \o [j \in 1 .. k |-> first + j - 1]
  BY <1>11, <1>13, <1>15, <1>18
<1> QED  BY <1>6, <1>19, <1>20, <1>21 DEF Fifo!Put, Gots

-----------------------------------------------------------------------------
(* The refinement.                                                         *)
LEMMA InitFifo == Init => Fifo!Init
<1> SUFFICES ASSUME Init PROVE Fifo!Init  OBVIOUS
<1>1. IInv  BY InitOK
<1>2. tail["prod"] - head["cons"] = 0  BY BoundAssumption DEF Init, Sides
<1>3. Queue = <<>>
  <2>1. Queue \in Seq(Nat) /\ Len(Queue) = 0  BY <1>1, <1>2, QueueFacts
  <2> QED  BY <2>1, EmptySeq
<1>4. \A c \in Consumers : Got(c) = <<>>
  BY SideFacts DEF Init, Got, Threads
<1> QED  BY <1>3, <1>4 DEF Fifo!Init

LEMMA StepFifo == IInv /\ IInv' /\ Named /\ [Next]_vars => [Fifo!Next]_(Fifo!vars)
<1> SUFFICES ASSUME IInv, IInv', Named, [Next]_vars PROVE [Fifo!Next]_(Fifo!vars)
  OBVIOUS
<1>s. Queue' = Queue /\ Gots' = Gots => UNCHANGED Fifo!vars  BY DEF Fifo!vars, Gots
<1>1. CASE UNCHANGED vars
  <2>1. Queue' = Queue  BY <1>1, QueueSame DEF vars
  <2>2. \A c \in Consumers : Got(c)' = Got(c)  BY <1>1, GotSame DEF vars
  <2> QED  BY <1>s, <2>1, <2>2, GotsSame
<1>2. ASSUME NEW t \in Threads, Enqueue(t) \/ Dequeue(t) \/ Step(t)
      PROVE  [Fifo!Next]_(Fifo!vars)
  <2>1. CASE Enqueue(t) \/ Dequeue(t) \/ ReadHead(t) \/ ReadTail(t)
    BY <1>s, <2>1, BeginStutters
  <2>2. CASE MoveHead(t)
    <3>1. pc[t] = "cas"  BY <2>2 DEF MoveHead
    <3>2. CASE single(t) \/ U32(head[Side(t)]) = U32(old_head[t])
      <4>1. Claim(t)  BY <2>2, <3>2 DEF MoveHead
      <4>2. head[Side(t)] = old_head[t]  BY <3>1, <3>2, HeadIsOld
      <4>3. CASE t \in Producers  BY <1>s, <3>1, <4>1, <4>3, ProducerClaimStutters
      <4>4. CASE t \in Consumers
        <5>1. Fifo!Take(t)  BY <3>1, <4>1, <4>2, <4>4, ClaimTakes
        <5> QED  BY <4>4, <5>1 DEF Fifo!Next
      <4> QED  BY <4>3, <4>4, SideFacts
    <3>3. CASE ~(single(t) \/ U32(head[Side(t)]) = U32(old_head[t]))
      BY <1>s, <2>2, <3>1, <3>3, RetryStutters DEF MoveHead
    <3> QED  BY <3>2, <3>3
  <2>3. CASE CopyIn(t)  BY <1>s, <2>3, CopyInStutters
  <2>4. CASE CopyOut(t)  BY <1>s, <2>4, CopyOutStutters
  <2>5. CASE UpdateTail(t)
    <3>1. CASE t \in Producers
      <4>1. Fifo!Put  BY <2>5, <3>1, TailPuts
      <4> QED  BY <4>1 DEF Fifo!Next
    <3>2. CASE t \in Consumers  BY <1>s, <2>5, <3>2, ConsumerTailStutters
    <3> QED  BY <3>1, <3>2, SideFacts
  <2> QED  BY <1>2, <2>1, <2>2, <2>3, <2>4, <2>5 DEF Step
<1> QED  BY <1>1, <1>2 DEF Next

\* The ring is a bounded first-in first-out queue: an enqueue takes effect as
\* update_tail moves the producer's tail, a dequeue as its compare-and-set
\* moves the consumer's head, and no other step shows.
THEOREM Refinement == Spec => ImplementsFifo
<1>1. Init /\ [][Next]_vars => []Named
  <2>1. Init => Named  BY NamedInit
  <2>2. IInv /\ Named /\ [Next]_vars => Named'  BY NamedNext
  <2> QED  BY <2>1, <2>2, Invariance, PTL DEF Spec
<1>2. Init => Fifo!Init  BY InitFifo
<1>3. IInv /\ IInv' /\ Named /\ [Next]_vars => [Fifo!Next]_(Fifo!vars)  BY StepFifo
<1> QED  BY <1>1, <1>2, <1>3, Invariance, PTL DEF Spec, ImplementsFifo, Fifo!Spec
=============================================================================
