------------------------------ MODULE RteMempool ------------------------------
(***************************************************************************)
(* The packet buffer pool of l2fwd and FloWatcher (rte_mempool.h): a ring  *)
(* shared by all lcores, and in front of it a private cache per lcore.     *)
(* Drivers get buffers for the receive descriptors and put back the ones   *)
(* that were sent or dropped, often on another lcore.                      *)
(*                                                                         *)
(* A ring operation is one step, as RteRing shows it to be (RingFifo).     *)
(* Buffers are interchangeable, so ring and caches are sets: which buffer  *)
(* of the ring or of the cache a call takes is left open.                  *)
(***************************************************************************)
EXTENDS Naturals, FiniteSets

CONSTANTS
    Lcores,     \* threads that use the pool
    NonEal,     \* those without a lcore id, hence without a cache
    Objs,       \* the buffers
    CacheSize,  \* cache_size of the pool; 0: no caches
    CacheMax,   \* RTE_MEMPOOL_CACHE_MAX_SIZE
    MaxHeld,    \* descriptors and packet tables that can hold a buffer
    MaxN        \* bound on the buffers of a call

ASSUME PoolAssumption ==
    /\ NonEal \subseteq Lcores /\ IsFiniteSet(Objs) /\ IsFiniteSet(Lcores)
    /\ CacheSize \in Nat /\ CacheMax \in Nat /\ CacheSize <= CacheMax
    /\ MaxHeld \in Nat /\ MaxN \in Nat

flushthresh == (3 * CacheSize) \div 2
HasCache(l) == CacheSize # 0 /\ l \notin NonEal

VARIABLES
    ring,    \* the buffers in the common ring
    cache,   \* cache[l]: the buffers in the cache of l
    held,    \* the buffers in use by drivers and applications
    room,    \* how many more they can use
    pc,      \* where a lcore is in a put or a get
    want     \* n of a get that goes to the ring

vars == <<ring, cache, held, room, pc, want>>

\* rte_pktmbuf_pool_create has put every buffer into the ring.
Init ==
    /\ ring = Objs
    /\ cache = [l \in Lcores |-> {}]
    /\ held = {}
    /\ room = MaxHeld
    /\ pc = [l \in Lcores |-> "idle"]
    /\ want = [l \in Lcores |-> 0]

len(l) == Cardinality(cache[l])
Subsets(S, k) == {T \in SUBSET S : Cardinality(T) = k}

-----------------------------------------------------------------------------
(* __mempool_generic_get.                                                  *)

\* "Can this be satisfied from the cache?"
GetCached(l, k) ==
    /\ HasCache(l) /\ k < CacheSize /\ len(l) >= k
    /\ \E S \in Subsets(cache[l], k) :
        /\ cache' = [cache EXCEPT ![l] = @ \ S]
        /\ held' = held \cup S
    /\ UNCHANGED <<ring, pc, want>>

\* Mutant: what the call returns stays in the cache.
GetBackfill_keep(l, k) ==
    /\ HasCache(l) /\ k < CacheSize /\ len(l) < k
    /\ \E R \in Subsets(ring, k + (CacheSize - len(l))) : \E S \in Subsets(R, k) :
        /\ ring' = ring \ R
        /\ cache' = [cache EXCEPT ![l] = @ \cup R]
        /\ held' = held \cup S
    /\ UNCHANGED <<pc, want>>

\* "Backfill the cache first, and then fill from it."
GetBackfill(l, k) ==
    /\ HasCache(l) /\ k < CacheSize /\ len(l) < k
    /\ \E R \in Subsets(ring, k + (CacheSize - len(l))) : \E S \in Subsets(R, k) :
        /\ ring' = ring \ R
        /\ cache' = [cache EXCEPT ![l] = (@ \cup R) \ S]
        /\ held' = held \cup S
    /\ UNCHANGED <<pc, want>>

\* Mutant: a request that the cache could serve goes to the ring.
GetFromRing_skip(l, k) ==
    /\ \/ ~HasCache(l) \/ k >= CacheSize
       \/ Cardinality(ring) < k + CacheSize
    /\ pc' = [pc EXCEPT ![l] = "ring"]
    /\ want' = [want EXCEPT ![l] = k]
    /\ UNCHANGED <<ring, cache, held>>

\* goto ring_dequeue: no cache, a large request, or too few for a backfill.
GetFromRing(l, k) ==
    /\ \/ ~HasCache(l) \/ k >= CacheSize
       \/ len(l) < k /\ Cardinality(ring) < k + (CacheSize - len(l))
    /\ pc' = [pc EXCEPT ![l] = "ring"]
    /\ want' = [want EXCEPT ![l] = k]
    /\ UNCHANGED <<ring, cache, held>>

Get(l) ==
    /\ pc[l] = "idle"
    /\ \E k \in 1 .. MaxN :
        /\ k <= room
        /\ room' = room - k
        /\ GetCached(l, k) \/ GetBackfill(l, k) \/ GetFromRing(l, k)

\* The second access to the ring; other lcores may have used it meanwhile.
RingDequeue(l) ==
    /\ pc[l] = "ring"
    /\ \/ \E S \in Subsets(ring, want[l]) :
            /\ ring' = ring \ S
            /\ held' = held \cup S
            /\ UNCHANGED room
       \/ /\ Cardinality(ring) < want[l]     \* -ENOENT
          /\ room' = room + want[l]
          /\ UNCHANGED <<ring, held>>
    /\ pc' = [pc EXCEPT ![l] = "idle"]
    /\ want' = [want EXCEPT ![l] = 0]
    /\ UNCHANGED cache

-----------------------------------------------------------------------------
(* __mempool_generic_put.                                                  *)
PutRing(l, S) ==
    /\ ~HasCache(l) \/ Cardinality(S) > CacheMax
    /\ ring' = ring \cup S
    /\ UNCHANGED <<cache, pc>>

\* Mutant: no limit on what is copied into the cache.
PutCache_any(l, S) ==
    /\ HasCache(l)
    /\ cache' = [cache EXCEPT ![l] = @ \cup S]
    /\ pc' = [pc EXCEPT ![l] =
                IF Cardinality(cache[l] \cup S) >= flushthresh THEN "flush" ELSE "idle"]
    /\ UNCHANGED ring

PutCache(l, S) ==
    /\ HasCache(l) /\ Cardinality(S) <= CacheMax
    /\ cache' = [cache EXCEPT ![l] = @ \cup S]
    /\ pc' = [pc EXCEPT ![l] =
                IF Cardinality(cache[l] \cup S) >= flushthresh THEN "flush" ELSE "idle"]
    /\ UNCHANGED ring

Put(l) ==
    /\ pc[l] = "idle"
    /\ \E S \in SUBSET held :
        /\ Cardinality(S) \in 1 .. MaxN
        /\ PutRing(l, S) \/ PutCache(l, S)
        /\ held' = held \ S
        /\ room' = room + Cardinality(S)
    /\ UNCHANGED want

\* Past the threshold, everything over the cache size goes back to the ring.
FlushExcess(l) ==
    /\ pc[l] = "flush"
    /\ \E F \in Subsets(cache[l], len(l) - CacheSize) :
        /\ ring' = ring \cup F
        /\ cache' = [cache EXCEPT ![l] = @ \ F]
    /\ pc' = [pc EXCEPT ![l] = "idle"]
    /\ UNCHANGED <<held, room, want>>

rte_mempool_cache_flush(l) ==
    /\ pc[l] = "idle" /\ HasCache(l) /\ cache[l] # {}
    /\ ring' = ring \cup cache[l]
    /\ cache' = [cache EXCEPT ![l] = {}]
    /\ UNCHANGED <<held, room, pc, want>>

Next ==
    \E l \in Lcores :
        Get(l) \/ RingDequeue(l) \/ Put(l) \/ FlushExcess(l) \/ rte_mempool_cache_flush(l)

Spec == Init /\ [][Next]_vars

-----------------------------------------------------------------------------
(* Properties.                                                             *)

\* Every variable keeps its type.
TypeOK ==
    /\ ring \subseteq Objs /\ held \subseteq Objs
    /\ cache \in [Lcores -> SUBSET Objs]
    /\ room \in Nat
    /\ pc \in [Lcores -> {"idle", "ring", "flush"}]
    /\ want \in [Lcores -> 0 .. MaxN]

\* No buffer is handed out twice and none is lost: at any moment each one is
\* in the ring, in one cache, or in use (generic_get, generic_put).
OneOwner ==
    /\ ring \cap held = {}
    /\ \A l \in Lcores : cache[l] \cap (ring \cup held) = {}
    /\ \A l, m \in Lcores : l # m => cache[l] \cap cache[m] = {}
NoneLost == Objs = ring \cup held \cup UNION {cache[l] : l \in Lcores}
Conserved == OneOwner /\ NoneLost

\* The table of a cache has 3 * RTE_MEMPOOL_CACHE_MAX_SIZE entries: a put never
\* copies past its end, and between calls a cache keeps less than its
\* threshold, so that no lcore hoards the pool.
CacheBounded ==
    \A l \in Lcores :
        /\ len(l) <= 3 * CacheMax
        /\ pc[l] # "flush" => len(l) < flushthresh \/ len(l) <= CacheSize

\* The lcore asked for buffers and got none.
Failed(l) == pc[l] = "ring" /\ pc'[l] = "idle" /\ held' = held

\* A get of one buffer fails only if its own cache and the ring are empty,
\* whatever the other lcores did between its two accesses to the ring.
FailsWhenOut ==
    [][\A l \in Lcores : Failed(l) /\ want[l] = 1 /\ HasCache(l) /\ CacheSize > 1 =>
          ring = {} /\ cache[l] = {}]_vars

=============================================================================
