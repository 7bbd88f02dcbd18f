-------------------------- MODULE RteMempoolProofs --------------------------
(***************************************************************************)
(* Proofs about RteMempool, for any number of lcores and buffers and any   *)
(* cache size.                                                             *)
(***************************************************************************)
EXTENDS RteMempool, FiniteSetTheorems, TLAPS

Types ==
    /\ ring \subseteq Objs /\ held \subseteq Objs
    /\ cache \in [Lcores -> SUBSET Objs]
    /\ pc \in [Lcores -> {"idle", "ring", "flush"}]
    /\ want \in [Lcores -> 0 .. MaxN]

\* A lcore that is on its way to the ring has a cache that cannot serve it.
Short ==
    \A l \in Lcores : pc[l] = "ring" /\ HasCache(l) /\ want[l] < CacheSize => len(l) < want[l]

\* How full a cache may be, also between the copy and the flush of a put.
Filled ==
    \A l \in Lcores :
        /\ len(l) < flushthresh + CacheMax \/ len(l) <= CacheSize + CacheMax
        /\ pc[l] # "flush" => len(l) < flushthresh \/ len(l) <= CacheSize

IInv == Types /\ Conserved /\ Short /\ Filled

-----------------------------------------------------------------------------
(* Facts about cardinalities.                                              *)

\* The sets of buffers are finite.
LEMMA Finite ==
    ASSUME NEW S \in SUBSET Objs
    PROVE  IsFiniteSet(S) /\ Cardinality(S) \in Nat
BY PoolAssumption, FS_Subset, FS_CardinalityType

LEMMA SizeRemove ==
    ASSUME NEW S \in SUBSET Objs, NEW F \in SUBSET S
    PROVE  Cardinality(S \ F) = Cardinality(S) - Cardinality(F)
<1>1. IsFiniteSet(S) /\ IsFiniteSet(F)  BY Finite
<1>2. S \cap F = F  OBVIOUS
<1> QED  BY <1>1, <1>2, FS_Difference

LEMMA SizeAdd ==
    ASSUME NEW S \in SUBSET Objs, NEW F \in SUBSET Objs
    PROVE  /\ Cardinality(S \cup F) <= Cardinality(S) + Cardinality(F)
           /\ S \cap F = {} => Cardinality(S \cup F) = Cardinality(S) + Cardinality(F)
<1>1. /\ IsFiniteSet(S) /\ IsFiniteSet(F)
      /\ Cardinality(S) \in Nat /\ Cardinality(F) \in Nat  BY Finite
<1>2. Cardinality(S \cap F) \in Nat  BY Finite
<1>3. Cardinality(S \cup F) = Cardinality(S) + Cardinality(F) - Cardinality(S \cap F)
  BY <1>1, FS_Union
<1>4. S \cap F = {} => Cardinality(S \cap F) = 0  BY FS_EmptySet
<1> QED  BY <1>1, <1>2, <1>3, <1>4

LEMMA Threshold == flushthresh \in Nat /\ 2 * flushthresh <= 3 * CacheSize
BY PoolAssumption DEF flushthresh

-----------------------------------------------------------------------------
\* A step that deals the buffers of the ring, of one cache and of the users
\* anew among the three keeps every buffer with one owner.
LEMMA Reshuffle ==
    ASSUME Types, Conserved, NEW l \in Lcores, NEW C,
           cache' = [cache EXCEPT ![l] = C],
           C \cup ring' \cup held' = cache[l] \cup ring \cup held,
           C \cap ring' = {}, C \cap held' = {}, ring' \cap held' = {}
    PROVE  Conserved' /\ cache' \in [Lcores -> SUBSET Objs] /\ ring' \subseteq Objs
             /\ held' \subseteq Objs
<1>1. cache'[l] = C  BY DEF Types
<1>2. \A m \in Lcores : m # l => cache'[m] = cache[m]  BY DEF Types
<1>3. C \subseteq Objs /\ ring' \subseteq Objs /\ held' \subseteq Objs  BY DEF Types
<1>4. cache' \in [Lcores -> SUBSET Objs]  BY <1>3 DEF Types
<1>5. OneOwner'
  <2>1. \A m \in Lcores : cache'[m] \cap (ring' \cup held') = {}
    <3> TAKE m \in Lcores
    <3>1. CASE m = l  BY <1>1, <3>1
    <3>2. CASE m # l
      <4>1. cache[m] \cap (cache[l] \cup ring \cup held) = {}  BY <3>2 DEF Conserved, OneOwner
      <4> QED  BY <1>2, <3>2, <4>1
    <3> QED  BY <3>1, <3>2
  <2>2. \A k, m \in Lcores : k # m => cache'[k] \cap cache'[m] = {}
    <3>1. \A m \in Lcores : m # l => C \cap cache[m] = {}
      BY DEF Conserved, OneOwner
    <3> QED  BY <3>1, <1>1, <1>2 DEF Conserved, OneOwner
  <2> QED  BY <2>1, <2>2 DEF OneOwner
<1>6. NoneLost'
  <2>1. ASSUME NEW b \in Objs
        PROVE  b \in ring' \cup held' \cup UNION {cache'[m] : m \in Lcores}
    <3>1. \/ b \in ring \cup held \cup cache[l]
          \/ \E m \in Lcores : m # l /\ b \in cache[m]
      BY DEF Conserved, NoneLost
    <3>2. CASE b \in ring \cup held \cup cache[l]  BY <3>2, <1>1
    <3>3. CASE \E m \in Lcores : m # l /\ b \in cache[m]  BY <3>3, <1>2
    <3> QED  BY <3>1, <3>2, <3>3
  <2>2. UNION {cache'[m] : m \in Lcores} \subseteq Objs  BY <1>4
  <2> QED  BY <1>3, <2>1, <2>2 DEF NoneLost
<1> QED  BY <1>3, <1>4, <1>5, <1>6 DEF Conserved

\* The caches and control states of the other lcores are left alone.
LEMMA OthersKept ==
    ASSUME Types, Short, Filled, NEW l \in Lcores,
           \A m \in Lcores : m # l =>
               cache'[m] = cache[m] /\ pc'[m] = pc[m] /\ want'[m] = want[m],
           pc'[l] = "ring" /\ HasCache(l) /\ want'[l] < CacheSize => len(l)' < want'[l],
           len(l)' < flushthresh + CacheMax \/ len(l)' <= CacheSize + CacheMax,
           pc'[l] # "flush" => len(l)' < flushthresh \/ len(l)' <= CacheSize
    PROVE  Short' /\ Filled'
<1>1. Short'
  <2> SUFFICES ASSUME NEW m \in Lcores, pc'[m] = "ring", HasCache(m), want'[m] < CacheSize
               PROVE  len(m)' < want'[m]
    BY DEF Short, HasCache
  <2>1. CASE m = l  BY <2>1
  <2>2. CASE m # l  BY <2>2 DEF Short, len
  <2> QED  BY <2>1, <2>2
<1>2. Filled'
  <2> SUFFICES ASSUME NEW m \in Lcores
               PROVE  /\ len(m)' < flushthresh + CacheMax \/ len(m)' <= CacheSize + CacheMax
                      /\ pc'[m] # "flush" => len(m)' < flushthresh \/ len(m)' <= CacheSize
    BY DEF Filled, flushthresh
  <2>1. CASE m = l  BY <2>1
  <2>2. CASE m # l  BY <2>2 DEF Filled, len
  <2> QED  BY <2>1, <2>2
<1> QED  BY <1>1, <1>2

-----------------------------------------------------------------------------
(* Initial states and steps.                                               *)
LEMMA InitOK == Init => IInv
<1> SUFFICES ASSUME Init PROVE IInv  OBVIOUS
<1>1. Types  BY PoolAssumption DEF Init, Types
<1>2. Conserved
  <2>1. \A l \in Lcores : cache[l] = {}  BY DEF Init
  <2> QED  BY <2>1 DEF Init, Conserved, OneOwner, NoneLost
<1>3. \A l \in Lcores : len(l) = 0  BY FS_EmptySet DEF Init, len
<1>4. Short  BY DEF Init, Short
<1>5. Filled  BY <1>3, PoolAssumption, Threshold DEF Filled
<1> QED  BY <1>1, <1>2, <1>4, <1>5 DEF IInv

\* A get served from the cache.
LEMMA CachedOK ==
    ASSUME IInv, NEW l \in Lcores, pc[l] = "idle", NEW k \in 1 .. MaxN, GetCached(l, k)
    PROVE  IInv'
<1> USE DEF IInv
<1>1. PICK S \in Subsets(cache[l], k) :
        cache' = [cache EXCEPT ![l] = @ \ S] /\ held' = held \cup S
  BY DEF GetCached
<1>2. ring' = ring /\ pc' = pc /\ want' = want  BY DEF GetCached
<1>3. S \subseteq cache[l] /\ cache[l] \subseteq Objs  BY DEF Subsets, Types
<1>4. cache[l] \cap ring = {} /\ cache[l] \cap held = {} /\ ring \cap held = {}
  BY DEF Conserved, OneOwner
<1>5. /\ Conserved' /\ cache' \in [Lcores -> SUBSET Objs]
      /\ ring' \subseteq Objs /\ held' \subseteq Objs
  <2>1. cache' = [cache EXCEPT ![l] = cache[l] \ S]  BY <1>1
  <2>2. (cache[l] \ S) \cup ring' \cup held' = cache[l] \cup ring \cup held  BY <1>1, <1>2, <1>3
  <2>3. /\ (cache[l] \ S) \cap ring' = {} /\ (cache[l] \ S) \cap held' = {}
        /\ ring' \cap held' = {}
    BY <1>1, <1>2, <1>3, <1>4
  <2> QED  BY <2>1, <2>2, <2>3, Reshuffle
<1>6. Types'  BY <1>2, <1>5 DEF Types
<1>7. len(l)' <= len(l) /\ len(l) \in Nat /\ len(l)' \in Nat
  <2>1. cache'[l] = cache[l] \ S  BY <1>1 DEF Types
  <2>2. Cardinality(cache[l] \ S) = Cardinality(cache[l]) - Cardinality(S)  BY <1>3, SizeRemove
  <2>3. Cardinality(S) \in Nat /\ Cardinality(cache[l]) \in Nat /\ Cardinality(cache[l] \ S) \in Nat
    BY <1>3, Finite
  <2> QED  BY <2>1, <2>2, <2>3 DEF len
<1>8. Short' /\ Filled'
  <2>1. \A m \in Lcores : m # l =>
            cache'[m] = cache[m] /\ pc'[m] = pc[m] /\ want'[m] = want[m]
    BY <1>1, <1>2 DEF Types
  <2>2. /\ len(l) < flushthresh + CacheMax \/ len(l) <= CacheSize + CacheMax
        /\ pc[l] # "flush" => len(l) < flushthresh \/ len(l) <= CacheSize
    BY DEF Filled
  <2>3. /\ len(l)' < flushthresh + CacheMax \/ len(l)' <= CacheSize + CacheMax
        /\ len(l)' < flushthresh \/ len(l)' <= CacheSize
    BY <1>7, <2>2, PoolAssumption, Threshold
  <2> QED  BY <1>2, <2>1, <2>3, OthersKept
<1> QED  BY <1>5, <1>6, <1>8

\* A get that fills the cache up first: it ends with a cache of its size.
LEMMA BackfillOK ==
    ASSUME IInv, NEW l \in Lcores, pc[l] = "idle", NEW k \in 1 .. MaxN, GetBackfill(l, k)
    PROVE  IInv'
<1> USE DEF IInv
<1>r. PICK R \in Subsets(ring, k + (CacheSize - len(l))) : \E S \in Subsets(R, k) :
        /\ ring' = ring \ R /\ held' = held \cup S
        /\ cache' = [cache EXCEPT ![l] = (@ \cup R) \ S]
  BY DEF GetBackfill
<1>1. PICK S \in Subsets(R, k) :
        /\ ring' = ring \ R /\ held' = held \cup S
        /\ cache' = [cache EXCEPT ![l] = (@ \cup R) \ S]
  BY <1>r
<1>2. pc' = pc /\ want' = want  BY DEF GetBackfill
<1>3. /\ R \subseteq ring /\ S \subseteq R /\ cache[l] \subseteq Objs /\ ring \subseteq Objs
      /\ Cardinality(R) = k + (CacheSize - len(l)) /\ Cardinality(S) = k
  BY DEF Subsets, Types
<1>4. cache[l] \cap ring = {} /\ cache[l] \cap held = {} /\ ring \cap held = {}
  BY DEF Conserved, OneOwner
<1>c. PICK C : C = (cache[l] \cup R) \ S  OBVIOUS
<1>5. /\ Conserved' /\ cache' \in [Lcores -> SUBSET Objs]
      /\ ring' \subseteq Objs /\ held' \subseteq Objs
  <2>1. cache' = [cache EXCEPT ![l] = C]  BY <1>1, <1>c
  <2>2. C \cup ring' \cup held' = cache[l] \cup ring \cup held
    BY <1>1, <1>3, <1>4, <1>c
  <2>3. C \cap ring' = {} /\ C \cap held' = {} /\ ring' \cap held' = {}
    BY <1>1, <1>3, <1>4, <1>c
  <2> QED  BY <2>1, <2>2, <2>3, Reshuffle
<1>6. Types'  BY <1>2, <1>5 DEF Types
<1>7. len(l)' = CacheSize
  <2>1. cache'[l] = C  BY <1>1, <1>c DEF Types
  <2>2. R \subseteq Objs /\ cache[l] \cap R = {}  BY <1>3, <1>4
  <2>3. Cardinality(cache[l] \cup R) = len(l) + Cardinality(R)
    BY <1>3, <2>2, SizeAdd DEF len
  <2>4. Cardinality(C) = Cardinality(cache[l] \cup R) - Cardinality(S)
    BY <1>3, <2>2, <1>c, SizeRemove
  <2>5. len(l) \in Nat  BY <1>3, Finite DEF len
  <2>6. Cardinality(C) = CacheSize  BY <1>3, <2>3, <2>4, <2>5, PoolAssumption
  <2> QED  BY <2>1, <2>6 DEF len
<1>8. Short' /\ Filled'
  <2>1. \A m \in Lcores : m # l =>
            cache'[m] = cache[m] /\ pc'[m] = pc[m] /\ want'[m] = want[m]
    BY <1>1, <1>2 DEF Types
  <2>2. len(l)' <= CacheSize + CacheMax /\ len(l)' <= CacheSize
    BY <1>7, PoolAssumption
  <2> QED  BY <1>2, <2>1, <2>2, OthersKept
<1> QED  BY <1>5, <1>6, <1>8

\* A get that goes to the ring.
LEMMA FromRingOK ==
    ASSUME IInv, NEW l \in Lcores, pc[l] = "idle", NEW k \in 1 .. MaxN, GetFromRing(l, k)
    PROVE  IInv'
<1> USE DEF IInv
<1>1. /\ pc' = [pc EXCEPT ![l] = "ring"] /\ want' = [want EXCEPT ![l] = k]
      /\ ring' = ring /\ cache' = cache /\ held' = held
  BY DEF GetFromRing
<1>2. k \in 0 .. MaxN  BY PoolAssumption
<1>3. Types'  BY <1>1, <1>2 DEF Types
<1>4. Conserved'  BY <1>1 DEF Conserved, OneOwner, NoneLost
<1>5. Short' /\ Filled'
  <2>1. \A m \in Lcores : m # l =>
            cache'[m] = cache[m] /\ pc'[m] = pc[m] /\ want'[m] = want[m]
    BY <1>1 DEF Types
  <2>2. pc'[l] = "ring" /\ want'[l] = k /\ len(l)' = len(l)  BY <1>1 DEF Types, len
  <2>3. HasCache(l) /\ k < CacheSize => len(l) < k  BY PoolAssumption DEF GetFromRing
  <2>4. /\ len(l)' < flushthresh + CacheMax \/ len(l)' <= CacheSize + CacheMax
        /\ len(l)' < flushthresh \/ len(l)' <= CacheSize
    BY <2>2 DEF Filled
  <2> QED  BY <2>1, <2>2, <2>3, <2>4, OthersKept
<1> QED  BY <1>3, <1>4, <1>5

LEMMA DequeueOK ==
    ASSUME IInv, NEW l \in Lcores, RingDequeue(l)
    PROVE  IInv'
<1> USE DEF IInv
<1>1. /\ pc[l] = "ring" /\ pc' = [pc EXCEPT ![l] = "idle"]
      /\ want' = [want EXCEPT ![l] = 0] /\ cache' = cache
  BY DEF RingDequeue
<1>2. PICK S : S \subseteq ring /\ ring' = ring \ S /\ held' = held \cup S
  <2>1. CASE \E S \in Subsets(ring, want[l]) : ring' = ring \ S /\ held' = held \cup S
    BY <2>1 DEF Subsets
  <2>2. CASE ring' = ring /\ held' = held
    <3> WITNESS {}
    <3> QED  BY <2>2
  <2> QED  BY <2>1, <2>2 DEF RingDequeue
<1>3. /\ Conserved' /\ cache' \in [Lcores -> SUBSET Objs]
      /\ ring' \subseteq Objs /\ held' \subseteq Objs
  <2>1. cache' = [cache EXCEPT ![l] = cache[l]]  BY <1>1 DEF Types
  <2>2. cache[l] \cap ring = {} /\ cache[l] \cap held = {} /\ ring \cap held = {}
    BY DEF Conserved, OneOwner
  <2>3. cache[l] \cup ring' \cup held' = cache[l] \cup ring \cup held  BY <1>2
  <2>4. cache[l] \cap ring' = {} /\ cache[l] \cap held' = {} /\ ring' \cap held' = {}
    BY <1>2, <2>2
  <2> QED  BY <2>1, <2>3, <2>4, Reshuffle
<1>4. Types'  BY <1>1, <1>3, PoolAssumption DEF Types
<1>5. Short' /\ Filled'
  <2>1. \A m \in Lcores : m # l =>
            cache'[m] = cache[m] /\ pc'[m] = pc[m] /\ want'[m] = want[m]
    BY <1>1 DEF Types
  <2>2. pc'[l] = "idle" /\ len(l)' = len(l)  BY <1>1 DEF Types, len
  <2>3. /\ len(l)' < flushthresh + CacheMax \/ len(l)' <= CacheSize + CacheMax
        /\ len(l)' < flushthresh \/ len(l)' <= CacheSize
    BY <1>1, <2>2 DEF Filled
  <2> QED  BY <2>1, <2>2, <2>3, OthersKept
<1> QED  BY <1>3, <1>4, <1>5
\* A put to the ring or into the cache: buffers that were in use, at most
\* CacheMax of them in a cache that was below its threshold.
LEMMA PutOK ==
    ASSUME IInv, NEW l \in Lcores, Put(l)
    PROVE  IInv'
<1> USE DEF IInv
<1>1. PICK S \in SUBSET held : held' = held \ S /\ (PutRing(l, S) \/ PutCache(l, S))
  BY DEF Put
<1>2. pc[l] = "idle" /\ want' = want  BY DEF Put
<1>3. cache[l] \cap ring = {} /\ cache[l] \cap held = {} /\ ring \cap held = {}
  BY DEF Conserved, OneOwner
<1>4. S \subseteq Objs /\ cache[l] \subseteq Objs  BY DEF Types
<1>5. len(l) \in Nat /\ (len(l) < flushthresh \/ len(l) <= CacheSize)
  BY <1>2, <1>4, Finite DEF Filled, len
<1>6. CASE PutRing(l, S)
  <2>1. ring' = ring \cup S /\ cache' = cache /\ pc' = pc  BY <1>6 DEF PutRing
  <2>2. /\ Conserved' /\ cache' \in [Lcores -> SUBSET Objs]
        /\ ring' \subseteq Objs /\ held' \subseteq Objs
    <3>1. cache' = [cache EXCEPT ![l] = cache[l]]  BY <2>1 DEF Types
    <3>2. cache[l] \cup ring' \cup held' = cache[l] \cup ring \cup held  BY <1>1, <2>1
    <3>3. cache[l] \cap ring' = {} /\ cache[l] \cap held' = {} /\ ring' \cap held' = {}
      BY <1>1, <1>3, <2>1
    <3> QED  BY <3>1, <3>2, <3>3, Reshuffle
  <2>3. Types'  BY <1>2, <2>1, <2>2 DEF Types
  <2>4. Short' /\ Filled'  BY <1>2, <2>1 DEF Short, Filled, len, HasCache, flushthresh
  <2> QED  BY <2>2, <2>3, <2>4
<1>7. CASE PutCache(l, S)
  <2>1. /\ ring' = ring /\ cache' = [cache EXCEPT ![l] = cache[l] \cup S]
        /\ pc' = [pc EXCEPT ![l] =
                    IF Cardinality(cache[l] \cup S) >= flushthresh THEN "flush" ELSE "idle"]
        /\ Cardinality(S) <= CacheMax
    BY <1>7 DEF PutCache
  <2>2. /\ Conserved' /\ cache' \in [Lcores -> SUBSET Objs]
        /\ ring' \subseteq Objs /\ held' \subseteq Objs
    <3>1. (cache[l] \cup S) \cup ring' \cup held' = cache[l] \cup ring \cup held
      BY <1>1, <2>1
    <3>2. /\ (cache[l] \cup S) \cap ring' = {} /\ (cache[l] \cup S) \cap held' = {}
          /\ ring' \cap held' = {}
      BY <1>1, <1>3, <2>1
    <3> QED  BY <2>1, <3>1, <3>2, Reshuffle
  <2>3. Types'  BY <1>2, <2>1, <2>2 DEF Types
  <2>4. len(l)' = Cardinality(cache[l] \cup S)  BY <2>1 DEF Types, len
  <2>5. len(l)' <= len(l) + CacheMax /\ len(l)' \in Nat
    <3>1. Cardinality(cache[l] \cup S) <= len(l) + Cardinality(S)
      BY <1>4, SizeAdd DEF len
    <3>2. Cardinality(S) \in Nat /\ Cardinality(cache[l] \cup S) \in Nat
      BY <1>4, Finite
    <3> QED  BY <1>5, <2>1, <2>4, <3>1, <3>2, PoolAssumption
  <2>6. Short' /\ Filled'
    <3>1. \A m \in Lcores : m # l =>
              cache'[m] = cache[m] /\ pc'[m] = pc[m] /\ want'[m] = want[m]
      BY <1>2, <2>1 DEF Types
    <3>2. pc'[l] = IF len(l)' >= flushthresh THEN "flush" ELSE "idle"
      BY <2>1, <2>4 DEF Types
    <3>3. len(l)' < flushthresh + CacheMax \/ len(l)' <= CacheSize + CacheMax
      BY <1>5, <2>5, PoolAssumption, Threshold
    <3>4. pc'[l] # "flush" => len(l)' < flushthresh
      BY <2>5, <3>2, Threshold
    <3>5. pc'[l] # "ring"  BY <3>2
    <3> QED  BY <3>1, <3>3, <3>4, <3>5, OthersKept
  <2> QED  BY <2>2, <2>3, <2>6
<1> QED  BY <1>1, <1>6, <1>7

\* A flush leaves a cache of its size.
LEMMA FlushOK ==
    ASSUME IInv, NEW l \in Lcores, FlushExcess(l)
    PROVE  IInv'
<1> USE DEF IInv
<1>1. PICK F \in Subsets(cache[l], len(l) - CacheSize) :
        ring' = ring \cup F /\ cache' = [cache EXCEPT ![l] = cache[l] \ F]
  BY DEF FlushExcess
<1>2. pc' = [pc EXCEPT ![l] = "idle"] /\ held' = held /\ want' = want  BY DEF FlushExcess
<1>3. /\ F \subseteq cache[l] /\ cache[l] \subseteq Objs
      /\ Cardinality(F) = len(l) - CacheSize
  BY DEF Subsets, Types
<1>4. cache[l] \cap ring = {} /\ cache[l] \cap held = {} /\ ring \cap held = {}
  BY DEF Conserved, OneOwner
<1>5. /\ Conserved' /\ cache' \in [Lcores -> SUBSET Objs]
      /\ ring' \subseteq Objs /\ held' \subseteq Objs
  <2>1. (cache[l] \ F) \cup ring' \cup held' = cache[l] \cup ring \cup held
    BY <1>1, <1>2, <1>3
  <2>2. /\ (cache[l] \ F) \cap ring' = {} /\ (cache[l] \ F) \cap held' = {}
        /\ ring' \cap held' = {}
    BY <1>1, <1>2, <1>3, <1>4
  <2> QED  BY <1>1, <2>1, <2>2, Reshuffle
<1>6. Types'  BY <1>2, <1>5 DEF Types
<1>7. len(l)' = CacheSize
  <2>1. cache'[l] = cache[l] \ F  BY <1>1 DEF Types
  <2>2. Cardinality(cache[l] \ F) = len(l) - Cardinality(F)  BY <1>3, SizeRemove DEF len
  <2>3. len(l) \in Nat  BY <1>3, Finite DEF len
  <2>4. Cardinality(cache[l] \ F) = CacheSize  BY <1>3, <2>2, <2>3, PoolAssumption
  <2> QED  BY <2>1, <2>4 DEF len
<1>8. Short' /\ Filled'
  <2>1. \A m \in Lcores : m # l =>
            cache'[m] = cache[m] /\ pc'[m] = pc[m] /\ want'[m] = want[m]
    BY <1>1, <1>2 DEF Types
  <2>2. len(l)' <= CacheSize + CacheMax /\ len(l)' <= CacheSize  BY <1>7, PoolAssumption
  <2>3. pc'[l] = "idle"  BY <1>2 DEF Types
  <2> QED  BY <2>1, <2>2, <2>3, OthersKept
<1> QED  BY <1>5, <1>6, <1>8

LEMMA CacheFlushOK ==
    ASSUME IInv, NEW l \in Lcores, rte_mempool_cache_flush(l)
    PROVE  IInv'
<1> USE DEF IInv
<1>1. /\ pc[l] = "idle" /\ ring' = ring \cup cache[l] /\ cache' = [cache EXCEPT ![l] = {}]
      /\ held' = held /\ pc' = pc /\ want' = want
  BY DEF rte_mempool_cache_flush
<1>2. cache[l] \cap held = {} /\ ring \cap held = {}  BY DEF Conserved, OneOwner
<1>3. /\ Conserved' /\ cache' \in [Lcores -> SUBSET Objs]
      /\ ring' \subseteq Objs /\ held' \subseteq Objs
  <2>1. {} \cup ring' \cup held' = cache[l] \cup ring \cup held  BY <1>1
  <2>2. {} \cap ring' = {} /\ {} \cap held' = {} /\ ring' \cap held' = {}  BY <1>1, <1>2
  <2> QED  BY <1>1, <2>1, <2>2, Reshuffle
<1>4. Types'  BY <1>1, <1>3 DEF Types
<1>5. len(l)' = 0
  <2>1. cache'[l] = {}  BY <1>1 DEF Types
  <2> QED  BY <2>1, FS_EmptySet DEF len
<1>6. Short' /\ Filled'
  <2>1. \A m \in Lcores : m # l =>
            cache'[m] = cache[m] /\ pc'[m] = pc[m] /\ want'[m] = want[m]
    BY <1>1 DEF Types
  <2>2. len(l)' <= CacheSize + CacheMax /\ len(l)' <= CacheSize  BY <1>5, PoolAssumption
  <2> QED  BY <1>1, <2>1, <2>2, OthersKept
<1> QED  BY <1>3, <1>4, <1>6

LEMMA NextOK == IInv /\ [Next]_vars => IInv'
<1> SUFFICES ASSUME IInv, [Next]_vars PROVE IInv'  OBVIOUS
<1>1. CASE UNCHANGED vars
  BY <1>1 DEF vars, IInv, Types, Conserved, OneOwner, NoneLost, Short, Filled, len,
              HasCache, flushthresh
<1>2. ASSUME NEW l \in Lcores, Get(l) PROVE IInv'
  BY <1>2, CachedOK, BackfillOK, FromRingOK DEF Get
<1> QED  BY <1>1, <1>2, DequeueOK, PutOK, FlushOK, CacheFlushOK DEF Next

\* The inductive invariant: ownership of the buffers, and the lengths of the
\* caches between and inside the calls of __mempool_generic_get and _put.
THEOREM Invariance == Spec => []IInv
BY InitOK, NextOK, PTL DEF Spec

\* Type correctness of the pool; what the users still have room for never goes
\* below zero, although a get books its room before it knows the outcome.
THEOREM TypeCorrect == Spec => []TypeOK
<1>1. Init => room \in Nat  BY PoolAssumption DEF Init
<1>2. ASSUME Types, room \in Nat, [Next]_vars PROVE room' \in Nat
  <2>1. CASE UNCHANGED vars  BY <1>2, <2>1 DEF vars
  <2>2. ASSUME NEW l \in Lcores, Get(l) PROVE room' \in Nat
    <3>1. PICK k \in 1 .. MaxN : k <= room /\ room' = room - k  BY <2>2 DEF Get
    <3> QED  BY <1>2, <3>1, PoolAssumption
  <2>3. ASSUME NEW l \in Lcores, RingDequeue(l) PROVE room' \in Nat
    <3>1. want[l] \in Nat  BY PoolAssumption, <1>2 DEF Types
    <3>2. room' = room \/ room' = room + want[l]  BY <2>3 DEF RingDequeue
    <3> QED  BY <1>2, <3>1, <3>2
  <2>4. ASSUME NEW l \in Lcores, Put(l) PROVE room' \in Nat
    <3>1. PICK S \in SUBSET held : room' = room + Cardinality(S)  BY <2>4 DEF Put
    <3>2. Cardinality(S) \in Nat  BY <1>2, Finite DEF Types
    <3> QED  BY <1>2, <3>1, <3>2
  <2>5. ASSUME NEW l \in Lcores, FlushExcess(l) \/ rte_mempool_cache_flush(l)
        PROVE  room' \in Nat
    BY <1>2, <2>5 DEF FlushExcess, rte_mempool_cache_flush
  <2> QED  BY <1>2, <2>1, <2>2, <2>3, <2>4, <2>5 DEF Next
<1>3. IInv /\ room \in Nat /\ [Next]_vars => (room \in Nat)'  BY <1>2 DEF IInv
<1>4. IInv /\ room \in Nat => TypeOK  BY DEF IInv, Types, TypeOK
<1> QED  BY <1>1, <1>3, <1>4, Invariance, PTL DEF Spec

\* Every buffer has one owner and none is lost, for any number of lcores,
\* buffers and any cache size (__mempool_generic_get, __mempool_generic_put).
THEOREM Conservation == Spec => []Conserved
<1>1. IInv => Conserved  BY DEF IInv
<1> QED  BY <1>1, Invariance, PTL

\* The cache table of 3 * RTE_MEMPOOL_CACHE_MAX_SIZE entries never overflows,
\* and between calls a cache stays below its threshold (or at its size).
THEOREM CacheSafe == Spec => []CacheBounded
<1>1. IInv => CacheBounded
  <2> SUFFICES ASSUME IInv, NEW l \in Lcores
               PROVE  /\ len(l) <= 3 * CacheMax
                      /\ pc[l] # "flush" => len(l) < flushthresh \/ len(l) <= CacheSize
    BY DEF CacheBounded
  <2>1. cache[l] \subseteq Objs  BY DEF IInv, Types
  <2>2. len(l) \in Nat  BY <2>1, Finite DEF len
  <2>3. len(l) < flushthresh + CacheMax \/ len(l) <= CacheSize + CacheMax
    BY DEF IInv, Filled
  <2>4. len(l) <= 3 * CacheMax  BY <2>2, <2>3, PoolAssumption, Threshold
  <2> QED  BY <2>4 DEF IInv, Filled
<1> QED  BY <1>1, Invariance, PTL

\* A get of one buffer fails only if the cache of the lcore and the ring are
\* empty, whatever the other lcores do between its two looks at the ring.
THEOREM GetHonest == Spec => FailsWhenOut
<1>1. ASSUME IInv, [Next]_vars, NEW l \in Lcores, Failed(l), want[l] = 1, HasCache(l),
             CacheSize > 1
      PROVE  ring = {} /\ cache[l] = {}
  <2>1. RingDequeue(l)
    <3>1. pc[l] = "ring" /\ pc'[l] = "idle" /\ pc \in [Lcores -> {"idle", "ring", "flush"}]
      BY <1>1 DEF Failed, IInv, Types
    <3>2. PICK m \in Lcores : Get(m) \/ RingDequeue(m) \/ Put(m) \/ FlushExcess(m)
                                \/ rte_mempool_cache_flush(m)
      BY <1>1, <3>1 DEF Next, vars
    <3>3. CASE m = l
      BY <3>1, <3>2, <3>3 DEF Get, Put, FlushExcess, rte_mempool_cache_flush
    <3>4. CASE m # l
      <4>1. pc'[l] = pc[l]
        BY <3>1, <3>2, <3>4 DEF Get, GetCached, GetBackfill, GetFromRing, RingDequeue, Put,
             PutRing, PutCache, FlushExcess, rte_mempool_cache_flush
      <4> QED  BY <3>1, <4>1
    <3> QED  BY <3>3, <3>4
  <2>2. cache[l] \subseteq Objs /\ ring \subseteq Objs  BY <1>1 DEF IInv, Types
  <2>3. cache[l] = {}
    <3>1. len(l) < 1  BY <1>1 DEF IInv, Short, Failed
    <3>2. IsFiniteSet(cache[l]) /\ len(l) \in Nat  BY <2>2, Finite DEF len
    <3>3. len(l) = 0  BY <3>1, <3>2
    <3> QED  BY <3>2, <3>3, FS_EmptySet DEF len
  <2>4. ring = {}
    <3>1. ASSUME NEW S \in Subsets(ring, 1), held' = held \cup S PROVE FALSE
      <4>1. S \subseteq ring /\ Cardinality(S) = 1  BY <3>1 DEF Subsets
      <4>2. S \subseteq held  BY <1>1, <3>1 DEF Failed
      <4>3. S = {}  BY <1>1, <4>1, <4>2 DEF IInv, Conserved, OneOwner
      <4> QED  BY <4>1, <4>3, FS_EmptySet
    <3>2. Cardinality(ring) < 1  BY <1>1, <2>1, <3>1 DEF RingDequeue
    <3>3. IsFiniteSet(ring) /\ Cardinality(ring) \in Nat  BY <2>2, Finite
    <3>4. Cardinality(ring) = 0  BY <3>2, <3>3
    <3> QED  BY <3>3, <3>4, FS_EmptySet
  <2> QED  BY <2>3, <2>4
<1>2. IInv /\ [Next]_vars =>
        [\A l \in Lcores : Failed(l) /\ want[l] = 1 /\ HasCache(l) /\ CacheSize > 1 =>
            ring = {} /\ cache[l] = {}]_vars
  BY <1>1
<1> QED  BY <1>2, Invariance, PTL DEF Spec, FailsWhenOut
=============================================================================
