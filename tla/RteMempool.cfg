\* Two lcores and a thread without a lcore id; requests that are served from
\* the cache, by a backfill and from the ring, and puts too large for a cache.
SPECIFICATION Spec
CONSTANTS
    Lcores = {l1, l2, x}
    NonEal = {x}
    Objs = {b1, b2, b3, b4, b5, b6, b7}
    CacheSize = 2
    CacheMax = 2
    MaxHeld = 6
    MaxN = 5
SYMMETRY Symmetry
INVARIANTS Conserved CacheBounded
PROPERTIES FailsWhenOut
