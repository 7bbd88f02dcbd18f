\* Two VMs, every switch, both directions.
SPECIFICATION FairSpec
CONSTANTS
    N = 2
    Setups <- Shipped
    RingLen = 2
    MaxSent = 3
INVARIANTS ChainVisited NoLoop
PROPERTIES ImplementsPath Returns
CHECK_DEADLOCK FALSE
