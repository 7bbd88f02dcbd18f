CONSTANTS
    N = 2
    Setups <- T4p4sWithL2fwd
    RingLen = 1
    MaxSent = 1
SPECIFICATION Spec
INVARIANT NoLoop
CHECK_DEADLOCK FALSE
