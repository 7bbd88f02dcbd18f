SPECIFICATION Spec
CONSTANTS
    Devs = {0, 1, 2}
    Lcores = {0, 2, 3}
    Master = 2
    Args <- AllArgs
    MaxPktBurst = 1
    MaxRxQueue = 4
    MaxTimerPeriod = 1
    MaxCheckTime = 2
    RxDesc = 1
    MaxArrivals = 1
INVARIANTS PortsPaired NoQueueRace OnlyStartedPortsUsed
