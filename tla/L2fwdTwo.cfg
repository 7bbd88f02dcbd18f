SPECIFICATION Spec
CONSTANTS
    Devs = {0, 1}
    Lcores = {0, 1}
    Master = 0
    Args <- TwoPortsNoStats
    MaxPktBurst = 2
    MaxRxQueue = 4
    MaxTimerPeriod = 2
    MaxCheckTime = 1
    RxDesc = 2
    MaxArrivals = 3
INVARIANTS TxBufferHasRoom PacketsConserved HeadersRewritten
PROPERTIES ImplementsLink
