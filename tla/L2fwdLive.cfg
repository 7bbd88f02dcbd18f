SPECIFICATION FairSpec
CONSTANTS
    Devs = {0, 1}
    Lcores = {0, 1}
    Master = 0
    Args <- TwoPorts
    MaxPktBurst = 2
    MaxRxQueue = 4
    MaxTimerPeriod = 2
    MaxCheckTime = 1
    RxDesc = 2
    MaxArrivals = 2
PROPERTIES QuitTerminates BufferDrained PrintedSound
