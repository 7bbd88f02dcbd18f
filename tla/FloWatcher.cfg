SPECIFICATION FairSpec
CONSTANTS
    Main = 14
    Slaves = {15, 16}
    Ctrl = 0
    RxRingSize = 2
    BurstSize = 2
    MaxPkts = 3
    MaxSignals = 2
INVARIANTS CountExact LineBracketed
PROPERTIES SignalEnds AllCounted
