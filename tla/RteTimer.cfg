\* Two lcores and two timers: every list and lock is contended.
SPECIFICATION FairSpec
CONSTANTS
    Lcores = {l1, l2}
    Timers = {t1, t2}
    Ticks = {0, 1}
    MaxNow = 2
    MaxCalls = 3
    None = None
INVARIANTS ListsSound OwnRun
PROPERTIES NotEarly Fires
CHECK_DEADLOCK FALSE
