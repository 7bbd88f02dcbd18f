\* Two slaves and a service core.
SPECIFICATION FairSpec
CONSTANTS
    Slaves = {s1, s2}
    Service = {v}
    None = None
    MaxJobs = 3
INVARIANTS RunsLaunched
PROPERTIES WaitReturnsResult CallsReturn
