\* Two producers and two consumers in a ring of four slots: bursts run over
\* its end and over the end of the index range.
SPECIFICATION FairSpec
CONSTANTS
    Producers = {p1, p2}
    Consumers = {c1, c2}
    Size = 4
    Capacity = 2
    Modulus = 8
    Start = 6
    Calls <- OneOrBurst
    MaxObjs = 3
INVARIANTS NoSlotShared
PROPERTIES HonestRefusal ImplementsFifo ReturnsUnlessBeaten
