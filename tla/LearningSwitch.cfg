\* Two hosts that may move twice, three ports, a switch that restarts once and
\* buffers packets or not, in buffer 0 too.  A packet that stays in its buffer
\* is not one to send again; once both are there and no restart is left the
\* run may stop, which is an effect of the bound Packets.
SPECIFICATION FairSpec
CONSTANTS
    Hosts = {h1, h2}
    Ports = {1, 2, 3}
    BufferIds = {0, 1}
    Packets = {p1, p2}
    MaxMoves = 2
    MaxRestarts = 1
INVARIANTS OnlyBuffer0Keeps SentOnce FlowsSound SenderKnown
PROPERTIES FlowInstalled
CHECK_DEADLOCK FALSE
