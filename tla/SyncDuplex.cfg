\* Liveness while both ends move.
SPECIFICATION LiveSpec
CONSTANTS
    End <- MCEnd
    Peer <- MCPeer
    Cell = {"row"}
    Val = {0, 1}
    Counters <- MCNoCounters
    First <- MCFirst
    Invented <- MCInvented
    STATE_RING = 2
    MaxSeq <- MCDuplexSeq
    MaxInFlight <- MCDuplexFlight

PROPERTIES Converges ImplementsReplica
