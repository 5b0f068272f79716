\* Safety with a ring of three, so that bases drift and fall out of it.
SPECIFICATION Spec
CONSTANTS
    End <- MCEnd
    Peer <- MCPeer
    Cell = {"bell", "row"}
    Val = {0, 1}
    Counters <- MCCounters
    First <- MCFirst
    Invented <- MCInvented
    STATE_RING = 3
    MaxSeq <- MCScreenSeq
    MaxInFlight <- MCScreenFlight
INVARIANTS TypeOK ReplicaAgrees NoFrameRejected AckedStateIsHeld
PROPERTY NeverBackwards
