--------------------------- MODULE MCSyncChannel ---------------------------
(***************************************************************************)
(* SyncChannel for TLC: a host whose screen has a monotone bell counter    *)
(* and one other cell, and a client whose input has no monotone part.      *)
(***************************************************************************)
EXTENDS SyncChannel

MCEnd == {"host", "client"}
MCPeer == [host |-> "client", client |-> "host"]
MCCounters == [host |-> {"bell"}, client |-> {}]
MCNoCounters == [e \in MCEnd |-> {}]
MCFirst == [e \in MCEnd |-> [c \in Cell |-> 0]]
MCInvented == [e \in MCEnd |-> [c \in Cell |-> IF c = "row" THEN 1 ELSE 0]]

\* A screen that moves, watched by a client that only acknowledges.
MCScreenSeq == [host |-> 4, client |-> 1]
MCScreenFlight == [host |-> 1, client |-> 2]

\* Both ends move, and acknowledgements overtake one another.
MCDuplexSeq == [host |-> 2, client |-> 2]
MCDuplexFlight == [host |-> 2, client |-> 2]

=============================================================================
