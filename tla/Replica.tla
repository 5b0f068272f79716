------------------------------ MODULE Replica ------------------------------
(***************************************************************************)
(* What the synchronisation engine promises, with no frames, rings or      *)
(* acknowledgements: each end publishes a log of states, and its peer      *)
(* shows one of them, jumps only forwards, may skip any number of states,  *)
(* and never shows one that was not published.                             *)
(***************************************************************************)
EXTENDS Integers, Sequences

CONSTANTS End, Peer, Content

VARIABLES log,    \* per end: the states it published
          seen,   \* per end: the number of the peer's state it shows, 0 for none
          shown   \* per end: the state it shows, of its own making until seen > 0

vars == <<log, seen, shown>>

Init ==
    /\ log \in [End -> {<<s>> : s \in Content}]
    /\ seen = [e \in End |-> 0]
    /\ shown \in [End -> Content]

Publish(e) ==
    /\ \E s \in Content : log' = [log EXCEPT ![e] = Append(@, s)]
    /\ UNCHANGED <<seen, shown>>

Observe(e) ==
    \E n \in (seen[e] + 1)..Len(log[Peer[e]]) :
       /\ seen' = [seen EXCEPT ![e] = n]
       /\ shown' = [shown EXCEPT ![e] = log[Peer[e]][n]]
       /\ UNCHANGED log

Next == \E e \in End : Publish(e) \/ Observe(e)

Spec == Init /\ [][Next]_vars

LiveSpec == Spec /\ \A e \in End : WF_vars(Observe(e))

=============================================================================
