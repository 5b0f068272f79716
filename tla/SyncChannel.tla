---------------------------- MODULE SyncChannel ----------------------------
(***************************************************************************)
(* The state synchronisation engine (crate oxutrm-sync) between the two    *)
(* ends of one link.  Each end owns a Sender for the state it authors (the *)
(* host its screen, the client its input) and a Receiver for the state of  *)
(* its peer.  Frames travel over datagrams and streams, so any frame may   *)
(* be lost, delayed or overtaken.  An acknowledgement of one direction     *)
(* rides on the frames of the other.                                       *)
(*                                                                         *)
(* The content of a state is a function from Cell to Val.  A diff is the   *)
(* function of the cells that changed, and applying it overwrites just     *)
(* those cells, so a diff applied to the wrong base yields a wrong state.  *)
(***************************************************************************)
EXTENDS Integers, Sequences, FiniteSets

CONSTANTS End,         \* the two ends of the link
          Peer,        \* the other end, as a function
          Cell,        \* the independent parts of a replicated state
          Val,         \* what a part may hold
          Counters,    \* per end: the cells of its state that never decrease
          First,       \* per end: the content its sender starts from
          Invented,    \* per end: the content its receiver starts from
          STATE_RING,  \* the depth of the sender's ring
          MaxSeq,      \* bound: per end, the states its sender mints
          MaxInFlight  \* bound: per end, the frames in flight towards it

ASSUME EndAssumption == /\ Peer \in [End -> End]
                        /\ \A e \in End : Peer[e] # e /\ Peer[Peer[e]] = e
ASSUME CellAssumption == /\ Val \subseteq Nat
                         /\ 0 \in Val
                         /\ Counters \in [End -> SUBSET Cell]
                         /\ First \in [End -> [Cell -> Val]]
                         /\ Invented \in [End -> [Cell -> Val]]
                         /\ \A e \in End : \A c \in Counters[Peer[e]] :
                               Invented[e][c] = 0
ASSUME RingAssumption == STATE_RING \in Nat \ {0}
ASSUME BoundAssumption == MaxSeq \in [End -> Nat] /\ MaxInFlight \in [End -> Nat]

VARIABLES tx,        \* the Sender of each end
          rx,        \* the Receiver of each end
          net,       \* the frames in flight towards each end
          authored   \* history: every content an end's sender ever minted

vars == <<tx, rx, net, authored>>

-----------------------------------------------------------------------------
(* Values. *)

Content == [Cell -> Val]

\* One entry of a ring.
State == [seq : Nat, val : Content]

Diff == UNION {[S -> Val] : S \in SUBSET Cell}

Frame == [my_state : Nat, from_state : Nat, ack_state : Nat, diff : Diff]

Last(ring) == ring[Len(ring)]

\* ring.iter().find(|s| s.seq() == n)
Holds(ring, n) == \E i \in 1..Len(ring) : ring[i].seq = n
Entry(ring, n) == ring[CHOOSE i \in 1..Len(ring) : ring[i].seq = n]

\* while ring.len() > n { ring.pop_front() }
Cap(ring, n) ==
    IF Len(ring) > n THEN SubSeq(ring, Len(ring) - n + 1, Len(ring)) ELSE ring

\* Mutant of PopBelow: the named base goes as well.
PopThrough(ring, n) ==
    SubSeq(ring,
           CHOOSE k \in 1..(Len(ring) + 1) :
               /\ \A i \in 1..(k - 1) : ring[i].seq <= n
               /\ k <= Len(ring) => ring[k].seq > n,
           Len(ring))

\* while ring.front().seq < n { ring.pop_front() }
PopBelow(ring, n) ==
    SubSeq(ring,
           CHOOSE k \in 1..(Len(ring) + 1) :
               /\ \A i \in 1..(k - 1) : ring[i].seq < n
               /\ k <= Len(ring) => ring[k].seq >= n,
           Len(ring))

-----------------------------------------------------------------------------
(* SyncState: diffs and the rules between two states. *)

diff_from(target, base) ==
    [c \in {c \in Cell : target[c] # base[c]} |-> target[c]]

full_diff(target) == target

Patch(base, diff) ==
    [c \in Cell |-> IF c \in DOMAIN diff THEN diff[c] ELSE base[c]]

\* The bell, the scrollback length and the clipboard serial never go back.
validate_transition(author, next, previous) ==
    \A c \in Counters[author] : next[c] >= previous[c]

-----------------------------------------------------------------------------
(* The Sender. *)

\* Mutant of update: the ring is never trimmed.
UpdateUncapped(s, val) ==
    [s EXCEPT !.ring = Append(@, [seq |-> Last(@).seq + 1, val |-> val])]

update(s, val) ==
    LET next == [seq |-> Last(s.ring).seq + 1, val |-> val]
    IN  [s EXCEPT !.ring = Cap(Append(s.ring, next), STATE_RING)]

on_ack(s, peer_saw) ==
    [s EXCEPT !.peer_saw = IF peer_saw > @ THEN peer_saw ELSE @]

\* make_frame returns None unless our state moved or an ack is owed.
WantsFrame(s, ack_state) ==
    \/ s.peer_saw # Last(s.ring).seq
    \/ ack_state > s.last_ack_sent

make_frame(s, ack_state) ==
    LET current == Last(s.ring)
        based == Holds(s.ring, s.peer_saw)
    IN  [my_state   |-> current.seq,
         from_state |-> IF based THEN s.peer_saw ELSE 0,
         ack_state  |-> ack_state,
         diff       |-> IF based
                        THEN diff_from(current.val, Entry(s.ring, s.peer_saw).val)
                        ELSE full_diff(current.val)]

-----------------------------------------------------------------------------
(* The Receiver. *)

\* Mutant of ack: the state we invented ourselves is acknowledged.
AckInvented(r) == Last(r.ring).seq

\* 0 until the first frame of the peer has been applied.
ack(r) == IF r.applied_any THEN Last(r.ring).seq ELSE 0

\* Mutant of Stale: no exception for the first full state.
StaleAlways(r, f) == f.my_state <= Last(r.ring).seq

\* Mutant of Stale: a full state is never too old.
StaleDiffsOnly(r, f) == f.from_state # 0 /\ f.my_state <= Last(r.ring).seq

\* A full state may replace our own invented state of the same number, once.
Stale(r, f) ==
    IF f.from_state = 0 /\ ~r.applied_any
    THEN f.my_state < Last(r.ring).seq
    ELSE f.my_state <= Last(r.ring).seq

\* Mutant of Base: the diff is applied to whatever we hold now.
BaseCurrent(r, f) == Last(r.ring)

\* The state the diff builds on: the one the sender named while we hold it.
Base(r, f) ==
    IF f.from_state # 0 /\ Holds(r.ring, f.from_state)
    THEN Entry(r.ring, f.from_state)
    ELSE Last(r.ring)

Applied(r, f) == [seq |-> f.my_state, val |-> Patch(Base(r, f).val, f.diff)]

\* apply reports BaseMismatch, or validate_transition refuses the result.
Rejects(author, r, f) ==
    /\ ~Stale(r, f)
    /\ \/ f.from_state # 0 /\ Base(r, f).seq # f.from_state
       \/ ~validate_transition(author, Applied(r, f).val, Last(r.ring).val)

\* The ring once a frame is committed.
Pushed(r, f) ==
    LET kept == PopBelow(IF r.applied_any THEN r.ring ELSE <<>>, f.from_state)
    IN  Cap(Append(kept, Applied(r, f)), STATE_RING + 1)

\* The acknowledgement is taken from every frame, the state only from one
\* that is neither stale nor rejected.
on_frame(author, r, f) ==
    LET heard == [r EXCEPT !.peer_ack = IF f.ack_state > @ THEN f.ack_state ELSE @]
    IN  IF Stale(r, f) \/ Rejects(author, r, f)
        THEN heard
        ELSE [heard EXCEPT !.ring = Pushed(r, f), !.applied_any = TRUE]

-----------------------------------------------------------------------------
(* The two ends and the network between them. *)

\* Both ends invent a state numbered 1, of unrelated content.
Init ==
    /\ tx = [e \in End |-> [ring |-> <<[seq |-> 1, val |-> First[e]]>>,
                            peer_saw |-> 0, last_ack_sent |-> 0]]
    /\ rx = [e \in End |-> [ring |-> <<[seq |-> 1, val |-> Invented[e]]>>,
                            peer_ack |-> 0, applied_any |-> FALSE]]
    /\ net = [e \in End |-> {}]
    /\ authored = [e \in End |-> <<First[e]>>]

\* The screen was snapshotted, or keys, a resize or a heartbeat were appended.
Update(e) ==
    /\ Len(authored[e]) < MaxSeq[e]
    /\ \E val \in Content :
          /\ validate_transition(e, val, Last(tx[e].ring).val)
          /\ tx' = [tx EXCEPT ![e] = update(@, val)]
          /\ authored' = [authored EXCEPT ![e] = Append(@, val)]
    /\ UNCHANGED <<rx, net>>

\* FrameSink::send.  A full send buffer drops the frame, and nothing is told.
Send(e, f) ==
    net' = [net EXCEPT ![e] = IF Cardinality(@) < MaxInFlight[e]
                              THEN @ \union {f} ELSE @]

\* One pacing tick: learn what the peer acknowledged, then offer a frame.
OfferFrame(e) ==
    LET s == on_ack(tx[e], rx[e].peer_ack)
    IN  /\ \/ /\ WantsFrame(s, ack(rx[e]))
              /\ tx' = [tx EXCEPT ![e] = [s EXCEPT !.last_ack_sent = ack(rx[e])]]
              /\ Send(Peer[e], make_frame(s, ack(rx[e])))
           \/ /\ ~WantsFrame(s, ack(rx[e]))
              /\ tx' = [tx EXCEPT ![e] = s]
              /\ UNCHANGED net
        /\ UNCHANGED <<rx, authored>>

ReceiveFrame(e) ==
    \E f \in net[e] :
       /\ rx' = [rx EXCEPT ![e] = on_frame(Peer[e], @, f)]
       /\ net' = [net EXCEPT ![e] = @ \ {f}]
       /\ UNCHANGED <<tx, authored>>

LoseFrame(e) ==
    \E f \in net[e] :
       /\ net' = [net EXCEPT ![e] = @ \ {f}]
       /\ UNCHANGED <<tx, rx, authored>>

Next ==
    \E e \in End : Update(e) \/ OfferFrame(e) \/ ReceiveFrame(e) \/ LoseFrame(e)

Spec == Init /\ [][Next]_vars

\* Both session loops wake at least once per pacing interval, and a path that
\* is not dead delivers some frame again and again.
Fairness ==
    \A e \in End : WF_vars(OfferFrame(e)) /\ SF_vars(ReceiveFrame(e))

LiveSpec == Spec /\ Fairness

-----------------------------------------------------------------------------
(* Properties. *)

Sender == [ring : Seq(State), peer_saw : Nat, last_ack_sent : Nat]

Receiver == [ring : Seq(State), peer_ack : Nat, applied_any : BOOLEAN]

\* Every variable has its type, and a ring is neither empty (`current` and
\* `state` would panic) nor longer than its cap.
TypeOK ==
    /\ tx \in [End -> Sender]
    /\ rx \in [End -> Receiver]
    /\ net \in [End -> SUBSET Frame]
    /\ authored \in [End -> Seq(Content)]
    /\ \A e \in End : /\ Len(tx[e].ring) \in 1..STATE_RING
                      /\ Len(rx[e].ring) \in 1..(STATE_RING + 1)

\* Once a receiver has applied anything, every state in its ring, the one on
\* the user's screen included, is exactly the state its peer minted under that
\* number.  This is what Receiver::on_frame has to secure against frames that
\* are lost or overtaken and against the two unrelated states numbered 1.
ReplicaAgrees ==
    \A e \in End : rx[e].applied_any =>
        \A i \in 1..Len(rx[e].ring) :
            /\ rx[e].ring[i].seq \in 1..Len(authored[Peer[e]])
            /\ rx[e].ring[i].val = authored[Peer[e]][rx[e].ring[i].seq]

\* No frame in flight would be refused on arrival, neither with BaseMismatch
\* nor by validate_transition: on_frame finds in its ring every base that a
\* fresh frame names.  The two ring depths and the pruning below from_state
\* are what this rests on.
NoFrameRejected ==
    \A e \in End : \A f \in net[e] : ~Rejects(Peer[e], rx[e], f)

\* What a sender believes acknowledged was applied by the peer, and while the
\* sender could still name it as a base the peer still holds it.
AckedStateIsHeld ==
    \A e \in End :
        /\ tx[e].peer_saw <= ack(rx[Peer[e]])
        /\ (tx[e].peer_saw # 0 /\ Holds(tx[e].ring, tx[e].peer_saw))
              => Holds(rx[Peer[e]].ring, tx[e].peer_saw)

\* Nothing ever walks backwards: not the screen a receiver shows, not what it
\* acknowledges, not what either side believes acknowledged, whatever order
\* frames and acknowledgements arrive in.
NeverBackwards ==
    [][\A e \in End :
          /\ ack(rx[e])' >= ack(rx[e])
          /\ rx[e].peer_ack' >= rx[e].peer_ack
          /\ tx[e].peer_saw' >= tx[e].peer_saw
          /\ (rx[e].applied_any /\ ack(rx[e])' = ack(rx[e]))
                => Last(rx[e].ring)' = Last(rx[e].ring)]_vars

\* When the two ends stop changing their states, each receiver ends up with
\* the newest one: make_frame keeps offering it for as long as it is not
\* acknowledged.
Converges ==
    \A e \in End : <>[](ack(rx[Peer[e]]) = Len(authored[e]))

\* Seen from outside, an end publishes states and its peer jumps forwards
\* through them, showing only states that were published and always catching
\* up: frames, rings, bases and acknowledgements are invisible.
Abstract == INSTANCE Replica WITH
    log <- authored,
    seen <- [e \in End |-> ack(rx[e])],
    shown <- [e \in End |-> Last(rx[e].ring).val]

ImplementsReplica == Abstract!LiveSpec

=============================================================================
