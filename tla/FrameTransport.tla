--------------------------- MODULE FrameTransport ---------------------------
(***************************************************************************)
(* How a frame crosses the connection (src/link.rs), from the end that     *)
(* sends to the end that shows: the choice between a datagram and a fresh  *)
(* stream, the spawned writer of each stream, superseding, the reading     *)
(* tasks and their bounded queue, and the last frame of a session, from    *)
(* HostSession::finish to the client's drain.                              *)
(*                                                                         *)
(* A frame is the number of the state it carries. Time is not modelled: a  *)
(* pacing tick or a timeout may come at any moment.                        *)
(***************************************************************************)
EXTENDS Integers, FiniteSets, Sequences, FiniteSetsExt

CONSTANTS
    MaxState,       \* bound: the states the session goes through
    MaxStreams,     \* bound: the streams that exist at one time
    Credit,         \* the unidirectional streams the peer lets us have open
    QueueSize       \* FrameSource's channel (64 in the code)

ASSUME TransportBounds ==
    /\ MaxState \in Nat \ {0}
    /\ MaxStreams \in Nat \ {0}
    /\ Credit \in Nat \ {0}
    /\ QueueSize \in Nat \ {0}

VARIABLES
    cur,        \* the newest state of the sending end
    acked,      \* the state it knows the peer to have shown
    inFlight,   \* FrameSink.in_flight: the stream and its my_state, or NoEntry
    stream,     \* the streams, each with its writer task
    final,      \* where send_final is, and what it reported
    datagrams,  \* whether the peer takes datagrams at all
    dgram,      \* the datagrams on the wire
    closed,     \* the sending end closed the connection
    reach,      \* the peer is there
    queue,      \* FrameSource.rx
    seen,       \* the state the peer shows
    client      \* the peer's session: run, draining, or how it left

vars == <<cur, acked, inFlight, stream, final, datagrams, dgram, closed,
          reach, queue, seen, client>>

host == <<cur, acked, inFlight, final, datagrams, closed>>
peer == <<queue, seen, client>>

Slots == 1..MaxStreams

\* The stream send_final writes inline; no task of its own is behind it.
Last0 == 0

NoEntry == [slot |-> -1, my_state |-> 0]
Idle == [my_state |-> 0, task |-> "over", cancelled |-> FALSE,
         wire |-> "none", here |-> FALSE]

Outcome == {"none", "nothing", "Stream", "Dropped"}

\* The state of both ends: nothing is shown or acknowledged that was never a
\* state of the sender, and the queue keeps to its size (FrameSource::new).
TypeOK ==
    /\ cur \in 1..MaxState /\ acked \in 0..cur /\ seen \in 0..cur
    /\ inFlight \in [slot : Slots \cup {-1}, my_state : 0..MaxState]
    /\ stream \in [Slots \cup {Last0} ->
                     [my_state : 0..MaxState,
                      task : {"opening", "writing", "over"},
                      cancelled : BOOLEAN,
                      wire : {"none", "open", "whole", "reset"},
                      here : BOOLEAN]]
    /\ final \in [at : {"no", "opening", "writing", "acking", "over"},
                  outcome : Outcome]
    /\ dgram \subseteq 1..MaxState
    /\ queue \in Seq(1..MaxState) /\ Len(queue) <= QueueSize
    /\ client \in {"run", "draining", "drained", "timeout"}
    /\ datagrams \in BOOLEAN /\ closed \in BOOLEAN /\ reach \in BOOLEAN

Init ==
    /\ cur = 1 /\ acked = 0 /\ seen = 0
    /\ inFlight = NoEntry
    /\ stream = [s \in Slots \cup {Last0} |-> Idle]
    /\ final = [at |-> "no", outcome |-> "none"]
    /\ datagrams \in BOOLEAN
    /\ dgram = {} /\ queue = <<>> /\ client = "run"
    /\ closed = FALSE /\ reach = TRUE

-----------------------------------------------------------------------------
(* The connection, as quinn gives it to link.rs. *)

\* Streams the peer counts against its credit.
Opened == {s \in DOMAIN stream : stream[s].wire # "none"}

\* open_uni resolves.
CreditLeft == Cardinality(Opened) < Credit

\* A slot for a new stream: which of the free ones does not matter.
Free == {s \in Slots : stream[s] = Idle /\ inFlight.slot # s}

\* The bytes of a finished stream reach the peer's stack and are acknowledged.
StreamArrives(s) ==
    /\ reach /\ client = "run"
    /\ stream[s].wire = "whole" /\ ~stream[s].here
    /\ stream' = [stream EXCEPT ![s].here = TRUE]
    /\ UNCHANGED <<host, dgram, reach, peer>>

\* RESET_STREAM reaches the peer, whose reading task ends in an error.
ResetArrives(s) ==
    /\ reach /\ client = "run"
    /\ stream[s].wire = "reset"
    /\ stream' = [stream EXCEPT ![s] = Idle]
    /\ UNCHANGED <<host, dgram, reach, peer>>

DatagramLost ==
    /\ \E d \in dgram : dgram' = dgram \ {d}
    /\ UNCHANGED <<host, stream, reach, peer>>

PeerVanishes ==
    /\ reach /\ reach' = FALSE
    /\ UNCHANGED <<host, stream, dgram, peer>>

-----------------------------------------------------------------------------
(* FrameSink *)

\* Terminal output moves the screen.
Update ==
    /\ final.at = "no" /\ cur < MaxState
    /\ cur' = cur + 1
    /\ UNCHANGED <<acked, inFlight, final, datagrams, closed, stream, dgram,
                   reach, peer>>

\* A frame of the peer acknowledges a state it had shown when it sent it.
HearAck ==
    /\ final.at = "no" /\ reach
    /\ \E a \in (acked + 1)..seen : acked' = a
    /\ UNCHANGED <<cur, inFlight, final, datagrams, closed, stream, dgram,
                   reach, peer>>

\* InFlight::finished, which DoneOnDrop sets however the task leaves.
Finished(entry) == stream[entry.slot].task = "over"

\* The entry once a writer that has stopped is reaped.
Reaped ==
    IF inFlight # NoEntry /\ Finished(inFlight) THEN NoEntry ELSE inFlight

\* Mutant: the cancel sender outlives its entry.
CancelNothing(entry) == stream

\* Dropping an entry drops its cancel sender.
Cancel(entry) ==
    IF entry = NoEntry \/ Finished(entry) THEN stream
    ELSE [stream EXCEPT ![entry.slot].cancelled = TRUE]

\* Mutant: a stream of the same state is replaced as well.
SupersedesEqual(entry, my_state) == entry.my_state <= my_state

\* Whether a stream already going makes this one the queue that is forbidden.
Supersedes(entry, my_state) == entry.my_state < my_state

send_on_stream(my_state) ==
    \/ /\ Reaped = NoEntry \/ Supersedes(Reaped, my_state)
       /\ Free # {}
       /\ LET s == Min(Free) IN
            /\ stream' = [Cancel(Reaped) EXCEPT
                            ![s] = [my_state |-> my_state, task |-> "opening",
                                    cancelled |-> FALSE, wire |-> "none",
                                    here |-> FALSE]]
            /\ inFlight' = [slot |-> s, my_state |-> my_state]
    \/ /\ Reaped # NoEntry /\ ~Supersedes(Reaped, my_state)
       /\ inFlight' = Reaped
       /\ UNCHANGED stream

\* FrameSink::send on a pacing tick with a state the peer has not shown. The
\* datagram limit is asked for every time, so a frame may fit or not, and a
\* send buffer may be full.
Send ==
    /\ final.at = "no" /\ acked < cur
    /\ datagrams
    /\ \/ /\ \E d \in SUBSET {cur} : dgram' = dgram \cup d
          /\ UNCHANGED <<inFlight, stream>>
       \/ /\ send_on_stream(cur)
          /\ UNCHANGED dgram
    /\ UNCHANGED <<cur, acked, final, datagrams, closed, reach, peer>>

-----------------------------------------------------------------------------
(* The writer task of one stream. Its two selects choose freely between what *)
(* is ready.                                                               *)

WriterOpens(s) ==
    /\ stream[s].task = "opening" /\ CreditLeft /\ ~closed
    /\ stream' = [stream EXCEPT ![s].task = "writing", ![s].wire = "open"]
    /\ UNCHANGED <<host, dgram, reach, peer>>

\* Mutant: the cancellation is looked at once a stream is there.
WriterGivesUpLate(s) ==
    /\ stream[s].task = "opening" /\ stream[s].cancelled /\ CreditLeft
    /\ stream' = [stream EXCEPT ![s] = Idle]
    /\ UNCHANGED <<host, dgram, reach, peer>>

\* Superseded before a stream existed: dropping open_uni is the cancellation.
WriterGivesUp(s) ==
    /\ stream[s].task = "opening" /\ stream[s].cancelled
    /\ stream' = [stream EXCEPT ![s] = Idle]
    /\ UNCHANGED <<host, dgram, reach, peer>>

\* write_all and finish. Only a peer that is there makes room for the bytes.
WriterFinishes(s) ==
    /\ stream[s].task = "writing" /\ reach /\ ~closed
    /\ stream' = [stream EXCEPT ![s].task = "over", ![s].wire = "whole",
                               ![s].cancelled = FALSE]
    /\ UNCHANGED <<host, dgram, reach, peer>>

\* Superseded while writing: reset, so that no truncated frame is delivered.
WriterResets(s) ==
    /\ stream[s].task = "writing" /\ stream[s].cancelled
    /\ stream' = [stream EXCEPT ![s].task = "over", ![s].wire = "reset",
                               ![s].cancelled = FALSE]
    /\ UNCHANGED <<host, dgram, reach, peer>>

\* A closed connection fails open_uni and write_all alike.
WriterFails(s) ==
    /\ stream[s].task # "over" /\ closed
    /\ stream' = [stream EXCEPT ![s] = Idle]
    /\ UNCHANGED <<host, dgram, reach, peer>>

Writer(s) ==
    \/ WriterOpens(s) \/ WriterGivesUp(s) \/ WriterFinishes(s)
    \/ WriterResets(s) \/ WriterFails(s)

-----------------------------------------------------------------------------
(* HostSession::finish: one more poll, the last frame, the close. *)

close(outcome) ==
    /\ final' = [at |-> "over", outcome |-> outcome]
    /\ closed' = TRUE

\* The shell is gone. Its last output is polled for, pacing is skipped, and
\* what is in flight is dropped before the inline stream is asked for.
finish ==
    /\ final.at = "no"
    /\ cur' \in {cur, cur + 1} \cap (1..MaxState)
    /\ IF acked = cur'
       THEN close("nothing") /\ UNCHANGED <<inFlight, stream>>
       ELSE /\ final' = [final EXCEPT !.at = "opening"]
            /\ stream' = Cancel(inFlight)
            /\ inFlight' = NoEntry
            /\ UNCHANGED closed
    /\ UNCHANGED <<acked, datagrams, dgram, reach, peer>>

FinalOpens ==
    /\ final.at = "opening" /\ CreditLeft
    /\ final' = [final EXCEPT !.at = "writing"]
    /\ stream' = [stream EXCEPT ![Last0] = [Idle EXCEPT !.my_state = cur,
                                                        !.wire = "open"]]
    /\ UNCHANGED <<cur, acked, inFlight, datagrams, closed, dgram, reach, peer>>

\* write_all and finish.
FinalWrites ==
    /\ final.at = "writing" /\ reach
    /\ final' = [final EXCEPT !.at = "acking"]
    /\ stream' = [stream EXCEPT ![Last0].wire = "whole"]
    /\ UNCHANGED <<cur, acked, inFlight, datagrams, closed, dgram, reach, peer>>

\* Mutant: finish is taken for an acknowledgement.
FinalUnacknowledged ==
    /\ final.at = "acking"
    /\ close("Stream")
    /\ UNCHANGED <<cur, acked, inFlight, stream, datagrams, dgram, reach, peer>>

\* SendStream::stopped: the peer has acknowledged every byte.
FinalStopped ==
    /\ final.at = "acking"
    /\ stream[Last0] = Idle \/ stream[Last0].here
    /\ close("Stream")
    /\ UNCHANGED <<cur, acked, inFlight, stream, datagrams, dgram, reach, peer>>

\* Mutant: only the acknowledgement is waited for with a limit.
FinalTimeoutOnAck ==
    /\ final.at = "acking"
    /\ close("Dropped")
    /\ UNCHANGED <<cur, acked, inFlight, stream, datagrams, dgram, reach, peer>>

\* FINAL_ACK_WAIT passes in any of the three waits; a half-written frame is
\* reset.
FinalTimeout ==
    /\ final.at \in {"opening", "writing", "acking"}
    /\ close("Dropped")
    /\ stream' = IF final.at = "writing"
                 THEN [stream EXCEPT ![Last0].wire = "reset"] ELSE stream
    /\ UNCHANGED <<cur, acked, inFlight, datagrams, dgram, reach, peer>>

Final == FinalOpens \/ FinalWrites \/ FinalStopped \/ FinalTimeout

-----------------------------------------------------------------------------
(* FrameSource, and the session that takes from it. *)

\* Mutant: off by one.
RoomForOneMore == Len(queue) <= QueueSize

Room == Len(queue) < QueueSize

\* The reader of datagrams, which waits for room in the queue.
ReadDatagram ==
    /\ client \in {"run", "draining"} /\ reach /\ Room
    /\ \E d \in dgram :
         /\ queue' = Append(queue, d)
         /\ dgram' = dgram \ {d}
    /\ UNCHANGED <<host, stream, reach, seen, client>>

\* One stream's reading task, to its end. quinn lets what has been received be
\* read from a closed connection.
ReadStream(s) ==
    /\ client \in {"run", "draining"} /\ stream[s].here /\ Room
    /\ queue' = Append(queue, stream[s].my_state)
    /\ stream' = [stream EXCEPT ![s] = Idle]
    /\ UNCHANGED <<host, dgram, reach, seen, client>>

\* take_frames: an older frame changes nothing.
TakeFrame ==
    /\ client \in {"run", "draining"} /\ queue # <<>>
    /\ seen' = Max({seen, Head(queue)})
    /\ queue' = Tail(queue)
    /\ UNCHANGED <<host, stream, dgram, reach, client>>

\* The close arrives. What had not arrived before it is lost.
SeeClose ==
    /\ client = "run" /\ closed /\ reach
    /\ client' = "draining"
    /\ stream' = [s \in DOMAIN stream |->
                    IF stream[s].task = "over" /\ ~stream[s].here
                    THEN Idle ELSE stream[s]]
    /\ UNCHANGED <<host, dgram, reach, queue, seen>>

\* Every task has dropped its sender and the queue is empty, or FINAL_DRAIN
\* has passed.
DrainEnds ==
    /\ client = "draining"
    /\ \/ /\ queue = <<>> /\ \A s \in DOMAIN stream : ~stream[s].here
          /\ client' = "drained"
       \/ client' = "timeout"
    /\ UNCHANGED <<host, stream, dgram, reach, queue, seen>>

-----------------------------------------------------------------------------
Network == DatagramLost \/ PeerVanishes
           \/ \E s \in DOMAIN stream : StreamArrives(s) \/ ResetArrives(s)

Client == ReadDatagram \/ TakeFrame \/ SeeClose \/ DrainEnds
          \/ \E s \in DOMAIN stream : ReadStream(s)

Next ==
    \/ Update \/ HearAck \/ Send \/ finish \/ Final
    \/ \E s \in Slots : Writer(s)
    \/ Network \/ Client

Spec == Init /\ [][Next]_vars

(***************************************************************************)
(* Fairness. tokio runs every task that is ready; the pacing timer and the *)
(* three timeouts of send_final fire. A peer that is there acknowledges    *)
(* and reads, and does not lose the same datagram for ever.                *)
(***************************************************************************)
LiveSpec ==
    /\ Spec
    /\ WF_vars(Send) /\ WF_vars(Final) /\ WF_vars(TakeFrame)
    /\ WF_vars(SeeClose) /\ WF_vars(DrainEnds)
    /\ SF_vars(ReadDatagram)
    /\ \A s \in Slots : WF_vars(Writer(s))
    /\ \A s \in Slots \cup {Last0} :
         /\ WF_vars(StreamArrives(s)) /\ WF_vars(ResetArrives(s))
         /\ SF_vars(ReadStream(s))

-----------------------------------------------------------------------------
(* What the transport promises. *)

\* A writer that is still working and has not been told to stop.
Working == {s \in Slots : stream[s].task # "over" /\ ~stream[s].cancelled}

\* "At most one stream is in flight": the only writer not told to stop is the
\* one send_on_stream's entry names, and it carries the state the entry says.
\* The done flag and the reaping race with the writer itself.
NeverQueue ==
    \A s \in Working : inFlight = [slot |-> s, my_state |-> stream[s].my_state]

\* finish, then the client's drain: when send_final reported the last frame
\* acknowledged, or had nothing left to send, a client that drained to the end
\* is left looking at the last screen of the shell.
LastScreenShown ==
    client = "drained" /\ final.outcome \in {"Stream", "nothing"} => seen = cur

\* A superseded writer leaves, even one still waiting in open_uni for credit
\* that a vanished peer will never grant: the tasks do not pile up.
SupersededWriterLeaves ==
    \A s \in Slots : stream[s].cancelled ~> ~stream[s].cancelled

\* finish always comes back: with the peer gone, with no credit and with no
\* acknowledgement, the host still closes and exits.
FinishReturns == final.at # "no" ~> closed

\* While the peer is there and takes datagrams, and the session goes on, the
\* peer comes to show the state the screen stopped at, on whichever channel it
\* travels and however often it is offered.
NewestIsShown ==
    datagrams /\ [](reach /\ final.at = "no") => <>[](seen = cur)

=============================================================================
