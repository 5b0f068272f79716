------------------------ MODULE FrameTransportProofs ------------------------
(***************************************************************************)
(* NeverQueue, TypeOK and LastScreenShown of FrameTransport, for every     *)
(* number of states and streams, every credit and every queue.             *)
(*                                                                         *)
(* With the types of what it speaks of NeverQueue is inductive (OneWriter):*)
(* an entry that is replaced or dropped cancels the one writer it names,   *)
(* and one that is reaped names a writer that has stopped.                 *)
(*                                                                         *)
(* The other two rest on Inv, which follows the last frame from FinalOpens *)
(* to the screen: it is on its stream, in the queue or shown, and nothing  *)
(* that a superseded writer, a reset or the close does to the other        *)
(* streams takes it away.                                                  *)
(***************************************************************************)
EXTENDS FrameTransport, SequenceTheorems, WellFoundedInduction, TLAPS

-----------------------------------------------------------------------------
(* One writer at work *)

Streams ==
    [my_state : Nat, task : {"opening", "writing", "over"}, cancelled : BOOLEAN,
     wire : {"none", "open", "whole", "reset"}, here : BOOLEAN]

Types ==
    /\ cur \in Nat
    /\ stream \in [Slots \cup {Last0} -> Streams]

OneWriter == Types /\ NeverQueue

-----------------------------------------------------------------------------

\* What Init and every free slot hold.
LEMMA IdleType == Idle \in Streams /\ Idle.task = "over"
BY DEF Idle, Streams

\* No writer is at work without an entry.
LEMMA NoEntryNoWriter == OneWriter /\ inFlight = NoEntry => Working = {}
<1> SUFFICES ASSUME OneWriter, inFlight = NoEntry, NEW s \in Working PROVE FALSE
  OBVIOUS
<1>1. inFlight.slot = s
  BY DEF OneWriter, NeverQueue
<1>2. NoEntry.slot = -1
  BY DEF NoEntry
<1>3. s \in Slots
  BY DEF Working
<1> QED BY <1>1, <1>2, <1>3, TransportBounds DEF Slots

\* Dropping the entry stops the one writer there may be, and touches no other
\* field of any stream.
LEMMA CancelStops ==
    ASSUME OneWriter
    PROVE  /\ Cancel(inFlight) \in [Slots \cup {Last0} -> Streams]
           /\ \A s \in Slots : Cancel(inFlight)[s].task # "over"
                                  => Cancel(inFlight)[s].cancelled
<1>1. CASE inFlight = NoEntry \/ Finished(inFlight)
  <2>1. Working = {}
    BY <1>1, NoEntryNoWriter DEF OneWriter, NeverQueue, Working, Finished, Types
  <2> QED BY <1>1, <2>1 DEF Cancel, OneWriter, Types, Working, Streams
<1>2. CASE ~(inFlight = NoEntry \/ Finished(inFlight))
  <2>1. Cancel(inFlight) = [stream EXCEPT ![inFlight.slot].cancelled = TRUE]
    BY <1>2 DEF Cancel
  <2>2. Cancel(inFlight) \in [Slots \cup {Last0} -> Streams]
    <3>1. CASE inFlight.slot \in Slots \cup {Last0}
      <4>1. \A r \in Streams : [r EXCEPT !.cancelled = TRUE] \in Streams
        BY DEF Streams
      <4> QED BY <2>1, <3>1, <4>1 DEF OneWriter, Types
    <3>2. CASE inFlight.slot \notin Slots \cup {Last0}
      BY <2>1, <3>2 DEF OneWriter, Types
    <3> QED BY <3>1, <3>2
  <2>3. ASSUME NEW s \in Slots, Cancel(inFlight)[s].task # "over"
        PROVE  Cancel(inFlight)[s].cancelled
    BY <2>1, <2>3 DEF OneWriter, Types, Streams, NeverQueue, Working
  <2> QED BY <2>2, <2>3
<1> QED BY <1>1, <1>2

\* The same of the entry once a finished writer is reaped.
LEMMA ReapedStops ==
    ASSUME OneWriter
    PROVE  Cancel(Reaped) = Cancel(inFlight)
BY DEF Reaped, Cancel

\* send_on_stream leaves the writer it starts as the only one.
LEMMA SendOnStreamKeepsOne ==
    ASSUME OneWriter, send_on_stream(cur), UNCHANGED cur
    PROVE  OneWriter'
<1>1. CASE inFlight' = Reaped /\ UNCHANGED stream
  <2>1. Types'
    BY <1>1 DEF OneWriter, Types
  <2>2. ASSUME NEW s \in Working PROVE inFlight' = inFlight
    BY <1>1 DEF OneWriter, NeverQueue, Working, Reaped, Finished
  <2> QED BY <1>1, <2>1, <2>2 DEF OneWriter, NeverQueue, Working
<1>2. CASE \E s : /\ stream' = [Cancel(Reaped) EXCEPT
                            ![s] = [my_state |-> cur, task |-> "opening",
                                    cancelled |-> FALSE, wire |-> "none",
                                    here |-> FALSE]]
                  /\ inFlight' = [slot |-> s, my_state |-> cur]
  <2>1. PICK s : /\ stream' = [Cancel(inFlight) EXCEPT
                            ![s] = [my_state |-> cur, task |-> "opening",
                                    cancelled |-> FALSE, wire |-> "none",
                                    here |-> FALSE]]
                 /\ inFlight' = [slot |-> s, my_state |-> cur]
    BY <1>2, ReapedStops
  <2>2. Types'
    BY <2>1, CancelStops DEF OneWriter, Types, Streams
  <2>3. NeverQueue'
    BY <2>1, <2>2, CancelStops DEF NeverQueue, Working, Types
  <2> QED BY <2>2, <2>3 DEF OneWriter
<1> QED BY <1>1, <1>2 DEF send_on_stream

\* What a step does to one stream other than starting its writer or telling
\* it to stop.
LEMMA StreamStep ==
    ASSUME OneWriter, UNCHANGED <<cur, inFlight>>,
           NEW s \in Slots \cup {Last0}, NEW new \in Streams,
           stream' = [stream EXCEPT ![s] = new],
           new.task # "over" => /\ stream[s].task # "over"
                                /\ new.my_state = stream[s].my_state
                                /\ new.cancelled = stream[s].cancelled
    PROVE  OneWriter'
<1>1. Types'
  BY DEF OneWriter, Types
<1>2. ASSUME NEW w \in Slots, w \in Working'
      PROVE  w \in Working /\ stream'[w].my_state = stream[w].my_state
  BY <1>2 DEF Working, OneWriter, Types
<1>3. NeverQueue'
  BY <1>2 DEF OneWriter, NeverQueue, Working
<1> QED BY <1>1, <1>3 DEF OneWriter

\* A writer's own steps.
LEMMA WriterKeepsOne ==
    ASSUME OneWriter, NEW s \in Slots, Writer(s)
    PROVE  OneWriter'
<1> DEFINE old == stream[s]
<1>0. old \in Streams /\ s \in Slots \cup {Last0} /\ UNCHANGED <<cur, inFlight>>
  BY DEF OneWriter, Types, Writer, WriterOpens, WriterGivesUp, WriterFinishes,
         WriterResets, WriterFails, host
<1>1. CASE WriterOpens(s)
  <2> DEFINE new == [old EXCEPT !.task = "writing", !.wire = "open"]
  <2>1. stream' = [stream EXCEPT ![s] = new]
    BY <1>1 DEF WriterOpens, OneWriter, Types
  <2>2. new \in Streams /\ old.task # "over" /\ new.my_state = old.my_state
        /\ new.cancelled = old.cancelled
    BY <1>0, <1>1 DEF WriterOpens, Streams
  <2> QED BY <1>0, <2>1, <2>2, StreamStep
<1>2. CASE WriterGivesUp(s) \/ WriterFails(s)
  <2>1. stream' = [stream EXCEPT ![s] = Idle]
    BY <1>2 DEF WriterGivesUp, WriterFails
  <2> QED BY <1>0, <2>1, IdleType, StreamStep
<1>3. CASE WriterFinishes(s) \/ WriterResets(s)
  <2>1. PICK new \in Streams : new.task = "over" /\ stream' = [stream EXCEPT ![s] = new]
    <3>1. CASE WriterFinishes(s)
      <4> DEFINE new == [old EXCEPT !.task = "over", !.wire = "whole", !.cancelled = FALSE]
      <4>1. new \in Streams /\ new.task = "over"  BY <1>0 DEF Streams
      <4>2. stream' = [stream EXCEPT ![s] = new]
        BY <3>1 DEF WriterFinishes, OneWriter, Types
      <4> QED BY <4>1, <4>2
    <3>2. CASE WriterResets(s)
      <4> DEFINE new == [old EXCEPT !.task = "over", !.wire = "reset", !.cancelled = FALSE]
      <4>1. new \in Streams /\ new.task = "over"  BY <1>0 DEF Streams
      <4>2. stream' = [stream EXCEPT ![s] = new]
        BY <3>2 DEF WriterResets, OneWriter, Types
      <4> QED BY <4>1, <4>2
    <3> QED BY <1>3, <3>1, <3>2
  <2> QED BY <1>0, <2>1, StreamStep
<1> QED BY <1>1, <1>2, <1>3 DEF Writer

\* The steps that start or stop no writer, and change no entry.
LEMMA QuietKeepsOne ==
    ASSUME OneWriter, cur' \in Nat, UNCHANGED <<inFlight, stream>>
    PROVE  OneWriter'
BY DEF OneWriter, Types, NeverQueue, Working

\* The last frame's own stream has no writer task.
LEMMA LastStreamKeepsOne ==
    ASSUME OneWriter, UNCHANGED <<cur, inFlight>>, NEW new \in Streams,
           stream' = [stream EXCEPT ![Last0] = new]
    PROVE  OneWriter'
<1>1. Last0 \notin Slots
  BY TransportBounds DEF Last0, Slots
<1>2. \A w \in Slots : stream'[w] = stream[w]
  BY <1>1 DEF OneWriter, Types
<1>3. Types'
  BY DEF OneWriter, Types
<1> QED BY <1>2, <1>3 DEF OneWriter, NeverQueue, Working

\* HostSession::finish drops the entry, and with it stops the writer.
LEMMA FinishKeepsOne ==
    ASSUME OneWriter, finish
    PROVE  OneWriter'
<1>1. cur' \in Nat
  BY TransportBounds DEF finish, OneWriter, Types
<1>2. CASE UNCHANGED <<inFlight, stream>>
  BY <1>1, <1>2, QuietKeepsOne
<1>3. CASE stream' = Cancel(inFlight) /\ inFlight' = NoEntry
  <2>1. Working' = {}
    BY <1>3, CancelStops DEF Working
  <2> QED BY <1>1, <1>3, <2>1, CancelStops DEF OneWriter, Types, NeverQueue
<1> QED BY <1>2, <1>3 DEF finish

\* The inline write of the last frame.
LEMMA FinalKeepsOne ==
    ASSUME OneWriter, Final
    PROVE  OneWriter'
<1>0. UNCHANGED <<cur, inFlight>>
  BY DEF Final, FinalOpens, FinalWrites, FinalStopped, FinalTimeout
<1>1. \A r \in Streams, w \in {"whole", "reset"} : [r EXCEPT !.wire = w] \in Streams
  BY DEF Streams
<1>2. CASE UNCHANGED stream
  BY <1>0, <1>2, QuietKeepsOne DEF OneWriter, Types
<1>3. CASE FinalOpens
  <2>1. [Idle EXCEPT !.my_state = cur, !.wire = "open"] \in Streams
    BY IdleType DEF OneWriter, Types, Streams
  <2> QED BY <1>0, <1>3, <2>1, LastStreamKeepsOne DEF FinalOpens
<1>4. ASSUME NEW w \in {"whole", "reset"}, stream' = [stream EXCEPT ![Last0].wire = w]
      PROVE  OneWriter'
  BY <1>0, <1>1, <1>4, LastStreamKeepsOne DEF OneWriter, Types
<1> QED BY <1>2, <1>3, <1>4 DEF Final, FinalWrites, FinalStopped, FinalTimeout

\* A stream's bytes, its reset and its reading task touch no writer at work.
LEMMA ArrivalKeepsOne ==
    ASSUME OneWriter, NEW s \in Slots \cup {Last0},
           StreamArrives(s) \/ ResetArrives(s) \/ ReadStream(s)
    PROVE  OneWriter'
<1>0. UNCHANGED <<cur, inFlight>> /\ stream[s] \in Streams
  BY DEF StreamArrives, ResetArrives, ReadStream, host, OneWriter, Types
<1>1. CASE StreamArrives(s)
  <2> DEFINE new == [stream[s] EXCEPT !.here = TRUE]
  <2>1. stream' = [stream EXCEPT ![s] = new]
    BY <1>1 DEF StreamArrives, OneWriter, Types
  <2>2. new \in Streams /\ new.my_state = stream[s].my_state
        /\ new.task = stream[s].task /\ new.cancelled = stream[s].cancelled
    BY <1>0 DEF Streams
  <2> QED BY <1>0, <2>1, <2>2, StreamStep
<1>2. CASE ResetArrives(s) \/ ReadStream(s)
  <2>1. stream' = [stream EXCEPT ![s] = Idle]
    BY <1>2 DEF ResetArrives, ReadStream
  <2> QED BY <1>0, <2>1, IdleType, StreamStep
<1> QED BY <1>1, <1>2

\* The close loses streams whose writers have stopped.
LEMMA SeeCloseKeepsOne ==
    ASSUME OneWriter, SeeClose
    PROVE  OneWriter'
<1>1. UNCHANGED <<cur, inFlight>>
  BY DEF SeeClose, host
<1>2. stream' = [s \in Slots \cup {Last0} |->
                   IF stream[s].task = "over" /\ ~stream[s].here THEN Idle ELSE stream[s]]
  BY DEF SeeClose, OneWriter, Types
<1>3. Types'
  BY <1>1, <1>2, IdleType DEF OneWriter, Types
<1>4. \A w \in Slots : stream'[w].task # "over" => stream'[w] = stream[w]
  BY <1>2, IdleType
<1> QED BY <1>1, <1>3, <1>4 DEF OneWriter, NeverQueue, Working

\* Every step keeps the invariant.
LEMMA NextKeepsOne == OneWriter /\ [Next]_vars => OneWriter'
<1> SUFFICES ASSUME OneWriter, [Next]_vars PROVE OneWriter'
  OBVIOUS
<1>1. CASE UNCHANGED vars
  BY <1>1, QuietKeepsOne DEF vars, OneWriter, Types
<1>2. CASE Update
  BY <1>2, QuietKeepsOne DEF Update, OneWriter, Types
<1>3. CASE HearAck
  BY <1>3, QuietKeepsOne DEF HearAck, OneWriter, Types
<1>4. CASE Send
  <2>1. CASE send_on_stream(cur)
    BY <1>4, <2>1, SendOnStreamKeepsOne DEF Send
  <2>2. CASE UNCHANGED <<inFlight, stream>>
    BY <1>4, <2>2, QuietKeepsOne DEF Send, OneWriter, Types
  <2> QED BY <1>4, <2>1, <2>2 DEF Send
<1>5. CASE finish
  BY <1>5, FinishKeepsOne
<1>6. CASE Final
  BY <1>6, FinalKeepsOne
<1>7. ASSUME NEW s \in Slots, Writer(s) PROVE OneWriter'
  BY <1>7, WriterKeepsOne
<1>8. DOMAIN stream = Slots \cup {Last0}
  BY DEF OneWriter, Types
<1>9. CASE Network
  <2>1. CASE DatagramLost \/ PeerVanishes
    BY <2>1, QuietKeepsOne DEF DatagramLost, PeerVanishes, host, OneWriter, Types
  <2> QED BY <1>8, <1>9, <2>1, ArrivalKeepsOne DEF Network
<1>10. CASE Client
  <2>1. CASE ReadDatagram \/ TakeFrame \/ DrainEnds
    BY <2>1, QuietKeepsOne DEF ReadDatagram, TakeFrame, DrainEnds, host, OneWriter, Types
  <2> QED BY <1>8, <1>10, <2>1, ArrivalKeepsOne, SeeCloseKeepsOne DEF Client
<1> QED BY <1>1, <1>2, <1>3, <1>4, <1>5, <1>6, <1>7, <1>9, <1>10 DEF Next

\* A frame never queues behind another (FrameSink::send_on_stream): whatever
\* races with the writers' own ends, at most one writer is at work that has
\* not been told to stop, and it is the one the sink knows of.
THEOREM OneWriterAtWork == Spec => []NeverQueue
<1>1. Init => OneWriter
  <2> SUFFICES ASSUME Init PROVE OneWriter
    OBVIOUS
  <2>1. Types
    BY IdleType DEF Init, Types
  <2>2. Working = {}
    BY IdleType DEF Init, Working
  <2> QED BY <2>1, <2>2 DEF OneWriter, NeverQueue
<1>2. OneWriter => NeverQueue
  BY DEF OneWriter
<1> QED BY <1>1, <1>2, NextKeepsOne, PTL DEF Spec

-----------------------------------------------------------------------------
(* The types, and the last frame *)

StreamRec ==
    [my_state : 0..MaxState, task : {"opening", "writing", "over"},
     cancelled : BOOLEAN, wire : {"none", "open", "whole", "reset"},
     here : BOOLEAN]

Holds(q, x) == \E i \in 1..Len(q) : q[i] = x

\* A frame is a state the sender has had, wherever it is, and the peer has
\* shown what it is known to have shown.
Frames ==
    /\ acked <= seen
    /\ dgram \subseteq 1..cur
    /\ queue \in Seq(1..cur)
    /\ \A s \in Slots \cup {Last0} :
         stream[s] = Idle \/ stream[s].my_state \in 1..cur

\* send_final reports once, and closes as it does; the client leaves later.
Closing ==
    /\ closed <=> final.at = "over"
    /\ final.at # "over" => final.outcome = "none"
    /\ client # "run" => closed

\* The newest state is on the screen or on its way from the queue to it.
Shown == seen = cur \/ Holds(queue, cur)

\* The inline stream carries the newest state, all of it.
OnLast == stream[Last0].my_state = cur /\ stream[Last0].wire = "whole"

\* Where the last frame is at each place of send_final.
LastFrame ==
    /\ final.at \in {"no", "opening"} => stream[Last0] = Idle
    /\ final.at = "writing" =>
         stream[Last0] = [Idle EXCEPT !.my_state = cur, !.wire = "open"]
    /\ final.at = "acking" => Shown \/ OnLast
    /\ final.outcome = "Stream" => Shown \/ (OnLast /\ stream[Last0].here)
    /\ final.outcome = "nothing" => acked = cur

Inv == TypeOK /\ Frames /\ Closing /\ LastFrame /\ LastScreenShown

-----------------------------------------------------------------------------
(* The operators the model is built from. *)

\* Min, of a set of slots, is one of them.
LEMMA MinIsMember ==
    ASSUME NEW S, S \subseteq Nat, S # {}
    PROVE  Min(S) \in S
<1> DEFINE R == OpToRel(<, Nat)
<1>1. PICK x \in S : \A y \in S : <<y, x>> \notin R
  BY NatLessThanWellFounded, WFMin
<1>2. \A a, b \in Nat : <<b, a>> \in R <=> b < a
  BY DEF OpToRel
<1> HIDE DEF R
<1>3. ASSUME NEW y \in S PROVE x <= y
  <2>1. x \in Nat /\ y \in Nat
    OBVIOUS
  <2>2. ~(y < x)
    BY <1>1, <1>2, <2>1, Zenon
  <2> QED BY <2>1, <2>2
<1> QED BY <1>3 DEF Min

\* Max, of two states.
LEMMA MaxOfTwo ==
    ASSUME NEW a \in Nat, NEW b \in Nat
    PROVE  Max({a, b}) = IF a >= b THEN a ELSE b
<1>1. \E x \in {a, b} : \A y \in {a, b} : x >= y
  OBVIOUS
<1>2. Max({a, b}) \in {a, b} /\ \A y \in {a, b} : Max({a, b}) >= y
  BY <1>1 DEF Max
<1> QED BY <1>2

\* What a queue holds after a frame is put in, and what the others do to it.
LEMMA HoldsAppend ==
    ASSUME NEW S, NEW q \in Seq(S), NEW x \in S
    PROVE  /\ Append(q, x) \in Seq(S)
           /\ Len(Append(q, x)) = Len(q) + 1
           /\ Holds(Append(q, x), x)
           /\ \A y : Holds(q, y) => Holds(Append(q, x), y)
BY DEF Holds

\* A frame taken from the queue was its head.
LEMMA HoldsTail ==
    ASSUME NEW S, NEW q \in Seq(S), q # <<>>
    PROVE  /\ Tail(q) \in Seq(S)
           /\ Len(Tail(q)) <= Len(q)
           /\ Head(q) \in S
           /\ \A y : Holds(q, y) => y = Head(q) \/ Holds(Tail(q), y)
<1>1. /\ Head(q) \in S /\ Tail(q) \in Seq(S) /\ Len(Tail(q)) = Len(q) - 1
      /\ \A i \in 1..Len(Tail(q)) : Tail(q)[i] = q[i + 1]
  BY HeadTailProperties
<1>2. ASSUME NEW i \in 1..Len(q), q[i] # Head(q)
      PROVE  i - 1 \in 1..Len(Tail(q)) /\ Tail(q)[i - 1] = q[i]
  BY <1>1, <1>2
<1> QED BY <1>1, <1>2 DEF Holds

LEMMA HoldsEmpty == \A y : ~Holds(<<>>, y)
BY DEF Holds

\* A set of states grows with the newest.
LEMMA RangeGrows ==
    ASSUME NEW m \in Nat, NEW n \in Nat, m <= n
    PROVE  1..m \subseteq 1..n /\ 0..m \subseteq 0..n
OBVIOUS

\* What an idle slot holds.
LEMMA IdleFields ==
    /\ Idle \in StreamRec
    /\ Idle.my_state = 0 /\ Idle.task = "over" /\ Idle.wire = "none"
    /\ Idle.here = FALSE /\ Idle.cancelled = FALSE
BY TransportBounds DEF Idle, StreamRec

\* The inline stream is none of the writers' streams.
LEMMA LastIsApart == Last0 \notin Slots
BY TransportBounds DEF Last0, Slots

-----------------------------------------------------------------------------
(* Steps that change one stream. *)

\* The streams are typed, and stay so while one is replaced.
LEMMA StreamsTyped ==
    ASSUME TypeOK
    PROVE  stream \in [Slots \cup {Last0} -> StreamRec]
BY DEF TypeOK, StreamRec

\* A step of the connection or of a writer puts one stream in another state.
LEMMA OneStream ==
    ASSUME TypeOK, Frames, UNCHANGED <<host, dgram, reach, peer>>,
           NEW s \in Slots \cup {Last0}, NEW new \in StreamRec,
           stream' = [stream EXCEPT ![s] = new],
           new = Idle \/ new.my_state \in 1..cur
    PROVE  TypeOK' /\ Frames'
<1>1. stream' \in [Slots \cup {Last0} -> StreamRec]
  BY StreamsTyped
<1>2. TypeOK'
  BY <1>1 DEF TypeOK, StreamRec, host, peer
<1>3. \A t \in Slots \cup {Last0} : stream'[t] = Idle \/ stream'[t].my_state \in 1..cur
  BY StreamsTyped DEF Frames
<1>4. Frames'
  BY <1>3, Zenon DEF Frames, host, peer, Slots, Last0, Idle
<1> QED BY <1>2, <1>4

\* Where the last frame is does not depend on the other streams.
LEMMA LastKept ==
    ASSUME Closing, LastFrame, LastScreenShown,
           UNCHANGED <<cur, acked, final, closed, queue, seen, client>>,
           stream'[Last0] = stream[Last0]
    PROVE  Closing' /\ LastFrame' /\ LastScreenShown'
<1>1. Closing' /\ LastScreenShown'
  BY DEF Closing, LastScreenShown
<1>2. Shown' = Shown /\ OnLast' = OnLast
  BY DEF Shown, OnLast
<1>3. LastFrame'
  BY <1>2 DEF LastFrame
<1> QED BY <1>1, <1>3

\* A stream of a writer is replaced.
LEMMA OneSlot ==
    ASSUME Inv, UNCHANGED <<host, dgram, reach, peer>>,
           NEW s \in Slots, NEW new \in StreamRec,
           stream' = [stream EXCEPT ![s] = new],
           new = Idle \/ new.my_state \in 1..cur
    PROVE  Inv'
<1>1. TypeOK' /\ Frames'
  BY OneStream DEF Inv
<1>2. stream'[Last0] = stream[Last0]
  BY StreamsTyped, LastIsApart DEF Inv
<1>3. Closing' /\ LastFrame' /\ LastScreenShown'
  BY <1>2, LastKept DEF Inv, host, peer
<1> QED BY <1>1, <1>3 DEF Inv

\* A stream that is not idle carries a state the sender has had.
LEMMA BusyCarries ==
    ASSUME Inv, NEW s \in Slots \cup {Last0}, stream[s] # Idle
    PROVE  stream[s] \in StreamRec /\ stream[s].my_state \in 1..cur
BY StreamsTyped DEF Inv, Frames

\* The steps of a writer.
LEMMA WriterInv ==
    ASSUME Inv, NEW s \in Slots, Writer(s)
    PROVE  Inv'
<1> DEFINE old == stream[s]
<1>0. UNCHANGED <<host, dgram, reach, peer>>
  BY DEF Writer, WriterOpens, WriterGivesUp, WriterFinishes, WriterResets,
         WriterFails
<1>1. old # Idle
  BY IdleFields DEF Writer, WriterOpens, WriterGivesUp, WriterFinishes,
                    WriterResets, WriterFails
<1>2. old \in StreamRec /\ old.my_state \in 1..cur
  BY <1>1, BusyCarries
<1>3. CASE WriterOpens(s)
  <2> DEFINE new == [old EXCEPT !.task = "writing", !.wire = "open"]
  <2>1. stream' = [stream EXCEPT ![s] = new]
    BY <1>3, StreamsTyped DEF WriterOpens, Inv
  <2>2. new \in StreamRec /\ new.my_state \in 1..cur
    BY <1>2 DEF StreamRec
  <2> QED BY <1>0, <2>1, <2>2, OneSlot
<1>4. CASE WriterGivesUp(s) \/ WriterFails(s)
  <2>1. stream' = [stream EXCEPT ![s] = Idle]
    BY <1>4 DEF WriterGivesUp, WriterFails
  <2> QED BY <1>0, <2>1, IdleFields, OneSlot
<1>5. ASSUME NEW w \in {"whole", "reset"},
             stream' = [stream EXCEPT ![s].task = "over", ![s].wire = w,
                                      ![s].cancelled = FALSE]
      PROVE  Inv'
  <2> DEFINE new == [old EXCEPT !.task = "over", !.wire = w, !.cancelled = FALSE]
  <2>1. stream' = [stream EXCEPT ![s] = new]
    BY <1>5, StreamsTyped DEF Inv
  <2>2. new \in StreamRec /\ new.my_state \in 1..cur
    BY <1>2 DEF StreamRec
  <2> QED BY <1>0, <2>1, <2>2, OneSlot
<1> QED BY <1>3, <1>4, <1>5 DEF Writer, WriterFinishes, WriterResets

\* The bytes of a stream arrive, or its reset: nobody resets the inline stream
\* of a frame that was reported acknowledged.
LEMMA NetworkInv ==
    ASSUME Inv, NEW s \in Slots \cup {Last0}, StreamArrives(s) \/ ResetArrives(s)
    PROVE  Inv'
<1> DEFINE old == stream[s]
<1>0. UNCHANGED <<host, dgram, reach, peer>>
  BY DEF StreamArrives, ResetArrives
<1>1. old # Idle
  BY IdleFields DEF StreamArrives, ResetArrives
<1>2. old \in StreamRec /\ old.my_state \in 1..cur
  BY <1>1, BusyCarries
<1>3. CASE StreamArrives(s)
  <2> DEFINE new == [old EXCEPT !.here = TRUE]
  <2>1. stream' = [stream EXCEPT ![s] = new]
    BY <1>3, StreamsTyped DEF StreamArrives, Inv
  <2>2. new \in StreamRec /\ new.my_state \in 1..cur
    BY <1>2 DEF StreamRec
  <2>3. CASE s \in Slots
    BY <1>0, <2>1, <2>2, <2>3, OneSlot
  <2>4. CASE s = Last0
    <3>1. TypeOK' /\ Frames'
      BY <1>0, <2>1, <2>2, OneStream DEF Inv
    <3>2. Closing' /\ LastScreenShown'
      BY <1>0 DEF Inv, Closing, LastScreenShown, host, peer
    <3>3. /\ stream[Last0].wire = "whole"
          /\ stream'[Last0].my_state = stream[Last0].my_state
          /\ stream'[Last0].wire = "whole" /\ stream'[Last0].here
      BY <1>2, <1>3, <2>1, <2>4, StreamsTyped DEF StreamArrives, Inv, StreamRec
    <3>4. ~(final.at \in {"no", "opening", "writing"})
      BY <3>3, IdleFields DEF Inv, LastFrame, Idle
    <3>5. Shown' = Shown /\ OnLast' = OnLast
      BY <1>0, <3>3 DEF Shown, OnLast, host, peer
    <3>6. LastFrame'
      BY <1>0, <3>3, <3>4, <3>5 DEF Inv, LastFrame, host, peer
    <3> QED BY <3>1, <3>2, <3>6 DEF Inv
  <2> QED BY <2>3, <2>4
<1>4. CASE ResetArrives(s)
  <2>1. stream' = [stream EXCEPT ![s] = Idle]
    BY <1>4 DEF ResetArrives
  <2>2. CASE s \in Slots
    BY <1>0, <2>1, <2>2, IdleFields, OneSlot
  <2>3. CASE s = Last0
    <3>1. TypeOK' /\ Frames'
      BY <1>0, <2>1, IdleFields, OneStream DEF Inv
    <3>2. Closing' /\ LastScreenShown'
      BY <1>0 DEF Inv, Closing, LastScreenShown, host, peer
    <3>3. stream[Last0].wire = "reset"
      BY <1>4, <2>3 DEF ResetArrives
    <3>4. ~(final.at \in {"no", "opening", "writing"}) /\ ~OnLast
      BY <3>3, IdleFields DEF Inv, LastFrame, Idle, OnLast
    <3>5. Shown' = Shown
      BY <1>0 DEF Shown, host, peer
    <3>6. LastFrame'
      BY <1>0, <3>4, <3>5 DEF Inv, LastFrame, host, peer
    <3> QED BY <3>1, <3>2, <3>6 DEF Inv
  <2> QED BY <2>2, <2>3
<1> QED BY <1>3, <1>4
-----------------------------------------------------------------------------
(* The sending end. *)

Entries == [slot : Slots \cup {-1}, my_state : 0..MaxState]

\* Dropping an entry tells its writer to stop and changes no frame.
LEMMA CancelKeeps ==
    ASSUME Inv, NEW e \in Entries
    PROVE  /\ Cancel(e) \in [Slots \cup {Last0} -> StreamRec]
           /\ Cancel(e)[Last0] = stream[Last0]
           /\ \A t \in Slots \cup {Last0} :
                Cancel(e)[t] = Idle \/ Cancel(e)[t].my_state \in 1..cur
<1>0. /\ stream \in [Slots \cup {Last0} -> StreamRec]
      /\ \A t \in Slots \cup {Last0} :
           stream[t] = Idle \/ stream[t].my_state \in 1..cur
  BY StreamsTyped DEF Inv, Frames
<1>1. CASE e = NoEntry \/ Finished(e)
  BY <1>0, <1>1 DEF Cancel
<1>2. CASE ~(e = NoEntry \/ Finished(e)) /\ e.slot \in Slots
  <2> DEFINE new == [stream[e.slot] EXCEPT !.cancelled = TRUE]
  <2>1. Cancel(e) = [stream EXCEPT ![e.slot] = new]
    BY <1>0, <1>2 DEF Cancel
  <2>2. stream[e.slot] # Idle
    BY <1>2, IdleFields DEF Finished
  <2>3. stream[e.slot].my_state \in 1..cur /\ stream[e.slot] \in StreamRec
    BY <1>0, <1>2, <2>2
  <2>4. new \in StreamRec /\ new.my_state = stream[e.slot].my_state
    BY <2>3 DEF StreamRec
  <2> HIDE DEF new
  <2> QED BY <1>0, <1>2, <2>1, <2>3, <2>4, LastIsApart
<1>3. CASE ~(e = NoEntry \/ Finished(e)) /\ e.slot \notin Slots
  <2>1. e.slot \notin Slots \cup {Last0}
    BY <1>3 DEF Entries, Last0
  <2>2. Cancel(e) = stream
    BY <1>0, <1>3, <2>1 DEF Cancel
  <2> QED BY <1>0, <2>2
<1> QED BY <1>1, <1>2, <1>3

\* What TypeOK says of the entry.
LEMMA EntryTyped ==
    ASSUME TypeOK
    PROVE  inFlight \in Entries /\ Reaped \in Entries /\ NoEntry \in Entries
BY TransportBounds DEF TypeOK, Entries, Reaped, NoEntry

\* A stream is started, or the one going is left to finish.
LEMMA SendOnStream ==
    ASSUME Inv, send_on_stream(cur)
    PROVE  /\ inFlight' \in Entries
           /\ stream' \in [Slots \cup {Last0} -> StreamRec]
           /\ stream'[Last0] = stream[Last0]
           /\ \A t \in Slots \cup {Last0} :
                stream'[t] = Idle \/ stream'[t].my_state \in 1..cur
<1>0. cur \in 1..MaxState /\ cur \in 0..MaxState /\ cur \in 1..cur
  BY TransportBounds DEF Inv, TypeOK
<1>1. CASE inFlight' = Reaped /\ UNCHANGED stream
  <2>1. inFlight' \in Entries
    BY <1>1, EntryTyped DEF Inv
  <2>2. stream' = stream
    BY <1>1
  <2> QED BY <2>1, <2>2, StreamsTyped DEF Inv, Frames
<1>2. CASE /\ Free # {}
           /\ LET s == Min(Free) IN
                /\ stream' = [Cancel(Reaped) EXCEPT
                            ![s] = [my_state |-> cur, task |-> "opening",
                                    cancelled |-> FALSE, wire |-> "none",
                                    here |-> FALSE]]
                /\ inFlight' = [slot |-> s, my_state |-> cur]
  <2> DEFINE s == Min(Free)
             new == [my_state |-> cur, task |-> "opening", cancelled |-> FALSE,
                     wire |-> "none", here |-> FALSE]
  <2>1. s \in Slots
    <3>1. Free \subseteq Nat /\ Free \subseteq Slots
      BY TransportBounds DEF Free, Slots
    <3> QED BY <1>2, <3>1, MinIsMember
  <2>2. stream' = [Cancel(Reaped) EXCEPT ![s] = new]
        /\ inFlight' = [slot |-> s, my_state |-> cur]
    BY <1>2
  <2>3. new \in StreamRec /\ new.my_state = cur
    BY <1>0 DEF StreamRec
  <2> HIDE DEF new, s
  <2>4. inFlight' \in Entries
    BY <1>0, <2>1, <2>2 DEF Entries
  <2>5. Reaped \in Entries
    BY EntryTyped DEF Inv
  <2> QED BY <1>0, <2>1, <2>2, <2>3, <2>4, <2>5, CancelKeeps, LastIsApart
<1> QED BY <1>1, <1>2 DEF send_on_stream

\* FrameSink::send.
LEMMA SendInv ==
    ASSUME Inv, Send
    PROVE  Inv'
<1>0. UNCHANGED <<cur, acked, final, datagrams, closed, reach, queue, seen, client>>
  BY DEF Send, peer
<1>1. /\ inFlight' \in Entries
      /\ stream' \in [Slots \cup {Last0} -> StreamRec]
      /\ stream'[Last0] = stream[Last0]
      /\ \A t \in Slots \cup {Last0} :
           stream'[t] = Idle \/ stream'[t].my_state \in 1..cur
  <2>1. CASE UNCHANGED <<inFlight, stream>>
    BY <2>1, EntryTyped, StreamsTyped DEF Inv, Frames
  <2>2. CASE send_on_stream(cur)
    BY <2>2, SendOnStream
  <2> QED BY <2>1, <2>2 DEF Send
<1>2. dgram' \subseteq 1..cur /\ dgram' \subseteq 1..MaxState
  <2>1. cur \in 1..cur /\ cur \in 1..MaxState
    BY DEF Inv, TypeOK
  <2>2. dgram' \subseteq dgram \cup {cur}
    BY DEF Send
  <2> QED BY <2>1, <2>2 DEF Inv, TypeOK, Frames
<1>3. TypeOK'
  BY <1>0, <1>1, <1>2 DEF Inv, TypeOK, StreamRec, Entries
<1>4. Frames'
  BY <1>0, <1>1, <1>2, Zenon DEF Inv, Frames, Slots, Last0, Idle
<1>5. Closing' /\ LastFrame' /\ LastScreenShown'
  BY <1>0, <1>1, LastKept DEF Inv
<1> QED BY <1>3, <1>4, <1>5 DEF Inv

\* Everything that was a state stays one when the newest moves on.
LEMMA FramesGrow ==
    ASSUME TypeOK, Frames, cur' \in 1..MaxState, cur <= cur',
           UNCHANGED <<acked, seen, dgram, queue>>,
           \A t \in Slots \cup {Last0} :
             stream'[t] = Idle \/ stream'[t].my_state \in 1..cur
    PROVE  /\ Frames'
           /\ acked' \in 0..cur' /\ seen' \in 0..cur'
<1>1. cur \in Nat /\ cur' \in Nat
  BY DEF TypeOK
<1>2. 1..cur \subseteq 1..cur' /\ 0..cur \subseteq 0..cur'
  BY <1>1, RangeGrows
<1>3. queue \in Seq(1..cur')
  BY <1>2, SeqMonotonic DEF Frames
<1>4. acked' \in 0..cur' /\ seen' \in 0..cur'
  BY <1>2 DEF TypeOK
<1>5. acked' <= seen' /\ dgram' \subseteq 1..cur' /\ queue' \in Seq(1..cur')
  BY <1>2, <1>3 DEF Frames
<1>6. \A t \in Slots \cup {Last0} :
         stream'[t] = Idle \/ stream'[t].my_state \in 1..cur'
  BY <1>2
<1>7. Frames'
  BY <1>5, <1>6, Zenon DEF Frames, Slots, Last0, Idle
<1> QED BY <1>4, <1>7

\* Output while the session runs.
LEMMA UpdateInv ==
    ASSUME Inv, Update
    PROVE  Inv'
<1>0. /\ final.at = "no"
      /\ UNCHANGED <<acked, inFlight, final, datagrams, closed, stream, dgram,
                     reach, queue, seen, client>>
  BY DEF Update, peer
<1>1. cur' \in 1..MaxState /\ cur <= cur'
  BY TransportBounds DEF Update, Inv, TypeOK
<1>2. Frames' /\ acked' \in 0..cur' /\ seen' \in 0..cur'
  BY <1>0, <1>1, FramesGrow DEF Inv, Frames
<1>3. TypeOK'
  BY <1>0, <1>1, <1>2 DEF Inv, TypeOK
<1>4. Closing' /\ LastFrame' /\ LastScreenShown'
  BY <1>0 DEF Inv, Closing, LastFrame, LastScreenShown
<1> QED BY <1>2, <1>3, <1>4 DEF Inv

\* An acknowledgement is of a state that is shown.
LEMMA HearAckInv ==
    ASSUME Inv, HearAck
    PROVE  Inv'
<1>0. /\ final.at = "no"
      /\ UNCHANGED <<cur, inFlight, final, datagrams, closed, stream, dgram,
                     reach, queue, seen, client>>
  BY DEF HearAck, peer
<1>1. acked' \in 0..cur /\ acked' <= seen
  BY DEF HearAck, Inv, TypeOK
<1>2. TypeOK'
  BY <1>0, <1>1 DEF Inv, TypeOK
<1>3. Frames'
  BY <1>0, <1>1, Zenon DEF Inv, Frames, Slots, Last0, Idle
<1>4. Closing' /\ LastFrame' /\ LastScreenShown'
  BY <1>0 DEF Inv, Closing, LastFrame, LastScreenShown
<1> QED BY <1>2, <1>3, <1>4 DEF Inv

\* HostSession::finish: with nothing to send the screen is the last one.
LEMMA FinishInv ==
    ASSUME Inv, finish
    PROVE  Inv'
<1>0. /\ final.at = "no" /\ client = "run" /\ final.outcome = "none"
      /\ closed = FALSE
      /\ UNCHANGED <<acked, datagrams, dgram, reach, queue, seen, client>>
  BY DEF finish, peer, Inv, Closing, TypeOK
<1>1. cur' \in 1..MaxState /\ cur <= cur'
  BY TransportBounds DEF finish, Inv, TypeOK
<1>2. CASE close("nothing") /\ UNCHANGED <<inFlight, stream>> /\ acked = cur'
  <2>1. Frames' /\ acked' \in 0..cur' /\ seen' \in 0..cur'
    BY <1>0, <1>1, <1>2, FramesGrow DEF Inv, Frames
  <2>2. final' = [at |-> "over", outcome |-> "nothing"] /\ closed' = TRUE
    BY <1>2 DEF close
  <2>3. TypeOK'
    BY <1>0, <1>1, <1>2, <2>1, <2>2 DEF Inv, TypeOK, Outcome
  <2>4. Closing' /\ LastFrame' /\ LastScreenShown'
    BY <1>0, <1>2, <2>2 DEF Closing, LastFrame, LastScreenShown
  <2> QED BY <2>1, <2>3, <2>4 DEF Inv
<1>3. CASE /\ final' = [final EXCEPT !.at = "opening"]
           /\ stream' = Cancel(inFlight)
           /\ inFlight' = NoEntry
           /\ UNCHANGED closed
  <2>1. /\ stream' \in [Slots \cup {Last0} -> StreamRec]
        /\ stream'[Last0] = stream[Last0]
        /\ \A t \in Slots \cup {Last0} :
             stream'[t] = Idle \/ stream'[t].my_state \in 1..cur
    BY <1>3, EntryTyped, CancelKeeps DEF Inv
  <2>2. inFlight' \in Entries
    BY <1>3, EntryTyped DEF Inv
  <2>3. Frames' /\ acked' \in 0..cur' /\ seen' \in 0..cur'
    BY <1>0, <1>1, <2>1, FramesGrow DEF Inv
  <2>4. final' = [at |-> "opening", outcome |-> "none"]
    BY <1>0, <1>3 DEF Inv, TypeOK
  <2>5. TypeOK'
    BY <1>0, <1>1, <1>3, <2>1, <2>2, <2>3, <2>4
       DEF Inv, TypeOK, Outcome, StreamRec, Entries
  <2>6. stream[Last0] = Idle
    BY <1>0 DEF Inv, LastFrame
  <2>7. Closing' /\ LastFrame' /\ LastScreenShown'
    BY <1>0, <1>3, <2>1, <2>4, <2>6, Zenon
       DEF Closing, LastFrame, LastScreenShown, Idle
  <2> QED BY <2>3, <2>5, <2>7 DEF Inv
<1> QED BY <1>2, <1>3 DEF finish

\* The inline stream is opened and written: it carries the newest state.
LEMMA FinalSendsInv ==
    ASSUME Inv, FinalOpens \/ FinalWrites
    PROVE  Inv'
<1> DEFINE w == IF final.at = "opening" THEN "open" ELSE "whole"
           new == [Idle EXCEPT !.my_state = cur, !.wire = w]
<1>0. UNCHANGED <<cur, acked, inFlight, datagrams, closed, dgram, reach, queue,
                  seen, client>>
  BY DEF FinalOpens, FinalWrites, peer
<1>1. /\ final.at \in {"opening", "writing"} /\ final.outcome = "none"
      /\ closed = FALSE /\ client = "run"
  BY DEF FinalOpens, FinalWrites, Inv, Closing, TypeOK
<1>2. final' = [at |-> IF final.at = "opening" THEN "writing" ELSE "acking",
                outcome |-> "none"]
  BY <1>1 DEF FinalOpens, FinalWrites, Inv, TypeOK
<1>3. stream' = [stream EXCEPT ![Last0] = new]
  <2>1. CASE FinalOpens
    BY <2>1 DEF FinalOpens
  <2>2. CASE FinalWrites
    <3>1. stream' = [stream EXCEPT ![Last0] = [stream[Last0] EXCEPT !.wire = "whole"]]
      BY <2>2, StreamsTyped DEF FinalWrites, Inv
    <3>2. final.at = "writing"
      BY <2>2 DEF FinalWrites
    <3>3. stream[Last0] = [Idle EXCEPT !.my_state = cur, !.wire = "open"]
      BY <3>2 DEF Inv, LastFrame
    <3>4. [stream[Last0] EXCEPT !.wire = "whole"] = new
      BY <3>2, <3>3 DEF Idle
    <3> QED BY <3>1, <3>4
  <2> QED BY <2>1, <2>2
<1>4. /\ new \in StreamRec /\ new.my_state = cur /\ new.wire = w
      /\ cur \in 1..cur
  <2>1. cur \in 0..MaxState /\ cur \in 1..cur
    BY DEF Inv, TypeOK
  <2> QED BY <2>1, IdleFields DEF Idle, StreamRec
<1>5. /\ stream' \in [Slots \cup {Last0} -> StreamRec]
      /\ stream'[Last0] = new
      /\ \A t \in Slots \cup {Last0} :
           stream'[t] = Idle \/ stream'[t].my_state \in 1..cur
  <2> HIDE DEF new
  <2> QED BY <1>3, <1>4, StreamsTyped DEF Inv, Frames
<1>6. TypeOK'
  BY <1>0, <1>2, <1>5 DEF Inv, TypeOK, Outcome, StreamRec
<1>7. Frames'
  BY <1>0, <1>5, Zenon DEF Inv, Frames, Slots, Last0, Idle
<1>8. Closing' /\ LastScreenShown'
  BY <1>0, <1>1, <1>2 DEF Closing, LastScreenShown
<1>9. LastFrame'
  <2>1. CASE final.at = "opening"
    <3>1. final'.at = "writing" /\ final'.outcome = "none"
      BY <1>2, <2>1
    <3>2. stream'[Last0] = [Idle EXCEPT !.my_state = cur', !.wire = "open"]
      BY <1>0, <1>5, <2>1
    <3> QED BY <3>1, <3>2, Zenon DEF LastFrame, Idle
  <2>2. CASE final.at = "writing"
    <3>1. final'.at = "acking" /\ final'.outcome = "none"
      BY <1>2, <2>2
    <3>2. stream'[Last0].my_state = cur' /\ stream'[Last0].wire = "whole"
      BY <1>0, <1>4, <1>5, <2>2
    <3> QED BY <3>1, <3>2 DEF LastFrame, OnLast
  <2> QED BY <1>1, <2>1, <2>2
<1> QED BY <1>6, <1>7, <1>8, <1>9 DEF Inv

\* send_final reports and closes: acknowledged means there, or read already.
LEMMA FinalEndsInv ==
    ASSUME Inv, FinalStopped \/ FinalTimeout
    PROVE  Inv'
<1>0. UNCHANGED <<cur, acked, inFlight, datagrams, dgram, reach, queue, seen,
                  client>>
  BY DEF FinalStopped, FinalTimeout, peer
<1>1. /\ final.at \in {"opening", "writing", "acking"}
      /\ final.outcome = "none" /\ closed = FALSE /\ client = "run"
  BY DEF FinalStopped, FinalTimeout, Inv, Closing, TypeOK
<1>2. closed' = TRUE /\ final'.at = "over"
  BY DEF FinalStopped, FinalTimeout, close
<1>3. Closing' /\ LastScreenShown'
  BY <1>0, <1>1, <1>2 DEF Closing, LastScreenShown
<1>4. CASE FinalStopped
  <2>1. final' = [at |-> "over", outcome |-> "Stream"] /\ UNCHANGED stream
    BY <1>4 DEF FinalStopped, close
  <2>2. TypeOK'
    BY <1>0, <1>2, <2>1 DEF Inv, TypeOK, Outcome
  <2>3. Frames'
    BY <1>0, <2>1, Zenon DEF Inv, Frames, Slots, Last0, Idle
  <2>4. Shown \/ OnLast
    BY <1>4 DEF FinalStopped, Inv, LastFrame
  <2>5. Shown \/ (OnLast /\ stream[Last0].here)
    BY <1>4, <2>4, IdleFields DEF FinalStopped, OnLast
  <2>6. Shown' = Shown /\ OnLast' = OnLast
    BY <1>0, <2>1 DEF Shown, OnLast
  <2>7. LastFrame'
    BY <2>1, <2>5, <2>6 DEF LastFrame
  <2> QED BY <1>3, <2>2, <2>3, <2>7 DEF Inv
<1>5. CASE FinalTimeout
  <2>1. final' = [at |-> "over", outcome |-> "Dropped"]
    BY <1>5 DEF FinalTimeout, close
  <2>2. /\ stream' \in [Slots \cup {Last0} -> StreamRec]
        /\ \A t \in Slots \cup {Last0} :
             stream'[t] = Idle \/ stream'[t].my_state \in 1..cur
    <3>1. CASE UNCHANGED stream
      BY <3>1, StreamsTyped DEF Inv, Frames
    <3>2. CASE /\ final.at = "writing"
               /\ stream' = [stream EXCEPT ![Last0].wire = "reset"]
      <4> DEFINE new == [stream[Last0] EXCEPT !.wire = "reset"]
      <4>1. stream' = [stream EXCEPT ![Last0] = new]
        BY <3>2, StreamsTyped DEF Inv
      <4>2. stream[Last0].my_state = cur /\ cur \in 1..cur
        <5>1. stream[Last0] = [Idle EXCEPT !.my_state = cur, !.wire = "open"]
          BY <3>2 DEF Inv, LastFrame
        <5>2. stream[Last0].my_state = cur
          BY <5>1 DEF Idle
        <5> QED BY <5>2 DEF Inv, TypeOK
      <4>3. stream[Last0] \in StreamRec
        BY StreamsTyped DEF Inv
      <4>4. new \in StreamRec /\ new.my_state = stream[Last0].my_state
        BY <4>3 DEF StreamRec
      <4> HIDE DEF new
      <4> QED BY <4>1, <4>2, <4>4, StreamsTyped DEF Inv, Frames
    <3> QED BY <1>5, <3>1, <3>2 DEF FinalTimeout
  <2>3. TypeOK'
    BY <1>0, <1>2, <2>1, <2>2 DEF Inv, TypeOK, Outcome, StreamRec
  <2>4. Frames'
    BY <1>0, <2>2, Zenon DEF Inv, Frames, Slots, Last0, Idle
  <2>5. LastFrame'
    BY <2>1 DEF LastFrame
  <2> QED BY <1>3, <2>3, <2>4, <2>5 DEF Inv
<1> QED BY <1>4, <1>5

-----------------------------------------------------------------------------
(* The end that shows. *)

\* A datagram is lost, or the peer is.
LEMMA LossInv ==
    ASSUME Inv, DatagramLost \/ PeerVanishes
    PROVE  Inv'
<1>0. UNCHANGED <<cur, acked, inFlight, final, datagrams, closed, stream,
                  queue, seen, client>>
  BY DEF DatagramLost, PeerVanishes, host, peer
<1>1. dgram' \subseteq dgram /\ reach' \in BOOLEAN
  BY DEF DatagramLost, PeerVanishes, Inv, TypeOK
<1>2. TypeOK'
  BY <1>0, <1>1 DEF Inv, TypeOK
<1>3. Frames'
  BY <1>0, <1>1, Zenon DEF Inv, Frames, Slots, Last0, Idle
<1>4. Closing' /\ LastFrame' /\ LastScreenShown'
  BY <1>0, LastKept DEF Inv
<1> QED BY <1>2, <1>3, <1>4 DEF Inv

\* A frame is put into the queue by a reading task while there is room.
LEMMA QueueTyped ==
    ASSUME Inv, Room, NEW x \in 1..cur, queue' = Append(queue, x)
    PROVE  /\ queue' \in Seq(1..cur) /\ queue' \in Seq(1..MaxState)
           /\ Len(queue') <= QueueSize
           /\ Holds(queue', x)
           /\ \A y : Holds(queue, y) => Holds(queue', y)
<1>1. cur \in Nat /\ MaxState \in Nat /\ cur <= MaxState /\ queue \in Seq(1..cur)
  BY TransportBounds DEF Inv, TypeOK, Frames
<1>2. /\ queue' \in Seq(1..cur) /\ Len(queue') = Len(queue) + 1
      /\ Holds(queue', x)
      /\ \A y : Holds(queue, y) => Holds(queue', y)
  BY <1>1, HoldsAppend
<1>3. 1..cur \subseteq 1..MaxState
  BY <1>1, RangeGrows
<1>4. queue' \in Seq(1..MaxState)
  BY <1>2, <1>3, SeqMonotonic
<1>5. Len(queue') <= QueueSize
  BY <1>1, <1>2, TransportBounds, LenProperties DEF Room
<1> QED BY <1>2, <1>4, <1>5

LEMMA ReadDatagramInv ==
    ASSUME Inv, ReadDatagram
    PROVE  Inv'
<1>0. UNCHANGED <<cur, acked, inFlight, final, datagrams, closed, stream,
                  reach, seen, client>>
  BY DEF ReadDatagram, host
<1>1. PICK d \in dgram : queue' = Append(queue, d) /\ dgram' = dgram \ {d}
  BY DEF ReadDatagram
<1>2. d \in 1..cur /\ Room /\ client # "drained"
  BY DEF ReadDatagram, Inv, Frames
<1>3. /\ queue' \in Seq(1..cur) /\ queue' \in Seq(1..MaxState)
      /\ Len(queue') <= QueueSize
      /\ \A y : Holds(queue, y) => Holds(queue', y)
  BY <1>1, <1>2, QueueTyped
<1>4. TypeOK'
  BY <1>0, <1>1, <1>3 DEF Inv, TypeOK
<1>5. Frames'
  BY <1>0, <1>1, <1>3, Zenon DEF Inv, Frames, Slots, Last0, Idle
<1>6. Closing' /\ LastScreenShown'
  BY <1>0, <1>2 DEF Inv, Closing, LastScreenShown
<1>7. (Shown => Shown') /\ OnLast' = OnLast
  BY <1>0, <1>3, Zenon DEF Shown, OnLast
<1>8. LastFrame'
  BY <1>0, <1>7 DEF Inv, LastFrame
<1> QED BY <1>4, <1>5, <1>6, <1>8 DEF Inv

\* The reading task of a stream: what it takes from the inline stream is in
\* the queue.
LEMMA ReadStreamInv ==
    ASSUME Inv, NEW s \in Slots \cup {Last0}, ReadStream(s)
    PROVE  Inv'
<1>0. UNCHANGED <<cur, acked, inFlight, final, datagrams, closed, dgram,
                  reach, seen, client>>
  BY DEF ReadStream, host
<1>1. /\ queue' = Append(queue, stream[s].my_state)
      /\ stream' = [stream EXCEPT ![s] = Idle]
      /\ stream[s].here /\ Room /\ client # "drained"
  BY DEF ReadStream
<1>2. stream[s].my_state \in 1..cur
  BY <1>1, IdleFields DEF Inv, Frames
<1>3. /\ queue' \in Seq(1..cur) /\ queue' \in Seq(1..MaxState)
      /\ Len(queue') <= QueueSize
      /\ Holds(queue', stream[s].my_state)
      /\ \A y : Holds(queue, y) => Holds(queue', y)
  BY <1>1, <1>2, QueueTyped
<1>4. /\ stream' \in [Slots \cup {Last0} -> StreamRec]
      /\ \A t \in Slots \cup {Last0} :
           stream'[t] = Idle \/ stream'[t].my_state \in 1..cur
      /\ s # Last0 => stream'[Last0] = stream[Last0]
  BY <1>1, StreamsTyped, IdleFields DEF Inv, Frames
<1>5. TypeOK'
  BY <1>0, <1>3, <1>4 DEF Inv, TypeOK, StreamRec
<1>6. Frames'
  BY <1>0, <1>3, <1>4, Zenon DEF Inv, Frames, Slots, Last0, Idle
<1>7. Closing' /\ LastScreenShown'
  BY <1>0, <1>1 DEF Inv, Closing, LastScreenShown
<1>8. Shown => Shown'
  BY <1>0, <1>3, Zenon DEF Shown
<1>9. CASE s = Last0
  <2>1. ~(final.at \in {"no", "opening", "writing"})
    BY <1>1, <1>9, IdleFields DEF Inv, LastFrame, Idle
  <2>2. OnLast => Shown'
    BY <1>0, <1>3, <1>9, Zenon DEF OnLast, Shown
  <2>3. LastFrame'
    BY <1>0, <1>8, <2>1, <2>2 DEF Inv, LastFrame
  <2> QED BY <1>5, <1>6, <1>7, <2>3 DEF Inv
<1>10. CASE s # Last0
  <2>1. stream'[Last0] = stream[Last0]
    BY <1>4, <1>10
  <2>2. OnLast' = OnLast
    BY <1>0, <2>1 DEF OnLast
  <2>3. LastFrame'
    BY <1>0, <1>8, <2>1, <2>2 DEF Inv, LastFrame
  <2> QED BY <1>5, <1>6, <1>7, <2>3 DEF Inv
<1> QED BY <1>9, <1>10

\* take_frames: the screen only moves forward, and takes the newest with it.
LEMMA TakeFrameInv ==
    ASSUME Inv, TakeFrame
    PROVE  Inv'
<1>0. UNCHANGED <<cur, acked, inFlight, final, datagrams, closed, stream,
                  dgram, reach, client>>
  BY DEF TakeFrame, host
<1>1. /\ queue # <<>> /\ queue' = Tail(queue) /\ client # "drained"
      /\ seen' = Max({seen, Head(queue)})
  BY DEF TakeFrame
<1>2. cur \in Nat /\ queue \in Seq(1..cur) /\ queue \in Seq(1..MaxState)
      /\ Len(queue) <= QueueSize
  BY DEF Inv, TypeOK, Frames
<1>3. /\ queue' \in Seq(1..cur) /\ Len(queue') <= Len(queue)
      /\ Head(queue) \in 1..cur
      /\ \A y : Holds(queue, y) => y = Head(queue) \/ Holds(queue', y)
  BY <1>1, <1>2, HoldsTail
<1>4. queue' \in Seq(1..MaxState) /\ Len(queue') <= QueueSize
  <2>1. queue' \in Seq(1..MaxState)
    BY <1>1, <1>2, HoldsTail
  <2> QED BY <1>2, <1>3, <2>1, TransportBounds, LenProperties
<1>5. /\ seen' \in 0..cur /\ seen <= seen' /\ Head(queue) <= seen'
      /\ acked <= seen'
  <2>1. seen \in Nat /\ Head(queue) \in Nat /\ acked \in Nat /\ acked <= seen
        /\ seen <= cur /\ Head(queue) <= cur
    BY <1>2, <1>3 DEF Inv, TypeOK, Frames
  <2>2. seen' = IF seen >= Head(queue) THEN seen ELSE Head(queue)
    BY <1>1, <2>1, MaxOfTwo
  <2> QED BY <1>2, <2>1, <2>2
<1>6. TypeOK'
  BY <1>0, <1>4, <1>5 DEF Inv, TypeOK
<1>7. Frames'
  BY <1>0, <1>3, <1>5, Zenon DEF Inv, Frames, Slots, Last0, Idle
<1>8. Closing' /\ LastScreenShown'
  BY <1>0, <1>1 DEF Inv, Closing, LastScreenShown
<1>9. Shown => Shown'
  <2>1. CASE seen = cur
    <3>1. seen' = cur
      BY <1>2, <1>5, <2>1
    <3> QED BY <1>0, <3>1 DEF Shown
  <2>2. CASE Holds(queue, cur)
    <3>1. CASE cur = Head(queue)
      <4>1. seen' = cur
        BY <1>2, <1>5, <3>1
      <4> QED BY <1>0, <4>1 DEF Shown
    <3>2. CASE Holds(queue', cur)
      BY <1>0, <3>2 DEF Shown
    <3> QED BY <1>3, <2>2, <3>1, <3>2
  <2> QED BY <2>1, <2>2 DEF Shown
<1>10. LastFrame'
  <2>1. OnLast' = OnLast
    BY <1>0 DEF OnLast
  <2> QED BY <1>0, <1>9, <2>1 DEF Inv, LastFrame
<1> QED BY <1>6, <1>7, <1>8, <1>10 DEF Inv

\* The close arrives: a last frame that was acknowledged arrived before it.
LEMMA SeeCloseInv ==
    ASSUME Inv, SeeClose
    PROVE  Inv'
<1>0. UNCHANGED <<cur, acked, inFlight, final, datagrams, closed, dgram,
                  reach, queue, seen>>
  BY DEF SeeClose, host
<1>1. /\ closed /\ client' = "draining"
      /\ stream' = [s \in DOMAIN stream |->
                      IF stream[s].task = "over" /\ ~stream[s].here
                      THEN Idle ELSE stream[s]]
  BY DEF SeeClose
<1>2. DOMAIN stream = Slots \cup {Last0}
  BY StreamsTyped DEF Inv
<1>3. /\ stream' \in [Slots \cup {Last0} -> StreamRec]
      /\ \A t \in Slots \cup {Last0} : stream'[t] = Idle \/ stream'[t] = stream[t]
      /\ stream[Last0].here => stream'[Last0] = stream[Last0]
  BY <1>1, <1>2, StreamsTyped, IdleFields DEF Inv
<1>4. TypeOK'
  BY <1>0, <1>1, <1>3 DEF Inv, TypeOK, StreamRec
<1>5. Frames'
  <2>1. \A t \in Slots \cup {Last0} :
          stream'[t] = Idle \/ stream'[t].my_state \in 1..cur
    BY <1>3 DEF Inv, Frames
  <2> QED BY <1>0, <2>1, Zenon DEF Inv, Frames, Slots, Last0, Idle
<1>6. Closing' /\ LastScreenShown'
  BY <1>0, <1>1 DEF Inv, Closing, LastScreenShown
<1>7. final.at = "over" /\ Shown' = Shown
  BY <1>0, <1>1 DEF Inv, Closing, Shown
<1>8. OnLast /\ stream[Last0].here => OnLast' /\ stream'[Last0].here
  BY <1>0, <1>3 DEF OnLast
<1>9. LastFrame'
  BY <1>0, <1>7, <1>8 DEF Inv, LastFrame
<1> QED BY <1>4, <1>5, <1>6, <1>9 DEF Inv

\* The drain ends by itself only when nothing is left on the way.
LEMMA DrainEndsInv ==
    ASSUME Inv, DrainEnds
    PROVE  Inv'
<1>0. UNCHANGED <<cur, acked, inFlight, final, datagrams, closed, stream,
                  dgram, reach, queue, seen>>
  BY DEF DrainEnds, host
<1>1. client = "draining" /\ client' \in {"drained", "timeout"}
  BY DEF DrainEnds
<1>2. TypeOK'
  BY <1>0, <1>1 DEF Inv, TypeOK
<1>3. Frames'
  BY <1>0, Zenon DEF Inv, Frames, Slots, Last0, Idle
<1>4. Closing'
  BY <1>0, <1>1 DEF Inv, Closing
<1>5. Shown' = Shown /\ OnLast' = OnLast
  BY <1>0 DEF Shown, OnLast
<1>6. LastFrame'
  BY <1>0, <1>5 DEF Inv, LastFrame
<1>7. LastScreenShown'
  <2> SUFFICES ASSUME client' = "drained", final.outcome \in {"Stream", "nothing"}
               PROVE  seen = cur
    BY <1>0 DEF LastScreenShown
  <2>1. queue = <<>> /\ \A s \in DOMAIN stream : ~stream[s].here
    BY DEF DrainEnds
  <2>2. ~Holds(queue, cur)
    BY <2>1, HoldsEmpty
  <2>3. ~stream[Last0].here
    BY <2>1, StreamsTyped DEF Inv
  <2>4. CASE final.outcome = "Stream"
    BY <2>2, <2>3, <2>4 DEF Inv, LastFrame, Shown
  <2>5. CASE final.outcome = "nothing"
    <3>1. acked = cur
      BY <2>5 DEF Inv, LastFrame
    <3> QED BY <3>1 DEF Inv, Frames, TypeOK
  <2> QED BY <2>4, <2>5
<1> QED BY <1>2, <1>3, <1>4, <1>6, <1>7 DEF Inv

-----------------------------------------------------------------------------

\* Nothing is on the way when the session starts.
LEMMA InitInv == Init => Inv
<1> SUFFICES ASSUME Init PROVE Inv
  OBVIOUS
<1>1. cur = 1 /\ acked = 0 /\ seen = 0 /\ queue = <<>> /\ dgram = {}
  BY DEF Init
<1>2. stream \in [Slots \cup {Last0} -> StreamRec]
      /\ \A s \in Slots \cup {Last0} : stream[s] = Idle
  BY IdleFields DEF Init
<1>3. TypeOK
  <2>1. inFlight \in [slot : Slots \cup {-1}, my_state : 0..MaxState]
    BY TransportBounds DEF Init, NoEntry
  <2>2. queue \in Seq(1..MaxState) /\ Len(queue) = 0
    BY <1>1
  <2>3. /\ final \in [at : {"no", "opening", "writing", "acking", "over"},
                     outcome : Outcome]
        /\ client \in {"run", "draining", "drained", "timeout"}
        /\ datagrams \in BOOLEAN /\ closed \in BOOLEAN /\ reach \in BOOLEAN
    BY DEF Init, Outcome
  <2>4. cur \in 1..MaxState /\ acked \in 0..cur /\ seen \in 0..cur
        /\ dgram \subseteq 1..MaxState /\ Len(queue) <= QueueSize
    BY <1>1, <2>2, TransportBounds
  <2> QED BY <1>2, <2>1, <2>2, <2>3, <2>4 DEF TypeOK, StreamRec
<1>4. Frames
  BY <1>1, <1>2 DEF Frames
<1>5. Closing /\ LastFrame /\ LastScreenShown
  BY <1>2 DEF Init, Closing, LastFrame, LastScreenShown
<1> QED BY <1>3, <1>4, <1>5 DEF Inv

\* Every step keeps the invariant.
LEMMA NextInv == Inv /\ [Next]_vars => Inv'
<1> SUFFICES ASSUME Inv, [Next]_vars PROVE Inv'
  OBVIOUS
<1>1. CASE UNCHANGED vars
  <2>1. TypeOK'
    BY <1>1 DEF vars, Inv, TypeOK
  <2>2. Frames'
    BY <1>1, Zenon DEF vars, Inv, Frames, Slots, Last0, Idle
  <2>3. Closing' /\ LastFrame' /\ LastScreenShown'
    BY <1>1, LastKept DEF vars, Inv
  <2> QED BY <2>1, <2>2, <2>3 DEF Inv
<1>2. CASE Update \/ HearAck \/ Send \/ finish \/ Final
  BY <1>2, UpdateInv, HearAckInv, SendInv, FinishInv, FinalSendsInv,
     FinalEndsInv DEF Final
<1>3. CASE \E s \in Slots : Writer(s)
  BY <1>3, WriterInv
<1>4. DOMAIN stream = Slots \cup {Last0}
  BY StreamsTyped DEF Inv
<1>5. CASE Network
  BY <1>4, <1>5, LossInv, NetworkInv DEF Network
<1>6. CASE Client
  BY <1>4, <1>6, ReadDatagramInv, TakeFrameInv, SeeCloseInv, DrainEndsInv,
     ReadStreamInv DEF Client
<1> QED BY <1>1, <1>2, <1>3, <1>5, <1>6 DEF Next

\* The types of both ends: what is shown or acknowledged was a state of the
\* sender, and FrameSource's queue keeps to its size.
THEOREM TransportTyped == Spec => []TypeOK
<1>1. Inv => TypeOK
  BY DEF Inv
<1> QED BY <1>1, InitInv, NextInv, PTL DEF Spec

\* finish and the client's drain: a last frame that send_final reports as
\* acknowledged, or as not needed, is on the screen of a client that drained.
THEOREM LastScreenIsShown == Spec => []LastScreenShown
<1>1. Inv => LastScreenShown
  BY DEF Inv
<1> QED BY <1>1, InitInv, NextInv, PTL DEF Spec

=============================================================================
