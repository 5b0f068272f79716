--------------------------- MODULE RecoveryProofs ---------------------------
(***************************************************************************)
(* The safety of Recovery, for any number of attempts, searches and other  *)
(* clients. The steps of the client's loop keep the inductive invariant    *)
(* Inv (RecoveryInvariant). Every one of them ends in a lap, so a lap is   *)
(* treated once: what it does to the client's record (EvaluateStep,        *)
(* RebuildStep, StandbyStep, LapStep), and that it turns a client for      *)
(* which the invariant's blocks hold into a state in which the invariant   *)
(* does (LapInv). Each event then only has to show those blocks for the    *)
(* record it hands to the lap. With the steps of the tasks and of the host *)
(* (RecoveryHost) these are all there are, and Inv implies the invariants  *)
(* the runs check.                                                         *)
(***************************************************************************)
EXTENDS RecoveryHost

-----------------------------------------------------------------------------
(* A lap *)

\* What a lap leaves of the client's record.
Same(c, s) ==
    /\ s.link = c.link /\ s.ended = c.ended /\ s.enabled = c.enabled
    /\ s.takeover_expected = c.takeover_expected
    /\ s.answered_by = c.answered_by /\ s.standby = c.standby

\* The phase a lap gives the client: it falls silent, or begins to rebuild.
Evaluated(c, e) ==
    /\ e \in ClientRec /\ Same(c, e)
    /\ e.in_flight = c.in_flight /\ e.generation = c.generation
    /\ e.displacing = c.displacing /\ e.searching = c.searching
    /\ e.search = c.search /\ e.probe = c.probe /\ e.probing = c.probing
    /\ e.pc = c.pc
    /\ \/ e.phase = c.phase /\ e.next_try = c.next_try
       \/ e.phase = "Silent" /\ e.next_try = c.next_try
       \/ /\ e.phase = "Recovering" /\ e.next_try = "now" /\ TimePasses
          /\ c.phase = "Silent" /\ c.generation < MaxAttempts

\* What evaluate does to the record.
LEMMA EvaluateStep ==
    ASSUME allowed \in Bounds, NEW c \in ClientRec, NEW e \in evaluate(c)
    PROVE  Evaluated(c, e)
<1>1. \/ e = c
      \/ e = [c EXCEPT !.phase = "Silent"]
      \/ /\ TimePasses /\ c.phase = "Silent" /\ c.generation < MaxAttempts
         /\ e = [c EXCEPT !.phase = "Recovering", !.next_try = "now"]
  BY Zenon DEF evaluate
<1>2. CASE e = c
  BY <1>2, Zenon DEF Evaluated, Same
<1>3. CASE e = [c EXCEPT !.phase = "Silent"]
  BY <1>3 DEF ClientRec, Evaluated, Same
<1>4. CASE /\ TimePasses /\ c.phase = "Silent" /\ c.generation < MaxAttempts
           /\ e = [c EXCEPT !.phase = "Recovering", !.next_try = "now"]
  BY <1>4, Zenon DEF ClientRec, Evaluated, Same
<1> QED  BY <1>1, <1>2, <1>3, <1>4, Zenon

\* At most one attempt is begun, and only when none is in flight.
Began(c, s) ==
    \/ s.generation = c.generation /\ (s.in_flight => c.in_flight)
    \/ /\ TimePasses /\ ~c.in_flight /\ c.generation < MaxAttempts
       /\ s.generation = c.generation + 1 /\ s.in_flight

\* What rebuild_step does to the rebuild's part of the record.
Steady(c, s) ==
    /\ s \in ClientRec /\ Same(c, s) /\ s.next_try = "later"
    /\ s.phase = "Live" => c.phase = "Live"
    /\ s.in_flight => s.phase = "Recovering" /\ s.displacing /\ s.generation # 0
    /\ s.phase = "Recovering" /\ ~s.displacing =>
         /\ c.phase = "Recovering" /\ ~c.displacing
         /\ s.generation = c.generation
    /\ Began(c, s)

\* ... and that it leaves the standby's part alone.
Rebuilt(c, r) ==
    /\ Steady(c, r)
    /\ r.searching = c.searching /\ r.search = c.search
    /\ r.probe = c.probe /\ r.probing = c.probing /\ r.pc = c.pc

\* What evaluate and rebuild_step do to the record.
LEMMA RebuildStep ==
    ASSUME allowed \in Bounds, NEW c \in ClientRec, ClientMid(c),
           NEW e \in ClientRec, Evaluated(c, e), NEW r \in rebuild_step(e)
    PROVE  Rebuilt(c, r)
<1>0. MaxAttempts \in Nat
  BY RecoveryBounds DEF MaxAttempts
<1>1. \/ e.phase # "Recovering" /\ r = stood_down(e)
      \/ /\ e.phase = "Recovering" /\ r = e
         /\ e.next_try = "now" => e.in_flight \/ e.generation = MaxAttempts
      \/ /\ e.phase = "Recovering" /\ r = begin(e)
         /\ ~e.in_flight /\ e.generation # MaxAttempts
         /\ e.next_try = "now" \/ TimePasses
  BY Zenon DEF rebuild_step
<1>2. CASE e.phase # "Recovering" /\ r = stood_down(e)
  <2>1. r = [e EXCEPT !.in_flight = FALSE, !.displacing = FALSE]
    BY <1>2 DEF stood_down, cancel, ClientRec
  <2>2. /\ r \in ClientRec /\ Same(e, r) /\ r.phase = e.phase
        /\ r.next_try = e.next_try /\ ~r.in_flight /\ r.generation = e.generation
        /\ r.searching = e.searching /\ r.search = e.search
        /\ r.probe = e.probe /\ r.probing = e.probing /\ r.pc = e.pc
    BY <2>1, ZenonT(30) DEF ClientRec, Same
  <2>3. e.next_try = "later" /\ (e.phase = "Live" => c.phase = "Live")
    BY <1>2 DEF Evaluated, ClientMid
  <2> QED  BY <1>2, <2>2, <2>3 DEF Evaluated, Same, Steady, Began, Rebuilt
<1>3. CASE /\ e.phase = "Recovering" /\ r = e
           /\ e.next_try = "now" => e.in_flight \/ e.generation = MaxAttempts
  <2>1. e.next_try = "later" /\ e.phase = c.phase
    BY <1>0, <1>3, SMTT(30), Z3T(30) DEF Evaluated, ClientMid, ClientRec
  <2> QED  BY <1>0, <1>3, <2>1 DEF Evaluated, Same, Steady, Began, Rebuilt, ClientMid
<1>4. CASE /\ e.phase = "Recovering" /\ r = begin(e)
           /\ ~e.in_flight /\ e.generation # MaxAttempts
           /\ e.next_try = "now" \/ TimePasses
  <2>1. TimePasses
    BY <1>4 DEF Evaluated, ClientMid
  <2>2. /\ r \in ClientRec /\ Same(e, r) /\ r.phase = "Recovering"
        /\ r.next_try = "later" /\ r.in_flight /\ r.displacing
        /\ r.generation = e.generation + 1 /\ r.generation # 0
        /\ e.generation < MaxAttempts
        /\ r.searching = e.searching /\ r.search = e.search
        /\ r.probe = e.probe /\ r.probing = e.probing /\ r.pc = e.pc
    <3>1. e.generation \in Nat /\ e.generation < MaxAttempts
      BY <1>0, <1>4, SMTT(30), Z3T(30) DEF ClientRec
    <3>2. e.generation + 1 \in 0 .. MaxAttempts /\ e.generation + 1 # 0
      BY <1>0, <3>1, SMTT(30), Z3T(30)
    <3>3. r = [e EXCEPT !.in_flight = TRUE, !.generation = e.generation + 1,
                        !.displacing = TRUE, !.next_try = "later"]
      BY <1>4 DEF begin
    <3>4. r \in ClientRec
      BY <3>2, <3>3, Zenon DEF ClientRec
    <3>5. /\ r.phase = e.phase /\ r.generation = e.generation + 1
          /\ r.next_try = "later" /\ r.in_flight /\ r.displacing
          /\ r.searching = e.searching /\ r.search = e.search
          /\ r.probe = e.probe /\ r.probing = e.probing /\ r.pc = e.pc
      BY <3>3 DEF ClientRec
    <3>6. Same(e, r)
      BY <3>3 DEF ClientRec, Same
    <3> QED  BY <3>1, <3>2, <3>4, <3>5, <3>6, <1>4
  <2>3. ~c.in_flight /\ c.generation = e.generation
    BY <1>4 DEF Evaluated
  <2> QED  BY <2>1, <2>2, <2>3 DEF Evaluated, Same, Steady, Began, Rebuilt
<1> QED  BY <1>1, <1>2, <1>3, <1>4, Zenon

\* At most one search is begun, outside an outage and with no standby held.
Searched(c, s) ==
    \/ s.searching = c.searching /\ s.search = c.search
    \/ /\ TimePasses /\ ~Outage(s) /\ c.standby = 0 /\ ~c.searching
       /\ s.searching /\ s.search = c.search + 1 /\ s.search \in 1 .. MaxSearches

\* At most one probe is begun, of the standby that is held.
Asked(c, s) ==
    \/ s.probe \in {c.probe, "Idle"} /\ s.probing = c.probing
    \/ s.probe = "Pending" /\ s.probing /\ ~c.probing /\ c.standby # 0

\* A failover is decided on an answer, and never against an attempt that has
\* committed.
Decided(c, s) ==
    /\ s.pc = "failover" => /\ TimePasses /\ Outage(s)
                            /\ c.probe = "Answered" /\ s.probe = "Answered"
    /\ s.probe = "Answered" => c.probe = "Answered" /\ Outage(s)
    /\ s.probe = "Answered" /\ s.in_flight =>
         attempts[s.generation].commitment # "COMMITTED"

\* The whole lap.
Lapped(c, s) == Steady(c, s) /\ Searched(c, s) /\ Asked(c, s) /\ Decided(c, s)

\* What standby_step leaves of the record.
RebuildKept(r, s) ==
    /\ s \in ClientRec /\ Same(r, s) /\ s.phase = r.phase
    /\ s.next_try = r.next_try /\ s.in_flight = r.in_flight
    /\ s.displacing = r.displacing /\ s.generation = r.generation

\* standby_step leaves what rebuild_step did.
LEMMA KeptSteady ==
    ASSUME NEW c, NEW r, NEW s, Steady(c, r), RebuildKept(r, s)
    PROVE  Steady(c, s)
BY DEF Steady, RebuildKept, Same, Began

\* What a lap's three parts do to the record.
LEMMA StandbyStep ==
    ASSUME allowed \in Bounds, NEW c \in ClientRec, ClientMid(c), c.pc = "select",
           NEW r \in ClientRec, Rebuilt(c, r), NEW s \in standby_step(r)
    PROVE  Lapped(c, s)
<1>0. MaxSearches \in Nat
  BY RecoveryBounds DEF MaxSearches
<1> DEFINE idle == [r EXCEPT !.probe = "Idle"]
<1>1. \/ s = r /\ (r.enabled /\ r.standby # 0 => Outage(r) /\ ~Committed(r))
      \/ s = idle
      \/ /\ s = Search(idle) /\ ~Outage(r)
         /\ TimePasses /\ r.standby = 0 /\ ~r.searching /\ r.search < MaxSearches
      \/ /\ s = [r EXCEPT !.pc = "failover"] /\ Outage(r) /\ ~Committed(r)
         /\ TimePasses /\ r.probe = "Answered"
      \/ s = Probe(r) /\ ~r.probing /\ r.standby # 0
  BY Zenon DEF standby_step
<1>c. r.in_flight /\ ~Committed(r) => attempts[r.generation].commitment # "COMMITTED"
  BY Zenon DEF Committed
<1>2. CASE s = r /\ (r.enabled /\ r.standby # 0 => Outage(r) /\ ~Committed(r))
  <2>1. r.probe = "Answered" => r.enabled /\ r.standby # 0
    BY DEF Rebuilt, Steady, Same, ClientMid
  <2> QED  BY <1>2, <1>c, <2>1
           DEF Rebuilt, Steady, Lapped, Searched, Asked, Decided, ClientMid
<1>3. CASE s = idle
  BY <1>3, SMTT(30), Z3T(30)
  DEF ClientRec, Rebuilt, Steady, Same, Began, Lapped, Searched, Asked, Decided
<1>4. CASE /\ s = Search(idle) /\ ~Outage(r)
           /\ TimePasses /\ r.standby = 0 /\ ~r.searching /\ r.search < MaxSearches
  <2>1. r.search + 1 \in Nat /\ r.search + 1 \in 1 .. MaxSearches
    BY <1>0, <1>4, SMTT(30), Z3T(30) DEF ClientRec
  <2>2. s = [r EXCEPT !.probe = "Idle", !.searching = TRUE, !.search = r.search + 1]
    BY <1>4 DEF Search, ClientRec
  <2>3. /\ RebuildKept(r, s)
        /\ s.searching /\ s.search = r.search + 1
        /\ s.probe = "Idle" /\ s.probing = r.probing /\ s.pc = r.pc
    BY <2>1, <2>2, Zenon DEF ClientRec, Same, RebuildKept
  <2>4. Searched(c, s)
    BY <1>4, <2>1, <2>3 DEF Rebuilt, Steady, Same, RebuildKept, Searched, Outage
  <2>5. Asked(c, s) /\ Decided(c, s)
    BY <2>3 DEF Rebuilt, Asked, Decided
  <2> QED  BY <2>3, <2>4, <2>5, KeptSteady DEF Rebuilt, Lapped
<1>5. CASE /\ s = [r EXCEPT !.pc = "failover"] /\ Outage(r) /\ ~Committed(r)
           /\ TimePasses /\ r.probe = "Answered"
  BY <1>5, <1>c, SMTT(30), Z3T(30)
  DEF ClientRec, Rebuilt, Steady, Same, Began, Lapped, Searched, Asked,
      Decided, Outage
<1>6. CASE s = Probe(r) /\ ~r.probing /\ r.standby # 0
  <2>1. /\ RebuildKept(r, s)
        /\ s.searching = r.searching /\ s.search = r.search
        /\ s.probe = "Pending" /\ s.probing /\ s.pc = r.pc
    BY <1>6, Zenon DEF ClientRec, Same, Probe, RebuildKept
  <2>2. Searched(c, s) /\ Decided(c, s)
    BY <2>1 DEF Rebuilt, Searched, Decided
  <2>3. Asked(c, s)
    BY <1>6, <2>1, Zenon DEF Rebuilt, Steady, Same, Asked
  <2> QED  BY <2>1, <2>2, <2>3, KeptSteady DEF Rebuilt, Lapped
<1> QED  BY <1>1, <1>2, <1>3, <1>4, <1>5, <1>6, Zenon

\* What a lap does to the record, and which tasks it starts.
LEMMA LapStep ==
    ASSUME allowed \in Bounds, NEW c \in ClientRec, ClientMid(c), c.pc = "select",
           c.generation = client.generation, Lap(c)
    PROVE  Lapped(c, client') /\ Started(c, client')
<1>1. PICK e \in evaluate(c) : \E r \in rebuild_step(e) : \E s \in standby_step(r) :
            client' = s /\ Started(r, s)
  BY Zenon DEF Lap
<1>2. PICK r \in rebuild_step(e) : \E s \in standby_step(r) :
            client' = s /\ Started(r, s)
  BY <1>1, Zenon
<1>3. client' \in standby_step(r) /\ Started(r, client')
  BY <1>2, Zenon
<1>4. Evaluated(c, e)
  BY EvaluateStep
<1>5. Rebuilt(c, r)
  BY <1>4, RebuildStep DEF Evaluated
<1>6. Lapped(c, client')
  BY <1>3, <1>5, StandbyStep DEF Rebuilt, Steady
<1>7. Started(c, client')
  BY <1>3, <1>5 DEF Started, Rebuilt
<1> QED  BY <1>6, <1>7

\* A lap keeps what is said of the record, and restores it between laps.
LEMMA LapClient ==
    ASSUME allowed \in Bounds, NEW c \in ClientRec, ClientMid(c), c.pc = "select",
           c.ended = "no", NEW s, Lapped(c, s)
    PROVE  ClientOK(s)
<1>1. s \in ClientRec /\ Same(c, s)
  BY DEF Lapped, Steady
<1>2. /\ s.in_flight => s.displacing /\ s.generation # 0 /\ s.phase = "Recovering"
      /\ s.ended = "no" /\ s.next_try = "later"
      /\ s.enabled = c.enabled
  BY DEF Lapped, Steady, Same
<1>3. s.pc = "failover" => s.probe = "Answered" /\ Outage(s)
  BY DEF Lapped, Decided
<1>4. s.standby # 0 => s.search = s.standby /\ ~s.searching
  BY <1>1 DEF Lapped, Searched, Same, ClientMid
<1>5. s.searching => s.search \in 1 .. MaxSearches
  BY Zenon DEF Lapped, Searched, ClientMid
<1>6. /\ s.probe = "Pending" => s.probing
      /\ s.probe # "Idle" => s.standby # 0
      /\ s.probe = "Answered" => s.answered_by = s.standby
  BY <1>1 DEF Lapped, Asked, Same, ClientMid
<1>7. ASSUME s.phase = "Recovering" /\ ~s.displacing
      PROVE  /\ s.generation # 0 /\ s.link = Attempt(s.generation)
             /\ s.standby = 0 /\ ~s.searching
  <2>1. /\ c.phase = "Recovering" /\ ~c.displacing /\ s.generation = c.generation
        /\ s.link = c.link /\ s.standby = c.standby
    BY <1>7, <1>1 DEF Lapped, Steady, Same
  <2>2. ~s.searching
    BY <1>7, <2>1 DEF Lapped, Searched, Outage, ClientMid
  <2> QED  BY <2>1, <2>2 DEF ClientMid
<1>8. \A o \in Others : s.link # Other(o)
  BY <1>1 DEF Same, ClientMid
<1>9. ~s.enabled => s.standby = 0
  BY <1>1 DEF Same, ClientMid
<1> QED  BY <1>1, <1>2, <1>3, <1>4, <1>5, <1>6, <1>7, <1>8, <1>9
         DEF ClientOK, ClientMid

\* What a lap changes of the tasks.
LEMMA LapStarts ==
    ASSUME allowed \in Bounds, TypedTasks, TypedSearches,
           NEW c \in ClientRec, c.generation = client.generation, ClientMid(c),
           NEW s, Lapped(c, s), Started(c, s)
    PROVE  /\ \/ s.generation = c.generation /\ attempts' = attempts
              \/ /\ TimePasses /\ ~c.in_flight /\ s.generation = c.generation + 1
                 /\ s.generation \in Attempts
                 /\ attempts' = [attempts EXCEPT ![s.generation].task = "ssh"]
           /\ \/ /\ s.searching = c.searching /\ s.search = c.search
                 /\ searches' = searches
              \/ /\ TimePasses /\ ~Outage(s) /\ c.standby = 0 /\ ~c.searching
                 /\ s.searching /\ s.search = c.search + 1
                 /\ s.search \in Searches /\ s.search \in 1 .. MaxSearches
                 /\ searches' = [searches EXCEPT ![s.search] =
                                   [task |-> "asked", via |-> s.link]]
           /\ \/ /\ s.probe \in {c.probe, "Idle"} /\ s.probing = c.probing
                 /\ probe_task' = IF c.probing THEN probe_task ELSE 0
              \/ /\ s.probe = "Pending" /\ s.probing /\ ~c.probing /\ c.standby # 0
                 /\ probe_task' = c.standby
<1>0. c.generation \in Nat /\ s.standby = c.standby
  BY Numbers, SMTT(30), Z3T(30) DEF ClientRec, Lapped, Steady, Same
<1>1. \/ s.generation = c.generation /\ attempts' = attempts
      \/ /\ TimePasses /\ ~c.in_flight /\ s.generation = c.generation + 1
         /\ s.generation \in 1 .. MaxAttempts
         /\ attempts' = [attempts EXCEPT ![s.generation].task = "ssh"]
  BY <1>0, Numbers, SMTT(30), Z3T(30) DEF Lapped, Steady, Began, Started
<1>2. \/ /\ s.searching = c.searching /\ s.search = c.search
         /\ searches' = searches
      \/ /\ TimePasses /\ ~Outage(s) /\ c.standby = 0 /\ ~c.searching
         /\ s.searching /\ s.search = c.search + 1 /\ s.search \in 1 .. MaxSearches
         /\ searches' = [searches EXCEPT ![s.search] =
                           [task |-> "asked", via |-> s.link]]
  BY Zenon DEF Lapped, Searched, Started
<1>3. \/ /\ s.probe \in {c.probe, "Idle"} /\ s.probing = c.probing
         /\ probe_task' = IF c.probing THEN probe_task ELSE 0
      \/ /\ s.probe = "Pending" /\ s.probing /\ ~c.probing /\ c.standby # 0
         /\ probe_task' = c.standby
  BY <1>0, Zenon DEF Lapped, Asked, Started
<1> QED  BY <1>1, <1>2, <1>3, Numbers

\* A step of the loop that changes the record to c and then laps: the deadlines are
\* looked at with both channels drained (TimePasses).
LapFrom(c) ==
    /\ Inv
    /\ c \in ClientRec /\ ClientMid(c) /\ c.pc = "select" /\ c.ended = "no"
    /\ c.generation = client.generation
    /\ Lap(c)
    /\ TimePasses => /\ outcomes' = <<>> /\ events' = <<>>
                     /\ c.in_flight = client.in_flight
                     /\ c.probe = "Answered" =>
                          client.probe = "Answered" /\ c.standby = client.standby
    /\ outcomes' \in Seq(ReportRec) /\ Len(outcomes') <= 1
    /\ events' \in Seq(EventRec) /\ Len(events') <= 2
    /\ TypedFrames' /\ dropped \subseteq dropped'
    /\ UNCHANGED <<hostVars, allowed>>

\* What such a step leaves alone.
LEMMA LapFacts ==
    ASSUME NEW c, LapFrom(c)
    PROVE  /\ allowed \in Bounds /\ TypedTasks /\ TypedSearches /\ TypedHost
           /\ c \in ClientRec /\ c.generation = client.generation
           /\ Lapped(c, client') /\ Started(c, client')
           /\ client' \in ClientRec /\ Same(c, client')
           /\ inbox' = inbox /\ serving' = serving /\ exchange' = exchange
           /\ attaches' = attaches /\ host' = host /\ closed' = closed
           /\ allowed' = allowed
<1>1. /\ allowed \in Bounds /\ TypedTasks /\ TypedSearches /\ TypedHost
      /\ c \in ClientRec /\ ClientMid(c) /\ c.pc = "select"
      /\ c.generation = client.generation /\ Lap(c)
  BY Typed, Zenon DEF LapFrom, Inv
<1>2. Lapped(c, client') /\ Started(c, client')
  BY <1>1, LapStep, Zenon
<1>3. client' \in ClientRec /\ Same(c, client')
  BY <1>2, Zenon DEF Lapped, Steady
<1>4. /\ inbox' = inbox /\ serving' = serving /\ exchange' = exchange
      /\ attaches' = attaches /\ host' = host /\ closed' = closed
      /\ allowed' = allowed
  BY Zenon DEF LapFrom, hostVars
<1> QED  BY <1>1, <1>2, <1>3, <1>4, Zenon

\* The tasks it starts.
LEMMA LapStarted ==
    ASSUME NEW c, LapFrom(c)
    PROVE  /\ \/ client'.generation = c.generation /\ attempts' = attempts
              \/ /\ TimePasses /\ ~c.in_flight /\ client'.generation = c.generation + 1
                 /\ client'.generation \in Attempts
                 /\ attempts' = [attempts EXCEPT ![client'.generation].task = "ssh"]
           /\ \/ /\ client'.searching = c.searching /\ client'.search = c.search
                 /\ searches' = searches
              \/ /\ TimePasses /\ ~Outage(client') /\ c.standby = 0 /\ ~c.searching
                 /\ client'.searching /\ client'.search = c.search + 1
                 /\ client'.search \in Searches /\ client'.search \in 1 .. MaxSearches
                 /\ searches' = [searches EXCEPT ![client'.search] =
                                   [task |-> "asked", via |-> client'.link]]
           /\ \/ /\ client'.probe \in {c.probe, "Idle"} /\ client'.probing = c.probing
                 /\ probe_task' = IF c.probing THEN probe_task ELSE 0
              \/ /\ client'.probe = "Pending" /\ client'.probing /\ ~c.probing
                 /\ c.standby # 0 /\ probe_task' = c.standby
<1>1. ClientMid(c)
  BY DEF LapFrom
<1> QED  BY <1>1, LapFacts, LapStarts, ZenonT(30)

\* It keeps the types and what is said of the record.
LEMMA LapTyped ==
    ASSUME NEW c, LapFrom(c)
    PROVE  TypeOK' /\ (allowed \in Bounds)' /\ ClientOK(client)'
<1> USE LapFacts
<1>1. ClientOK(client')
  BY LapClient, Zenon DEF LapFrom
<1>2. ClientOK(client)'
  <2>1. MaxSearches' = MaxSearches
    BY DEF MaxSearches
  <2> QED  BY <1>1, <2>1 DEF ClientOK, ClientMid, Outage
<1>3. (client \in ClientRec)'
  BY SMTT(30), Z3T(30) DEF ClientRec, MaxAttempts, MaxSearches
<1>4. attempts' \in [Attempts -> TaskRec]
  <2>1. CASE attempts' = attempts
    BY <2>1 DEF TypedTasks
  <2>2. CASE /\ client'.generation \in Attempts
             /\ attempts' = [attempts EXCEPT ![client'.generation].task = "ssh"]
    BY <2>2 DEF TypedTasks, TaskRec
  <2> QED  BY <2>1, <2>2, LapStarted, Zenon
<1>5. TypedTasks'
  BY <1>4 DEF TypedTasks, LapFrom
<1>6. searches' \in [Searches -> SearchRec]
  <2>1. CASE searches' = searches
    BY <2>1 DEF TypedSearches
  <2>2. CASE /\ client'.search \in Searches
             /\ searches' = [searches EXCEPT ![client'.search] =
                               [task |-> "asked", via |-> client'.link]]
    <3>1. client'.link \in Links
      BY DEF ClientRec
    <3>2. [task |-> "asked", via |-> client'.link] \in SearchRec
      BY <3>1 DEF SearchRec
    <3> QED  BY <2>2, <3>2 DEF TypedSearches
  <2> QED  BY <2>1, <2>2, LapStarted, Zenon
<1>7. probe_task' \in 0 .. MaxSearches
  <2>1. c.standby \in 0 .. MaxSearches /\ probe_task \in 0 .. MaxSearches
    BY SMTT(30), Z3T(30) DEF ClientRec, TypedSearches
  <2>2. 0 \in 0 .. MaxSearches
    BY Numbers, SMTT(30), Z3T(30)
  <2> QED  BY <2>1, <2>2, LapStarted, Zenon
<1>8. TypedSearches'
  BY <1>6, <1>7 DEF TypedSearches, LapFrom, MaxSearches
<1>9. TypedHost'
  BY DEF TypedHost
<1> QED  BY <1>2, <1>3, <1>5, <1>8, <1>9, Typed, Zenon DEF LapFrom

\* An attempt it begins is the last, and no task of another runs.
LEMMA LapTasks ==
    ASSUME NEW c, LapFrom(c), Tasks(c, attempts, outcomes')
    PROVE  /\ Tasks(client, attempts, outcomes)'
           /\ \A g \in Attempts : attempts'[g].commitment = attempts[g].commitment
<1> USE LapFacts
<1>1. CASE client'.generation = c.generation /\ attempts' = attempts
  BY <1>1 DEF Tasks
<1>2. CASE /\ TimePasses /\ ~c.in_flight /\ client'.generation = c.generation + 1
           /\ client'.generation \in Attempts
           /\ attempts' = [attempts EXCEPT ![client'.generation].task = "ssh"]
  <2>1. c.generation \in Nat /\ Attempts \subseteq Nat
    BY Numbers, SMTT(30), Z3T(30) DEF ClientRec
  <2>2. outcomes' = <<>> /\ ~client.in_flight
    BY <1>2 DEF LapFrom
  <2>3. \A g \in Attempts : attempts[g].task \in {"none", "over"}
    BY <1>2, <2>2, Zenon DEF TimePasses, InFlight
  <2>4. \A g \in Attempts :
          /\ attempts'[g].commitment = attempts[g].commitment
          /\ g # client'.generation => attempts'[g].task = attempts[g].task
    BY <1>2 DEF TypedTasks, TaskRec
  <2>5. \A g \in Attempts : g > client'.generation => g > c.generation
    BY <1>2, <2>1, SMTT(30), Z3T(30)
  <2> QED  BY <2>2, <2>3, <2>4, <2>5 DEF Tasks
<1> QED  BY <1>1, <1>2, LapStarted, Zenon

\* A search it begins runs over the client's link.
LEMMA LapSearching ==
    ASSUME NEW c, LapFrom(c), Searching(c, searches)
    PROVE  Searching(client, searches)'
<1> USE LapFacts
<1>0. client'.link = c.link /\ client'.standby = c.standby /\ MaxSearches' = MaxSearches
  BY DEF Same, MaxSearches
<1>1. CASE /\ client'.searching = c.searching /\ client'.search = c.search
           /\ searches' = searches
  BY <1>0, <1>1 DEF Searching
<1>2. CASE /\ c.standby = 0 /\ client'.search = c.search + 1
           /\ client'.search \in Searches /\ client'.search \in 1 .. MaxSearches
           /\ searches' = [searches EXCEPT ![client'.search] =
                             [task |-> "asked", via |-> client'.link]]
  <2>1. c.search \in Nat /\ Searches \subseteq Nat /\ MaxSearches \in Nat
    BY Numbers, SMTT(30), Z3T(30) DEF ClientRec
  <2>2. /\ searches'[client'.search].via = client'.link
        /\ searches'[client'.search].task = "asked"
        /\ \A n \in Searches : n # client'.search => searches'[n] = searches[n]
    BY <1>2 DEF TypedSearches
  <2>3. \A n \in Searches : n <= c.search => n <= client'.search
    BY <1>2, <2>1, SMTT(30), Z3T(30)
  <2>4. \A n \in Searches : searches'[n].task # "none" =>
          n <= client'.search /\ n <= MaxSearches
    <3>1. client'.search <= client'.search /\ client'.search <= MaxSearches
      BY <1>2, <2>1, SMTT(30), Z3T(30)
    <3>2. \A n \in Searches : n # client'.search /\ searches[n].task # "none" =>
            n <= client'.search /\ n <= MaxSearches
      BY <2>3 DEF Searching
    <3> QED  BY <2>2, <3>1, <3>2
  <2>5. \A n \in Searches : searches'[n].task = "none" =>
          exchange[StandbyLink(n)] = "none" /\ serving # StandbyLink(n)
    BY <2>2 DEF Searching
  <2> QED  BY <1>0, <1>2, <2>2, <2>4, <2>5 DEF Searching
<1> QED  BY <1>1, <1>2, LapStarted, Zenon

\* A search or a probe it begins has reported nothing.
LEMMA LapEvents ==
    ASSUME NEW c, LapFrom(c),
           Events(c, searches, IF c.probing THEN probe_task ELSE 0, events')
    PROVE  Events(client, searches, probe_task, events)'
<1> USE LapFacts
<1>0. /\ client'.ended = c.ended /\ client'.standby = c.standby
      /\ MaxSearches' = MaxSearches
  BY DEF Same, MaxSearches
<1>1. FoundEvents(client, searches, events)'
  <2>1. CASE /\ client'.searching = c.searching /\ client'.search = c.search
             /\ searches' = searches
    BY <1>0, <2>1, Zenon DEF Events, FoundEvents
  <2>2. CASE TimePasses
    <3>1. Len(events') = 0
      BY <2>2, SMTT(30), Z3T(30) DEF LapFrom
    <3> QED  BY <3>1, SMTT(30), Z3T(30) DEF FoundEvents
  <2> QED  BY <2>1, <2>2, LapStarted, Zenon
<1>2. \A i \in 1 .. Len(events') : events'[i].kind = "Probed" =>
         client'.probing \/ (client'.standby = 0 /\ ~client'.searching)
  <2>1. CASE client'.searching = c.searching
    BY <1>0, <2>1, LapStarted DEF Events, ProbeEvents
  <2>2. CASE TimePasses
    <3>1. Len(events') = 0
      BY <2>2, SMTT(30), Z3T(30) DEF LapFrom
    <3> QED  BY <3>1, SMTT(30), Z3T(30)
  <2> QED  BY <2>1, <2>2, LapStarted, Zenon
<1>3. ProbeEvents(client, probe_task, events)'
  <2>1. CASE /\ client'.probe \in {c.probe, "Idle"} /\ client'.probing = c.probing
             /\ probe_task' = IF c.probing THEN probe_task ELSE 0
    BY <1>0, <1>2, <2>1, Zenon DEF Events, ProbeEvents
  <2>2. CASE /\ client'.probe = "Pending" /\ client'.probing /\ ~c.probing
             /\ c.standby # 0 /\ probe_task' = c.standby
    <3>1. \A i \in 1 .. Len(events') : events'[i].kind # "Probed"
      BY <2>2, Zenon DEF Events, ProbeEvents
    <3> QED  BY <1>0, <2>2, <3>1 DEF ProbeEvents
  <2> QED  BY <2>1, <2>2, LapStarted, Zenon
<1> QED  BY <1>0, <1>1, <1>3 DEF Events

\* Generations and searches only grow, and a lap ends no outage.
LEMMA LapGrows ==
    ASSUME NEW c, LapFrom(c)
    PROVE  /\ c.search \in Nat /\ client'.search \in Nat /\ c.search <= client'.search
           /\ c.generation \in Nat /\ client'.generation \in Nat
           /\ c.generation <= client'.generation
           /\ Outage(c) => Outage(client')
<1> USE LapFacts
<1>1. /\ c.search \in Nat /\ c.generation \in Nat
      /\ client'.search \in Nat /\ client'.generation \in Nat
  BY Numbers, SMTT(30), Z3T(30) DEF ClientRec
<1>2. c.search <= client'.search /\ c.generation <= client'.generation
  BY <1>1, LapStarted, SMTT(30), Z3T(30)
<1>3. Outage(c) => Outage(client')
  BY DEF Outage, Lapped, Steady, ClientRec
<1> QED  BY <1>1, <1>2, <1>3

\* What is said of the host's closes and standbys holds of larger numbers.
LEMMA LapHost ==
    ASSUME NEW c, LapFrom(c), Closes(c), Standbys(c)
    PROVE  Closes(client)' /\ Standbys(client)'
<1> USE LapFacts, LapGrows
<1>0. Attempts \subseteq Nat /\ Searches \subseteq Nat
  BY Numbers
<1>1. /\ \A g \in Attempts : g <= c.generation => g <= client'.generation
      /\ \A n \in Searches : n < c.search => n < client'.search
  BY <1>0, SMTT(30), Z3T(30)
<1>2. client'.ended = "no"
  BY Zenon DEF Same, LapFrom
<1>3. Closes(client)'
  BY <1>1, <1>2, Zenon DEF Closes
<1>4. Standbys(client)'
  BY <1>1, Zenon DEF Standbys, Waiting
<1> QED  BY <1>3, <1>4

\* What is said of the frames on standbys holds after a lap: it searches only
\* outside an outage.
LEMMA LapFrames ==
    ASSUME NEW c, LapFrom(c), Frames(c, searches, up', down')
    PROVE  Frames(client, searches, up, down)'
<1> USE LapFacts, LapGrows
<1>0. /\ client'.link = c.link /\ client'.standby = c.standby
      /\ \A n \in Searches : n < c.search => n < client'.search
  BY Numbers, SMTT(30), Z3T(30) DEF Same
<1>1. ASSUME NEW a \in Searches, NEW b \in Searches,
             c.link = StandbyLink(a), Waiting(StandbyLink(a))
      PROVE  /\ StandbyLink(a) \in up' /\ Outage(client') /\ client'.standby = 0
             /\ ~client'.searching /\ (b > a => searches'[b].task = "none")
  <2>1. /\ StandbyLink(a) \in up' /\ Outage(c) /\ c.standby = 0 /\ ~c.searching
        /\ b > a => searches[b].task = "none"
    BY <1>1, Zenon DEF Frames
  <2>2. client'.searching = c.searching /\ searches' = searches
    BY <2>1, LapStarted, Zenon
  <2> QED  BY <1>0, <2>1, <2>2, Zenon
<1>2. \A l : Waiting(l)' <=> Waiting(l)
  BY DEF Waiting
<1> QED  BY <1>0, <1>1, <1>2, SMTT(30), Z3T(30) DEF Frames

\* An attempt that has not committed is neither held nor closed by the host.
LEMMA NotReached ==
    ASSUME NEW g \in Attempts, NEW c, Pipe, Closes(c),
           exchange[Attempt(g)] = "none"
    PROVE  host.link # Attempt(g) /\ closed[Attempt(g)] = Open
BY LinkKinds, LinkCases, Zenon DEF Pipe, Closes

\* An attempt that a lap begins is no link the host holds or has closed.
LEMMA LapLanding ==
    ASSUME NEW c, LapFrom(c), Tasks(c, attempts, outcomes'), Closes(c),
           Landing(c, attempts, outcomes', up')
    PROVE  Landing(client, attempts, outcomes, up)'
<1> USE LapFacts
<1>0. client'.link = c.link /\ \A l : Waiting(l)' <=> Waiting(l)
  BY Zenon DEF Same, Waiting
<1>1. ASSUME NEW g \in Attempts, MayLand(g, client', attempts', outcomes')
      PROVE  \/ MayLand(g, c, attempts, outcomes')
             \/ host.link # Attempt(g) /\ closed[Attempt(g)] = Open
  <2>1. CASE attempts' = attempts
    BY <1>0, <1>1, <2>1, Zenon DEF MayLand, Running
  <2>2. CASE /\ client'.generation = c.generation + 1 /\ client'.generation \in Attempts
             /\ attempts' = [attempts EXCEPT ![client'.generation].task = "ssh"]
    <3>1. CASE g = client'.generation
      <4>1. g > c.generation
        BY <2>2, <3>1, LapGrows, SMTT(30), Z3T(30)
      <4>2. attempts[g].commitment = "CONNECTING"
        BY <4>1, Zenon DEF Tasks
      <4>3. exchange[Attempt(g)] = "none" /\ Pipe
        BY <4>2, Zenon DEF LapFrom, Inv, Uncommitted
      <4> QED  BY <4>3, NotReached, Zenon
    <3>2. CASE g # client'.generation
      <4>1. attempts'[g] = attempts[g]
        BY <2>2, <3>2 DEF TypedTasks
      <4> QED  BY <1>0, <1>1, <4>1, Zenon DEF MayLand, Running
    <3> QED  BY <3>1, <3>2, Zenon
  <2> QED  BY <2>1, <2>2, LapStarted, Zenon
<1>2. Open.reason \notin Spare
  BY DEF Open, Spare
<1> QED  BY <1>0, <1>1, <1>2, Zenon DEF Landing

\* A failover is decided when no attempt has committed, so none is at the host.
LEMMA LapDecides ==
    ASSUME NEW c, LapFrom(c), Tasks(c, attempts, outcomes'), Closes(c)
    PROVE  Answering(client)' /\ Deciding(client, attempts, outcomes)'
<1> USE LapFacts
<1>0. client'.standby = c.standby /\ \A l : Waiting(l)' <=> Waiting(l)
  BY Zenon DEF Same, Waiting
<1>p. Pipe /\ Uncommitted(attempts) /\ Answering(client)
  BY Zenon DEF LapFrom, Inv
<1>1. Answering(client)'
  <2>1. SUFFICES ASSUME client'.probe = "Answered", client'.in_flight
                 PROVE  host.link # Attempt(client'.generation)
    BY DEF Answering
  <2>2. attempts[client'.generation].commitment # "COMMITTED"
    BY <2>1, Zenon DEF Lapped, Decided
  <2>3. client'.generation \in Attempts
    BY <2>1, Numbers, SMTT(30), Z3T(30) DEF Lapped, Steady, ClientRec
  <2> QED  BY <1>p, <2>2, <2>3, NotReached, Zenon DEF Uncommitted
<1>2. Deciding(client, attempts, outcomes)'
  <2>1. SUFFICES ASSUME NEW g \in Attempts, client'.pc = "failover",
                        Waiting(StandbyLink(c.standby)),
                        Running(g, attempts', outcomes')
                 PROVE  host.link # Attempt(g)
    BY <1>0, Zenon DEF Deciding
  <2>2. TimePasses /\ c.probe = "Answered"
    BY <2>1, Zenon DEF Lapped, Decided
  <2>3. /\ outcomes' = <<>> /\ client.probe = "Answered" /\ c.standby = client.standby
    BY <2>2, Zenon DEF LapFrom
  <2>4. attempts'[g].task \in {"ssh", "attach", "connected", "Landed"}
    BY <2>1, <2>3, Zenon DEF Running
  <2>5. CASE client'.generation = c.generation + 1 /\ g = client'.generation
    <3>1. g > c.generation
      BY <2>5, LapGrows, SMTT(30), Z3T(30)
    <3>2. exchange[Attempt(g)] = "none"
      BY <3>1, <1>p, Zenon DEF Tasks, Uncommitted
    <3> QED  BY <3>2, <1>p, NotReached
  <2>6. CASE attempts'[g] = attempts[g]
    <3>1. InFlight(g)
      BY <2>2, <2>4, <2>6, Zenon DEF TimePasses
    <3> QED  BY <1>p, <2>1, <2>3, <3>1, Zenon DEF InFlight, Answering
  <2>7. \/ client'.generation = c.generation + 1 /\ g = client'.generation
        \/ attempts'[g] = attempts[g]
    BY LapStarted DEF TypedTasks
  <2> QED  BY <2>5, <2>6, <2>7, Zenon
<1> QED  BY <1>1, <1>2

\* A lap keeps the invariant if the change before it kept the loop's part.
LEMMA LapInv ==
    ASSUME NEW c, LapFrom(c),
           LoopInv(c, attempts, outcomes', searches,
                   IF c.probing THEN probe_task ELSE 0, events', up', down')
    PROVE  Inv'
<1> USE LapFacts
<1>0. /\ Tasks(c, attempts, outcomes') /\ Searching(c, searches)
      /\ Events(c, searches, IF c.probing THEN probe_task ELSE 0, events')
      /\ Closes(c) /\ Standbys(c) /\ Frames(c, searches, up', down')
      /\ Landing(c, attempts, outcomes', up')
  BY Zenon DEF LoopInv
<1>1. TypeOK' /\ (allowed \in Bounds)' /\ ClientOK(client)'
  BY LapTyped, Zenon
<1>2. LoopInv(client, attempts, outcomes, searches, probe_task, events, up, down)'
  BY <1>0, LapTasks, LapSearching, LapEvents, LapHost, LapFrames, LapLanding, Zenon
  DEF LoopInv
<1>3. Answering(client)' /\ Deciding(client, attempts, outcomes)'
  BY <1>0, LapDecides, Zenon
<1>4. Pipe' /\ Order'
  <2>1. Pipe /\ Order
    BY Zenon DEF LapFrom, Inv
  <2>2. Pipe'
    BY <2>1, SMTT(30), Z3T(30) DEF Pipe
  <2>3. Order'
    BY <2>1 DEF Order, InInbox
  <2> QED  BY <2>2, <2>3, Zenon
<1>5. Uncommitted(attempts)'
  <2>1. Uncommitted(attempts)
    BY DEF LapFrom, Inv
  <2> QED  BY <1>0, <2>1, LapTasks, Zenon DEF Uncommitted, InInbox
<1>6. EveryLinkIsHeldOrClosed'
  <2>1. EveryLinkIsHeldOrClosed /\ dropped \subseteq dropped'
    BY DEF LapFrom, Inv
  <2> QED  BY <2>1, Zenon DEF EveryLinkIsHeldOrClosed
<1> QED  BY <1>1, <1>2, <1>3, <1>4, <1>5, <1>6, Zenon DEF Inv

-----------------------------------------------------------------------------
(* The events of the loop *)

\* The blocks that read no more of the client than its numbers.
LEMMA EventNumbers ==
    ASSUME Inv, NEW c \in ClientRec, c.generation = client.generation,
           c.ended = "no", client.search <= c.search,
           NEW out, out = <<>> \/ out = outcomes
    PROVE  Tasks(c, attempts, out) /\ Closes(c) /\ Standbys(c)
<1>1. Tasks(c, attempts, out)
  BY InvTasks DEF Tasks
<1>2. Closes(c)
  BY InvCloses, Zenon DEF Closes
<1>3. client.search \in Nat /\ c.search \in Nat /\ Searches \subseteq Nat
  BY InvBounds, Numbers DEF ClientRec
<1>4. \A n \in Searches : n < client.search => n < c.search
  BY <1>3, SMTT(30), Z3T(30)
<1>5. Standbys(c)
  BY InvStandbys, <1>4 DEF Standbys
<1> QED  BY <1>1, <1>2, <1>5, Zenon

\* The search and the standby are those the client had, or fewer, or the search
\* has been answered.
LEMMA EventSearching ==
    ASSUME Inv, NEW c \in ClientRec, client.search <= c.search,
           c.searching => /\ client.searching /\ c.search = client.search
                          /\ c.link = client.link,
           c.standby # 0 => /\ c.link = client.link
                            /\ \/ c.standby = client.standby
                               \/ client.searching /\ c.standby = client.search
    PROVE  Searching(c, searches)
<1>1. client.search \in Nat /\ c.search \in Nat /\ Searches \subseteq Nat
  BY InvBounds, Numbers DEF ClientRec
<1>2. \A n \in Searches : n <= client.search => n <= c.search
  BY <1>1, SMTT(30), Z3T(30)
<1>3. c.searching => searches[c.search].via = c.link
  BY InvSearching DEF Searching
<1>4. c.standby # 0 => searches[c.standby].via = c.link
  BY InvSearching DEF Searching
<1> QED  BY InvSearching, <1>2, <1>3, <1>4, Zenon DEF Searching

\* A client that stays on its link, and may have sent on it.
LEMMA EventFrames ==
    ASSUME Inv, NEW c \in ClientRec, client.search <= c.search,
           c.link = client.link,
           c.phase = client.phase \/ client.link \in down,
           c.searching => client.searching,
           c.standby # 0 => client.standby # 0 \/ client.searching,
           NEW u, u = up \/ u = up \cup ({client.link} \ {host.link}),
           NEW d, d \subseteq down, NEW out, out = <<>> \/ out = outcomes
    PROVE  Frames(c, searches, u, d) /\ Landing(c, attempts, out, u)
<1>0. /\ client.search \in Nat /\ c.search \in Nat /\ Searches \subseteq Nat
      /\ \A n \in Searches : n < client.search => n < c.search
  BY InvBounds, Numbers, SMTT(30), Z3T(30) DEF ClientRec
<1>1. \A n \in Searches : StandbyLink(n) \in u =>
         StandbyLink(n) \in up \/ StandbyLink(n) = client.link
  OBVIOUS
<1>2. \A n \in Searches : StandbyLink(n) \in u /\ Waiting(StandbyLink(n)) =>
         StandbyLink(n) \in up
  BY InvFrames, <1>1 DEF Frames
<1>3. ASSUME NEW a \in Searches, c.link = StandbyLink(a), Waiting(StandbyLink(a))
      PROVE  /\ StandbyLink(a) \in u /\ Outage(c) /\ c.standby = 0 /\ ~c.searching
             /\ \A b \in Searches : b > a => searches[b].task = "none"
  <2>1. /\ StandbyLink(a) \in up /\ Outage(client) /\ client.standby = 0
        /\ ~client.searching
        /\ \A b \in Searches : b > a => searches[b].task = "none"
    BY InvFrames, <1>3, Zenon DEF Frames
  <2>2. client.link \notin down
    BY InvFrames, <1>3, Zenon DEF Frames
  <2> QED  BY <2>1, <2>2 DEF Outage
<1>4. Frames(c, searches, u, d)
  <2>1. SUFFICES ASSUME NEW a \in Searches, NEW b \in Searches
                 PROVE  /\ StandbyLink(a) \in u =>
                             /\ exchange[StandbyLink(a)] = "handed_over"
                             /\ a < c.search /\ c.link # First
                        /\ StandbyLink(a) \in u /\ c.link = StandbyLink(b) => a <= b
                        /\ StandbyLink(a) \in d =>
                             /\ exchange[StandbyLink(a)] = "handed_over"
                             /\ ~Waiting(StandbyLink(a))
                        /\ c.link = StandbyLink(a) =>
                             /\ exchange[StandbyLink(a)] = "handed_over"
                             /\ a < c.search
    BY InvFrames, <1>3, ZenonT(30) DEF Frames
  <2>2. /\ StandbyLink(a) \in up =>
             /\ exchange[StandbyLink(a)] = "handed_over"
             /\ a < c.search /\ c.link # First
        /\ StandbyLink(a) \in up /\ c.link = StandbyLink(b) => a <= b
        /\ StandbyLink(a) \in d =>
             /\ exchange[StandbyLink(a)] = "handed_over"
             /\ ~Waiting(StandbyLink(a))
        /\ c.link = StandbyLink(a) =>
             /\ exchange[StandbyLink(a)] = "handed_over"
             /\ a < c.search
    BY InvFrames, <1>0, Zenon DEF Frames
  <2>3. StandbyLink(a) = client.link /\ client.link = StandbyLink(b) => a <= b
    BY <1>0, LinkKinds, SMTT(30), Z3T(30)
  <2>4. StandbyLink(a) = client.link => client.link # First
    BY LinkKinds
  <2> QED  BY <1>1, <2>2, <2>3, <2>4
<1>5. \A g \in Attempts : MayLand(g, c, attempts, out) =>
         MayLand(g, client, attempts, outcomes)
  BY DEF MayLand, Running
<1>6. Landing(c, attempts, out, u)
  BY InvLanding, <1>2, <1>5, Zenon DEF Landing
<1> QED  BY <1>4, <1>6

\* The channel of standby events without its head.
LEMMA TailEvents ==
    ASSUME Inv, events # <<>>
    PROVE  /\ Events(client, searches, probe_task, Tail(events))
           /\ Tail(events) \in Seq(EventRec) /\ Len(Tail(events)) <= 2
           /\ Head(events) \in EventRec /\ Head(events) = events[1]
           /\ 1 \in 1 .. Len(events)
           /\ Head(events).kind = "Probed" =>
                \A i \in 1 .. Len(Tail(events)) : Tail(events)[i].kind # "Probed"
           /\ Head(events).kind # "Probed" =>
                \A i \in 1 .. Len(Tail(events)) : Tail(events)[i].kind # "Probed" =>
                    Tail(events)[i].standby # Head(events).standby
<1>1. /\ Tail(events) \in Seq(EventRec) /\ Len(Tail(events)) = Len(events) - 1
      /\ Len(events) \in Nat /\ 1 \in 1 .. Len(events)
      /\ Head(events) = events[1] /\ events[1] \in EventRec
      /\ \A i \in 1 .. Len(Tail(events)) :
           i + 1 \in 1 .. Len(events) /\ i + 1 # 1 /\ Tail(events)[i] = events[i + 1]
      /\ \A i, j \in 1 .. Len(Tail(events)) : i + 1 = j + 1 => i = j
  BY InvTyped, SeqTail, Zenon DEF TypedSearches
<1>2. Len(Tail(events)) <= 2
  BY InvTyped, <1>1, SMTT(30), Z3T(30) DEF TypedSearches
<1> DEFINE tail == Tail(events)
<1> HIDE DEF tail
<1>a. /\ \A i \in 1 .. Len(tail) : i + 1 \in 1 .. Len(events) /\ tail[i] = events[i + 1]
      /\ \A i, j \in 1 .. Len(tail) : i + 1 = j + 1 => i = j
  BY <1>1, Zenon DEF tail
<1>3. FoundEvents(client, searches, tail)
  <2>1. FoundEvents(client, searches, events)
    BY InvEvents DEF Events
  <2>2. ASSUME NEW i \in 1 .. Len(tail), tail[i].kind # "Probed"
        PROVE  /\ tail[i].standby <= client.search
               /\ searches[tail[i].standby].task = "over"
               /\ tail[i].standby = client.search => client.searching \/ client.ended # "no"
    BY InvFacts, <1>a, <2>1, <2>2, ZenonT(30) DEF FoundEvents
  <2>3. ASSUME NEW i \in 1 .. Len(tail), NEW j \in 1 .. Len(tail), i # j,
               tail[i].kind # "Probed", tail[j].kind # "Probed"
        PROVE  tail[i].standby # tail[j].standby
    <3>1. i + 1 \in 1 .. Len(events) /\ j + 1 \in 1 .. Len(events) /\ i + 1 # j + 1
      BY <1>a, <2>3, Zenon
    <3> QED  BY InvFacts, <1>a, <2>1, <2>3, <3>1, ZenonT(30) DEF FoundEvents
  <2> QED  BY InvEvents, <2>2, <2>3, Zenon DEF FoundEvents
<1>4. ProbeEvents(client, probe_task, tail)
  <2>1. ProbeEvents(client, probe_task, events)
    BY InvEvents DEF Events
  <2>2. ASSUME NEW i \in 1 .. Len(tail), tail[i].kind = "Probed"
        PROVE  /\ probe_task = 0
               /\ client.probing \/ (client.standby = 0 /\ ~client.searching)
               /\ client.probe = "Pending" => tail[i].standby = client.standby
               /\ tail[i].answered =>
                    exchange[StandbyLink(tail[i].standby)] = "handed_over"
    <3>1. PICK k \in 1 .. Len(events) : tail[i] = events[k]
      BY <1>a, Zenon
    <3>2. events[k].kind = "Probed"
      BY <2>2, <3>1
    <3> QED  BY InvEvents, <2>1, <3>1, <3>2 DEF ProbeEvents
  <2>3. ASSUME NEW i \in 1 .. Len(tail), NEW j \in 1 .. Len(tail),
               tail[i].kind = "Probed", tail[j].kind = "Probed"
        PROVE  i = j
    <3>1. i + 1 \in 1 .. Len(events) /\ j + 1 \in 1 .. Len(events)
      BY <1>a, <2>3, Zenon
    <3>2. i + 1 = j + 1
      BY InvEvents, <1>a, <2>1, <2>3, <3>1, Zenon DEF ProbeEvents
    <3> QED  BY <1>a, <3>2, Zenon
  <2>4. /\ probe_task # 0 => client.probing
        /\ client.probe = "Pending" /\ probe_task # 0 => probe_task = client.standby
        /\ client.probe = "Answered" =>
             exchange[StandbyLink(client.standby)] = "handed_over"
    BY InvEvents, <2>1, Zenon DEF ProbeEvents
  <2> QED  BY InvEvents, <2>2, <2>3, <2>4, Zenon DEF ProbeEvents
<1>5. \A i \in 1 .. Len(Tail(events)) : Tail(events)[i].standby <= MaxSearches
  BY InvBounds, InvEvents, <1>1, Zenon DEF Events
<1>6. Head(events).kind = "Probed" =>
         \A i \in 1 .. Len(Tail(events)) : Tail(events)[i].kind # "Probed"
  BY InvEvents, <1>1, Zenon DEF Events, ProbeEvents
<1>7. Head(events).kind # "Probed" =>
         \A i \in 1 .. Len(Tail(events)) : Tail(events)[i].kind # "Probed" =>
             Tail(events)[i].standby # Head(events).standby
  BY InvEvents, <1>1, ZenonT(30) DEF Events, FoundEvents
<1> QED  BY InvEvents, <1>1, <1>2, <1>3, <1>4, <1>5, <1>6, <1>7, ZenonT(30) DEF Events, tail

\* The client gives up a search, a standby or a probe, and keeps the rest.
LEMMA EventEvents ==
    ASSUME Inv, NEW c \in ClientRec, c.ended = client.ended,
           NEW ev, Events(client, searches, probe_task, ev),
           ev \in Seq(EventRec),
           \/ c.search = client.search /\ c.searching = client.searching
           \/ c.search = client.search + 1,
           c.probing = client.probing \/ (~c.probing /\ c.standby = 0 /\ ~c.searching),
           c.standby \in {0, client.standby}, c.searching => client.searching,
           c.probe = "Idle" \/ (c.probe = client.probe /\ c.standby = client.standby)
    PROVE  Events(c, searches, IF c.probing THEN probe_task ELSE 0, ev)
<1>1. client.search \in Nat /\ Searches \subseteq Nat
  BY InvBounds, Numbers DEF ClientRec
<1>2. \A i \in 1 .. Len(ev) : ev[i] \in EventRec /\ ev[i].standby \in Nat
  <2>1. \A i \in 1 .. Len(ev) : ev[i] \in EventRec
    BY ElementOfSeq, Zenon
  <2>2. \A e \in EventRec : e.standby \in Nat
    BY <1>1, Zenon DEF EventRec
  <2> QED  BY <2>1, <2>2, Zenon
<1>3. FoundEvents(c, searches, ev)
  <2>1. CASE c.search = client.search /\ c.searching = client.searching
    BY InvEvents, <2>1, Zenon DEF Events, FoundEvents
  <2>2. CASE c.search = client.search + 1
    <3>1. \A i \in 1 .. Len(ev) : ev[i].kind # "Probed" =>
            ev[i].standby <= c.search /\ ev[i].standby # c.search
      <4>1. \A i \in 1 .. Len(ev) : ev[i].kind # "Probed" => ev[i].standby <= client.search
        BY InvEvents, Zenon DEF Events, FoundEvents
      <4> QED  BY <1>1, <1>2, <2>2, <4>1, SMTT(30), Z3T(30)
    <3> QED  BY InvEvents, <3>1, Zenon DEF Events, FoundEvents
  <2> QED  BY <2>1, <2>2, Zenon
<1>4. ProbeEvents(c, IF c.probing THEN probe_task ELSE 0, ev)
  <2>1. /\ (IF c.probing THEN probe_task ELSE 0) \in {0, probe_task}
        /\ (IF c.probing THEN probe_task ELSE 0) # 0 => c.probing
    OBVIOUS
  <2>2. c.probe # "Idle" => c.probe = client.probe /\ c.standby = client.standby
    OBVIOUS
  <2>3. ProbeEvents(client, probe_task, ev)
    BY InvEvents, Zenon DEF Events
  <2>4. \A i \in 1 .. Len(ev) : ev[i].kind = "Probed" =>
          c.probing \/ (c.standby = 0 /\ ~c.searching)
    BY InvEvents, <2>3, Zenon DEF ProbeEvents
  <2> QED  BY InvEvents, <2>1, <2>2, <2>3, <2>4, Zenon DEF ProbeEvents
<1> QED  BY InvEvents, <1>3, <1>4, Zenon DEF Events

\* An event that leaves the client on its link.
LEMMA EventInv ==
    ASSUME Inv, NEW c \in ClientRec, ClientMid(c), c.pc = "select", c.ended = "no",
           c.generation = client.generation, c.link = client.link, Lap(c),
           c.phase = client.phase \/ client.link \in down,
           client.search <= c.search,
           c.searching => client.searching /\ c.search = client.search,
           c.standby # 0 => \/ c.standby = client.standby
                            \/ client.searching /\ c.standby = client.search,
           outcomes' = outcomes \/ outcomes' = <<>>,
           TimePasses => /\ UNCHANGED <<outcomes, events>>
                         /\ c.in_flight = client.in_flight
                         /\ c.probe = "Answered" =>
                              client.probe = "Answered" /\ c.standby = client.standby,
           Events(c, searches, IF c.probing THEN probe_task ELSE 0, events'),
           events' \in Seq(EventRec), Len(events') <= 2,
           up' = up \/ up' = up \cup ({client.link} \ {host.link}),
           down' \subseteq down,
           dropped \subseteq dropped', dropped' \subseteq Links,
           UNCHANGED <<hostVars, allowed>>
    PROVE  Inv'
<1>2. /\ outcomes' \in Seq(ReportRec) /\ Len(outcomes') <= 1
  <2>1. <<>> \in Seq(ReportRec) /\ Len(<<>>) <= 1
    BY EmptySeq, SMTT(30), Z3T(30)
  <2> QED  BY InvTyped, <2>1, Zenon DEF TypedTasks
<1>3. TypedFrames'
  BY InvBounds, InvTyped, Zenon DEF TypedFrames, ClientRec
<1>4. TimePasses => outcomes' = <<>> /\ events' = <<>>
  BY Zenon DEF TimePasses
<1>6. LapFrom(c)
  BY <1>2, <1>3, <1>4, Zenon DEF LapFrom
<1>7. Tasks(c, attempts, outcomes') /\ Closes(c) /\ Standbys(c)
  BY InvTasks, InvCloses, InvStandbys, EventNumbers, Zenon
<1>8. Searching(c, searches)
  BY InvSearching, EventSearching, Zenon
<1>9. Frames(c, searches, up', down') /\ Landing(c, attempts, outcomes', up')
  <2>1. c.standby # 0 => client.standby # 0 \/ client.searching
    BY Zenon
  <2> QED  BY <2>1, EventFrames, Zenon
<1> QED  BY <1>6, <1>7, <1>8, <1>9, LapInv, Zenon DEF LoopInv

\* An event that has the client give up a search, a standby or a probe at most.
LEMMA QuietInv ==
    ASSUME Inv, NEW c \in ClientRec, ClientMid(c), c.pc = "select", c.ended = "no",
           client.ended = "no",
           c.generation = client.generation, c.link = client.link, Lap(c),
           c.phase = client.phase \/ client.link \in down,
           \/ c.search = client.search /\ c.searching = client.searching
           \/ c.search = client.search + 1,
           c.searching => client.searching /\ c.search = client.search,
           c.probing = client.probing \/ (~c.probing /\ c.standby = 0 /\ ~c.searching),
           c.standby \in {0, client.standby},
           c.probe = "Idle" \/ (c.probe = client.probe /\ c.standby = client.standby),
           outcomes' = outcomes \/ outcomes' = <<>>,
           TimePasses => UNCHANGED outcomes /\ c.in_flight = client.in_flight,
           events' = events,
           up' = up \/ up' = up \cup ({client.link} \ {host.link}),
           down' \subseteq down,
           dropped \subseteq dropped', dropped' \subseteq Links,
           UNCHANGED <<hostVars, allowed>>
    PROVE  Inv'
<1>1. client.search <= c.search
  BY InvBounds, SMTT(30), Z3T(30) DEF ClientRec
<1>2. events \in Seq(EventRec) /\ Len(events) <= 2
  BY InvTyped, Zenon DEF TypedSearches
<1>3. TimePasses => /\ UNCHANGED <<outcomes, events>>
                    /\ c.in_flight = client.in_flight
                    /\ c.probe = "Answered" =>
                         client.probe = "Answered" /\ c.standby = client.standby
  BY Zenon
<1>4. Events(c, searches, IF c.probing THEN probe_task ELSE 0, events)
  BY InvEvents, <1>2, EventEvents, Zenon
<1>5. c.standby # 0 => c.standby = client.standby
  BY Zenon
<1> QED  BY <1>1, <1>2, <1>3, <1>4, <1>5, EventInv, ZenonT(30)

\* The client at its select.
LEMMA SelectFacts ==
    ASSUME Inv, Selecting
    PROVE  /\ client \in ClientRec /\ ClientMid(client) /\ client.pc = "select"
           /\ client.ended = "no"
           /\ Events(client, searches, probe_task, events)
           /\ events \in Seq(EventRec) /\ Len(events) <= 2
           /\ outcomes \in Seq(ReportRec) /\ Len(outcomes) <= 1
           /\ dropped \subseteq Links /\ up \subseteq Links /\ down \subseteq Links
           /\ client.link \in Links
BY InvBounds, InvClient, InvTyped, InvEvents, ZenonT(30)
DEF Selecting, TypedSearches, TypedTasks, TypedFrames, ClientRec

\* A deadline passes.
LEMMA DueInv ==
    ASSUME Inv, UNCHANGED allowed, Due
    PROVE  Inv'
<1>1. /\ Selecting /\ Lap(client)
      /\ up' = up \/ up' = up \cup ({client.link} \ {host.link})
      /\ UNCHANGED <<outcomes, events, hostVars, dropped, down, allowed>>
  BY Zenon DEF Due, Turned
<1>2. /\ outcomes' = outcomes /\ events' = events /\ dropped' = dropped
      /\ down' = down /\ UNCHANGED <<hostVars, allowed>>
  BY <1>1, Zenon
<1> HIDE DEF hostVars
<1> QED  BY <1>1, <1>2, SelectFacts, QuietInv, Zenon

\* A frame is heard on the client's link.
LEMMA HearFrameInv ==
    ASSUME Inv, UNCHANGED allowed, HearFrame
    PROVE  Inv'
<1>1. /\ Selecting /\ Lap(heard(client)) /\ client.link \in down
      /\ up' = up \/ up' = up \cup ({client.link} \ {host.link})
      /\ down' = down \ {client.link}
      /\ outcomes' = outcomes /\ events' = events /\ dropped' = dropped
      /\ UNCHANGED <<hostVars, allowed>>
  BY Zenon DEF HearFrame, Turned
<1> DEFINE c == heard(client)
<1>2. /\ c \in ClientRec /\ c.phase = "Live"
      /\ c.pc = client.pc /\ c.ended = client.ended /\ c.link = client.link
      /\ c.generation = client.generation /\ c.in_flight = client.in_flight
      /\ c.search = client.search /\ c.searching = client.searching
      /\ c.probing = client.probing /\ c.probe = client.probe
      /\ c.standby = client.standby /\ c.next_try = client.next_try
      /\ c.displacing = client.displacing /\ c.enabled = client.enabled
      /\ c.answered_by = client.answered_by
  BY <1>1, SelectFacts, Zenon DEF ClientRec, heard
<1>3. ClientMid(c)
  <2> HIDE DEF c
  <2> QED  BY <1>1, <1>2, SelectFacts, ZenonT(30) DEF ClientMid
<1> HIDE DEF c
<1>4. Lap(c)
  BY <1>1 DEF c
<1> QED  BY <1>1, <1>2, <1>3, <1>4, SelectFacts, QuietInv, ZenonT(30)

\* The session ends, refused in an outage or taken over with the latch clear.
LEMMA EndsInv ==
    ASSUME Inv, Selecting, NEW why, Ends(why),
           \/ why = "Refused" /\ client.phase = "Recovering"
           \/ /\ why = "TAKEN_OVER" /\ ~client.displacing
              /\ closed[client.link].reason = "TAKEN_OVER",
           outcomes' = outcomes \/ outcomes' = <<>>,
           UNCHANGED <<events, hostVars, dropped, up, down, allowed>>
    PROVE  Inv'
<1>0. /\ events' = events /\ dropped' = dropped /\ up' = up /\ down' = down
      /\ allowed' = allowed /\ UNCHANGED hostVars
      /\ attempts' = attempts /\ searches' = searches /\ probe_task' = 0
  BY Zenon DEF Ends
<1>1. /\ Pipe' /\ Order' /\ EveryLinkIsHeldOrClosed' /\ TypedHost'
      /\ inbox' = inbox /\ serving' = serving /\ exchange' = exchange
      /\ attaches' = attaches /\ host' = host /\ closed' = closed
  BY InvTyped, InvPipe, InvOrder, InvHeld, <1>0, HostKept, ZenonT(30)
<1>2. MaxAttempts' = MaxAttempts /\ MaxSearches' = MaxSearches
  BY InvBounds, <1>0 DEF MaxAttempts, MaxSearches
<1> DEFINE c == client'
<1>3. /\ c \in ClientRec /\ c.ended = why /\ ~c.searching /\ ~c.in_flight
      /\ c.phase = client.phase /\ c.pc = "select" /\ c.link = client.link
      /\ c.generation = client.generation /\ c.search = client.search
      /\ c.probing = client.probing /\ c.probe = client.probe
      /\ c.standby = client.standby /\ c.next_try = client.next_try
      /\ c.displacing = client.displacing /\ c.enabled = client.enabled
      /\ c.answered_by = client.answered_by
  <2>1. c = [client EXCEPT !.in_flight = FALSE, !.ended = why, !.searching = FALSE]
    BY InvBounds DEF Ends, cancel, ClientRec
  <2>2. why \in {"Refused", "TAKEN_OVER"} /\ client.pc = "select"
    BY DEF Selecting
  <2> QED  BY InvBounds, <2>1, <2>2, ZenonT(30) DEF ClientRec
<1> HIDE DEF c
<1>4. ClientOK(c)
  BY InvClient, <1>3, ZenonT(30) DEF ClientOK, ClientMid, Spare
<1>5. Tasks(c, attempts, outcomes')
  BY InvTasks, <1>3, Zenon DEF Tasks
<1>6. Searching(c, searches)
  BY InvSearching, <1>3, ZenonT(30) DEF Searching
<1>7. Events(c, searches, 0, events)
  <2>1. FoundEvents(c, searches, events)
    <3>1. c.ended # "no"
      BY <1>3
    <3> QED  BY InvEvents, <1>3, <3>1, ZenonT(30) DEF Events, FoundEvents
  <2>2. ProbeEvents(c, 0, events)
    BY InvEvents, <1>3, Zenon DEF Events, ProbeEvents
  <2> QED  BY InvEvents, <2>1, <2>2, Zenon DEF Events
<1>8. Closes(c)
  BY InvCloses, <1>3, Zenon DEF Closes
<1>9. Standbys(c)
  BY InvStandbys, <1>3, ZenonT(30) DEF Standbys
<1>10. client.search <= c.search
  BY InvBounds, <1>3, SMTT(30), Z3T(30) DEF ClientRec
<1>11. Frames(c, searches, up, down) /\ Landing(c, attempts, outcomes', up)
  BY InvFrames, InvLanding, <1>3, <1>10, EventFrames, Zenon
<1>12. Answering(c) /\ Deciding(c, attempts, outcomes')
  BY InvAnswering, <1>3, Zenon DEF Answering, Deciding
<1>13. (client \in ClientRec)' /\ ClientOK(client)'
  BY InvBounds, InvClient, <1>2, <1>3, <1>4, ZenonT(30) DEF c, ClientRec, ClientOK, ClientMid,
     Outage
<1>14. TypedTasks' /\ TypedSearches' /\ TypedFrames'
  <2>1. 0 \in 0 .. MaxSearches
    BY InvBounds, Numbers, SMTT(30), Z3T(30)
  <2>2. <<>> \in Seq(ReportRec) /\ Len(<<>>) <= 1
    BY SMTT(30), Z3T(30)
  <2> QED  BY InvTyped, <1>0, <1>2, <2>1, <2>2, ZenonT(30) DEF TypedTasks, TypedSearches,
              TypedFrames
<1>15. LoopInv(client, attempts, outcomes, searches, probe_task, events, up, down)'
  <2>1. LoopInv(c, attempts, outcomes', searches, 0, events, up, down)
    BY <1>5, <1>6, <1>7, <1>8, <1>9, <1>11, ZenonT(30) DEF LoopInv
  <2> QED  BY <1>0, <2>1, LoopKept, Zenon DEF c
<1>16. Answering(client)' /\ Deciding(client, attempts, outcomes)'
  BY InvAnswering, <1>0, <1>1, <1>12, Zenon DEF c, Answering, Deciding, Waiting, Running
<1>17. Uncommitted(attempts)'
  BY InvUncommitted, <1>0, <1>1, Zenon DEF Uncommitted, InInbox
<1> QED  BY <1>0, <1>1, <1>13, <1>14, <1>15, <1>16, <1>17, Typed, Zenon DEF Inv

\* The host closed the standby the client holds.
LEMMA StandbyClosedInv ==
    ASSUME Inv, UNCHANGED allowed, StandbyClosed
    PROVE  Inv'
<1> DEFINE c == lost(client)
<1>1. /\ Selecting /\ Lap(c)
      /\ outcomes' = outcomes /\ events' = events /\ dropped' = dropped
      /\ up' = up /\ down' = down /\ UNCHANGED <<hostVars, allowed>>
  BY Zenon DEF StandbyClosed
<1>2. /\ c \in ClientRec /\ c.phase = client.phase
      /\ c.pc = client.pc /\ c.ended = client.ended /\ c.link = client.link
      /\ c.generation = client.generation /\ c.in_flight = client.in_flight
      /\ c.search = client.search /\ c.searching = client.searching
      /\ c.probing = client.probing /\ c.probe = "Idle"
      /\ c.standby = 0 /\ c.next_try = client.next_try
      /\ c.displacing = client.displacing
  <2>1. 0 \in 0 .. MaxSearches
    BY InvBounds, Numbers, SMTT(30), Z3T(30)
  <2> QED  BY <1>1, <2>1, SelectFacts, Zenon DEF ClientRec, lost
<1> HIDE DEF c
<1>3. ClientMid(c)
  BY <1>1, <1>2, SelectFacts, Zenon DEF ClientMid
<1> QED  BY <1>1, <1>2, <1>3, SelectFacts, QuietInv, Zenon

\* The user switches standbys on or off.
LEMMA SwitchStandbyInv ==
    ASSUME Inv, UNCHANGED allowed, SwitchStandby
    PROVE  Inv'
<1> DEFINE c == set_enabled(client)
<1>1. /\ Selecting /\ Lap(c)
      /\ dropped' = dropped \cup (LetGo(client) \ {client.link})
      /\ outcomes' = outcomes /\ events' = events
      /\ up' = up /\ down' = down /\ UNCHANGED <<hostVars, allowed>>
  BY Zenon DEF SwitchStandby
<1>2. dropped' \subseteq Links
  <2>1. \A n \in {client.standby} \ {0} : n \in Searches
    BY InvFacts, <1>1, SelectFacts, Numbers, SMTT(30), Z3T(30) DEF ClientRec
  <2>2. LetGo(client) \subseteq Links
    BY <1>1, <2>1, SelectFacts, LinkCases, Zenon DEF LetGo
  <2> QED  BY <1>1, <2>2, SelectFacts, ZenonT(30)
<1>3. CASE client.enabled
  <2>1. 0 \in 0 .. MaxSearches
    BY InvBounds, Numbers, SMTT(30), Z3T(30)
  <2>2. c = [client EXCEPT !.searching = FALSE, !.search = client.search + 1,
                           !.standby = 0, !.probe = "Idle", !.enabled = FALSE,
                           !.probing = FALSE]
    BY <1>1, <1>3, SelectFacts, ZenonT(30) DEF set_enabled, forget, new_primary, ClientRec
  <2>3. client.search + 1 \in Nat
    BY <1>1, SelectFacts, SMTT(30), Z3T(30) DEF ClientRec
  <2>4. c \in ClientRec
    <3> HIDE DEF c
    <3> QED  BY InvBounds, <2>1, <2>2, <2>3, ZenonT(30) DEF ClientRec
  <2>5. /\ c.phase = client.phase /\ ~c.probing /\ ~c.searching
        /\ c.pc = client.pc /\ c.ended = client.ended /\ c.link = client.link
        /\ c.generation = client.generation /\ c.in_flight = client.in_flight
        /\ c.search = client.search + 1 /\ c.probe = "Idle"
        /\ c.standby = 0 /\ c.next_try = client.next_try
        /\ c.displacing = client.displacing
    BY <1>1, <2>2, SelectFacts DEF ClientRec
  <2> HIDE DEF c
  <2>6. ClientMid(c)
    BY <1>1, <2>5, SelectFacts, Zenon DEF ClientMid
  <2> QED  BY <1>1, <1>2, <2>4, <2>5, <2>6, SelectFacts, QuietInv, Zenon
<1>4. CASE ~client.enabled
  <2>1. c = [client EXCEPT !.enabled = TRUE]
    BY <1>4 DEF set_enabled
  <2>2. /\ c \in ClientRec /\ c.phase = client.phase /\ c.enabled
        /\ c.pc = client.pc /\ c.ended = client.ended /\ c.link = client.link
        /\ c.generation = client.generation /\ c.in_flight = client.in_flight
        /\ c.search = client.search /\ c.searching = client.searching
        /\ c.probing = client.probing /\ c.probe = client.probe
        /\ c.standby = client.standby /\ c.next_try = client.next_try
        /\ c.displacing = client.displacing /\ c.answered_by = client.answered_by
    BY <1>1, <2>1, SelectFacts, ZenonT(30) DEF ClientRec
  <2> HIDE DEF c
  <2>3. ClientMid(c)
    BY <1>1, <2>2, SelectFacts, ZenonT(30) DEF ClientMid
  <2> QED  BY <1>1, <1>2, <2>2, <2>3, SelectFacts, QuietInv, ZenonT(30)
<1> QED  BY <1>3, <1>4

\* A report in the channel is the last attempt's, and the channel holds no other.
LEMMA ReportFacts ==
    ASSUME Inv, outcomes # <<>>
    PROVE  /\ Tail(outcomes) = <<>> /\ Head(outcomes) = outcomes[1]
           /\ Head(outcomes) \in ReportRec
           /\ Head(outcomes).generation = client.generation
           /\ client.generation \in Attempts
           /\ ~TimePasses
<1>1. /\ Tail(outcomes) \in Seq(ReportRec) /\ Len(Tail(outcomes)) = Len(outcomes) - 1
      /\ Len(outcomes) \in Nat /\ 1 \in 1 .. Len(outcomes)
      /\ Head(outcomes) = outcomes[1] /\ outcomes[1] \in ReportRec
  BY InvTyped, SeqTail DEF TypedTasks
<1>2. Len(Tail(outcomes)) = 0
  BY InvTyped, <1>1, SMTT(30), Z3T(30) DEF TypedTasks
<1>3. Tail(outcomes) = <<>>
  BY <1>1, <1>2, EmptySeq, Zenon
<1>4. Head(outcomes).generation = client.generation
  BY InvTasks, <1>1 DEF Tasks
<1>5. ~TimePasses
  BY DEF TimePasses
<1>6. client.generation \in Attempts
  BY <1>1, <1>4 DEF ReportRec
<1> QED  BY <1>1, <1>3, <1>4, <1>5, <1>6, ZenonT(30)

\* An attempt reports that it failed, or was refused.
LEMMA RebuildFailedInv ==
    ASSUME Inv, UNCHANGED allowed, RebuildFailed
    PROVE  Inv'
<1> DEFINE report == Head(outcomes)
           c == [finished(client, report) EXCEPT !.next_try = "later"]
<1>1. /\ Selecting /\ outcomes # <<>> /\ report.outcome # "Landed"
      /\ outcomes' = Tail(outcomes)
      /\ events' = events /\ dropped' = dropped /\ up' = up /\ down' = down
      /\ UNCHANGED <<hostVars, allowed>>
      /\ \/ Lap(client)
         \/ Lap(c)
         \/ accept(client, report) /\ Ends("Refused")
  BY Zenon DEF RebuildFailed
<1>2. outcomes' = <<>> /\ report.generation = client.generation /\ ~TimePasses
  BY <1>1, ReportFacts, Zenon
<1>3. CASE Lap(client)
  BY <1>1, <1>2, <1>3, SelectFacts, QuietInv, ZenonT(30)
<1>4. CASE Lap(c)
  <2>1. c = [client EXCEPT !.in_flight = FALSE, !.next_try = "later"]
    BY <1>1, <1>2, SelectFacts DEF finished, cancel, ClientRec
  <2>2. /\ c \in ClientRec /\ c.phase = client.phase /\ ~c.in_flight
        /\ c.pc = client.pc /\ c.ended = client.ended /\ c.link = client.link
        /\ c.generation = client.generation
        /\ c.search = client.search /\ c.searching = client.searching
        /\ c.probing = client.probing /\ c.probe = client.probe
        /\ c.standby = client.standby /\ c.next_try = "later"
        /\ c.displacing = client.displacing /\ c.answered_by = client.answered_by
        /\ c.enabled = client.enabled
    BY <1>1, <2>1, SelectFacts, ZenonT(30) DEF ClientRec
  <2> HIDE DEF c
  <2>3. ClientMid(c)
    BY <1>1, <2>2, SelectFacts DEF ClientMid
  <2> QED  BY <1>1, <1>2, <1>4, <2>2, <2>3, SelectFacts, QuietInv, ZenonT(30)
<1>5. CASE accept(client, report) /\ Ends("Refused")
  <2>1. client.phase = "Recovering"
    BY InvClient, <1>1, <1>5, ZenonT(30) DEF accept, ClientOK
  <2> QED  BY <1>1, <1>2, <1>5, <2>1, EndsInv, Zenon
<1> QED  BY <1>1, <1>3, <1>4, <1>5, Zenon

\* The host closed the client's link and the client ends.
LEMMA LinkClosedInv ==
    ASSUME Inv, UNCHANGED allowed, LinkClosed
    PROVE  Inv'
<1>1. /\ Selecting /\ closed[client.link] # Open /\ Ends(closed[client.link].reason)
      /\ ~(closed[client.link].reason = "TAKEN_OVER" /\ client.displacing)
      /\ outcomes' = outcomes
      /\ UNCHANGED <<events, hostVars, dropped, up, down, allowed>>
  BY Zenon DEF LinkClosed
<1>2. closed[client.link] \in CloseRec
  BY InvTyped, <1>1, SelectFacts, ZenonT(30) DEF TypedHost
<1>3. closed[client.link].reason = "TAKEN_OVER"
  BY InvCloses, InvLanding, <1>1, <1>2, SelectFacts, ZenonT(30)
  DEF CloseRec, Closes, Landing, Spare
<1> QED  BY <1>1, <1>3, EndsInv

\* A search reports that it found nothing.
LEMMA StandbyNotFoundInv ==
    ASSUME Inv, UNCHANGED allowed, StandbyNotFound
    PROVE  Inv'
<1> DEFINE head == Head(events)
           c == IF head.standby = client.search
                THEN [client EXCEPT !.searching = FALSE] ELSE client
<1>1. /\ Selecting /\ Lap(c) /\ events # <<>> /\ head.kind = "NotFound"
      /\ events' = Tail(events)
      /\ outcomes' = outcomes /\ dropped' = dropped /\ up' = up /\ down' = down
      /\ UNCHANGED <<hostVars, allowed>>
  BY Zenon DEF StandbyNotFound
<1>2. /\ c \in ClientRec /\ c.phase = client.phase
      /\ c.pc = client.pc /\ c.ended = client.ended /\ c.link = client.link
      /\ c.generation = client.generation /\ c.in_flight = client.in_flight
      /\ c.search = client.search
      /\ c.probing = client.probing /\ c.probe = client.probe
      /\ c.standby = client.standby /\ c.next_try = client.next_try
      /\ c.displacing = client.displacing /\ c.answered_by = client.answered_by
      /\ c.enabled = client.enabled
      /\ c.searching => client.searching
      /\ head.standby # client.search => c.searching = client.searching
      /\ head.standby = client.search => ~c.searching
  <2>1. CASE head.standby = client.search
    <3>1. c = [client EXCEPT !.searching = FALSE]
      BY <2>1, ZenonT(30)
    <3> HIDE DEF c, head
    <3> QED  BY <1>1, <2>1, <3>1, SelectFacts, Zenon DEF ClientRec
  <2>2. CASE head.standby # client.search
    <3>1. c = client
      BY <2>2, ZenonT(30)
    <3> HIDE DEF c, head
    <3> QED  BY <1>1, <2>2, <3>1, SelectFacts
  <2> QED  BY <2>1, <2>2, Zenon
<1> HIDE DEF c
<1>3. ClientMid(c)
  BY <1>1, <1>2, SelectFacts, SMTT(30), Z3T(30) DEF ClientMid
<1>4. ~TimePasses
  BY <1>1, Zenon DEF TimePasses
<1>5. client.search <= c.search
  BY <1>1, <1>2, SelectFacts, SMTT(30), Z3T(30) DEF ClientRec
<1>6. Events(c, searches, IF c.probing THEN probe_task ELSE 0, Tail(events))
  <2> DEFINE ev == Tail(events)
  <2>1. /\ Events(client, searches, probe_task, ev)
        /\ \A i \in 1 .. Len(ev) : ev[i].kind # "Probed" => ev[i].standby # head.standby
    BY <1>1, TailEvents, Zenon
  <2> HIDE DEF ev, head
  <2>2. FoundEvents(c, searches, ev)
    BY <1>2, <2>1, ZenonT(30) DEF Events, FoundEvents
  <2>3. (IF c.probing THEN probe_task ELSE 0) = probe_task
    BY <1>2, <2>1, ZenonT(30) DEF Events, ProbeEvents
  <2>4. ProbeEvents(c, probe_task, ev)
    BY <1>2, <2>1, Zenon DEF Events, ProbeEvents
  <2> QED  BY <2>1, <2>2, <2>3, <2>4, Zenon DEF Events, ev
<1>7. Tail(events) \in Seq(EventRec) /\ Len(Tail(events)) <= 2
  BY <1>1, TailEvents
<1> QED  BY <1>1, <1>2, <1>3, <1>4, <1>5, <1>6, <1>7, SelectFacts, EventInv, ZenonT(30)

\* A search reports a standby: it is the last search's, or it is closed unheld.
LEMMA StandbyFoundInv ==
    ASSUME Inv, UNCHANGED allowed, StandbyFound
    PROVE  Inv'
<1> DEFINE n == Head(events).standby
           ev == Tail(events)
           c == [client EXCEPT !.searching = FALSE, !.standby = n]
<1>1. /\ Selecting /\ events # <<>> /\ Head(events).kind = "Found"
      /\ events' = ev
      /\ \/ /\ client.enabled /\ n = client.search
            /\ Lap(c) /\ dropped' = dropped
         \/ Lap(client) /\ dropped' = dropped \cup {StandbyLink(n)}
      /\ outcomes' = outcomes /\ up' = up /\ down' = down
      /\ UNCHANGED <<hostVars, allowed>>
  BY Zenon DEF StandbyFound, found
<1>2. /\ Events(client, searches, probe_task, ev)
      /\ ev \in Seq(EventRec) /\ Len(ev) <= 2
      /\ Head(events) \in EventRec /\ Head(events) = events[1]
      /\ 1 \in 1 .. Len(events)
      /\ \A i \in 1 .. Len(ev) : ev[i].kind # "Probed" => ev[i].standby # n
  <2>1. Head(events).kind # "Probed"
    BY <1>1
  <2> QED  BY <1>1, <2>1, TailEvents, Zenon
<1>3. n \in Searches /\ n <= MaxSearches /\ n \in 0 .. MaxSearches
  <2>1. n \in Searches
    BY <1>2, Zenon DEF EventRec
  <2>2. n <= MaxSearches
    BY InvBounds, InvEvents, <1>2, Zenon DEF Events
  <2> QED  BY InvBounds, <2>1, <2>2, Numbers, SMTT(30), Z3T(30)
<1>4. ~TimePasses
  BY <1>1, ZenonT(30) DEF TimePasses
<1>p. (IF client.probing THEN probe_task ELSE 0) = probe_task
  BY <1>2 DEF Events, ProbeEvents
<1> HIDE DEF ev
<1>5. CASE client.enabled /\ n = client.search /\ Lap(c) /\ dropped' = dropped
  <2>1. client.searching
    <3>1. Head(events).kind # "Probed" /\ client.ended = "no"
      BY <1>1, SelectFacts
    <3> QED  BY InvEvents, <1>2, <1>5, <3>1, ZenonT(30) DEF Events, FoundEvents
  <2>2. client.standby = 0 /\ client.probe = "Idle"
    BY <1>1, <2>1, SelectFacts, ZenonT(30) DEF ClientMid
  <2> HIDE DEF n
  <2>3. /\ c \in ClientRec /\ c.phase = client.phase
        /\ c.pc = client.pc /\ c.ended = client.ended /\ c.link = client.link
        /\ c.generation = client.generation /\ c.in_flight = client.in_flight
        /\ c.search = client.search /\ ~c.searching
        /\ c.probing = client.probing /\ c.probe = client.probe
        /\ c.standby = n /\ c.next_try = client.next_try
        /\ c.displacing = client.displacing /\ c.answered_by = client.answered_by
        /\ c.enabled = client.enabled
    BY <1>1, <1>3, SelectFacts, ZenonT(30) DEF ClientRec
  <2> HIDE DEF c
  <2>4. ClientMid(c)
    BY <1>1, <1>5, <2>1, <2>2, <2>3, SelectFacts, ZenonT(30) DEF ClientMid
  <2>5. client.search <= c.search
    BY <1>1, <2>3, SelectFacts, SMTT(30), Z3T(30) DEF ClientRec
  <2>6. Events(c, searches, probe_task, ev)
    <3>1. FoundEvents(c, searches, ev)
      BY <1>2, <1>5, <2>3, ZenonT(30) DEF Events, FoundEvents
    <3>2. ProbeEvents(c, probe_task, ev)
      BY <1>2, <2>1, <2>2, <2>3, ZenonT(30) DEF Events, ProbeEvents
    <3> QED  BY <1>2, <3>1, <3>2 DEF Events
  <2> QED  BY <1>1, <1>2, <1>4, <1>5, <1>p, <2>1, <2>3, <2>4, <2>5, <2>6, SelectFacts,
              EventInv, ZenonT(30)
<1>6. CASE Lap(client) /\ dropped' = dropped \cup {StandbyLink(n)}
  <2>1. dropped' \subseteq Links
    BY <1>1, <1>3, <1>6, SelectFacts, LinkCases, ZenonT(30)
  <2>2. client.search <= client.search
    BY <1>1, SelectFacts, SMTT(30), Z3T(30) DEF ClientRec
  <2> HIDE DEF n, c
  <2> QED  BY <1>1, <1>2, <1>4, <1>6, <1>p, <2>1, <2>2, SelectFacts, EventInv, ZenonT(30)
<1> QED  BY <1>1, <1>5, <1>6, Zenon

\* A probe reports: its answer counts for the standby that was asked.
LEMMA StandbyProbedInv ==
    ASSUME Inv, UNCHANGED allowed, StandbyProbed
    PROVE  Inv'
<1> DEFINE head == Head(events)
           ev == Tail(events)
           c == probed(client, head)
<1>1. /\ Selecting /\ Lap(c) /\ events # <<>> /\ head.kind = "Probed"
      /\ events' = ev
      /\ outcomes' = outcomes /\ dropped' = dropped /\ up' = up /\ down' = down
      /\ UNCHANGED <<hostVars, allowed>>
  BY Zenon DEF StandbyProbed
<1>2. /\ Events(client, searches, probe_task, ev)
      /\ ev \in Seq(EventRec) /\ Len(ev) <= 2
      /\ head \in EventRec /\ head = events[1]
      /\ 1 \in 1 .. Len(events)
      /\ \A i \in 1 .. Len(ev) : ev[i].kind # "Probed"
  BY <1>1, TailEvents, Zenon
<1>3. ~TimePasses
  BY <1>1 DEF TimePasses
<1>4. /\ client.probe = "Pending" => head.standby = client.standby
      /\ head.answered => exchange[StandbyLink(head.standby)] = "handed_over"
      /\ head.standby <= MaxSearches
  BY InvBounds, InvEvents, <1>1, <1>2, ZenonT(30) DEF Events, ProbeEvents
<1>5. head.standby \in 0 .. MaxSearches /\ client.answered_by \in 0 .. MaxSearches
  <2>1. head.standby \in Searches
    BY <1>2 DEF EventRec
  <2>2. client.answered_by \in 0 .. MaxSearches
    BY <1>1, SelectFacts DEF ClientRec
  <2> HIDE DEF head
  <2>3. head.standby \in 0 .. MaxSearches
    <3>1. MaxSearches \in Nat /\ Searches \subseteq Nat
      BY InvBounds, Numbers
    <3>2. head.standby <= MaxSearches /\ head.standby \in Nat /\ MaxSearches \in Nat
      BY <1>4, <2>1, <3>1, ZenonT(30)
    <3> QED  BY <3>2, SMTT(30), Z3T(30)
  <2> QED  BY <2>2, <2>3
<1> HIDE DEF head, ev
<1> DEFINE now == IF client.probe # "Pending" THEN client.probe
                  ELSE IF head.answered THEN "Answered" ELSE "Failed"
           by == IF client.probe = "Pending" THEN head.standby ELSE client.answered_by
<1>6. /\ now \in {"Idle", "Pending", "Answered", "Failed"} /\ now # "Pending"
      /\ by \in 0 .. MaxSearches
      /\ now = "Answered" => /\ exchange[StandbyLink(client.standby)] = "handed_over"
                             /\ by = client.standby
      /\ now # "Idle" => client.standby # 0
  <2>1. client.probe = "Pending" =>
           /\ now \in {"Answered", "Failed"} /\ by = head.standby
           /\ client.standby # 0
    BY <1>1, SelectFacts, ZenonT(30) DEF ClientMid
  <2>2. client.probe # "Pending" => now = client.probe /\ by = client.answered_by
    OBVIOUS
  <2>3. client.probe = "Pending" /\ now = "Answered" => head.answered
    OBVIOUS
  <2>4. client.probe = "Answered" =>
           /\ exchange[StandbyLink(client.standby)] = "handed_over"
           /\ client.answered_by = client.standby
    BY <1>1, <1>2, SelectFacts, ZenonT(30) DEF Events, ProbeEvents, ClientMid
  <2>5. client.probe \in {"Idle", "Pending", "Answered", "Failed"}
    BY <1>1, SelectFacts, ZenonT(30) DEF ClientRec
  <2>6. client.probe # "Idle" => client.standby # 0
    BY <1>1, SelectFacts DEF ClientMid
  <2> HIDE DEF now, by
  <2> QED  BY <1>4, <1>5, <2>1, <2>2, <2>3, <2>4, <2>5, <2>6, ZenonT(30)
<1>7. c = [client EXCEPT !.probing = FALSE, !.probe = now, !.answered_by = by]
  BY <1>1, SelectFacts DEF probed, ClientRec
<1> HIDE DEF c, now, by
<1>8. /\ c \in ClientRec /\ c.phase = client.phase
      /\ c.pc = client.pc /\ c.ended = client.ended /\ c.link = client.link
      /\ c.generation = client.generation /\ c.in_flight = client.in_flight
      /\ c.search = client.search /\ c.searching = client.searching
      /\ ~c.probing /\ c.probe = now /\ c.answered_by = by
      /\ c.standby = client.standby /\ c.next_try = client.next_try
      /\ c.displacing = client.displacing /\ c.enabled = client.enabled
  BY <1>1, <1>6, <1>7, SelectFacts, ZenonT(30) DEF ClientRec
<1>9. ClientMid(c)
  BY <1>1, <1>6, <1>8, SelectFacts, ZenonT(30) DEF ClientMid
<1>10. client.search <= c.search
  BY <1>1, <1>8, SelectFacts, SMTT(30), Z3T(30) DEF ClientRec
<1>11. Events(c, searches, 0, ev)
  <2>1. FoundEvents(c, searches, ev)
    BY <1>2, <1>8, Zenon DEF Events, FoundEvents
  <2>2. ProbeEvents(c, 0, ev)
    BY <1>2, <1>6, <1>8, ZenonT(30) DEF ProbeEvents
  <2> QED  BY <1>2, <2>1, <2>2 DEF Events
<1>12. (IF c.probing THEN probe_task ELSE 0) = 0
  BY <1>8
<1> QED  BY <1>1, <1>2, <1>3, <1>8, <1>9, <1>10, <1>11, <1>12, SelectFacts, EventInv,
            ZenonT(30)

\* An attempt lands: it is the last, and the host has not closed it in favour of a
\* standby, because none that the client gave up can be taken up after it.
LEMMA RebuildLandedInv ==
    ASSUME Inv, UNCHANGED allowed, RebuildLanded
    PROVE  Inv'
<1> DEFINE report == Head(outcomes)
           c == swap_in(finished(client, report), Attempt(report.generation))
           g == client.generation
<1>1. /\ Selecting /\ outcomes # <<>> /\ report.outcome = "Landed"
      /\ outcomes' = Tail(outcomes) /\ Lap(c)
      /\ dropped' = dropped \cup LetGo(client) /\ down' = down \ LetGo(client)
      /\ events' = events /\ up' = up /\ UNCHANGED <<hostVars, allowed>>
  BY Zenon DEF RebuildLanded
<1>2. /\ outcomes' = <<>> /\ report.generation = g /\ ~TimePasses /\ g \in Attempts
      /\ report = outcomes[1]
  BY <1>1, ReportFacts, Zenon
<1>3. Attempt(g) \in Links /\ g # 0
  BY InvBounds, <1>2, LinkCases, Numbers, ZenonT(30)
<1>4. c = [client EXCEPT !.in_flight = FALSE, !.link = Attempt(g),
                         !.takeover_expected = FALSE, !.displacing = FALSE,
                         !.searching = FALSE, !.search = client.search + 1,
                         !.standby = 0, !.probe = "Idle"]
  <2>1. client.next_try = "later"
    BY <1>1, SelectFacts DEF ClientMid
  <2>2. finished(client, report) = [client EXCEPT !.in_flight = FALSE]
    BY <1>2 DEF finished, cancel
  <2> DEFINE d == [client EXCEPT !.in_flight = FALSE, !.link = Attempt(g),
                                 !.takeover_expected = FALSE]
  <2>3. [finished(client, report) EXCEPT !.link = Attempt(report.generation),
                                         !.takeover_expected = FALSE] = d
    BY <1>1, <1>2, <2>2, SelectFacts, Zenon DEF ClientRec
  <2>4. c = forget(swapped(rebuilt(d)))
    BY <2>3, Zenon DEF swap_in
  <2>5. rebuilt(d) = d
    <3>1. d.next_try = "later" /\ [d EXCEPT !.next_try = "later"] = d
      BY <1>1, <2>1, SelectFacts, ZenonT(30) DEF ClientRec
    <3> QED  BY <3>1, Zenon DEF rebuilt
  <2>6. swapped(d) = [d EXCEPT !.displacing = FALSE]
    BY <1>1, SelectFacts DEF swapped, ClientRec
  <2>7. forget([d EXCEPT !.displacing = FALSE]) =
          [client EXCEPT !.in_flight = FALSE, !.link = Attempt(g),
                         !.takeover_expected = FALSE, !.displacing = FALSE,
                         !.searching = FALSE, !.search = client.search + 1,
                         !.standby = 0, !.probe = "Idle"]
    BY <1>1, SelectFacts DEF forget, new_primary, ClientRec
  <2> QED  BY <2>4, <2>5, <2>6, <2>7, ZenonT(30)
<1>5. c \in ClientRec
  <2>1. 0 \in 0 .. MaxSearches /\ client.search + 1 \in Nat
    BY InvBounds, <1>1, Numbers, SelectFacts, SMTT(30), Z3T(30) DEF ClientRec
  <2> HIDE DEF c
  <2> QED  BY <1>1, <1>3, <1>4, <2>1, SelectFacts, ZenonT(30) DEF ClientRec
<1>6. /\ ~c.in_flight /\ c.link = Attempt(g) /\ ~c.displacing /\ ~c.searching
      /\ c.search = client.search + 1 /\ c.standby = 0 /\ c.probe = "Idle"
      /\ c.phase = client.phase /\ c.next_try = client.next_try
      /\ c.ended = client.ended /\ c.pc = client.pc /\ c.generation = g
      /\ c.probing = client.probing
  <2> HIDE DEF c
  <2> QED  BY <1>1, <1>4, SelectFacts, ZenonT(30) DEF ClientRec
<1> HIDE DEF c, report, g
<1>g. g = client.generation
  BY DEF g
<1>7. ClientMid(c)
  <2>1. \A o \in Others : c.link # Other(o)
    BY <1>6, LinkKinds
  <2>2. ClientMid(client)
    BY InvClient, ZenonT(30) DEF ClientOK
  <2> QED  BY <1>1, <1>3, <1>6, <1>g, <2>1, <2>2, ZenonT(30) DEF ClientMid, Selecting
<1>8. client.search <= c.search
  BY <1>1, <1>6, SelectFacts, SMTT(30), Z3T(30) DEF ClientRec
<1>9. LetGo(client) \subseteq Links
  <2>1. \A n \in {client.standby} \ {0} : n \in Searches
    BY InvBounds, <1>1, SelectFacts, Numbers, SMTT(30), Z3T(30) DEF ClientRec
  <2> QED  BY <1>1, <2>1, SelectFacts, LinkCases, ZenonT(30) DEF LetGo
<1>10. LapFrom(c)
  <2>1. TypedFrames' /\ dropped \subseteq dropped'
    BY <1>1, <1>9, SelectFacts, Zenon DEF TypedFrames
  <2>2. outcomes' \in Seq(ReportRec) /\ Len(outcomes') <= 1
    BY <1>2, SMTT(30), Z3T(30)
  <2> QED  BY <1>1, <1>2, <1>5, <1>6, <1>7, <1>g, <2>1, <2>2, SelectFacts, ZenonT(30)
           DEF LapFrom
<1>11. Tasks(c, attempts, outcomes') /\ Closes(c) /\ Standbys(c)
  BY <1>1, <1>2, <1>5, <1>6, <1>8, <1>g, SelectFacts, EventNumbers, ZenonT(30)
<1>12. Searching(c, searches)
  BY <1>5, <1>6, <1>8, EventSearching, Zenon
<1>13. Events(c, searches, IF c.probing THEN probe_task ELSE 0, events')
  <2>1. c.standby \in {0, client.standby}
    BY <1>6
  <2> QED  BY <1>1, <1>5, <1>6, <2>1, SelectFacts, EventEvents, ZenonT(30)
<1>14. Frames(c, searches, up', down')
  <2>1. /\ c.link # First /\ \A n \in Searches : c.link # StandbyLink(n)
        /\ down' \subseteq down /\ up' = up
    BY <1>1, <1>6, LinkKinds, ZenonT(30)
  <2>2. \A n \in Searches : n < client.search => n < c.search
    BY InvBounds, <1>1, <1>6, SelectFacts, Numbers, SMTT(30), Z3T(30) DEF ClientRec
  <2>3. Frames(client, searches, up, down)
    BY InvFrames, Zenon
  <2> QED  BY <2>1, <2>2, <2>3, Zenon DEF Frames
<1>15. Landing(c, attempts, outcomes', up')
  <2>1. Landing(client, attempts, outcomes, up) /\ up' = up
    BY InvLanding, <1>1, ZenonT(30)
  <2>2. MayLand(g, client, attempts, outcomes)
    BY <1>1, <1>2, ZenonT(30) DEF MayLand, Running
  <2>3. \A h \in Attempts : MayLand(h, c, attempts, outcomes') =>
          MayLand(h, client, attempts, outcomes)
    <3> SUFFICES ASSUME NEW h \in Attempts, MayLand(h, c, attempts, outcomes')
                 PROVE  MayLand(h, client, attempts, outcomes)
      BY Zenon
    <3>1. CASE c.link = Attempt(h)
      <4>1. h = g
        BY ONLY <1>6, <3>1, LinkKinds, ZenonT(30)
      <4> QED  BY <2>2, <4>1, Zenon
    <3>2. CASE Running(h, attempts, outcomes')
      <4>1. attempts[h].task \in {"ssh", "attach", "connected", "Landed"}
        BY ONLY <1>2, <3>2, Zenon DEF Running
      <4> QED  BY ONLY <4>1, Zenon DEF MayLand, Running
    <3> QED  BY <3>1, <3>2, Zenon DEF MayLand
  <2>4. closed[c.link].reason \notin Spare
    BY <1>2, <1>6, <2>1, <2>2, ZenonT(30) DEF Landing
  <2> QED  BY <2>1, <2>3, <2>4, ZenonT(30) DEF Landing
<1> QED  BY <1>10, <1>11, <1>12, <1>13, <1>14, <1>15, LapInv, ZenonT(30) DEF LoopInv

\* A client that notes something and stays as it was, and back at its select.
LEMMA NotedInv ==
    ASSUME Inv, client.ended = "no", client' \in ClientRec,
           client' \in {[client EXCEPT !.takeover_expected = TRUE],
                        [client EXCEPT !.pc = "select"]},
           client'.pc = "select",
           UNCHANGED <<attempts, outcomes, searches, probe_task, events, hostVars,
                       dropped, up, down, allowed>>
    PROVE  Inv'
<1>1. /\ attempts' = attempts /\ outcomes' = outcomes /\ searches' = searches
      /\ probe_task' = probe_task /\ events' = events /\ dropped' = dropped
      /\ up' = up /\ down' = down /\ UNCHANGED <<hostVars, allowed>>
  BY Zenon
<1> DEFINE c == client'
<1>2. /\ c.ended = "no" /\ c.ended = client.ended /\ c.searching = client.searching
      /\ c.in_flight = client.in_flight
      /\ c.phase = client.phase /\ c.pc = "select" /\ c.link = client.link
      /\ c.generation = client.generation /\ c.search = client.search
      /\ c.probing = client.probing /\ c.probe = client.probe
      /\ c.standby = client.standby /\ c.next_try = client.next_try
      /\ c.displacing = client.displacing /\ c.enabled = client.enabled
      /\ c.answered_by = client.answered_by
  BY InvBounds, SMTT(30), Z3T(30) DEF ClientRec
<1> HIDE DEF c
<1>3. c \in ClientRec
  BY InvBounds, Zenon DEF c
<1>4. ClientOK(c) /\ client.search <= c.search
  BY InvBounds, InvClient, <1>2, SMTT(30), Z3T(30) DEF ClientOK, ClientMid, ClientRec, Spare
<1>5. Tasks(c, attempts, outcomes) /\ Closes(c) /\ Standbys(c)
  BY InvTasks, InvCloses, InvStandbys, <1>2, <1>3, <1>4, EventNumbers, ZenonT(30)
<1>6. Searching(c, searches)
  BY InvSearching, <1>2, <1>3, <1>4, EventSearching, ZenonT(30)
<1>7. Events(c, searches, probe_task, events)
  <2>1. FoundEvents(c, searches, events)
    BY InvEvents, <1>2, ZenonT(30) DEF Events, FoundEvents
  <2>2. ProbeEvents(c, probe_task, events)
    BY InvEvents, <1>2, SMTT(30), Z3T(30) DEF Events, ProbeEvents
  <2> QED  BY InvEvents, <2>1, <2>2, Zenon DEF Events
<1>8. Frames(c, searches, up, down) /\ Landing(c, attempts, outcomes, up)
  BY InvFrames, InvLanding, <1>2, <1>3, <1>4, EventFrames, ZenonT(30)
<1>9. Answering(c) /\ Deciding(c, attempts, outcomes)
  BY InvAnswering, <1>2 DEF Answering, Deciding
<1>10. TypedTasks' /\ TypedSearches' /\ TypedFrames'
  BY InvBounds, InvTyped, <1>1, ZenonT(30) DEF TypedTasks, TypedSearches, TypedFrames,
     MaxSearches
<1>11. Uncommitted(attempts')
  BY InvUncommitted, <1>1, Zenon
<1> QED  BY <1>1, <1>3, <1>4, <1>5, <1>6, <1>7, <1>8, <1>9, <1>10, <1>11, StepInv, ZenonT(30)
            DEF c, LoopInv

\* A close that may be the client's own doing is noted and nothing else moves.
LEMMA ExcuseTakeoverInv ==
    ASSUME Inv, UNCHANGED allowed, ExcuseTakeover
    PROVE  Inv'
<1>1. /\ Selecting /\ client' = [client EXCEPT !.takeover_expected = TRUE]
      /\ UNCHANGED <<attempts, outcomes, searches, probe_task, events, hostVars,
                     dropped, up, down, allowed>>
  BY Zenon DEF ExcuseTakeover
<1>2. client' \in ClientRec /\ client'.pc = "select" /\ client.ended = "no"
  BY InvBounds, <1>1, Zenon DEF ClientRec, Selecting
<1> QED  BY <1>1, <1>2, NotedInv, ZenonT(30)

\* A failover that is held off leaves the standby where it was.
LEMMA FailOverHeldOffInv ==
    ASSUME Inv, UNCHANGED allowed, FailOverHeldOff
    PROVE  Inv'
<1>1. /\ client.pc = "failover" /\ client' = [client EXCEPT !.pc = "select"]
      /\ UNCHANGED <<attempts, outcomes, searches, probe_task, events, hostVars,
                     dropped, up, down, allowed>>
  BY Zenon DEF FailOverHeldOff
<1>2. client' \in ClientRec /\ client'.pc = "select" /\ client.ended = "no"
  BY InvBounds, InvClient, <1>1, ZenonT(30) DEF ClientRec, ClientMid
<1> QED  BY <1>1, <1>2, NotedInv, Zenon

\* A failover: the standby the client holds is handed over and is the newest, so
\* the host can have closed it for no other standby.
LEMMA FailOverInv ==
    ASSUME Inv, UNCHANGED allowed, FailOver
    PROVE  Inv'
<1> DEFINE c == client'
           n == client.standby
           s == StandbyLink(n)
           g == client.generation
<1>1. /\ client.pc = "failover" /\ ~Committed(client)
      /\ up' = up \cup {s} /\ dropped' = dropped \cup {client.link}
      /\ down' = down \ {client.link}
      /\ attempts' = IF client.in_flight
                     THEN [attempts EXCEPT ![g].commitment = "ABANDONED"] ELSE attempts
      /\ c = [rebuilt(take_for_failover(cancel(client))) EXCEPT
                 !.link = s, !.takeover_expected = FALSE, !.pc = "select"]
      /\ outcomes' = outcomes /\ searches' = searches /\ probe_task' = probe_task
      /\ events' = events /\ UNCHANGED <<hostVars, allowed>>
  BY Zenon DEF FailOver
<1>2. /\ client.probe = "Answered" /\ Outage(client) /\ n # 0 /\ n = client.search
      /\ client.ended = "no" /\ client.next_try = "later"
      /\ client.displacing \/ client.phase # "Recovering"
      /\ exchange[s] = "handed_over"
  BY InvClient, InvEvents, <1>1, ZenonT(30) DEF ClientMid, Events, ProbeEvents
<1>3. n \in Searches /\ s \in Links /\ n \in Nat /\ Searches \subseteq Nat \ {0}
      /\ g \in Nat /\ Attempts \subseteq Nat
  BY InvBounds, <1>2, Numbers, LinkCases, SMTT(30), Z3T(30) DEF ClientRec
<1>4. c = [client EXCEPT !.in_flight = FALSE, !.searching = FALSE,
                         !.search = n + 1, !.standby = 0, !.probe = "Idle",
                         !.link = s, !.takeover_expected = FALSE, !.pc = "select"]
  <2> DEFINE d == [client EXCEPT !.in_flight = FALSE, !.searching = FALSE,
                                 !.search = n + 1, !.standby = 0, !.probe = "Idle"]
  <2>1. take_for_failover(cancel(client)) = d
    BY InvBounds, <1>2 DEF take_for_failover, cancel, new_primary, ClientRec
  <2>2. rebuilt(d) = d
    <3>1. [d EXCEPT !.next_try = "later"] = d
      BY InvBounds, InvClient, ZenonT(30) DEF ClientRec, ClientMid
    <3> QED  BY <3>1, Zenon DEF rebuilt
  <2>3. c = [d EXCEPT !.link = s, !.takeover_expected = FALSE, !.pc = "select"]
    BY <1>1, <2>1, <2>2, Zenon
  <2> QED  BY InvBounds, <2>3 DEF ClientRec
<1>5. c \in ClientRec
  <2>1. 0 \in 0 .. MaxSearches /\ n + 1 \in Nat
    BY InvBounds, <1>3, Numbers, SMTT(30), Z3T(30)
  <2> HIDE DEF c
  <2> QED  BY InvBounds, <1>3, <1>4, <2>1, ZenonT(30) DEF ClientRec
<1>6. /\ ~c.in_flight /\ ~c.searching /\ c.search = n + 1 /\ c.standby = 0
      /\ c.probe = "Idle" /\ c.link = s /\ c.pc = "select"
      /\ c.phase = client.phase /\ c.ended = "no" /\ c.generation = g
      /\ c.probing = client.probing /\ c.next_try = "later"
      /\ c.displacing = client.displacing
  <2> HIDE DEF c
  <2> QED  BY InvBounds, <1>2, <1>4, Zenon DEF ClientRec
<1> HIDE DEF c
<1>7. ClientOK(c)
  <2>1. \A o \in Others : c.link # Other(o)
    BY <1>6, LinkKinds, Zenon
  <2> QED  BY InvClient, <1>2, <1>3, <1>6, <2>1, ZenonT(30) DEF ClientOK, ClientMid, Spare
<1>8. client.search <= c.search /\ c.search = client.search + 1
  <2>1. client.search = n /\ n \in Nat /\ c.search = n + 1
    BY <1>2, <1>3, <1>6, Zenon
  <2> HIDE DEF n
  <2> QED  BY <2>1, SMTT(30), Z3T(30)
<1>9. \A h \in Attempts : attempts'[h].task = attempts[h].task
  BY InvTyped, <1>1, ZenonT(30) DEF TypedTasks, TaskRec
<1>10. Tasks(c, attempts', outcomes)
  <2>1. \A h \in Attempts : h > g => attempts'[h].commitment = attempts[h].commitment
    BY InvTyped, <1>1, <1>3, SMTT(30), Z3T(30) DEF TypedTasks, TaskRec
  <2> QED  BY InvTasks, <1>6, <1>9, <2>1, ZenonT(30) DEF Tasks
<1>11. Closes(c) /\ Standbys(c)
  BY InvCloses, InvStandbys, <1>5, <1>6, <1>8, EventNumbers, ZenonT(30)
<1>12. Searching(c, searches)
  BY InvSearching, <1>5, <1>6, <1>8, EventSearching, ZenonT(30)
<1>13. Events(c, searches, probe_task, events)
  <2>1. Events(c, searches, IF c.probing THEN probe_task ELSE 0, events)
    <3>1. c.ended = client.ended /\ c.standby \in {0, client.standby}
      BY <1>2, <1>6
    <3>2. events \in Seq(EventRec)
      BY InvTyped, ZenonT(30) DEF TypedSearches
    <3> QED  BY InvEvents, <1>5, <1>6, <1>8, <3>1, <3>2, EventEvents, ZenonT(30)
  <2>2. (IF c.probing THEN probe_task ELSE 0) = probe_task
    BY InvEvents, <1>6, ZenonT(30) DEF Events, ProbeEvents
  <2> QED  BY <2>1, <2>2
<1>14. Frames(c, searches, up', down')
  <2>1. SUFFICES ASSUME NEW a \in Searches, NEW b \in Searches
                 PROVE  /\ StandbyLink(a) \in up' =>
                             /\ exchange[StandbyLink(a)] = "handed_over"
                             /\ a < c.search /\ c.link # First
                        /\ StandbyLink(a) \in up' /\ c.link = StandbyLink(b) => a <= b
                        /\ StandbyLink(a) \in down' =>
                             /\ exchange[StandbyLink(a)] = "handed_over"
                             /\ ~Waiting(StandbyLink(a))
                        /\ c.link = StandbyLink(a) =>
                             /\ exchange[StandbyLink(a)] = "handed_over"
                             /\ a < c.search
                        /\ c.link = StandbyLink(a) /\ Waiting(StandbyLink(a)) =>
                             /\ StandbyLink(a) \in up' /\ Outage(c)
                             /\ c.standby = 0 /\ ~c.searching
                             /\ b > a => searches[b].task = "none"
    BY InvFrames, Zenon DEF Frames
  <2>2. StandbyLink(a) \in up' =>
          exchange[StandbyLink(a)] = "handed_over" /\ a <= n
    BY InvFrames, <1>1, <1>2, <1>3, LinkKinds, SMTT(30), Z3T(30) DEF Frames
  <2>3. StandbyLink(a) \in down' =>
          exchange[StandbyLink(a)] = "handed_over" /\ ~Waiting(StandbyLink(a))
    BY InvFrames, <1>1 DEF Frames
  <2>4. c.link = StandbyLink(b) => b = n
    BY <1>6, LinkKinds, Zenon
  <2>5. c.link = StandbyLink(a) => a = n
    BY <1>6, LinkKinds, ZenonT(30)
  <2>6. b > n => searches[b].task = "none"
    BY InvSearching, <1>2, <1>3, SMTT(30), Z3T(30) DEF Searching
  <2>7. c.link # First /\ Outage(c)
    BY <1>2, <1>6, LinkKinds, Zenon DEF Outage
  <2> QED  BY <1>1, <1>2, <1>3, <1>6, <2>2, <2>3, <2>4, <2>5, <2>6, <2>7, SMTT(30), Z3T(30)
<1>15. Landing(c, attempts', outcomes, up')
  <2>1. \A h \in Attempts : MayLand(h, c, attempts', outcomes) =>
          Running(h, attempts, outcomes) /\ MayLand(h, client, attempts, outcomes)
    BY <1>6, <1>9, LinkKinds, ZenonT(30) DEF MayLand, Running
  <2>2. closed[c.link].reason \notin Spare
    BY InvStandbys, <1>2, <1>3, <1>6, SMTT(30), Z3T(30) DEF Standbys
  <2>3. \A h \in Attempts, m \in Searches :
          /\ StandbyLink(m) \in up' /\ Waiting(StandbyLink(m))
          /\ MayLand(h, c, attempts', outcomes)
          => host.link # Attempt(h)
    BY InvLanding, InvAnswering, <1>1, <2>1, ZenonT(30) DEF Landing, Deciding
  <2> QED  BY InvLanding, <2>1, <2>2, <2>3, Zenon DEF Landing
<1>16. Answering(c) /\ Deciding(c, attempts', outcomes)
  BY InvAnswering, <1>6, Zenon DEF Answering, Deciding
<1>17. Uncommitted(attempts')
  BY InvTyped, InvUncommitted, <1>1, ZenonT(30) DEF Uncommitted, Committed, TypedTasks, TaskRec
<1>18. TypedTasks' /\ TypedSearches' /\ TypedFrames'
  <2>1. attempts' \in [Attempts -> TaskRec]
    BY InvTyped, <1>1, ZenonT(30) DEF TypedTasks, TaskRec
  <2>2. TypedFrames'
    BY InvBounds, InvTyped, <1>1, <1>3, Zenon DEF TypedFrames, ClientRec
  <2>3. TypedTasks' /\ TypedSearches'
    BY InvBounds, InvTyped, <1>1, <2>1, ZenonT(30) DEF TypedTasks, TypedSearches, MaxSearches
  <2> QED  BY <2>2, <2>3
<1>19. LoopInv(client', attempts', outcomes', searches', probe_task', events', up', down')
  BY <1>1, <1>10, <1>11, <1>12, <1>13, <1>14, <1>15, ZenonT(30) DEF c, LoopInv
<1> QED
  <2>1. dropped \subseteq dropped'
    BY <1>1
  <2> QED  BY <1>1, <1>5, <1>7, <1>16, <1>17, <1>18, <1>19, <2>1, StepInv, Zenon DEF c

-----------------------------------------------------------------------------
(* The theorems *)

\* Every step keeps the invariant.
LEMMA NextInv == Inv /\ [Next]_<<vars, allowed>> => Inv'
<1> SUFFICES ASSUME Inv, [Next]_<<vars, allowed>> PROVE Inv'
  OBVIOUS
<1>1. CASE Loop /\ UNCHANGED allowed
  BY <1>1, DueInv, HearFrameInv, RebuildLandedInv, RebuildFailedInv, StandbyFoundInv,
     StandbyNotFoundInv, StandbyProbedInv, StandbyClosedInv, ExcuseTakeoverInv,
     LinkClosedInv, SwitchStandbyInv, FailOverHeldOffInv, FailOverInv, ZenonT(30) DEF Loop
<1>2. CASE Task /\ UNCHANGED allowed
  BY <1>2, AttemptsInv, CommitInv, ConnectInv, SearchReportsInv, SearchConnectInv,
     ProbeReportsInv, ZenonT(30) DEF Task
<1>3. CASE Host /\ UNCHANGED allowed
  BY <1>3, OtherAsksInv, ServePrimaryInv, ServeStandbyInv, ServeFailsInv, EstablishInv,
     HandOverInv, AttachPrimaryInv, ParkStandbyInv, PromoteStandbyInv, StandbyGoneInv,
     HostTurnInv, ZenonT(30) DEF Host
<1>4. CASE UNCHANGED <<vars, allowed>>
  <2>1. /\ client' = client /\ attempts' = attempts /\ outcomes' = outcomes
        /\ searches' = searches /\ probe_task' = probe_task /\ events' = events
        /\ dropped' = dropped /\ up' = up /\ down' = down
        /\ UNCHANGED <<hostVars, allowed>>
    BY <1>4 DEF vars, hostVars
  <2>2. TypedTasks' /\ TypedSearches' /\ TypedFrames'
    BY InvBounds, InvTyped, <2>1, Zenon DEF TypedTasks, TypedSearches, TypedFrames,
       MaxSearches
  <2>3. LoopInv(client', attempts', outcomes', searches', probe_task', events', up', down')
    BY InvTasks, InvSearching, InvEvents, InvCloses, InvStandbys, InvFrames, InvLanding,
       <2>1, ZenonT(30) DEF LoopInv
  <2>4. client' \in ClientRec /\ ClientOK(client') /\ dropped \subseteq dropped'
    BY InvBounds, InvClient, <2>1, Zenon DEF ClientOK
  <2>5. /\ Answering(client') /\ Deciding(client', attempts', outcomes')
        /\ Uncommitted(attempts')
    BY InvAnswering, InvUncommitted, <2>1, Zenon
  <2> QED  BY <2>1, <2>2, <2>3, <2>4, <2>5, StepInv, ZenonT(30)
<1> QED  BY <1>1, <1>2, <1>3, <1>4, Zenon DEF Next

\* The records and channels keep the types and depths the code declares, for any
\* number of attempts, searches and other clients.
THEOREM RecoveryTyped == Spec => []TypeOK
<1>1. Inv => TypeOK
  BY ZenonT(30) DEF Inv
<1> QED  BY <1>1, InitInv, NextInv, PTL DEF Spec

\* An attempt abandoned for the standby never reaches the host: until it commits
\* it has sent no Attach, and an abandoned one cannot commit (Commitment).
THEOREM AbandonedStaysAway == Spec => []AbandonedNeverAttaches
<1>1. Inv => AbandonedNeverAttaches
  BY InvUncommitted, ZenonT(30) DEF Uncommitted, InInbox, AbandonedNeverAttaches
<1> QED  BY <1>1, InitInv, NextInv, PTL DEF Spec

\* A refusal ends the session only while the client is rebuilding
\* (Rebuild::accept and stood_down).
THEOREM RefusedInTheOutage == Spec => []RefusalOnlyInTheOutage
<1>1. Inv => RefusalOnlyInTheOutage
  BY InvClient, ZenonT(30) DEF ClientMid, RefusalOnlyInTheOutage
<1> QED  BY <1>1, InitInv, NextInv, PTL DEF Spec

\* A takeover that ends a client that is rebuilding is another client's: a client
\* whose latch is clear is on its last attempt, and the host takes up attempts in
\* the order of their generations (Rebuild::may_have_displaced_us).
THEOREM RebuildSurvivesItself == Spec => []RebuildingSurvivesItself
<1>1. Inv => RebuildingSurvivesItself
  <2> SUFFICES ASSUME Inv, client.ended = "TAKEN_OVER", client.phase = "Recovering"
               PROVE  closed[client.link].by \in {Other(o) : o \in Others}
    BY ZenonT(30) DEF RebuildingSurvivesItself
  <2>1. client.link = Attempt(client.generation) /\ client.generation # 0
    BY InvClient, ZenonT(30) DEF ClientMid
  <2>2. client.generation \in Attempts /\ client.link \in Links /\ Attempts \subseteq Nat
    BY InvBounds, <2>1, Numbers, SMTT(30), Z3T(30) DEF ClientRec
  <2>3. /\ closed[client.link].by \in Links /\ closed[client.link].by # First
        /\ ~IsStandby(closed[client.link].by)
    BY InvCloses, <2>2 DEF Closes
  <2>4. ASSUME NEW b \in Attempts, closed[client.link].by = Attempt(b)
        PROVE  FALSE
    <3>1. client.generation < b
      BY InvOrder, <2>1, <2>2, <2>4, ZenonT(30) DEF Order
    <3>2. b <= client.generation
      BY InvCloses, <2>2, <2>4, Zenon DEF Closes
    <3>3. client.generation \in Nat /\ b \in Nat
      BY <2>2, <2>4, Zenon
    <3> QED  BY <3>1, <3>2, <3>3, SMTT(30), Z3T(30)
  <2>5. \/ \E b \in Attempts : closed[client.link].by = Attempt(b)
        \/ \E o \in Others : closed[client.link].by = Other(o)
    BY <2>3, LinkCases, ZenonT(30)
  <2> QED  BY <2>4, <2>5, Zenon
<1> QED  BY <1>1, InitInv, NextInv, PTL DEF Spec

\* A client never ends on a reason that the host gives a link it lets go of in
\* favour of another link of the same client (host_session.rs, adopt_as).
THEOREM EndsOnNoSpareLink == Spec => []NeverEndsOnASpareLink
<1>1. Inv => NeverEndsOnASpareLink
  BY InvClient, ZenonT(30) DEF ClientMid, Spare, NeverEndsOnASpareLink
<1> QED  BY <1>1, InitInv, NextInv, PTL DEF Spec

\* The standby the client holds was searched for over the link it is on
\* (Standby::search, forget, take_for_failover).
THEOREM StandbyForThisPrimary == Spec => []StandbyIsForThisPrimary
<1>1. Inv => StandbyIsForThisPrimary
  BY InvSearching, ZenonT(30) DEF Searching, StandbyIsForThisPrimary
<1> QED  BY <1>1, InitInv, NextInv, PTL DEF Spec

\* The answer a failover rests on was given by the standby the client holds
\* (Standby::probed).
THEOREM AnswerIsThisStandbys == Spec => []AnsweredByThisStandby
<1>1. Inv => AnsweredByThisStandby
  BY InvClient, ZenonT(30) DEF ClientMid, AnsweredByThisStandby
<1> QED  BY <1>1, InitInv, NextInv, PTL DEF Spec

\* The host lets go of no link it was handed without closing it
\* (HostSession::on_attached).
THEOREM NoLinkIsLost == Spec => []EveryLinkIsHeldOrClosed
<1>1. Inv => EveryLinkIsHeldOrClosed
  BY InvHeld
<1> QED  BY <1>1, InitInv, NextInv, PTL DEF Spec

=============================================================================
