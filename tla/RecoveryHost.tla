---------------------------- MODULE RecoveryHost ----------------------------
(***************************************************************************)
(* What the proofs of Recovery's steps share (what a link can be, the      *)
(* inductive invariant block by block, that it holds at the start, the     *)
(* steps that leave the host alone), and the steps of Recovery's tasks     *)
(* and of the host: the rebuild attempts and the search and probe tasks,   *)
(* the door that exchanges and hands over the links one at a time, and     *)
(* the session that takes them up, parks them and closes those they        *)
(* replace. Each of them keeps the invariant.                              *)
(***************************************************************************)
EXTENDS RecoveryInvariant, TLAPS

-----------------------------------------------------------------------------
(* Links, bounds and types *)

\* Links of different kinds differ, and so do those of different numbers.
LEMMA LinkKinds ==
    /\ \A g, h : Attempt(g) = Attempt(h) => g = h
    /\ \A m, n : StandbyLink(m) = StandbyLink(n) => m = n
    /\ \A g, n : Attempt(g) # StandbyLink(n)
    /\ \A g, o : Attempt(g) # Other(o)
    /\ \A n, o : StandbyLink(n) # Other(o)
    /\ \A g : Attempt(g) # First /\ Attempt(g) # None /\ ~IsStandby(Attempt(g))
    /\ \A n : StandbyLink(n) # First /\ StandbyLink(n) # None /\ IsStandby(StandbyLink(n))
    /\ \A o : Other(o) # First /\ Other(o) # None /\ ~IsStandby(Other(o))
    /\ First # None /\ ~IsStandby(First) /\ ~IsStandby(None)
BY DEF Attempt, StandbyLink, Other, First, None, IsStandby

\* A link is the first one, an attempt's, a search's or another client's.
LEMMA LinkCases ==
    /\ First \in Links /\ None \notin Links
    /\ \A g \in Attempts : Attempt(g) \in Links
    /\ \A n \in Searches : StandbyLink(n) \in Links
    /\ \A o \in Others : Other(o) \in Links
    /\ \A l \in Links : IsStandby(l) => \E n \in Searches : l = StandbyLink(n)
    /\ \A l \in Links : ~IsStandby(l) /\ l # First =>
         \/ \E g \in Attempts : l = Attempt(g)
         \/ \E o \in Others : l = Other(o)
BY LinkKinds, SMTT(30), Z3T(30) DEF Links

\* The bounds of a behaviour are among the numbers there are.
LEMMA Numbers ==
    ASSUME allowed \in Bounds
    PROVE  /\ MaxAttempts \in Nat /\ MaxSearches \in Nat
           /\ 1 .. MaxAttempts \subseteq Attempts
           /\ 1 .. MaxSearches \subseteq Searches
           /\ Attempts \subseteq Nat \ {0} /\ Searches \subseteq Nat \ {0}
<1>1. MaxAttempts \in Nat /\ MaxSearches \in Nat
  BY RecoveryBounds DEF MaxAttempts, MaxSearches
<1>2. 1 .. MaxAttempts \subseteq Attempts /\ 1 .. MaxSearches \subseteq Searches
  BY DEF MaxAttempts, MaxSearches, Attempts, Searches
<1>3. Attempts \subseteq Nat \ {0} /\ Searches \subseteq Nat \ {0}
  BY RecoveryBounds, SMTT(30), Z3T(30) DEF Attempts, Searches
<1> QED  BY <1>1, <1>2, <1>3

\* Of two attempts, one has the smaller number.
LEMMA AttemptOrder ==
    ASSUME allowed \in Bounds
    PROVE  \A a, b \in Attempts : a # b /\ ~(a > b) => a < b
BY Numbers, SMTT(30), Z3T(30)

\* The type invariant, block by block.
LEMMA Typed ==
    /\ TypeOK <=> /\ client \in ClientRec /\ TypedTasks /\ TypedSearches
                  /\ TypedHost /\ TypedFrames
    /\ TypeOK' <=> /\ (client \in ClientRec)' /\ TypedTasks' /\ TypedSearches'
                   /\ TypedHost' /\ TypedFrames'
BY Zenon DEF TypeOK, ClientRec, TypedTasks, TypedSearches, TypedHost, TypedFrames,
    TaskRec, ReportRec, SearchRec, EventRec, Stage, HostRec, CloseRec

\* The invariant, block by block.
LEMMA InvFacts ==
    ASSUME Inv
    PROVE  /\ allowed \in Bounds /\ client \in ClientRec
           /\ TypedTasks /\ TypedSearches /\ TypedHost /\ TypedFrames
           /\ ClientMid(client) /\ (client.in_flight => client.phase = "Recovering")
           /\ Tasks(client, attempts, outcomes) /\ Searching(client, searches)
           /\ Events(client, searches, probe_task, events)
           /\ Closes(client) /\ Standbys(client)
           /\ Frames(client, searches, up, down)
           /\ Landing(client, attempts, outcomes, up)
           /\ Answering(client) /\ Deciding(client, attempts, outcomes)
           /\ Pipe /\ Uncommitted(attempts) /\ Order /\ EveryLinkIsHeldOrClosed
BY Typed, Zenon DEF Inv, LoopInv, ClientOK

\* What the invariant says of the bounds and of the client's type.
LEMMA InvBounds == Inv => allowed \in Bounds /\ client \in ClientRec
BY InvFacts

\* What it says of the client's record.
LEMMA InvClient == Inv => /\ ClientMid(client)
                          /\ client.in_flight => client.phase = "Recovering"
BY InvFacts, Zenon

\* What it says of everything else's type.
LEMMA InvTyped == Inv => TypedTasks /\ TypedSearches /\ TypedHost /\ TypedFrames
BY InvFacts, Zenon

\* What it says of the attempts.
LEMMA InvTasks == Inv => Tasks(client, attempts, outcomes)
BY InvFacts, Zenon

\* What it says of the searches.
LEMMA InvSearching == Inv => Searching(client, searches)
BY InvFacts, Zenon

\* What it says of the standby events.
LEMMA InvEvents == Inv => Events(client, searches, probe_task, events)
BY InvFacts, Zenon

\* What it says of the closes.
LEMMA InvCloses == Inv => Closes(client)
BY InvFacts, Zenon

\* What it says of the standbys at the host.
LEMMA InvStandbys == Inv => Standbys(client)
BY InvFacts, Zenon

\* What it says of the frames on standbys.
LEMMA InvFrames == Inv => Frames(client, searches, up, down)
BY InvFacts, Zenon

\* What it says of the attempts that may land.
LEMMA InvLanding == Inv => Landing(client, attempts, outcomes, up)
BY InvFacts, Zenon

\* What it says of a standby that answered.
LEMMA InvAnswering == Inv => Answering(client) /\ Deciding(client, attempts, outcomes)
BY InvFacts, Zenon

\* What it says of the stages of a link.
LEMMA InvPipe == Inv => Pipe
BY InvFacts, Zenon

\* What it says of attempts not yet committed.
LEMMA InvUncommitted == Inv => Uncommitted(attempts)
BY InvFacts, Zenon

\* What it says of the order of the attempts.
LEMMA InvOrder == Inv => Order
BY InvFacts, Zenon

\* What it says of the links in use.
LEMMA InvHeld == Inv => EveryLinkIsHeldOrClosed
BY InvFacts, Zenon

\* An element of a sequence.
LEMMA ElementOfSeq ==
    ASSUME NEW S, NEW q \in Seq(S), NEW n \in 1 .. Len(q)
    PROVE  q[n] \in S
BY SMTT(30), Z3T(30)

\* The empty sequence.
LEMMA EmptySeq ==
    ASSUME NEW S
    PROVE  /\ <<>> \in Seq(S)
           /\ \A q \in Seq(S) : q = <<>> <=> Len(q) = 0
BY SMTT(30), Z3T(30)

\* Sequences of the same elements are equal.
LEMMA SeqEqual ==
    ASSUME NEW S, NEW p \in Seq(S), NEW q \in Seq(S), Len(p) = Len(q),
           \A i \in 1 .. Len(p) : p[i] = q[i]
    PROVE  p = q
BY SMTT(30), Z3T(30)

\* What taking the head off a sequence leaves.
LEMMA SeqTail ==
    ASSUME NEW S, NEW q \in Seq(S), q # <<>>
    PROVE  /\ Tail(q) \in Seq(S) /\ Len(Tail(q)) = Len(q) - 1 /\ Len(q) \in Nat
           /\ 1 \in 1 .. Len(q) /\ Head(q) = q[1] /\ q[1] \in S
           /\ \A i \in 1 .. Len(Tail(q)) :
                i + 1 \in 1 .. Len(q) /\ i + 1 # 1 /\ Tail(q)[i] = q[i + 1]
           /\ \A i, j \in 1 .. Len(Tail(q)) : i + 1 = j + 1 => i = j
           /\ \A i, j \in 1 .. Len(Tail(q)) : i < j => i + 1 < j + 1
           /\ \A i \in 1 .. Len(Tail(q)) : 1 < i + 1
BY SMTT(30), Z3T(30)

\* The host's variables and what is said of them alone.
LEMMA HostKept ==
    ASSUME Inv, UNCHANGED hostVars, dropped \subseteq dropped'
    PROVE  /\ Pipe' /\ Order' /\ EveryLinkIsHeldOrClosed' /\ TypedHost'
           /\ inbox' = inbox /\ serving' = serving /\ exchange' = exchange
           /\ attaches' = attaches /\ host' = host /\ closed' = closed
<1>1. /\ inbox' = inbox /\ serving' = serving /\ exchange' = exchange
      /\ attaches' = attaches /\ host' = host /\ closed' = closed
  BY DEF hostVars
<1>2. Pipe'
  BY InvPipe, <1>1 DEF Pipe
<1>3. Order'
  BY InvOrder, <1>1, SMTT(30), Z3T(30) DEF Order, InInbox
<1>4. EveryLinkIsHeldOrClosed'
  BY InvHeld, <1>1 DEF EveryLinkIsHeldOrClosed
<1>5. TypedHost'
  BY InvTyped, <1>1 DEF TypedHost
<1> QED  BY <1>1, <1>2, <1>3, <1>4, <1>5

\* The loop's part of the invariant reads the host's variables as they were.
LEMMA LoopKept ==
    ASSUME UNCHANGED <<hostVars, allowed>>,
           LoopInv(client', attempts', outcomes', searches', probe_task', events',
                   up', down')
    PROVE  LoopInv(client, attempts, outcomes, searches, probe_task, events, up, down)'
<1>1. /\ inbox' = inbox /\ serving' = serving /\ exchange' = exchange
      /\ attaches' = attaches /\ host' = host /\ closed' = closed
      /\ MaxSearches' = MaxSearches
  BY DEF hostVars, MaxSearches
<1>2. Tasks(client, attempts, outcomes)' /\ Searching(client, searches)'
  BY <1>1, Zenon DEF LoopInv, Tasks, Searching
<1>3. Events(client, searches, probe_task, events)'
  <2>1. ProbeEvents(client, probe_task, events)'
    BY <1>1, Zenon DEF LoopInv, Events, ProbeEvents
  <2>2. FoundEvents(client, searches, events)'
    BY <1>1, Zenon DEF LoopInv, Events, FoundEvents
  <2>3. (\A i \in 1 .. Len(events) : events[i].standby <= MaxSearches)'
    BY <1>1, Zenon DEF LoopInv, Events
  <2> QED  BY <2>1, <2>2, <2>3, Zenon DEF Events
<1>4. Closes(client)'
  BY <1>1, Zenon DEF LoopInv, Closes
<1>5. Standbys(client)'
  BY <1>1 DEF LoopInv, Standbys, Waiting
<1>6. Frames(client, searches, up, down)'
  <2>1. Frames(client', searches', up', down')
    BY DEF LoopInv
  <2> QED  BY <1>1, <2>1 DEF Frames, Waiting, Outage
<1>7. Landing(client, attempts, outcomes, up)'
  <2>1. Landing(client', attempts', outcomes', up')
    BY DEF LoopInv
  <2> QED  BY <1>1, <2>1 DEF Landing, MayLand, Running, Waiting
<1> QED  BY <1>2, <1>3, <1>4, <1>5, <1>6, <1>7, Zenon DEF LoopInv

\* A step that leaves the host alone keeps the invariant if it keeps what is said
\* of the client, its tasks and the frames.
LEMMA StepInv ==
    ASSUME Inv, UNCHANGED <<hostVars, allowed>>, dropped \subseteq dropped',
           client' \in ClientRec, ClientOK(client'),
           TypedTasks', TypedSearches', TypedFrames',
           LoopInv(client', attempts', outcomes', searches', probe_task', events',
                   up', down'),
           Answering(client'), Deciding(client', attempts', outcomes'),
           Uncommitted(attempts')
    PROVE  Inv'
<1>1. /\ Pipe' /\ Order' /\ EveryLinkIsHeldOrClosed' /\ TypedHost'
      /\ inbox' = inbox /\ serving' = serving /\ exchange' = exchange
      /\ attaches' = attaches /\ host' = host /\ closed' = closed
  BY InvTyped, InvPipe, InvOrder, InvHeld, HostKept, Zenon
<1>2. allowed' = allowed /\ MaxAttempts' = MaxAttempts /\ MaxSearches' = MaxSearches
  BY InvBounds, Zenon DEF MaxAttempts, MaxSearches
<1>3. (client \in ClientRec)'
  BY InvBounds, <1>2 DEF ClientRec
<1>4. ClientOK(client)'
  BY InvClient, <1>2 DEF ClientOK, ClientMid, Outage
<1>5. LoopInv(client, attempts, outcomes, searches, probe_task, events, up, down)'
  BY LoopKept, Zenon
<1>6. Answering(client)' /\ Deciding(client, attempts, outcomes)'
  BY InvAnswering, <1>1, Zenon DEF Answering, Deciding, Waiting, Running
<1>7. Uncommitted(attempts)'
  BY InvUncommitted, <1>1 DEF Uncommitted, InInbox
<1> QED  BY <1>1, <1>2, <1>3, <1>4, <1>5, <1>6, <1>7, Typed, Zenon DEF Inv

\* What an element put at the end of a sequence changes.
LEMMA SeqAppend ==
    ASSUME NEW S, NEW q \in Seq(S), NEW x \in S
    PROVE  /\ Append(q, x) \in Seq(S) /\ Len(Append(q, x)) = Len(q) + 1
           /\ Len(q) \in Nat /\ Len(q) + 1 \in 1 .. Len(Append(q, x))
           /\ Append(q, x)[Len(q) + 1] = x
           /\ \A i \in 1 .. Len(q) :
                i \in 1 .. Len(Append(q, x)) /\ Append(q, x)[i] = q[i]
           /\ \A i \in 1 .. Len(Append(q, x)) :
                \/ i \in 1 .. Len(q) /\ Append(q, x)[i] = q[i]
                \/ i = Len(q) + 1 /\ Append(q, x)[i] = x
           /\ \A i, k \in 1 .. Len(Append(q, x)) :
                i < k => i \in 1 .. Len(q) /\ Append(q, x)[i] = q[i]
BY SMTT(30), Z3T(30)

\* The session begins in the invariant.
LEMMA InitInv == Init => Inv
<1> SUFFICES ASSUME Init PROVE Inv
  OBVIOUS
<1> DEFINE start == [phase |-> "Live", next_try |-> "later", link |-> First,
                     takeover_expected |-> FALSE, ended |-> "no", pc |-> "select",
                     in_flight |-> FALSE, generation |-> 0, displacing |-> FALSE,
                     standby |-> 0, searching |-> FALSE, search |-> 0,
                     probe |-> "Idle", probing |-> FALSE, answered_by |-> 0,
                     enabled |-> TRUE]
<1>1. /\ allowed \in Bounds /\ client = start
      /\ attempts = [g \in Attempts |-> [task |-> "none", commitment |-> "CONNECTING"]]
      /\ outcomes = <<>> /\ probe_task = 0 /\ events = <<>> /\ inbox = <<>>
      /\ searches = [n \in Searches |-> [task |-> "none", via |-> None]]
      /\ serving = None /\ exchange = [l \in Links |-> "none"] /\ attaches = <<>>
      /\ host = [link |-> First, parked |-> None]
      /\ closed = [l \in Links |-> Open] /\ dropped = {} /\ up = {} /\ down = {}
  BY Zenon DEF Init
<1>2. MaxAttempts \in Nat /\ MaxSearches \in Nat
  BY <1>1, Numbers
<1>3. client \in ClientRec
  BY <1>1, <1>2, LinkCases, SMTT(30), Z3T(30) DEF ClientRec
<1>4. TypedTasks /\ TypedSearches /\ TypedHost /\ TypedFrames
  <2>1. TypedTasks
    BY <1>1, SMTT(30), Z3T(30) DEF TypedTasks, TaskRec
  <2>2. TypedSearches
    BY <1>1, <1>2, SMTT(30), Z3T(30) DEF TypedSearches, SearchRec
  <2>3. TypedHost
    BY <1>1, LinkCases, SMTT(30), Z3T(30) DEF TypedHost, HostRec, CloseRec, Stage, Open
  <2>4. TypedFrames
    BY <1>1 DEF TypedFrames
  <2> QED  BY <2>1, <2>2, <2>3, <2>4
<1>5. /\ 1 .. Len(inbox) = {} /\ 1 .. Len(events) = {} /\ 1 .. Len(attaches) = {}
      /\ \A l : ~InInbox(l) /\ attaches # <<l>>
  BY <1>1, SMTT(30), Z3T(30) DEF InInbox
<1>6. /\ \A n \in Searches : /\ exchange[StandbyLink(n)] = "none"
                             /\ closed[StandbyLink(n)] = Open
                             /\ ~Waiting(StandbyLink(n)) /\ host.link # StandbyLink(n)
                             /\ client.link # StandbyLink(n)
      /\ \A g \in Attempts : /\ exchange[Attempt(g)] = "none"
                             /\ closed[Attempt(g)] = Open
                             /\ host.link # Attempt(g) /\ client.link # Attempt(g)
                             /\ None # Attempt(g)
      /\ closed[First] = Open /\ exchange[First] = "none"
      /\ \A o \in Others : client.link # Other(o) /\ None # Other(o)
  BY <1>1, <1>5, LinkKinds, LinkCases DEF Waiting
<1>7. ClientOK(client)
  BY <1>1, <1>6 DEF ClientOK, ClientMid, Spare
<1>8. Tasks(client, attempts, outcomes)
  BY <1>1 DEF Tasks
<1>9. Searching(client, searches)
  BY <1>1, <1>6, LinkKinds, ZenonT(30) DEF Searching
<1>10. Events(client, searches, probe_task, events)
  BY <1>1, <1>5 DEF Events, FoundEvents, ProbeEvents
<1>11. Closes(client)
  <2>1. \A l \in Links : closed[l] = Open /\ Open.reason = "open" /\ Open.by = None
    BY <1>1 DEF Open
  <2> QED  BY <1>1, <1>6, <2>1 DEF Closes
<1>12. Standbys(client) /\ Frames(client, searches, up, down)
  <2>1. \A n \in Searches :
          /\ StandbyLink(n) \notin up /\ StandbyLink(n) \notin down
          /\ closed[StandbyLink(n)].reason \notin Spare
          /\ host.parked # StandbyLink(n)
    BY <1>1, <1>6, LinkKinds, ZenonT(30) DEF Spare, Open
  <2>2. \A n : attaches # <<StandbyLink(n)>>
    BY <1>5
  <2> QED  BY <1>6, <2>1, <2>2, ZenonT(30) DEF Standbys, Frames
<1>13. Landing(client, attempts, outcomes, up)
  <2>1. \A g \in Attempts : closed[Attempt(g)].reason \notin Spare
    BY <1>6, SMTT(30), Z3T(30) DEF Spare, Open
  <2>2. closed[client.link].reason \notin Spare /\ \A l : l \notin up
    BY <1>1, <1>6, SMTT(30), Z3T(30) DEF Spare, Open
  <2> QED  BY <2>1, <2>2, Zenon DEF Landing
<1>14. Answering(client) /\ Deciding(client, attempts, outcomes)
  BY <1>1, ZenonT(30) DEF Answering, Deciding
<1>15. Pipe
  BY <1>1, <1>5, <1>6, LinkKinds DEF Pipe
<1>16. Uncommitted(attempts) /\ Order
  <2>1. \A g \in Attempts : closed[Attempt(g)].by = None
    BY <1>6, SMTT(30), Z3T(30) DEF Open
  <2> QED  BY <1>1, <1>5, <1>6, <2>1 DEF Uncommitted, Order
<1>17. EveryLinkIsHeldOrClosed
  BY <1>1 DEF EveryLinkIsHeldOrClosed
<1> QED  BY <1>1, <1>3, <1>4, <1>7, <1>8, <1>9, <1>10, <1>11, <1>12, <1>13, <1>14,
            <1>15, <1>16, <1>17, Typed, Zenon DEF Inv, LoopInv


-----------------------------------------------------------------------------
(* The tasks *)

\* The task of an attempt moves on, fails, reports or is aborted: what may still
\* land could land before.
LEMMA AttemptInv ==
    ASSUME Inv, NEW g \in Attempts, attempts[g].task \notin {"none", "over"},
           NEW t \in {"over"} \cup Outcome, attempt(g, t),
           t = "Landed" => attempts[g].task = "connected",
           \/ outcomes' = outcomes
           \/ /\ attempts[g].task \in Outcome /\ t = "over"
              /\ outcomes' = <<[generation |-> g, outcome |-> attempts[g].task]>>,
           UNCHANGED <<client, searches, probe_task, events, hostVars, dropped, up,
                       down, allowed>>
    PROVE  Inv'
<1>1. /\ client' = client /\ searches' = searches /\ probe_task' = probe_task
      /\ events' = events /\ dropped' = dropped /\ up' = up /\ down' = down
      /\ UNCHANGED <<hostVars, allowed>>
      /\ attempts' = [attempts EXCEPT ![g].task = t]
  BY Zenon DEF attempt
<1>2. g = client.generation
  BY InvTasks DEF Tasks
<1>3. t \in {"none", "ssh", "attach", "connected", "over"} \cup Outcome
  OBVIOUS
<1>4. /\ attempts' \in [Attempts -> TaskRec] /\ attempts'[g].task = t
      /\ \A h \in Attempts : attempts'[h].commitment = attempts[h].commitment
      /\ \A h \in Attempts : h # g => attempts'[h] = attempts[h]
  BY InvTyped, <1>1, <1>3 DEF TypedTasks, TaskRec
<1>5. TypedTasks'
  <2>1. CASE outcomes' = outcomes
    BY InvTyped, <1>4, <2>1, Zenon DEF TypedTasks
  <2>2. CASE /\ attempts[g].task \in Outcome
             /\ outcomes' = <<[generation |-> g, outcome |-> attempts[g].task]>>
    <3>1. [generation |-> g, outcome |-> attempts[g].task] \in ReportRec
      BY <2>2 DEF ReportRec
    <3>2. outcomes' \in Seq(ReportRec) /\ Len(outcomes') <= 1
      BY <2>2, <3>1, SMTT(30), Z3T(30)
    <3> QED  BY InvTyped, <1>4, <3>2, Zenon DEF TypedTasks
  <2> QED  BY <2>1, <2>2
<1>6. Tasks(client, attempts', outcomes')
  BY InvTasks, <1>2, <1>4, SMTT(30), Z3T(30) DEF Tasks
<1>7. \A h \in Attempts : Running(h, attempts', outcomes') =>
        Running(h, attempts, outcomes)
  <2>1. SUFFICES ASSUME NEW h \in Attempts, Running(h, attempts', outcomes')
                 PROVE  Running(h, attempts, outcomes)
    OBVIOUS
  <2>2. CASE outcomes' = outcomes
    BY <1>4, <2>1, <2>2 DEF Running, Outcome
  <2>3. CASE /\ t = "over"
             /\ outcomes' = <<[generation |-> g, outcome |-> attempts[g].task]>>
    BY <1>4, <2>1, <2>3, ZenonT(30) DEF Running
  <2> QED  BY <2>2, <2>3
<1>8. Landing(client, attempts', outcomes', up) /\ Deciding(client, attempts', outcomes')
  BY InvLanding, InvAnswering, <1>7 DEF Landing, Deciding, MayLand
<1>9. Uncommitted(attempts')
  BY InvUncommitted, <1>4 DEF Uncommitted
<1>10. TypedSearches' /\ TypedFrames'
  BY InvBounds, InvTyped, <1>1, Zenon DEF TypedSearches, TypedFrames, MaxSearches
<1>11. LoopInv(client', attempts', outcomes', searches', probe_task', events', up', down')
  BY InvFacts, <1>1, <1>6, <1>8, Zenon DEF LoopInv
<1>12. client' \in ClientRec /\ ClientOK(client') /\ dropped \subseteq dropped'
  BY InvBounds, InvClient, <1>1, Zenon DEF ClientOK
<1> QED  BY InvFacts, <1>1, <1>5, <1>8, <1>9, <1>10, <1>11, <1>12, StepInv, Zenon

\* The steps of an attempt that the host does not see.
LEMMA AttemptsInv ==
    ASSUME Inv, UNCHANGED allowed, NEW g \in Attempts,
           SshFails(g) \/ Land(g) \/ AttachFails(g) \/ Report(g) \/ Abort(g)
    PROVE  Inv'
<1>1. CASE SshFails(g)
  <2>1. PICK o \in Outcome \ {"Landed"} : attempt(g, o)
    BY <1>1, Zenon DEF SshFails
  <2>2. /\ attempts[g].task = "ssh"
        /\ UNCHANGED <<client, outcomes, searches, probe_task, events, hostVars,
                       dropped, up, down, allowed>>
    BY <1>1, Zenon DEF SshFails
  <2> QED  BY <2>1, <2>2, AttemptInv, ZenonT(30)
<1>2. CASE Land(g)
  <2>1. /\ attempts[g].task = "connected" /\ attempt(g, "Landed")
        /\ UNCHANGED <<client, outcomes, searches, probe_task, events, hostVars,
                       dropped, up, down, allowed>>
    BY <1>2, Zenon DEF Land
  <2>2. "Landed" \in {"over"} \cup Outcome
    BY DEF Outcome
  <2> QED  BY <2>1, <2>2, AttemptInv
<1>3. CASE AttachFails(g)
  <2>1. /\ attempts[g].task \in {"attach", "connected"}
        /\ attempt(g, "Retry") \/ attempt(g, "Definite")
        /\ UNCHANGED <<client, outcomes, searches, probe_task, events, hostVars,
                       dropped, up, down, allowed>>
    BY <1>3, Zenon DEF AttachFails
  <2>2. {"Retry", "Definite"} \subseteq {"over"} \cup Outcome
    BY DEF Outcome
  <2> QED  BY <2>1, <2>2, AttemptInv
<1>4. CASE Report(g)
  <2>1. /\ attempts[g].task \in Outcome /\ attempt(g, "over")
        /\ outcomes' = <<[generation |-> g, outcome |-> attempts[g].task]>>
        /\ UNCHANGED <<client, searches, probe_task, events, hostVars,
                       dropped, up, down, allowed>>
    BY <1>4, Zenon DEF Report
  <2>2. attempts[g].task \notin {"none", "over"}
    BY <2>1 DEF Outcome
  <2> QED  BY <2>1, <2>2, AttemptInv
<1>5. CASE Abort(g)
  <2>1. /\ attempts[g].task \notin {"none", "over"} /\ attempt(g, "over")
        /\ UNCHANGED <<client, outcomes, searches, probe_task, events, hostVars,
                       dropped, up, down, allowed>>
    BY <1>5, Zenon DEF Abort
  <2> QED  BY <2>1, AttemptInv
<1> QED  BY <1>1, <1>2, <1>3, <1>4, <1>5, ZenonT(30)

\* A search reports: it is the last search, so its number was not reported before.
LEMMA SearchReportsInv ==
    ASSUME Inv, UNCHANGED allowed, NEW n \in Searches, SearchReports(n)
    PROVE  Inv'
<1>1. PICK kind \in {"Found", "NotFound"} :
        events' = Append(events, [kind |-> kind, standby |-> n, answered |-> FALSE])
  BY Zenon DEF SearchReports
<1>2. /\ client.searching /\ client.search = n
      /\ searches[n].task \in {"asked", "connected"} /\ Len(events) < 2
      /\ searches' = [searches EXCEPT ![n].task = "over"]
      /\ client' = client /\ attempts' = attempts /\ outcomes' = outcomes
      /\ probe_task' = probe_task /\ dropped' = dropped /\ up' = up /\ down' = down
      /\ UNCHANGED <<hostVars, allowed>>
  BY Zenon DEF SearchReports, Wanted
<1> DEFINE e == [kind |-> kind, standby |-> n, answered |-> FALSE]
<1>3. e \in EventRec /\ e.kind # "Probed" /\ e.standby = n
  BY DEF EventRec
<1> HIDE DEF e
<1>4. events \in Seq(EventRec) /\ events' = Append(events, e)
  BY InvTyped, <1>1 DEF TypedSearches, e
<1>5. /\ events' \in Seq(EventRec) /\ Len(events') = Len(events) + 1
      /\ Len(events) \in Nat
      /\ \A i \in 1 .. Len(events') :
           \/ i \in 1 .. Len(events) /\ events'[i] = events[i]
           \/ i = Len(events) + 1 /\ events'[i] = e
  BY <1>3, <1>4, SeqAppend, SMTT(30), Z3T(30)
<1>6. /\ searches' \in [Searches -> SearchRec] /\ searches'[n].task = "over"
      /\ \A m \in Searches : m # n => searches'[m] = searches[m]
      /\ \A m \in Searches : searches'[m].via = searches[m].via
      /\ \A m \in Searches : searches'[m].task = "none" <=> searches[m].task = "none"
  BY InvTyped, <1>2 DEF TypedSearches, SearchRec
<1>7. n \in 1 .. MaxSearches /\ n \in Nat /\ n <= MaxSearches
  <2>1. n \in 1 .. MaxSearches
    BY InvBounds, InvClient, <1>2 DEF ClientMid
  <2> QED  BY InvBounds, <2>1, Numbers, SMTT(30), Z3T(30)
<1>8. Searching(client, searches')
  <2>1. client.search \in Searches /\ (client.standby # 0 => client.standby \in Searches)
    BY InvBounds, <1>2, Numbers, SMTT(30), Z3T(30) DEF ClientRec
  <2> QED  BY InvSearching, <1>6, <2>1 DEF Searching
<1>9. FoundEvents(client, searches', events')
  <2>0. FoundEvents(client, searches, events)
    BY InvEvents DEF Events
  <2>1. \A i \in 1 .. Len(events) : events[i].standby \in Searches
    <3>1. \A i \in 1 .. Len(events) : events[i] \in EventRec
      BY <1>4, ElementOfSeq, Zenon
    <3>2. \A x \in EventRec : x.standby \in Searches
      BY DEF EventRec
    <3> QED  BY <3>1, <3>2, Zenon
  <2>2. ASSUME NEW i \in 1 .. Len(events), events[i].kind # "Probed"
        PROVE  /\ events[i].standby # n /\ events[i].standby <= client.search
               /\ searches'[events[i].standby].task = "over"
               /\ events[i].standby = client.search =>
                    client.searching \/ client.ended # "no"
    <3>1. /\ events[i].standby <= client.search
          /\ searches[events[i].standby].task = "over"
          /\ events[i].standby = client.search =>
               client.searching \/ client.ended # "no"
      BY InvEvents, <2>0, <2>2, Zenon DEF FoundEvents
    <3>2. events[i].standby # n
      BY <1>2, <3>1
    <3> QED  BY <1>6, <2>1, <3>1, <3>2
  <2>3. e.standby <= client.search /\ searches'[e.standby].task = "over"
    BY <1>2, <1>3, <1>6, <1>7, SMTT(30), Z3T(30)
  <2>4. \A i \in 1 .. Len(events') : events'[i].kind # "Probed" =>
         /\ events'[i].standby <= client.search
         /\ searches'[events'[i].standby].task = "over"
         /\ events'[i].standby = client.search => client.searching \/ client.ended # "no"
    BY <1>2, <1>5, <2>2, <2>3, Zenon
  <2>5. ASSUME NEW i \in 1 .. Len(events'), NEW k \in 1 .. Len(events'), i # k,
               events'[i].kind # "Probed", events'[k].kind # "Probed"
        PROVE  events'[i].standby # events'[k].standby
    <3>1. CASE i \in 1 .. Len(events) /\ k \in 1 .. Len(events)
      <4>1. events'[i] = events[i] /\ events'[k] = events[k]
        BY <1>5, <3>1, SMTT(30), Z3T(30)
      <4> QED  BY InvEvents, <2>0, <2>5, <3>1, <4>1, Zenon DEF FoundEvents
    <3>2. CASE i \in 1 .. Len(events) /\ k = Len(events) + 1
      <4>1. events'[i] = events[i] /\ events'[k] = e
        BY <1>5, <3>2, SMTT(30), Z3T(30)
      <4> QED  BY <1>3, <2>2, <2>5, <3>2, <4>1, Zenon
    <3>3. CASE i = Len(events) + 1 /\ k \in 1 .. Len(events)
      <4>1. events'[i] = e /\ events'[k] = events[k]
        BY <1>5, <3>3, SMTT(30), Z3T(30)
      <4> QED  BY <1>3, <2>2, <2>5, <3>3, <4>1, Zenon
    <3> QED  BY <1>5, <2>5, <3>1, <3>2, <3>3, Zenon
  <2> QED  BY InvEvents, <2>4, <2>5, Zenon DEF FoundEvents
<1>10. ProbeEvents(client, probe_task, events')
  <2>0. ProbeEvents(client, probe_task, events)
    BY InvEvents DEF Events
  <2>1. \A i \in 1 .. Len(events') : events'[i].kind = "Probed" =>
          i \in 1 .. Len(events) /\ events'[i] = events[i]
    BY <1>3, <1>5, Zenon
  <2>2. ASSUME NEW i \in 1 .. Len(events'), events'[i].kind = "Probed"
        PROVE  /\ probe_task = 0
               /\ client.probing \/ (client.standby = 0 /\ ~client.searching)
               /\ client.probe = "Pending" => events'[i].standby = client.standby
               /\ events'[i].answered =>
                    exchange[StandbyLink(events'[i].standby)] = "handed_over"
    <3>1. i \in 1 .. Len(events) /\ events'[i] = events[i]
      BY <2>1, <2>2, Zenon
    <3> QED  BY InvEvents, <2>0, <2>2, <3>1 DEF ProbeEvents
  <2>3. ASSUME NEW i \in 1 .. Len(events'), NEW k \in 1 .. Len(events'),
               events'[i].kind = "Probed", events'[k].kind = "Probed"
        PROVE  i = k
    <3>1. /\ i \in 1 .. Len(events) /\ events'[i] = events[i]
          /\ k \in 1 .. Len(events) /\ events'[k] = events[k]
      BY <2>1, <2>3, Zenon
    <3> QED  BY InvEvents, <2>0, <2>3, <3>1 DEF ProbeEvents
  <2>4. /\ probe_task # 0 => client.probing
        /\ client.probe = "Pending" /\ probe_task # 0 => probe_task = client.standby
        /\ client.probe = "Answered" =>
             exchange[StandbyLink(client.standby)] = "handed_over"
    BY InvEvents, <2>0, Zenon DEF ProbeEvents
  <2> QED  BY InvEvents, <2>2, <2>3, <2>4, Zenon DEF ProbeEvents
<1>11. Events(client, searches', probe_task, events')
  <2>1. e.standby <= MaxSearches
    BY InvBounds, <1>3, <1>7
  <2>2. \A i \in 1 .. Len(events') : events'[i].standby <= MaxSearches
    BY InvBounds, InvEvents, <1>5, <2>1, Zenon DEF Events
  <2> QED  BY InvEvents, <1>9, <1>10, <2>2, Zenon DEF Events
<1>12. Frames(client, searches', up, down)
  BY InvFrames, <1>6 DEF Frames
<1>13. TypedTasks' /\ TypedSearches' /\ TypedFrames'
  <2>1. Len(events') <= 2
    BY <1>2, <1>5, SMTT(30), Z3T(30)
  <2> QED  BY InvBounds, InvTyped, <1>2, <1>5, <1>6, <2>1, Zenon DEF TypedTasks,
              TypedSearches, TypedFrames, MaxSearches
<1>14. LoopInv(client', attempts', outcomes', searches', probe_task', events', up', down')
  BY InvFacts, <1>2, <1>8, <1>11, <1>12, Zenon DEF LoopInv
<1>15. client' \in ClientRec /\ ClientOK(client') /\ dropped \subseteq dropped'
  BY InvBounds, InvClient, <1>2, Zenon DEF ClientOK
<1> QED  BY InvFacts, <1>2, <1>13, <1>14, <1>15, StepInv, Zenon

\* A probe reports: no other probe's answer is in the channel, and a yes comes from
\* a standby the host was handed.
LEMMA ProbeReportsInv ==
    ASSUME Inv, UNCHANGED allowed, ProbeReports
    PROVE  Inv'
<1>1. PICK yes \in BOOLEAN :
        /\ yes => exchange[StandbyLink(probe_task)] = "handed_over"
        /\ events' = Append(events, [kind |-> "Probed", standby |-> probe_task,
                                     answered |-> yes])
  BY Zenon DEF ProbeReports
<1>2. /\ probe_task # 0 /\ Len(events) < 2 /\ probe_task' = 0
      /\ client' = client /\ attempts' = attempts /\ outcomes' = outcomes
      /\ searches' = searches /\ dropped' = dropped /\ up' = up /\ down' = down
      /\ UNCHANGED <<hostVars, allowed>>
  BY Zenon DEF ProbeReports
<1> DEFINE e == [kind |-> "Probed", standby |-> probe_task, answered |-> yes]
<1>3. /\ probe_task \in Searches /\ probe_task <= MaxSearches
      /\ 0 \in 0 .. MaxSearches
  BY InvBounds, InvTyped, <1>2, Numbers, SMTT(30), Z3T(30) DEF TypedSearches
<1>4. /\ e \in EventRec /\ e.kind = "Probed" /\ e.standby = probe_task
      /\ e.answered => exchange[StandbyLink(probe_task)] = "handed_over"
  BY <1>1, <1>3 DEF EventRec
<1> HIDE DEF e
<1>5. events \in Seq(EventRec) /\ events' = Append(events, e)
  BY InvTyped, <1>1 DEF TypedSearches, e
<1>6. /\ events' \in Seq(EventRec) /\ Len(events') = Len(events) + 1
      /\ Len(events) \in Nat
      /\ \A i \in 1 .. Len(events') :
           \/ i \in 1 .. Len(events) /\ events'[i] = events[i]
           \/ i = Len(events) + 1 /\ events'[i] = e
  BY <1>4, <1>5, SeqAppend, SMTT(30), Z3T(30)
<1>7. FoundEvents(client, searches, events')
  <2>1. \A i \in 1 .. Len(events') : events'[i].kind # "Probed" =>
          i \in 1 .. Len(events) /\ events'[i] = events[i]
    BY <1>4, <1>6, Zenon
  <2>2. FoundEvents(client, searches, events)
    BY InvEvents, ZenonT(30) DEF Events
  <2> QED  BY InvEvents, <2>1, <2>2 DEF FoundEvents
<1>8. ProbeEvents(client, 0, events')
  <2>0. ProbeEvents(client, probe_task, events)
    BY InvEvents DEF Events
  <2>1. \A i \in 1 .. Len(events) : events[i].kind # "Probed"
    BY InvEvents, <1>2, <2>0 DEF ProbeEvents
  <2>2. \A i \in 1 .. Len(events') : events'[i].kind = "Probed" =>
          i = Len(events) + 1 /\ events'[i] = e
    BY <1>6, <2>1, Zenon
  <2>3. client.probing /\ (client.probe = "Pending" => probe_task = client.standby)
    BY InvEvents, <1>2, <2>0 DEF ProbeEvents
  <2> QED  BY InvEvents, <1>4, <2>0, <2>2, <2>3 DEF ProbeEvents
<1>9. Events(client, searches, 0, events')
  <2>1. e.standby <= MaxSearches
    BY InvBounds, <1>3, <1>4
  <2>2. \A i \in 1 .. Len(events') : events'[i].standby <= MaxSearches
    BY InvBounds, InvEvents, <1>6, <2>1, Zenon DEF Events
  <2> QED  BY InvEvents, <1>7, <1>8, <2>2, Zenon DEF Events
<1>10. TypedTasks' /\ TypedSearches' /\ TypedFrames'
  <2>1. Len(events') <= 2
    BY <1>2, <1>6, SMTT(30), Z3T(30)
  <2> QED  BY InvBounds, InvTyped, <1>2, <1>3, <1>6, <2>1, Zenon DEF TypedTasks,
              TypedSearches, TypedFrames, MaxSearches
<1>11. LoopInv(client', attempts', outcomes', searches', probe_task', events', up', down')
  BY InvFacts, <1>2, <1>9, Zenon DEF LoopInv
<1>12. client' \in ClientRec /\ ClientOK(client') /\ dropped \subseteq dropped'
  BY InvBounds, InvClient, <1>2, Zenon DEF ClientOK
<1> QED  BY InvFacts, <1>2, <1>10, <1>11, <1>12, StepInv, Zenon

\* A frame of the host on its link: that link does not wait to be taken up.
LEMMA HostTurnInv ==
    ASSUME Inv, UNCHANGED allowed, HostTurn
    PROVE  Inv'
<1>1. /\ down' = IF host.link \in dropped THEN down ELSE down \cup {host.link}
      /\ client' = client /\ attempts' = attempts /\ outcomes' = outcomes
      /\ searches' = searches /\ probe_task' = probe_task /\ events' = events
      /\ dropped' = dropped /\ up' = up
      /\ UNCHANGED <<hostVars, allowed>>
  BY Zenon DEF HostTurn
<1>2. \A a \in Searches : host.link = StandbyLink(a) =>
        exchange[StandbyLink(a)] = "handed_over" /\ ~Waiting(StandbyLink(a))
  BY InvBounds, InvStandbys, InvPipe, LinkKinds, Numbers, SMTT(30), Z3T(30) DEF Pipe, Standbys
<1>3. Frames(client, searches, up, down')
  <2>1. \A a \in Searches : StandbyLink(a) \in down' =>
          exchange[StandbyLink(a)] = "handed_over" /\ ~Waiting(StandbyLink(a))
    BY InvFrames, <1>1, <1>2 DEF Frames
  <2> QED  BY InvFrames, <2>1 DEF Frames
<1>4. TypedTasks' /\ TypedSearches' /\ TypedFrames'
  <2>1. TypedFrames'
    BY InvTyped, <1>1 DEF TypedFrames, TypedHost, HostRec
  <2> QED  BY InvBounds, InvTyped, <1>1, <2>1, Zenon DEF TypedTasks, TypedSearches,
              MaxSearches
<1>5. LoopInv(client', attempts', outcomes', searches', probe_task', events', up', down')
  BY InvFacts, <1>1, <1>3, Zenon DEF LoopInv
<1>6. client' \in ClientRec /\ ClientOK(client') /\ dropped \subseteq dropped'
  BY InvBounds, InvClient, <1>1, Zenon DEF ClientOK
<1> QED  BY InvFacts, <1>1, <1>4, <1>5, <1>6, StepInv, Zenon

-----------------------------------------------------------------------------
(* The host, and the tasks it meets *)

\* A step beside the client: its record stays, a task of the last attempt or of a
\* search may have moved on, and no link is taken back from the session.
Beside ==
    /\ client' = client /\ outcomes' = outcomes /\ probe_task' = probe_task
    /\ events' = events /\ dropped' = dropped /\ down' = down /\ allowed' = allowed
    /\ up' \subseteq up
    /\ TypedTasks' /\ TypedSearches' /\ TypedHost'
    /\ \A g \in Attempts : \/ attempts'[g] = attempts[g]
                           \/ g = client.generation /\ attempts[g].task \in {"ssh", "attach"}
    /\ \A n \in Searches : \/ searches'[n] = searches[n]
                           \/ /\ searches[n].task = "asked"
                              /\ searches'[n].task = "connected"
                              /\ searches'[n].via = searches[n].via
    /\ \A n \in Searches : searches[n].task = "none" =>
         exchange'[StandbyLink(n)] = "none" /\ serving' # StandbyLink(n)
    /\ \A l \in Links : exchange[l] = "handed_over" => exchange'[l] = "handed_over"

\* What such a step leaves as it was.
LEMMA BesideFacts ==
    ASSUME Inv, Beside
    PROVE  /\ (allowed \in Bounds)' /\ (client \in ClientRec)' /\ ClientOK(client)'
           /\ TypedTasks' /\ TypedSearches' /\ TypedHost' /\ TypedFrames'
           /\ Tasks(client, attempts, outcomes)' /\ Searching(client, searches)'
           /\ Events(client, searches, probe_task, events)'
           /\ \A g \in Attempts : Running(g, attempts', outcomes') =>
                Running(g, attempts, outcomes)
           /\ \A g \in Attempts : MayLand(g, client', attempts', outcomes') =>
                MayLand(g, client, attempts, outcomes)
<1> USE DEF Beside
<1>1. (allowed \in Bounds)' /\ MaxAttempts' = MaxAttempts /\ MaxSearches' = MaxSearches
  BY InvBounds, Zenon DEF MaxAttempts, MaxSearches
<1>2. (client \in ClientRec)' /\ ClientOK(client)'
  BY InvBounds, InvClient, <1>1, SMTT(30), Z3T(30) DEF ClientRec, ClientOK, ClientMid, Outage
<1>3. TypedFrames'
  BY InvTyped DEF TypedFrames
<1>4. client.generation \in Nat /\ Attempts \subseteq Nat
  BY InvBounds, Numbers, SMTT(30), Z3T(30) DEF ClientRec
<1>5. Tasks(client, attempts, outcomes)'
  BY InvTasks, <1>4, SMTT(30), Z3T(30) DEF Tasks
<1>6. \A g \in Attempts : Running(g, attempts', outcomes') =>
        Running(g, attempts, outcomes)
  BY DEF Running
<1>7. \A g \in Attempts : MayLand(g, client', attempts', outcomes') =>
        MayLand(g, client, attempts, outcomes)
  BY <1>6, ZenonT(30) DEF MayLand
<1>8. /\ client.standby # 0 => client.standby \in Searches
      /\ client.searching => client.search \in Searches
  BY InvBounds, InvClient, Numbers, SMTT(30), Z3T(30) DEF ClientRec, ClientMid
<1>9. \A n \in Searches : /\ searches'[n].via = searches[n].via
                          /\ searches'[n].task = "none" <=> searches[n].task = "none"
                          /\ searches[n].task = "over" => searches'[n].task = "over"
  BY ZenonT(30)
<1>10. Searching(client, searches)'
  BY InvSearching, <1>1, <1>8, <1>9 DEF Searching
<1>11. \A i \in 1 .. Len(events) : events[i].standby \in Searches
  <2>1. \A i \in 1 .. Len(events) : events[i] \in EventRec
    BY InvTyped, ElementOfSeq, Zenon DEF TypedSearches
  <2>2. \A x \in EventRec : x.standby \in Searches
    BY ZenonT(30) DEF EventRec
  <2> QED  BY <2>1, <2>2, Zenon
<1>12. FoundEvents(client, searches, events)'
  BY InvEvents, <1>9, <1>11, SMTT(30), Z3T(30) DEF Events, FoundEvents
<1>13. ProbeEvents(client, probe_task, events)'
  <2>1. \A n \in Searches : exchange[StandbyLink(n)] = "handed_over" =>
          exchange'[StandbyLink(n)] = "handed_over"
    BY LinkCases, Zenon
  <2>2. client.probe = "Answered" => client.standby \in Searches
    BY InvClient, <1>8, ZenonT(30) DEF ClientMid
  <2> QED  BY InvEvents, <1>11, <2>1, <2>2, SMTT(30), Z3T(30) DEF Events, ProbeEvents
<1>14. Events(client, searches, probe_task, events)'
  BY InvEvents, <1>1, <1>12, <1>13 DEF Events
<1> QED  BY <1>1, <1>2, <1>3, <1>5, <1>6, <1>7, <1>10, <1>14, Zenon

\* A link moves on in the exchange: the session has not heard of it yet.
LEMMA PipeInv ==
    ASSUME Inv, Beside, UNCHANGED <<attaches, host, closed, up>>,
           \A l \in Links : exchange'[l] = "handed_over" => exchange[l] = "handed_over",
           \A n \in Searches : exchange'[StandbyLink(n)] \in {"connected", "established"} =>
               \/ exchange[StandbyLink(n)] \in {"connected", "established"}
               \/ n = client.search,
           Pipe', Uncommitted(attempts)', Order'
    PROVE  Inv'
<1> USE BesideFacts
<1>1. /\ attaches' = attaches /\ host' = host /\ closed' = closed /\ up' = up
      /\ client' = client /\ outcomes' = outcomes /\ down' = down /\ dropped' = dropped
      /\ \A l \in Links : exchange'[l] = "handed_over" <=> exchange[l] = "handed_over"
      /\ \A l : Waiting(l)' <=> Waiting(l)
  BY Zenon DEF Beside, Waiting
<1>2. \A n \in Searches : StandbyLink(n) \in Links
  BY LinkCases
<1>3. Closes(client)'
  BY InvCloses, <1>1, Zenon DEF Closes
<1>4. Standbys(client)'
  <2>1. ASSUME NEW a \in Searches, NEW b \in Searches,
               exchange'[StandbyLink(a)] = "handed_over",
               exchange'[StandbyLink(b)] \in {"connected", "established"}
        PROVE  a < b
    <3>1. exchange[StandbyLink(a)] = "handed_over"
      BY <1>1, <1>2, <2>1, Zenon
    <3>2. CASE exchange[StandbyLink(b)] \in {"connected", "established"}
      BY InvStandbys, <3>1, <3>2, Zenon DEF Standbys
    <3>3. CASE b = client.search
      <4>1. a <= client.search
        BY InvSearching, <3>1, Zenon DEF Searching
      <4>2. a # b
        BY <2>1, Zenon
      <4> QED  BY InvBounds, <3>3, <4>1, <4>2, Numbers, SMTT(30), Z3T(30)
    <3> QED  BY <2>1, <3>2, <3>3, Zenon
  <2> QED  BY InvStandbys, <1>1, <2>1, Zenon DEF Standbys
<1>5. Frames(client, searches, up, down)'
  <2>1. \A n \in Searches : searches[n].task = "none" => searches'[n].task = "none"
    BY Zenon DEF Beside
  <2> QED  BY InvFrames, <1>1, <1>2, <2>1, Zenon DEF Frames, Outage
<1>6. Landing(client, attempts, outcomes, up)'
  BY InvLanding, <1>1, Zenon DEF Landing
<1>7. Answering(client)' /\ Deciding(client, attempts, outcomes)'
  BY InvAnswering, <1>1, Zenon DEF Answering, Deciding
<1>8. EveryLinkIsHeldOrClosed'
  BY InvHeld, <1>1, Zenon DEF EveryLinkIsHeldOrClosed
<1> QED  BY <1>3, <1>4, <1>5, <1>6, <1>7, <1>8, Typed, Zenon DEF Inv, LoopInv

\* The exchange of the link being served moves on, or fails.
LEMMA ServingInv ==
    ASSUME Inv, TypedTasks', TypedSearches',
           UNCHANGED <<client, outcomes, probe_task, events, inbox, attaches, host,
                       closed, dropped, up, down, allowed>>,
           \A g \in Attempts :
               /\ \/ attempts'[g] = attempts[g]
                  \/ g = client.generation /\ attempts[g].task \in {"ssh", "attach"}
               /\ attempts'[g].commitment = attempts[g].commitment,
           \A n \in Searches : \/ searches'[n] = searches[n]
                               \/ /\ searches[n].task = "asked"
                                  /\ searches'[n].task = "connected"
                                  /\ searches'[n].via = searches[n].via,
           serving # None,
           NEW v \in {"connected", "established", "failed"},
           exchange' = [exchange EXCEPT ![serving] = v],
           serving' = serving \/ (serving' = None /\ v = "failed"),
           \A n \in Searches : v # "failed" /\ serving = StandbyLink(n) =>
               \/ exchange[serving] \in {"connected", "established"}
               \/ n = client.search
    PROVE  Inv'
<1>1. /\ client' = client /\ outcomes' = outcomes /\ probe_task' = probe_task
      /\ events' = events /\ inbox' = inbox /\ attaches' = attaches /\ host' = host
      /\ closed' = closed /\ dropped' = dropped /\ up' = up /\ down' = down
      /\ allowed' = allowed
  BY Zenon
<1>2. /\ serving \in Links /\ exchange[serving] # "handed_over"
      /\ exchange' \in [Links -> Stage] /\ exchange'[serving] = v
      /\ \A l \in Links : l # serving => exchange'[l] = exchange[l]
      /\ v \notin {"none", "handed_over"}
  BY InvTyped, InvPipe, Zenon DEF TypedHost, Stage, Pipe
<1>3. \A l \in Links : exchange'[l] = "handed_over" <=> exchange[l] = "handed_over"
  BY <1>2
<1>4. Beside
  <2>1. TypedHost'
    BY InvTyped, <1>1, <1>2, Zenon DEF TypedHost
  <2>2. \A n \in Searches : searches[n].task = "none" =>
          exchange'[StandbyLink(n)] = "none" /\ serving' # StandbyLink(n)
    <3>1. SUFFICES ASSUME NEW n \in Searches, searches[n].task = "none"
                   PROVE  exchange'[StandbyLink(n)] = "none" /\ serving' # StandbyLink(n)
      OBVIOUS
    <3>2. /\ StandbyLink(n) \in Links /\ StandbyLink(n) # None
          /\ exchange[StandbyLink(n)] = "none" /\ serving # StandbyLink(n)
      BY InvSearching, <3>1, LinkKinds, LinkCases, Zenon DEF Searching
    <3> QED  BY <1>2, <3>2, Zenon
  <2>3. up' \subseteq up
    BY <1>1, ZenonT(30)
  <2> QED  BY <1>1, <1>3, <2>1, <2>2, <2>3, Zenon DEF Beside
<1>5. Pipe'
  <2>1. \A i \in 1 .. Len(inbox) : inbox[i] \in Links
    BY InvTyped, ElementOfSeq, Zenon DEF TypedHost
  <2>2. \A i \in 1 .. Len(inbox) : /\ inbox[i] # First /\ ~IsStandby(inbox[i])
                                   /\ exchange'[inbox[i]] # "handed_over"
                                   /\ inbox[i] # serving'
    <3>1. SUFFICES ASSUME NEW i \in 1 .. Len(inbox)
                   PROVE  /\ inbox[i] # First /\ ~IsStandby(inbox[i])
                          /\ exchange'[inbox[i]] # "handed_over" /\ inbox[i] # serving'
      OBVIOUS
    <3>2. /\ inbox[i] \in Links /\ inbox[i] # None
          /\ inbox[i] # First /\ ~IsStandby(inbox[i])
          /\ exchange[inbox[i]] # "handed_over" /\ inbox[i] # serving
      BY InvPipe, <2>1, LinkCases, Zenon DEF Pipe
    <3> QED  BY <1>3, <3>2, Zenon
  <2>3. \A o \in Others : exchange'[Other(o)] = "none" =>
          serving' # Other(o) /\ \A i \in 1 .. Len(inbox) : inbox[i] # Other(o)
    <3>1. SUFFICES ASSUME NEW o \in Others, exchange'[Other(o)] = "none"
                   PROVE  /\ serving' # Other(o)
                          /\ \A i \in 1 .. Len(inbox) : inbox[i] # Other(o)
      OBVIOUS
    <3>2. Other(o) # None /\ exchange[Other(o)] = "none"
      BY <1>2, <3>1, LinkKinds, LinkCases, Zenon
    <3>3. serving # Other(o) /\ \A i \in 1 .. Len(inbox) : inbox[i] # Other(o)
      BY InvPipe, <3>2, Zenon DEF Pipe
    <3> QED  BY <3>2, <3>3, Zenon
  <2>4. /\ exchange'[First] = "none" /\ serving' # First
        /\ serving' # None => exchange'[serving'] # "handed_over"
    BY InvPipe, <1>2, LinkKinds, LinkCases, Zenon DEF Pipe
  <2>5. \A n \in Searches :
          exchange'[StandbyLink(n)] \in {"connected", "established"} =>
            serving' = StandbyLink(n)
    BY InvPipe, <1>2, LinkCases, Zenon DEF Pipe
  <2>6. /\ attaches # <<>> => exchange'[attaches[1]] = "handed_over"
        /\ host.link # First => exchange'[host.link] = "handed_over"
        /\ host.parked # None => exchange'[host.parked] = "handed_over"
    <3>1. /\ host.link \in Links /\ (host.parked # None => host.parked \in Links)
      BY InvTyped, Zenon DEF TypedHost, HostRec
    <3>2. attaches # <<>> => attaches[1] \in Links
      BY InvTyped, SeqTail, Zenon DEF TypedHost
    <3> QED  BY InvPipe, <1>3, <3>1, <3>2, Zenon DEF Pipe
  <2>7. /\ \A i, j \in 1 .. Len(inbox) : inbox[i] = inbox[j] => i = j
        /\ host.parked # None => IsStandby(host.parked)
    BY InvPipe, Zenon DEF Pipe
  <2> QED  BY <1>1, <2>2, <2>3, <2>4, <2>5, <2>6, <2>7, SMTT(30), Z3T(30) DEF Pipe
<1>6. Order'
  <2>1. \A g \in Attempts : /\ Attempt(g) \in Links
                            /\ serving' = Attempt(g) => serving = Attempt(g)
                            /\ InInbox(Attempt(g))' <=> InInbox(Attempt(g))
    BY <1>1, LinkKinds, LinkCases, Zenon DEF InInbox
  <2> QED  BY InvOrder, <1>1, <1>3, <2>1, SMTT(30), Z3T(30) DEF Order
<1>7. Uncommitted(attempts)'
  <2>1. \A g \in Attempts : /\ Attempt(g) \in Links /\ Attempt(g) # None
                            /\ InInbox(Attempt(g))' <=> InInbox(Attempt(g))
    BY <1>1, LinkKinds, LinkCases, Zenon DEF InInbox
  <2> QED  BY InvUncommitted, <1>2, <2>1, SMTT(30), Z3T(30) DEF Uncommitted
<1>8. \A n \in Searches : exchange'[StandbyLink(n)] \in {"connected", "established"} =>
        \/ exchange[StandbyLink(n)] \in {"connected", "established"}
        \/ n = client.search
  BY <1>2, LinkCases, Zenon
<1> QED  BY <1>1, <1>3, <1>4, <1>5, <1>6, <1>7, <1>8, PipeInv, Zenon

\* The host gives an exchange up.
LEMMA ServeFailsInv ==
    ASSUME Inv, UNCHANGED allowed, ServeFails
    PROVE  Inv'
<1>1. /\ serving # None /\ serving' = None
      /\ exchange' = [exchange EXCEPT ![serving] = "failed"]
      /\ UNCHANGED <<client, outcomes, probe_task, events, inbox, attaches, host,
                     closed, dropped, up, down, allowed>>
      /\ attempts' = attempts /\ searches' = searches
  BY Zenon DEF ServeFails, clientVars
<1>2. TypedTasks' /\ TypedSearches'
  BY InvBounds, InvTyped, <1>1, Zenon DEF TypedTasks, TypedSearches, MaxSearches
<1> QED  BY <1>1, <1>2, ServingInv, Zenon

\* The host says yes.
LEMMA EstablishInv ==
    ASSUME Inv, UNCHANGED allowed, Establish
    PROVE  Inv'
<1>1. /\ serving # None /\ serving' = serving /\ exchange[serving] = "connected"
      /\ exchange' = [exchange EXCEPT ![serving] = "established"]
      /\ UNCHANGED <<client, outcomes, probe_task, events, inbox, attaches, host,
                     closed, dropped, up, down, allowed>>
      /\ attempts' = attempts /\ searches' = searches
  BY Zenon DEF Establish, clientVars
<1>2. TypedTasks' /\ TypedSearches'
  BY InvBounds, InvTyped, <1>1, Zenon DEF TypedTasks, TypedSearches, MaxSearches
<1> QED  BY <1>1, <1>2, ServingInv, Zenon

\* An attempt and the host connect.
LEMMA ConnectInv ==
    ASSUME Inv, UNCHANGED allowed, NEW g \in Attempts, Connect(g)
    PROVE  Inv'
<1>1. /\ attempts[g].task = "attach" /\ client.generation = g /\ serving = Attempt(g)
      /\ attempts' = [attempts EXCEPT ![g].task = "connected"]
      /\ exchange' = [exchange EXCEPT ![serving] = "connected"]
      /\ serving' = serving /\ searches' = searches
      /\ UNCHANGED <<client, outcomes, probe_task, events, inbox, attaches, host,
                     closed, dropped, up, down, allowed>>
  BY Zenon DEF Connect, InFlight, attempt
<1>2. /\ attempts' \in [Attempts -> TaskRec]
      /\ \A h \in Attempts : attempts'[h].commitment = attempts[h].commitment
      /\ \A h \in Attempts : h # g => attempts'[h] = attempts[h]
  BY InvTyped, <1>1 DEF TypedTasks, TaskRec
<1>3. TypedTasks' /\ TypedSearches'
  BY InvBounds, InvTyped, <1>1, <1>2, Zenon DEF TypedTasks, TypedSearches, MaxSearches
<1>4. serving # None /\ \A n \in Searches : serving # StandbyLink(n)
  BY <1>1, LinkKinds
<1>5. \A h \in Attempts :
        /\ \/ attempts'[h] = attempts[h]
           \/ h = client.generation /\ attempts[h].task \in {"ssh", "attach"}
        /\ attempts'[h].commitment = attempts[h].commitment
  BY <1>1, <1>2
<1> QED  BY <1>1, <1>3, <1>4, <1>5, ServingInv, Zenon

\* A search and the host connect: it is the last search.
LEMMA SearchConnectInv ==
    ASSUME Inv, UNCHANGED allowed, NEW n \in Searches, SearchConnect(n)
    PROVE  Inv'
<1>1. /\ searches[n].task = "asked" /\ client.search = n /\ serving = StandbyLink(n)
      /\ searches' = [searches EXCEPT ![n].task = "connected"]
      /\ exchange' = [exchange EXCEPT ![serving] = "connected"]
      /\ serving' = serving /\ attempts' = attempts
      /\ UNCHANGED <<client, outcomes, probe_task, events, inbox, attaches, host,
                     closed, dropped, up, down, allowed>>
  BY Zenon DEF SearchConnect, Wanted
<1>2. /\ searches' \in [Searches -> SearchRec]
      /\ \A m \in Searches : \/ searches'[m] = searches[m]
                             \/ /\ searches[m].task = "asked"
                                /\ searches'[m].task = "connected"
                                /\ searches'[m].via = searches[m].via
  BY InvTyped, <1>1 DEF TypedSearches, SearchRec
<1>3. TypedTasks' /\ TypedSearches'
  BY InvBounds, InvTyped, <1>1, <1>2, Zenon DEF TypedTasks, TypedSearches, MaxSearches
<1>4. serving # None /\ \A m \in Searches : serving = StandbyLink(m) => m = client.search
  BY <1>1, LinkKinds
<1> QED  BY <1>1, <1>2, <1>3, <1>4, ServingInv, Zenon

\* A primary joins the end of the queue.
LEMMA QueuedInv ==
    ASSUME Inv, Beside, UNCHANGED <<serving, attaches, host, closed, up>>,
           NEW l \in Links, l # First, ~IsStandby(l), ~InInbox(l), l # serving,
           inbox' = Append(inbox, l), exchange' \in [Links -> Stage],
           exchange[l] = "none", exchange'[l] \in {"none", "connected"},
           \A k \in Links : k # l => exchange'[k] = exchange[k],
           \A o \in Others : l = Other(o) => exchange'[l] # "none",
           \A a, b \in Attempts :
               /\ l = Attempt(b)
               /\ \/ exchange[Attempt(a)] = "handed_over" \/ serving = Attempt(a)
                  \/ InInbox(Attempt(a))
               => a < b,
           \A g \in Attempts :
               attempts'[g].commitment # "COMMITTED" =>
                   attempts[g].commitment # "COMMITTED" /\ l # Attempt(g)
    PROVE  Inv'
<1>1. serving' = serving /\ attaches' = attaches /\ host' = host /\ closed' = closed
  BY Zenon
<1>2. /\ inbox' \in Seq(Links) /\ Len(inbox') = Len(inbox) + 1 /\ Len(inbox) \in Nat
      /\ \A i \in 1 .. Len(inbox') :
           \/ i \in 1 .. Len(inbox) /\ inbox'[i] = inbox[i]
           \/ i = Len(inbox) + 1 /\ inbox'[i] = l
      /\ \A i, k \in 1 .. Len(inbox') :
           i < k => i \in 1 .. Len(inbox) /\ inbox'[i] = inbox[i]
  <2>1. inbox \in Seq(Links)
    BY InvTyped, Zenon DEF TypedHost
  <2> QED  BY <2>1, SeqAppend, SMTT(30), Z3T(30)
<1>3. /\ \A i \in 1 .. Len(inbox) : inbox[i] \in Links /\ inbox[i] # l
  <2>1. \A i \in 1 .. Len(inbox) : inbox[i] \in Links
    BY InvTyped, ElementOfSeq, Zenon DEF TypedHost
  <2> QED  BY <2>1 DEF InInbox
<1>4. \A k : InInbox(k)' => InInbox(k) \/ k = l
  BY <1>2, Zenon DEF InInbox
<1>5. \A k \in Links : exchange'[k] = "handed_over" <=> exchange[k] = "handed_over"
  OBVIOUS
<1>6. Pipe'
  <2>1. \A i \in 1 .. Len(inbox') : /\ inbox'[i] # First /\ ~IsStandby(inbox'[i])
                                    /\ exchange'[inbox'[i]] # "handed_over"
                                    /\ inbox'[i] # serving
    <3>1. /\ l # First /\ ~IsStandby(l) /\ l # serving /\ exchange'[l] # "handed_over"
      BY ZenonT(30)
    <3>2. \A i \in 1 .. Len(inbox) : /\ inbox[i] # First /\ ~IsStandby(inbox[i])
                                     /\ exchange'[inbox[i]] # "handed_over"
                                     /\ inbox[i] # serving
      BY InvPipe, <1>3, <1>5, ZenonT(30) DEF Pipe
    <3> QED  BY ONLY <1>2, <3>1, <3>2, Zenon
  <2>2. \A i, k \in 1 .. Len(inbox') : inbox'[i] = inbox'[k] => i = k
    <3>1. \A i, k \in 1 .. Len(inbox) : inbox[i] = inbox[k] => i = k
      BY InvPipe, Zenon DEF Pipe
    <3> QED  BY ONLY <1>2, <1>3, <3>1, ZenonT(30)
  <2>3. \A o \in Others : exchange'[Other(o)] = "none" =>
          serving # Other(o) /\ \A i \in 1 .. Len(inbox') : inbox'[i] # Other(o)
    <3>1. SUFFICES ASSUME NEW o \in Others, exchange'[Other(o)] = "none"
                   PROVE  /\ serving # Other(o)
                          /\ \A i \in 1 .. Len(inbox') : inbox'[i] # Other(o)
      OBVIOUS
    <3>2. Other(o) # l /\ exchange[Other(o)] = "none"
      BY <3>1, LinkCases, Zenon
    <3> QED  BY InvPipe, <1>2, <3>2, Zenon DEF Pipe
  <2>4. /\ exchange'[First] = "none"
        /\ serving # None => exchange'[serving] # "handed_over"
    BY InvTyped, InvPipe, <1>5, LinkCases, Zenon DEF Pipe, TypedHost
  <2>5. \A n \in Searches :
          exchange'[StandbyLink(n)] \in {"connected", "established"} =>
            serving = StandbyLink(n)
    <3>1. SUFFICES ASSUME NEW n \in Searches,
                          exchange'[StandbyLink(n)] \in {"connected", "established"}
                   PROVE  serving = StandbyLink(n)
      BY ZenonT(30)
    <3>2. StandbyLink(n) \in Links /\ StandbyLink(n) # l
      BY LinkKinds, LinkCases, SMTT(30), Z3T(30)
    <3>3. exchange'[StandbyLink(n)] = exchange[StandbyLink(n)]
      BY <3>2, Zenon
    <3> QED  BY InvPipe, <3>1, <3>3, Zenon DEF Pipe
  <2>6. /\ attaches # <<>> => exchange'[attaches[1]] = "handed_over"
        /\ host.link # First => exchange'[host.link] = "handed_over"
        /\ host.parked # None => exchange'[host.parked] = "handed_over"
    <3>1. /\ host.link \in Links /\ (host.parked # None => host.parked \in Links)
      BY InvTyped, Zenon DEF TypedHost, HostRec
    <3>2. attaches # <<>> => attaches[1] \in Links
      BY InvTyped, SeqTail, ZenonT(30) DEF TypedHost
    <3> QED  BY InvPipe, <1>5, <3>1, <3>2, Zenon DEF Pipe
  <2> QED  BY InvPipe, <1>1, <2>1, <2>2, <2>3, <2>4, <2>5, <2>6, ZenonT(30) DEF Pipe
<1>7. Order'
  <2>1. \A g \in Attempts : Attempt(g) \in Links
    BY LinkCases, Zenon
  <2>2. ASSUME NEW a \in Attempts, NEW b \in Attempts,
               NEW i \in 1 .. Len(inbox'), NEW k \in 1 .. Len(inbox'),
               i < k, inbox'[i] = Attempt(a), inbox'[k] = Attempt(b)
        PROVE  a < b
    <3>1. i \in 1 .. Len(inbox) /\ inbox'[i] = inbox[i]
      BY <1>2, <2>2, Zenon
    <3>2. CASE k \in 1 .. Len(inbox) /\ inbox'[k] = inbox[k]
      BY InvOrder, <2>2, <3>1, <3>2, Zenon DEF Order
    <3>3. CASE inbox'[k] = l
      <4>1. InInbox(Attempt(a))
        BY <2>2, <3>1, Zenon DEF InInbox
      <4> QED  BY <2>2, <3>3, <4>1, Zenon
    <3> QED  BY <1>2, <3>2, <3>3, ZenonT(30)
  <2>3. ASSUME NEW a \in Attempts, NEW b \in Attempts, InInbox(Attempt(b))',
               exchange[Attempt(a)] = "handed_over" \/ serving = Attempt(a)
        PROVE  a < b
    BY InvOrder, <1>4, <2>3, Zenon DEF Order
  <2>4. \A a, b \in Attempts :
          /\ host.link = Attempt(a) /\ attaches = <<Attempt(b)>> => a < b
          /\ closed[Attempt(a)].by = Attempt(b) => a < b
          /\ exchange[Attempt(a)] = "handed_over" /\ serving = Attempt(b) => a < b
    BY InvOrder, Zenon DEF Order
  <2>5. \A a, b \in Attempts :
          /\ exchange'[Attempt(a)] = "handed_over" /\ serving = Attempt(b) => a < b
          /\ exchange'[Attempt(a)] = "handed_over" /\ InInbox(Attempt(b))' => a < b
          /\ serving = Attempt(a) /\ InInbox(Attempt(b))' => a < b
          /\ \A i, k \in 1 .. Len(inbox') :
               i < k /\ inbox'[i] = Attempt(a) /\ inbox'[k] = Attempt(b) => a < b
    BY ONLY <1>5, <2>1, <2>2, <2>3, <2>4, ZenonT(30)
  <2> QED  BY ONLY <1>1, <2>4, <2>5, ZenonT(30) DEF Order
<1>8. Uncommitted(attempts)'
  BY InvUncommitted, <1>1, <1>4, LinkCases, Zenon DEF Uncommitted
<1>9. \A n \in Searches : exchange'[StandbyLink(n)] = exchange[StandbyLink(n)]
  BY InvFacts, LinkKinds, LinkCases, ZenonT(30)
<1> QED  BY <1>5, <1>6, <1>7, <1>8, <1>9, PipeInv, Zenon

\* Another client joins the queue.
LEMMA OtherAsksInv ==
    ASSUME Inv, UNCHANGED allowed, NEW o \in Others, OtherAsks(o)
    PROVE  Inv'
<1> DEFINE l == Other(o)
<1>1. /\ exchange[l] = "none" /\ exchange' = [exchange EXCEPT ![l] = "connected"]
      /\ inbox' = Append(inbox, l)
      /\ UNCHANGED <<serving, attaches, host, closed, up>>
      /\ client' = client /\ attempts' = attempts /\ outcomes' = outcomes
      /\ searches' = searches /\ probe_task' = probe_task /\ events' = events
      /\ dropped' = dropped /\ down' = down /\ allowed' = allowed
  BY Zenon DEF OtherAsks, clientVars
<1>2. /\ l \in Links /\ l # First /\ ~IsStandby(l) /\ \A g : l # Attempt(g)
      /\ \A n : l # StandbyLink(n)
  BY LinkKinds, LinkCases
<1> HIDE DEF l
<1>3. ~InInbox(l) /\ l # serving
  BY InvPipe, <1>1, Zenon DEF InInbox, Pipe, l
<1>4. /\ exchange' \in [Links -> Stage] /\ exchange'[l] = "connected"
      /\ \A k \in Links : k # l => exchange'[k] = exchange[k]
  BY InvTyped, <1>1, <1>2 DEF TypedHost, Stage
<1>5. Beside
  <2>1. TypedTasks' /\ TypedSearches'
    BY InvBounds, InvTyped, <1>1, Zenon DEF TypedTasks, TypedSearches, MaxSearches
  <2>2. TypedHost'
    <3>1. inbox' \in Seq(Links)
      BY InvTyped, <1>1, <1>2, SeqAppend DEF TypedHost
    <3> QED  BY InvTyped, <1>1, <1>4, <3>1, Zenon DEF TypedHost
  <2>3. \A n \in Searches : exchange'[StandbyLink(n)] = exchange[StandbyLink(n)]
    BY <1>2, <1>4, LinkCases
  <2>4. \A n \in Searches : searches[n].task = "none" =>
          exchange'[StandbyLink(n)] = "none" /\ serving' # StandbyLink(n)
    BY InvSearching, <1>1, <2>3 DEF Searching
  <2>5. \A k \in Links : exchange[k] = "handed_over" => exchange'[k] = "handed_over"
    BY <1>1, <1>4
  <2>6. up' \subseteq up
    BY <1>1
  <2> QED  BY <1>1, <2>1, <2>2, <2>4, <2>5, <2>6, Zenon DEF Beside
<1>6. /\ \A a, b \in Attempts :
           /\ l = Attempt(b)
           /\ \/ exchange[Attempt(a)] = "handed_over" \/ serving = Attempt(a)
              \/ InInbox(Attempt(a))
           => a < b
      /\ \A g \in Attempts :
           attempts'[g].commitment # "COMMITTED" =>
               attempts[g].commitment # "COMMITTED" /\ l # Attempt(g)
      /\ exchange'[l] \in {"none", "connected"}
      /\ \A p \in Others : l = Other(p) => exchange'[l] # "none"
  BY <1>1, <1>2, <1>4, Zenon
<1> QED  BY <1>1, <1>2, <1>3, <1>4, <1>5, <1>6, QueuedInv, Zenon

\* The attempt sends its Attach: it is the last one, so it queues behind every
\* earlier attempt; or it is told that it was abandoned.
LEMMA CommitInv ==
    ASSUME Inv, UNCHANGED allowed, NEW g \in Attempts, Commit(g)
    PROVE  Inv'
<1>1. attempts[g].task = "ssh" /\ g = client.generation
  <2>1. attempts[g].task = "ssh"
    BY Zenon DEF Commit
  <2> QED  BY InvTasks, <2>1 DEF Tasks
<1>2. CASE attempts[g].commitment # "CONNECTING"
  <2>1. /\ attempt(g, "Retry")
        /\ UNCHANGED <<client, outcomes, searches, probe_task, events, hostVars,
                       dropped, up, down, allowed>>
    BY <1>2, Zenon DEF Commit, hostVars
  <2>2. "Retry" \in {"over"} \cup Outcome
    BY DEF Outcome
  <2> QED  BY <1>1, <2>1, <2>2, AttemptInv, Zenon
<1>3. CASE attempts[g].commitment = "CONNECTING"
  <2> DEFINE l == Attempt(g)
  <2>1. /\ attempts' = [attempts EXCEPT ![g] = [task |-> "attach",
                                                commitment |-> "COMMITTED"]]
        /\ inbox' = Append(inbox, l)
        /\ UNCHANGED <<serving, attaches, host, closed, up>>
        /\ client' = client /\ outcomes' = outcomes /\ exchange' = exchange
        /\ searches' = searches /\ probe_task' = probe_task /\ events' = events
        /\ dropped' = dropped /\ down' = down /\ allowed' = allowed
    BY <1>3, Zenon DEF Commit
  <2>2. /\ l \in Links /\ l # First /\ ~IsStandby(l) /\ \A o : l # Other(o)
        /\ \A n : l # StandbyLink(n) /\ \A h : l = Attempt(h) => h = g
    BY LinkKinds, LinkCases
  <2>3. exchange[l] = "none" /\ serving # l /\ ~InInbox(l)
    BY InvUncommitted, <1>3 DEF Uncommitted
  <2>4. /\ attempts' \in [Attempts -> TaskRec] /\ attempts'[g].commitment = "COMMITTED"
        /\ \A h \in Attempts : h # g => attempts'[h] = attempts[h]
    BY InvTyped, <2>1, ZenonT(30) DEF TypedTasks, TaskRec
  <2>5. ASSUME NEW a \in Attempts,
               \/ exchange[Attempt(a)] = "handed_over" \/ serving = Attempt(a)
               \/ InInbox(Attempt(a))
        PROVE  a < g
    <3>1. attempts[a].commitment = "COMMITTED"
      BY InvUncommitted, <2>5, Zenon DEF Uncommitted
    <3>2. a # g /\ ~(a > client.generation)
      BY InvTasks, <1>3, <3>1 DEF Tasks
    <3> QED  BY InvBounds, <1>1, <3>2, AttemptOrder, Zenon
  <2> HIDE DEF l
  <2>6. Beside
    <3>1. TypedTasks' /\ TypedSearches'
      BY InvBounds, InvTyped, <2>1, <2>4, Zenon DEF TypedTasks, TypedSearches,
         MaxSearches
    <3>2. TypedHost'
      <4>1. inbox' \in Seq(Links)
        BY InvTyped, <2>1, <2>2, SeqAppend, Zenon DEF TypedHost
      <4> QED  BY InvTyped, <2>1, <4>1, Zenon DEF TypedHost
    <3>3. \A n \in Searches : searches[n].task = "none" =>
            exchange'[StandbyLink(n)] = "none" /\ serving' # StandbyLink(n)
      BY InvSearching, <2>1, Zenon DEF Searching
    <3>4. up' \subseteq up
      BY <2>1
    <3>5. \A h \in Attempts :
            \/ attempts'[h] = attempts[h]
            \/ h = client.generation /\ attempts[h].task \in {"ssh", "attach"}
      BY <1>1, <2>4
    <3> QED  BY <2>1, <3>1, <3>2, <3>3, <3>4, <3>5, Zenon DEF Beside
  <2>7. /\ \A a, b \in Attempts :
             /\ l = Attempt(b)
             /\ \/ exchange[Attempt(a)] = "handed_over" \/ serving = Attempt(a)
                \/ InInbox(Attempt(a))
             => a < b
        /\ \A h \in Attempts :
             attempts'[h].commitment # "COMMITTED" =>
                 attempts[h].commitment # "COMMITTED" /\ l # Attempt(h)
        /\ \A o \in Others : l = Other(o) => exchange'[l] # "none"
    BY <2>2, <2>4, <2>5, Zenon
  <2>8. exchange'[l] \in {"none", "connected"} /\ exchange' \in [Links -> Stage]
    BY InvTyped, <2>1, <2>3 DEF TypedHost
  <2> QED  BY <2>1, <2>2, <2>3, <2>6, <2>7, <2>8, QueuedInv, Zenon
<1> QED  BY <1>2, <1>3

\* The host serves the head of its queue; a standby it drops for it had not got far
\* enough for the session to hear of it.
LEMMA ServePrimaryInv ==
    ASSUME Inv, UNCHANGED allowed, ServePrimary
    PROVE  Inv'
<1> DEFINE l == Head(inbox)
<1>1. /\ inbox # <<>>
      /\ serving = None \/ (IsStandby(serving) /\ ~Said(serving))
      /\ serving' = l /\ inbox' = Tail(inbox)
      /\ exchange' = IF serving = None THEN exchange
                     ELSE [exchange EXCEPT ![serving] = "failed"]
      /\ UNCHANGED <<attaches, host, closed, up>>
      /\ attaches' = attaches /\ host' = host /\ closed' = closed /\ up' = up
      /\ client' = client /\ attempts' = attempts /\ outcomes' = outcomes
      /\ searches' = searches /\ probe_task' = probe_task /\ events' = events
      /\ dropped' = dropped /\ down' = down /\ allowed' = allowed
  BY Zenon DEF ServePrimary, clientVars
<1>2. /\ inbox' \in Seq(Links) /\ 1 \in 1 .. Len(inbox) /\ l = inbox[1]
      /\ l \in Links /\ Len(inbox) \in Nat
      /\ \A i \in 1 .. Len(inbox') :
           i + 1 \in 1 .. Len(inbox) /\ i + 1 # 1 /\ inbox'[i] = inbox[i + 1]
      /\ \A i, k \in 1 .. Len(inbox') : i + 1 = k + 1 => i = k
      /\ \A i, k \in 1 .. Len(inbox') : i < k => i + 1 < k + 1
      /\ \A i \in 1 .. Len(inbox') : 1 < i + 1
  <2>1. inbox \in Seq(Links) /\ inbox # <<>> /\ inbox' = Tail(inbox) /\ l = Head(inbox)
    BY InvTyped, <1>1, ZenonT(30) DEF TypedHost
  <2>2. /\ Tail(inbox) \in Seq(Links) /\ 1 \in 1 .. Len(inbox) /\ Head(inbox) = inbox[1]
        /\ inbox[1] \in Links /\ Len(inbox) \in Nat
        /\ \A i \in 1 .. Len(Tail(inbox)) :
             i + 1 \in 1 .. Len(inbox) /\ i + 1 # 1 /\ Tail(inbox)[i] = inbox[i + 1]
        /\ \A i, k \in 1 .. Len(Tail(inbox)) : i + 1 = k + 1 => i = k
        /\ \A i, k \in 1 .. Len(Tail(inbox)) : i < k => i + 1 < k + 1
        /\ \A i \in 1 .. Len(Tail(inbox)) : 1 < i + 1
    BY ONLY <2>1, SeqTail, ZenonT(30)
  <2> HIDE DEF l
  <2> QED  BY ONLY <2>1, <2>2
<1> HIDE DEF l
<1>3. /\ l # First /\ ~IsStandby(l) /\ exchange[l] # "handed_over" /\ l # serving
      /\ l # None /\ InInbox(l)
  BY InvPipe, <1>2, LinkCases DEF Pipe, InInbox
<1>4. \A i \in 1 .. Len(inbox') :
        /\ inbox'[i] # l /\ inbox'[i] # First /\ ~IsStandby(inbox'[i])
        /\ exchange[inbox'[i]] # "handed_over" /\ inbox'[i] # serving
        /\ InInbox(inbox'[i]) /\ inbox'[i] \in Links
  <2>1. \A i \in 1 .. Len(inbox) : inbox[i] \in Links
    BY InvTyped, ElementOfSeq, Zenon DEF TypedHost
  <2> QED  BY InvFacts, <1>2, <2>1, ZenonT(30) DEF Pipe, InInbox
<1>5. \A k : InInbox(k)' => InInbox(k)
  BY <1>4, Zenon DEF InInbox
<1>6. /\ exchange' \in [Links -> Stage]
      /\ \A k \in Links : k # serving => exchange'[k] = exchange[k]
      /\ serving # None => /\ serving \in Links /\ exchange'[serving] = "failed"
                           /\ exchange[serving] # "handed_over" /\ IsStandby(serving)
  BY InvTyped, InvPipe, <1>1, Zenon DEF TypedHost, Stage, Pipe
<1>7. \A k \in Links : exchange'[k] = "handed_over" <=> exchange[k] = "handed_over"
  BY <1>6, LinkCases, Zenon
<1>8. Beside
  <2>1. TypedTasks' /\ TypedSearches' /\ TypedHost'
    BY InvBounds, InvTyped, <1>1, <1>2, <1>6, Zenon DEF TypedTasks, TypedSearches,
       TypedHost, MaxSearches
  <2>2. \A n \in Searches : searches[n].task = "none" =>
          exchange'[StandbyLink(n)] = "none" /\ serving' # StandbyLink(n)
    <3>1. SUFFICES ASSUME NEW n \in Searches, searches[n].task = "none"
                   PROVE  exchange'[StandbyLink(n)] = "none" /\ l # StandbyLink(n)
      BY <1>1, Zenon
    <3>2. /\ exchange[StandbyLink(n)] = "none" /\ serving # StandbyLink(n)
          /\ StandbyLink(n) \in Links /\ IsStandby(StandbyLink(n))
      BY InvSearching, <3>1, LinkKinds, LinkCases, Zenon DEF Searching
    <3> QED  BY <1>3, <1>6, <3>2
  <2>3. up' \subseteq up
    BY <1>1
  <2> QED  BY <1>1, <1>7, <2>1, <2>2, <2>3, Zenon DEF Beside
<1>9. Pipe'
  <2>1. \A i \in 1 .. Len(inbox') : /\ inbox'[i] # First /\ ~IsStandby(inbox'[i])
                                    /\ exchange'[inbox'[i]] # "handed_over"
                                    /\ inbox'[i] # serving'
    BY <1>1, <1>4, <1>7
  <2>2. \A i, k \in 1 .. Len(inbox') : inbox'[i] = inbox'[k] => i = k
    BY InvFacts, <1>2, ZenonT(30) DEF Pipe
  <2>3. \A o \in Others : exchange'[Other(o)] = "none" =>
          serving' # Other(o) /\ \A i \in 1 .. Len(inbox') : inbox'[i] # Other(o)
    <3>1. SUFFICES ASSUME NEW o \in Others, exchange'[Other(o)] = "none"
                   PROVE  /\ l # Other(o)
                          /\ \A i \in 1 .. Len(inbox') : inbox'[i] # Other(o)
      BY <1>1, ZenonT(30)
    <3>2. exchange[Other(o)] = "none"
      BY <1>6, <3>1, LinkKinds, LinkCases, Zenon
    <3>3. ~InInbox(Other(o))
      BY InvPipe, <3>2, Zenon DEF Pipe, InInbox
    <3> QED  BY <1>3, <1>4, <3>3, Zenon
  <2>4. /\ exchange'[First] = "none" /\ serving' # First
        /\ exchange'[serving'] # "handed_over"
    BY InvPipe, <1>1, <1>2, <1>3, <1>6, <1>7, LinkCases, Zenon DEF Pipe
  <2>5. \A n \in Searches :
          exchange'[StandbyLink(n)] \in {"connected", "established"} =>
            serving' = StandbyLink(n)
    <3>1. SUFFICES ASSUME NEW n \in Searches,
                          exchange'[StandbyLink(n)] \in {"connected", "established"}
                   PROVE  FALSE
      BY Zenon
    <3>2. StandbyLink(n) \in Links /\ StandbyLink(n) # None
      BY LinkKinds, LinkCases, Zenon
    <3>3. StandbyLink(n) # serving
      BY <1>6, <3>1, <3>2
    <3>4. exchange[StandbyLink(n)] \in {"connected", "established"}
      BY <1>6, <3>1, <3>2, <3>3
    <3> QED  BY InvPipe, <3>3, <3>4, Zenon DEF Pipe
  <2>6. /\ attaches # <<>> => exchange'[attaches[1]] = "handed_over"
        /\ host.link # First => exchange'[host.link] = "handed_over"
        /\ host.parked # None => exchange'[host.parked] = "handed_over"
    <3>1. /\ host.link \in Links /\ (host.parked # None => host.parked \in Links)
      BY InvTyped DEF TypedHost, HostRec
    <3>2. attaches # <<>> => attaches[1] \in Links
      BY InvTyped, SeqTail, Zenon DEF TypedHost
    <3> QED  BY InvPipe, <1>7, <3>1, <3>2, Zenon DEF Pipe
  <2> QED  BY InvPipe, <1>1, <2>1, <2>2, <2>3, <2>4, <2>5, <2>6, Zenon DEF Pipe
<1>10. Order'
  <2>1. \A g \in Attempts : Attempt(g) \in Links
    BY LinkCases
  <2>2. ASSUME NEW a \in Attempts, NEW b \in Attempts,
               exchange[Attempt(a)] = "handed_over", l = Attempt(b) \/ InInbox(Attempt(b))'
        PROVE  a < b
    BY InvOrder, <1>3, <1>5, <2>2, Zenon DEF Order
  <2>3. ASSUME NEW a \in Attempts, NEW b \in Attempts,
               l = Attempt(a), InInbox(Attempt(b))'
        PROVE  a < b
    <3>1. PICK i \in 1 .. Len(inbox') : inbox'[i] = Attempt(b)
      BY <2>3, Zenon DEF InInbox
    <3>2. /\ i + 1 \in 1 .. Len(inbox) /\ inbox[i + 1] = Attempt(b) /\ 1 < i + 1
          /\ inbox[1] = Attempt(a) /\ 1 \in 1 .. Len(inbox)
      BY <1>2, <2>3, <3>1
    <3> QED  BY InvOrder, <3>2, Zenon DEF Order
  <2>4. ASSUME NEW a \in Attempts, NEW b \in Attempts,
               NEW i \in 1 .. Len(inbox'), NEW k \in 1 .. Len(inbox'),
               i < k, inbox'[i] = Attempt(a), inbox'[k] = Attempt(b)
        PROVE  a < b
    <3>1. /\ i + 1 \in 1 .. Len(inbox) /\ inbox[i + 1] = Attempt(a)
          /\ k + 1 \in 1 .. Len(inbox) /\ inbox[k + 1] = Attempt(b) /\ i + 1 < k + 1
      BY <1>2, <2>4
    <3> QED  BY InvOrder, <3>1, Zenon DEF Order
  <2> QED  BY InvOrder, <1>1, <1>7, <2>1, <2>2, <2>3, <2>4, Zenon DEF Order
<1>11. Uncommitted(attempts)'
  BY InvUncommitted, <1>1, <1>3, <1>5, <1>6, LinkKinds, LinkCases, Zenon DEF Uncommitted
<1>12. \A n \in Searches : exchange'[StandbyLink(n)] \in {"connected", "established"} =>
        exchange[StandbyLink(n)] \in {"connected", "established"}
  BY <1>6, LinkCases
<1> QED  BY <1>1, <1>7, <1>8, <1>9, <1>10, <1>11, <1>12, PipeInv, Zenon

\* The host serves a standby that was asked for.
LEMMA ServeStandbyInv ==
    ASSUME Inv, UNCHANGED allowed, NEW n \in Searches, ServeStandby(n)
    PROVE  Inv'
<1>1. /\ searches[n].task = "asked" /\ exchange[StandbyLink(n)] = "none"
      /\ serving = None /\ inbox = <<>> /\ serving' = StandbyLink(n)
      /\ UNCHANGED <<attaches, host, closed, up>>
      /\ inbox' = inbox /\ exchange' = exchange
      /\ attaches' = attaches /\ host' = host /\ closed' = closed /\ up' = up
      /\ client' = client /\ attempts' = attempts /\ outcomes' = outcomes
      /\ searches' = searches /\ probe_task' = probe_task /\ events' = events
      /\ dropped' = dropped /\ down' = down /\ allowed' = allowed
  BY Zenon DEF ServeStandby, clientVars
<1>2. Beside
  <2>1. TypedTasks' /\ TypedSearches' /\ TypedHost'
    <3>1. serving' \in Links \cup {None}
      BY <1>1, LinkCases, Zenon
    <3> QED  BY InvBounds, InvTyped, <1>1, <3>1, Zenon DEF TypedTasks, TypedSearches,
                TypedHost, MaxSearches
  <2>2. \A m \in Searches : searches[m].task = "none" =>
          exchange'[StandbyLink(m)] = "none" /\ serving' # StandbyLink(m)
    BY InvSearching, <1>1, LinkKinds, Zenon DEF Searching
  <2>3. up' \subseteq up
    BY <1>1, Zenon
  <2> QED  BY <1>1, <2>1, <2>2, <2>3, Zenon DEF Beside
<1>3. Pipe'
  <2>1. 1 .. Len(inbox) = {}
    BY <1>1, SMTT(30), Z3T(30)
  <2>2. \A m \in Searches :
          exchange[StandbyLink(m)] \notin {"connected", "established"}
    BY InvPipe, <1>1, LinkKinds, Zenon DEF Pipe
  <2>3. serving' # First /\ exchange[serving'] = "none" /\ \A o : serving' # Other(o)
    BY <1>1, LinkKinds, Zenon
  <2> QED  BY InvPipe, <1>1, <2>1, <2>2, <2>3, Zenon DEF Pipe
<1>4. Order' /\ Uncommitted(attempts)'
  <2>1. \A g : serving' # Attempt(g)
    BY <1>1, LinkKinds, Zenon
  <2>2. \A k : InInbox(k)' <=> InInbox(k)
    BY <1>1, Zenon DEF InInbox
  <2>3. Order'
    BY InvFacts, <1>1, <2>1, <2>2, ZenonT(30) DEF Order
  <2>4. Uncommitted(attempts)'
    BY InvUncommitted, <1>1, <2>1, <2>2, Zenon DEF Uncommitted
  <2> QED  BY <2>3, <2>4
<1> QED  BY <1>1, <1>2, <1>3, <1>4, PipeInv, Zenon

\* A standby that answered has been handed over.
LEMMA AnsweredFacts ==
    ASSUME Inv
    PROVE  client.probe = "Answered" =>
             /\ client.standby \in Searches
             /\ exchange[StandbyLink(client.standby)] = "handed_over"
<1>1. client.probe = "Answered" => client.standby # 0
  BY InvClient DEF ClientMid
<1>2. client.standby # 0 => client.standby \in Searches
  BY InvBounds, Numbers, SMTT(30), Z3T(30) DEF ClientRec
<1>3. client.probe = "Answered" => exchange[StandbyLink(client.standby)] = "handed_over"
  BY InvEvents, Zenon DEF Events, ProbeEvents
<1> QED  BY <1>1, <1>2, <1>3

\* The link goes to the session. Those before it in the exchange were handed over
\* earlier, and those the client sends on or fails over to were handed over already.
LEMMA HandOverInv ==
    ASSUME Inv, UNCHANGED allowed, HandOver
    PROVE  Inv'
<1> DEFINE l == serving
<1>1. /\ l # None /\ exchange[l] = "established" /\ attaches = <<>>
      /\ attaches' = <<l>> /\ exchange' = [exchange EXCEPT ![l] = "handed_over"]
      /\ serving' = None
      /\ inbox' = inbox /\ host' = host /\ closed' = closed /\ up' = up
      /\ client' = client /\ attempts' = attempts /\ outcomes' = outcomes
      /\ searches' = searches /\ probe_task' = probe_task /\ events' = events
      /\ dropped' = dropped /\ down' = down /\ allowed' = allowed
  BY Zenon DEF HandOver, clientVars
<1>2. /\ l \in Links /\ l # First /\ exchange' \in [Links -> Stage]
      /\ exchange'[l] = "handed_over"
      /\ \A k \in Links : k # l => exchange'[k] = exchange[k]
  BY InvTyped, InvPipe, <1>1, Zenon DEF TypedHost, Stage, Pipe
<1>3. \A k \in Links : exchange[k] = "handed_over" => exchange'[k] = "handed_over" /\ k # l
  BY <1>1, <1>2
<1>4. \A k : Waiting(k)' <=> Waiting(k) \/ k = l
  BY <1>1 DEF Waiting
<1>5. Beside
  <2>1. attaches' \in Seq(Links) /\ Len(attaches') <= 1 /\ None \in Links \cup {None}
    BY <1>1, <1>2, SMTT(30), Z3T(30)
  <2>2. TypedTasks' /\ TypedSearches' /\ TypedHost'
    BY InvBounds, InvTyped, <1>1, <1>2, <2>1, Zenon DEF TypedTasks, TypedSearches,
       TypedHost, MaxSearches
  <2>3. \A n \in Searches : searches[n].task = "none" =>
          exchange'[StandbyLink(n)] = "none" /\ serving' # StandbyLink(n)
    BY InvSearching, <1>1, <1>2, LinkKinds, LinkCases, Zenon DEF Searching
  <2>4. up' \subseteq up
    BY <1>1
  <2> QED  BY <1>1, <1>3, <2>2, <2>3, <2>4, Zenon DEF Beside
<1>6. \A n \in Searches : StandbyLink(n) \in Links
  BY LinkCases
<1> HIDE DEF l
<1>l. l = serving
  BY DEF l
<1>7. \A n \in Searches : exchange'[StandbyLink(n)] \notin {"connected", "established"}
  BY InvPipe, <1>2, <1>6, <1>l, Zenon DEF Pipe
<1>8. \A a, b \in Searches :
        exchange[StandbyLink(a)] = "handed_over" /\ l = StandbyLink(b) => a < b
  BY InvStandbys, <1>1, <1>l, Zenon DEF Standbys
<1>9. Closes(client)'
  BY InvCloses, <1>1, <1>3, Zenon DEF Closes
<1>10. Standbys(client)'
  <2>1. \A a \in Searches :
          host.link = StandbyLink(a) \/ host.parked = StandbyLink(a) =>
            exchange[StandbyLink(a)] = "handed_over"
    BY InvPipe, LinkKinds, Zenon DEF Pipe
  <2>2. \A a, b \in Searches :
          host.link = StandbyLink(a) /\ Waiting(StandbyLink(b))' => a < b
    BY InvStandbys, <1>4, <1>8, <2>1, Zenon DEF Standbys
  <2>3. \A a, b \in Searches :
          host.parked = StandbyLink(a) /\ attaches' = <<StandbyLink(b)>> => a < b
    BY <1>1, <1>8, <2>1
  <2> QED  BY InvStandbys, <1>1, <1>7, <2>2, <2>3, Zenon DEF Standbys
<1>11. Frames(client, searches, up, down)'
  <2>1. \A a \in Searches : exchange[StandbyLink(a)] = "handed_over" =>
          /\ exchange'[StandbyLink(a)] = "handed_over"
          /\ Waiting(StandbyLink(a))' <=> Waiting(StandbyLink(a))
    BY <1>3, <1>4, <1>6
  <2> QED  BY InvFrames, <1>1, <2>1, Zenon DEF Frames, Outage
<1>12. Landing(client, attempts, outcomes, up)'
  <2>1. \A n \in Searches : StandbyLink(n) \in up /\ Waiting(StandbyLink(n))' =>
          Waiting(StandbyLink(n))
    BY InvFrames, <1>3, <1>4, <1>6, Zenon DEF Frames
  <2> QED  BY InvLanding, <1>1, <2>1, Zenon DEF Landing
<1>13. Answering(client)' /\ Deciding(client, attempts, outcomes)'
  <2>1. client.probe = "Answered" =>
          /\ client.standby \in Searches
          /\ exchange[StandbyLink(client.standby)] = "handed_over"
    BY AnsweredFacts
  <2>2. client.probe = "Answered" /\ Waiting(StandbyLink(client.standby))' =>
          Waiting(StandbyLink(client.standby))
    <3>1. client.probe = "Answered" => StandbyLink(client.standby) # l
      BY <1>3, <1>6, <2>1, Zenon
    <3> QED  BY <1>1, <1>4, <3>1
  <2>3. client.pc = "failover" => client.probe = "Answered"
    BY InvClient DEF ClientMid
  <2> QED  BY InvAnswering, <1>1, <2>2, <2>3, Zenon DEF Answering, Deciding
<1>14. Pipe'
  <2>1. \A i \in 1 .. Len(inbox) : inbox[i] \in Links
    BY InvTyped, ElementOfSeq, Zenon DEF TypedHost
  <2>2. \A i \in 1 .. Len(inbox) : /\ inbox[i] # First /\ ~IsStandby(inbox[i])
                                   /\ exchange'[inbox[i]] # "handed_over"
                                   /\ inbox[i] # None
    BY InvFacts, <1>2, <1>l, <2>1, LinkCases, Zenon DEF Pipe
  <2>3. \A o \in Others : exchange'[Other(o)] = "none" =>
          None # Other(o) /\ \A i \in 1 .. Len(inbox) : inbox[i] # Other(o)
    BY InvPipe, <1>2, LinkKinds, LinkCases, Zenon DEF Pipe
  <2>4. exchange'[First] = "none" /\ First # None
    BY InvPipe, <1>2, LinkKinds, LinkCases, Zenon DEF Pipe
  <2>5. /\ attaches' # <<>> => exchange'[attaches'[1]] = "handed_over"
        /\ host.link # First => exchange'[host.link] = "handed_over"
        /\ host.parked # None => exchange'[host.parked] = "handed_over"
    <3>1. /\ host.link \in Links /\ (host.parked # None => host.parked \in Links)
      BY InvTyped DEF TypedHost, HostRec
    <3>2. attaches'[1] = l
      BY <1>1
    <3> QED  BY InvPipe, <1>2, <1>3, <3>1, <3>2, Zenon DEF Pipe
  <2> QED  BY InvPipe, <1>1, <1>7, <2>2, <2>3, <2>4, <2>5, Zenon DEF Pipe
<1>15. Uncommitted(attempts)'
  BY InvUncommitted, <1>1, <1>2, <1>l, LinkKinds, LinkCases, Zenon DEF Uncommitted, InInbox
<1>16. Order'
  <2>1. \A g \in Attempts :
          /\ Attempt(g) \in Links /\ Attempt(g) # None
          /\ InInbox(Attempt(g))' <=> InInbox(Attempt(g))
          /\ host.link = Attempt(g) => exchange[Attempt(g)] = "handed_over"
    BY InvPipe, <1>1, LinkKinds, LinkCases, Zenon DEF InInbox, Pipe
  <2>2. \A g \in Attempts : exchange'[Attempt(g)] = "handed_over" =>
          exchange[Attempt(g)] = "handed_over" \/ serving = Attempt(g)
    BY <1>2, <1>l, <2>1, Zenon
  <2>3. \A a, b \in Attempts : host.link = Attempt(a) /\ attaches' = <<Attempt(b)>> => a < b
    BY InvOrder, <1>1, <1>l, <2>1, Zenon DEF Order
  <2> QED  BY InvOrder, <1>1, <2>1, <2>2, <2>3, ZenonT(30) DEF Order
<1>17. EveryLinkIsHeldOrClosed'
  <2>1. 1 \in 1 .. Len(attaches') /\ attaches'[1] = l /\ 1 .. Len(attaches) = {}
    BY <1>1, SMTT(30), Z3T(30)
  <2> QED  BY InvHeld, <1>1, <1>2, <2>1, Zenon DEF EveryLinkIsHeldOrClosed
<1> QED  BY <1>5, <1>9, <1>10, <1>11, <1>12, <1>13, <1>14, <1>15, <1>16, <1>17,
            BesideFacts, Typed, Zenon DEF Inv, LoopInv

-----------------------------------------------------------------------------
(* The session *)

\* The links in gone are closed, unless they are closed already, to make way for k.
Closing(gone, why, k) ==
    \A l \in Links :
        closed'[l] = IF l \in gone /\ closed[l] = Open
                     THEN [reason |-> why, by |-> k] ELSE closed[l]

\* A link stays as it was, or is closed for that reason.
LEMMA ClosingCases ==
    ASSUME NEW gone, NEW why, NEW k, Closing(gone, why, k)
    PROVE  \A l \in Links :
             \/ closed'[l] = closed[l]
             \/ /\ l \in gone /\ closed[l] = Open
                /\ closed'[l].reason = why /\ closed'[l].by = k
BY SMTT(30), Z3T(30) DEF Closing

\* The attempt in flight has a number.
LEMMA FlightNumber ==
    ASSUME Inv, client.in_flight
    PROVE  client.generation \in Attempts
BY InvBounds, InvClient, Numbers, SMTT(30), Z3T(30) DEF ClientMid, ClientRec

\* Generations are numbers.
LEMMA GenerationNumbers ==
    ASSUME Inv
    PROVE  client.generation \in Nat /\ Attempts \subseteq Nat
BY InvBounds, Numbers, SMTT(30), Z3T(30) DEF ClientRec

\* The session takes up links it was handed, and closes others to make way.
LEMMA SessionInv ==
    ASSUME Inv,
           UNCHANGED <<client, attempts, outcomes, searches, probe_task, events, inbox,
                       serving, exchange, dropped, down, allowed>>,
           up' \subseteq up, TypedHost',
           NEW gone, NEW why \in {"TAKEN_OVER"} \cup Spare, NEW k \in Links,
           Closing(gone, why, k),
           \A l \in gone : l # First => exchange[l] = "handed_over",
           exchange[k] = "handed_over",
           why = "TAKEN_OVER" => ~IsStandby(k),
           why = "SUPERSEDED" => \A l \in gone : IsStandby(l),
           why \in Spare =>
               /\ client.link \notin gone
               /\ \A n \in Searches : StandbyLink(n) \in gone => n < client.search
               /\ \A g \in Attempts : MayLand(g, client, attempts, outcomes) =>
                    Attempt(g) \notin gone,
           \A a, b \in Attempts : Attempt(a) \in gone /\ k = Attempt(b) => a < b,
           attaches' = <<>> \/ attaches' = attaches,
           host'.link = k \/ host'.link = host.link,
           host'.parked # None => IsStandby(host'.parked)
                                    /\ exchange[host'.parked] = "handed_over",
           \A l \in Links : Waiting(l)' => Waiting(l),
           \A a, b \in Searches :
               /\ host'.link = StandbyLink(a) /\ Waiting(StandbyLink(b))' => a < b
               /\ host'.parked = StandbyLink(a) /\ attaches' = <<StandbyLink(b)>> => a < b
               /\ host'.link = StandbyLink(a) => a < client.search
               /\ client.link = StandbyLink(a) /\ Waiting(StandbyLink(a))' =>
                    StandbyLink(a) \in up',
           host'.link = host.link \/ (\A g : host'.link # Attempt(g))
             \/ (\A n \in Searches : ~Waiting(StandbyLink(n))'),
           host'.link = host.link \/ (\A g : host'.link # Attempt(g)) \/ attaches' = <<>>,
           EveryLinkIsHeldOrClosed'
    PROVE  Inv'
<1>1. /\ client' = client /\ attempts' = attempts /\ outcomes' = outcomes
      /\ searches' = searches /\ probe_task' = probe_task /\ events' = events
      /\ inbox' = inbox /\ serving' = serving /\ exchange' = exchange
      /\ dropped' = dropped /\ down' = down /\ allowed' = allowed
  BY Zenon
<1>2. Beside
  <2>1. TypedTasks' /\ TypedSearches'
    BY InvBounds, InvTyped, <1>1, Zenon DEF TypedTasks, TypedSearches, MaxSearches
  <2>2. \A n \in Searches : searches[n].task = "none" =>
          exchange'[StandbyLink(n)] = "none" /\ serving' # StandbyLink(n)
    BY InvSearching, <1>1, Zenon DEF Searching
  <2> QED  BY <1>1, <2>1, <2>2, Zenon DEF Beside
<1>3. /\ \A n \in Searches : StandbyLink(n) \in Links
      /\ \A g \in Attempts : Attempt(g) \in Links
      /\ client.link \in Links
  BY InvBounds, LinkCases, ZenonT(30) DEF ClientRec
<1>4. \A l \in Links :
        \/ closed'[l] = closed[l]
        \/ /\ l \in gone /\ closed[l] = Open
           /\ closed'[l].reason = why /\ closed'[l].by = k
  <2>1. Closing(gone, why, k)
    BY ZenonT(30)
  <2> QED  BY ONLY <2>1, ClosingCases, SMTT(30), Z3T(30)
<1>5. Closes(client)'
  <2>1. k # First /\ \A g \in Attempts : k = Attempt(g) => g <= client.generation
    <3>1. k # First
      BY InvPipe, Zenon DEF Pipe
    <3>2. ASSUME NEW g \in Attempts, k = Attempt(g)
          PROVE  g <= client.generation
      <4>1. attempts[g].commitment = "COMMITTED"
        BY InvUncommitted, <3>2, Zenon DEF Uncommitted
      <4>2. ~(g > client.generation)
        BY InvTasks, <4>1, ZenonT(30) DEF Tasks
      <4>3. g \in Nat /\ client.generation \in Nat
        BY GenerationNumbers, Zenon
      <4> QED  BY ONLY <4>2, <4>3, SMTT(30), Z3T(30)
    <3> QED  BY <3>1, <3>2, Zenon
  <2>2. \A l \in Links : closed'[l] # Open =>
          closed'[l].reason # "open" /\ (l # First => exchange[l] = "handed_over")
    BY InvCloses, <1>4, ZenonT(30) DEF Closes, Spare
  <2>3. \A l \in Links : closed'[l].reason = "TAKEN_OVER" =>
          closed'[l].by \in Links /\ closed'[l].by # First /\ ~IsStandby(closed'[l].by)
    BY InvCloses, <1>4, <2>1, ZenonT(30) DEF Closes
  <2>4. \A l \in Links : closed'[l].reason = "SUPERSEDED" => IsStandby(l)
    BY InvCloses, <1>4, Zenon DEF Closes
  <2>5. \A l \in Links : \A g \in Attempts :
          closed'[l].by = Attempt(g) => g <= client.generation
    <3>1. SUFFICES ASSUME NEW l \in Links, NEW g \in Attempts, closed'[l].by = Attempt(g)
                   PROVE  g <= client.generation
      BY ZenonT(30)
    <3>2. closed'[l] = closed[l] \/ closed'[l].by = k
      BY <1>4, Zenon
    <3> QED  BY InvCloses, <2>1, <3>1, <3>2, Zenon DEF Closes
  <2>6. client.ended = "TAKEN_OVER" => closed'[client.link].reason = "TAKEN_OVER"
    BY InvCloses, <1>3, <1>4, ZenonT(30) DEF Closes, Open
  <2> QED  BY InvCloses, <1>1, <2>2, <2>3, <2>4, <2>5, <2>6, Zenon DEF Closes
<1>6. /\ \A n \in Searches : closed'[StandbyLink(n)].reason \in Spare => n < client.search
      /\ \A g \in Attempts : MayLand(g, client, attempts, outcomes) =>
           closed'[Attempt(g)].reason \notin Spare
      /\ closed'[client.link].reason \notin Spare
  BY InvStandbys, InvLanding, <1>3, <1>4, Zenon DEF Standbys, Landing
<1>7. Standbys(client)'
  BY InvStandbys, <1>1, <1>6, Zenon DEF Standbys
<1>8. Frames(client, searches, up, down)'
  BY InvFacts, <1>1, <1>3, ZenonT(30) DEF Frames, Outage
<1>9. \A g \in Attempts : host'.link = Attempt(g) =>
        host.link = Attempt(g) \/ \A n \in Searches : ~Waiting(StandbyLink(n))'
  BY Zenon
<1>10. Landing(client, attempts, outcomes, up)'
  <2>1. \A g \in Attempts, n \in Searches :
          /\ StandbyLink(n) \in up' /\ Waiting(StandbyLink(n))'
          /\ MayLand(g, client, attempts, outcomes)
          => host'.link # Attempt(g)
    BY InvLanding, <1>3, <1>9, Zenon DEF Landing
  <2> QED  BY InvLanding, <1>1, <1>6, <2>1, Zenon DEF Landing, MayLand, Running
<1>11. Answering(client)' /\ Deciding(client, attempts, outcomes)'
  <2>1. client.probe = "Answered" => client.standby \in Searches
    BY AnsweredFacts, Zenon
  <2>2. client.pc = "failover" => client.probe = "Answered"
    BY InvClient, Zenon DEF ClientMid
  <2>3. client.in_flight => client.generation \in Attempts
    BY FlightNumber, Zenon
  <2>4. Answering(client)'
    BY InvAnswering, <1>1, <1>3, <1>9, <2>1, <2>3, Zenon DEF Answering
  <2>5. Deciding(client, attempts, outcomes)'
    BY InvAnswering, <1>1, <1>3, <1>9, <2>1, <2>2, Zenon DEF Deciding, Running
  <2> QED  BY <2>4, <2>5, Zenon
<1>12. Pipe'
  <2>1. host'.link # First => exchange[host'.link] = "handed_over"
    BY InvPipe, Zenon DEF Pipe
  <2>2. attaches' # <<>> => exchange[attaches'[1]] = "handed_over"
    BY InvPipe, Zenon DEF Pipe
  <2>3. /\ exchange[First] = "none" /\ serving # First
        /\ \A i \in 1 .. Len(inbox) :
             /\ inbox[i] # First /\ ~IsStandby(inbox[i])
             /\ exchange[inbox[i]] # "handed_over" /\ inbox[i] # serving
        /\ \A i, j \in 1 .. Len(inbox) : inbox[i] = inbox[j] => i = j
        /\ \A o \in Others : exchange[Other(o)] = "none" =>
             serving # Other(o) /\ \A i \in 1 .. Len(inbox) : inbox[i] # Other(o)
        /\ serving # None => exchange[serving] # "handed_over"
        /\ \A n \in Searches :
             exchange[StandbyLink(n)] \in {"connected", "established"} =>
               serving = StandbyLink(n)
    BY InvPipe, Zenon DEF Pipe
  <2>4. /\ exchange'[First] = "none" /\ serving' # First
        /\ \A i \in 1 .. Len(inbox') :
             /\ inbox'[i] # First /\ ~IsStandby(inbox'[i])
             /\ exchange'[inbox'[i]] # "handed_over" /\ inbox'[i] # serving'
        /\ \A i, j \in 1 .. Len(inbox') : inbox'[i] = inbox'[j] => i = j
        /\ \A o \in Others : exchange'[Other(o)] = "none" =>
             serving' # Other(o) /\ \A i \in 1 .. Len(inbox') : inbox'[i] # Other(o)
        /\ serving' # None => exchange'[serving'] # "handed_over"
        /\ \A n \in Searches :
             exchange'[StandbyLink(n)] \in {"connected", "established"} =>
               serving' = StandbyLink(n)
    BY <1>1, <2>3, ZenonT(30)
  <2>5. /\ host'.link # First => exchange'[host'.link] = "handed_over"
        /\ attaches' # <<>> => exchange'[attaches'[1]] = "handed_over"
        /\ host'.parked # None => /\ IsStandby(host'.parked)
                                  /\ exchange'[host'.parked] = "handed_over"
    BY <1>1, <2>1, <2>2, Zenon
  <2> QED  BY InvPipe, <2>4, <2>5, Zenon DEF Pipe
<1>13. Uncommitted(attempts)'
  BY InvUncommitted, <1>1, Zenon DEF Uncommitted, InInbox
<1>14. Order'
  <2>0. \A a, b \in Attempts :
          /\ closed[Attempt(a)].by = Attempt(b) => a < b
          /\ host.link = Attempt(a) /\ attaches = <<Attempt(b)>> => a < b
    BY InvOrder, Zenon DEF Order
  <2>1. ASSUME NEW a \in Attempts, NEW b \in Attempts,
               closed'[Attempt(a)].by = Attempt(b)
        PROVE  a < b
    <3>1. \/ closed'[Attempt(a)] = closed[Attempt(a)]
          \/ Attempt(a) \in gone /\ closed'[Attempt(a)].by = k
      BY <1>3, <1>4, Zenon
    <3> QED  BY <2>0, <2>1, <3>1, Zenon
  <2>2. ASSUME NEW a \in Attempts, NEW b \in Attempts,
               host'.link = Attempt(a), attaches' = <<Attempt(b)>>
        PROVE  a < b
    <3>1. attaches' # <<>> /\ attaches' = attaches
      BY <2>2, Zenon
    <3>2. host'.link = host.link
      BY <2>2, <3>1, Zenon
    <3> QED  BY <2>0, <2>2, <3>1, <3>2, Zenon
  <2> QED  BY InvFacts, <1>1, <2>1, <2>2, ZenonT(30) DEF Order, InInbox
<1> QED  BY <1>2, <1>5, <1>7, <1>8, <1>10, <1>11, <1>12, <1>13, <1>14, BesideFacts,
            Typed, Zenon DEF Inv, LoopInv

\* The link in the channel to the session is the only one there.
LEMMA AttachFacts ==
    ASSUME Inv, attaches # <<>>
    PROVE  /\ attaches = <<Head(attaches)>> /\ Tail(attaches) = <<>>
           /\ Head(attaches) \in Links /\ Head(attaches) # First
           /\ exchange[Head(attaches)] = "handed_over" /\ Waiting(Head(attaches))
           /\ \A i \in 1 .. Len(attaches) : attaches[i] = Head(attaches)
<1>1. /\ attaches \in Seq(Links) /\ Len(attaches) <= 1
      /\ exchange[attaches[1]] = "handed_over" /\ exchange[First] = "none"
  BY InvTyped, InvPipe, Zenon DEF TypedHost, Pipe
<1>2. /\ Tail(attaches) \in Seq(Links) /\ Len(Tail(attaches)) = Len(attaches) - 1
      /\ Len(attaches) \in Nat /\ 1 \in 1 .. Len(attaches)
      /\ Head(attaches) = attaches[1] /\ attaches[1] \in Links
  BY <1>1, SeqTail, Zenon
<1>3. Len(attaches) = 1 /\ Len(Tail(attaches)) = 0
  BY <1>1, <1>2, SMTT(30), Z3T(30)
<1>4. Tail(attaches) = <<>>
  BY <1>2, <1>3, EmptySeq, Zenon
<1>5. attaches = <<attaches[1]>>
  <2> DEFINE one == <<attaches[1]>>
  <2>1. one \in Seq(Links) /\ Len(one) = 1 /\ one[1] = attaches[1]
    BY <1>2, SMTT(30), Z3T(30)
  <2> HIDE DEF one
  <2>2. \A i \in 1 .. Len(attaches) : attaches[i] = one[i]
    BY <1>3, <2>1, SMTT(30), Z3T(30)
  <2>3. attaches = one
    BY <1>1, <1>3, <2>1, <2>2, SeqEqual, Zenon
  <2> QED  BY <2>3 DEF one
<1>6. \A i \in 1 .. Len(attaches) : attaches[i] = attaches[1]
  BY <1>3, SMTT(30), Z3T(30)
<1>7. Waiting(attaches[1])
  BY <1>5, Zenon DEF Waiting
<1> QED  BY <1>1, <1>2, <1>4, <1>5, <1>6, <1>7, Zenon

\* What the host holds.
LEMMA HeldFacts ==
    ASSUME Inv
    PROVE  /\ host = [link |-> host.link, parked |-> host.parked]
           /\ host.link \in Links /\ (host.parked # None => host.parked \in Links)
           /\ host.link # First => exchange[host.link] = "handed_over"
           /\ host.parked # None => /\ IsStandby(host.parked)
                                    /\ exchange[host.parked] = "handed_over"
           /\ closed \in [Links -> CloseRec] /\ exchange[First] = "none"
           /\ None \notin Links
BY InvTyped, InvPipe, LinkCases, Zenon DEF TypedHost, HostRec, Pipe

\* A primary is taken up: the link it displaces and the parked standby are closed,
\* and nothing waits any more.
LEMMA AttachPrimaryInv ==
    ASSUME Inv, UNCHANGED allowed, AttachPrimary
    PROVE  Inv'
<1> DEFINE l == Head(attaches)
           gone == {host.link, host.parked}
<1>1. /\ attaches # <<>> /\ ~IsStandby(l) /\ attaches' = Tail(attaches)
      /\ adopt_as(l, "TAKEN_OVER", IF host.parked = None THEN closed
                                   ELSE Close(host.parked, "TAKEN_OVER", l))
      /\ UNCHANGED <<client, attempts, outcomes, searches, probe_task, events, inbox,
                     serving, exchange, dropped, down, allowed>>
      /\ up' = up /\ exchange' = exchange /\ dropped' = dropped
      /\ inbox' = inbox /\ serving' = serving
  BY Zenon DEF AttachPrimary, clientVars
<1>2. /\ attaches = <<l>> /\ attaches' = <<>> /\ l \in Links /\ l # First
      /\ exchange[l] = "handed_over" /\ Waiting(l)
      /\ \A i \in 1 .. Len(attaches) : attaches[i] = l
  BY <1>1, AttachFacts, Zenon
<1> HIDE DEF l
<1>3. /\ host' = [link |-> l, parked |-> None] /\ host'.link = l /\ host'.parked = None
  BY <1>1, Zenon DEF adopt_as
<1>4. /\ closed' \in [Links -> CloseRec] /\ Closing(gone, "TAKEN_OVER", l)
  <2>1. [reason |-> "TAKEN_OVER", by |-> l] \in CloseRec
    BY <1>2, Zenon DEF CloseRec
  <2>2. CASE host.parked = None
    <3>1. closed' = [closed EXCEPT ![host.link] =
                       IF @ = Open THEN [reason |-> "TAKEN_OVER", by |-> l] ELSE @]
      BY <1>1, <2>2, ZenonT(30) DEF adopt_as
    <3> QED  BY <2>1, <2>2, <3>1, HeldFacts, ZenonT(30) DEF Closing
  <2>3. CASE host.parked # None
    <3> DEFINE X == [closed EXCEPT ![host.parked] =
                       IF @ = Open THEN [reason |-> "TAKEN_OVER", by |-> l] ELSE @]
    <3>1. closed' = [X EXCEPT ![host.link] =
                       IF @ = Open THEN [reason |-> "TAKEN_OVER", by |-> l] ELSE @]
      BY <1>1, <2>3, Zenon DEF adopt_as, Close
    <3>2. /\ X \in [Links -> CloseRec]
          /\ \A k \in Links : X[k] = IF k = host.parked /\ closed[k] = Open
                                     THEN [reason |-> "TAKEN_OVER", by |-> l]
                                     ELSE closed[k]
      BY <2>1, <2>3, HeldFacts
    <3>3. [reason |-> "TAKEN_OVER", by |-> l] # Open
      BY DEF Open
    <3> HIDE DEF X
    <3>4. /\ closed' \in [Links -> CloseRec]
          /\ \A k \in Links : closed'[k] = IF k = host.link /\ X[k] = Open
                                           THEN [reason |-> "TAKEN_OVER", by |-> l]
                                           ELSE X[k]
      BY <2>1, <3>1, <3>2, HeldFacts
    <3> QED  BY <3>2, <3>3, <3>4 DEF Closing
  <2> QED  BY <2>2, <2>3
<1>5. TypedHost'
  <2>1. host' \in HostRec /\ attaches' \in Seq(Links) /\ Len(attaches') <= 1
    BY <1>2, <1>3, SMTT(30), Z3T(30) DEF HostRec
  <2> QED  BY InvTyped, <1>1, <1>4, <2>1, Zenon DEF TypedHost
<1>6. \A k \in Links : ~Waiting(k)'
  BY <1>2, <1>3, HeldFacts DEF Waiting
<1>7. EveryLinkIsHeldOrClosed'
  <2>1. \A k \in gone \cap Links : closed'[k] # Open
    BY <1>4, SMTT(30), Z3T(30) DEF Closing, Open
  <2>2. \A k \in Links : closed[k] # Open => closed'[k] # Open
    BY <1>4 DEF Closing
  <2>3. EveryLinkIsHeldOrClosed
    BY InvHeld
  <2> QED  BY <1>1, <1>2, <1>3, <2>1, <2>2, <2>3, Zenon DEF EveryLinkIsHeldOrClosed
<1>8. \A k \in gone : k # First /\ k # None => exchange[k] = "handed_over"
  BY HeldFacts
<1>9. \A k \in Links : k \in gone => (k # First => exchange[k] = "handed_over")
  BY <1>8, HeldFacts
<1>10. \A a, b \in Attempts : Attempt(a) \in gone /\ l = Attempt(b) => a < b
  <2>1. \A a : Attempt(a) \in gone => host.link = Attempt(a)
    BY HeldFacts, LinkKinds
  <2>2. \A a, b \in Attempts :
          host.link = Attempt(a) /\ attaches = <<Attempt(b)>> => a < b
    BY InvOrder, Zenon DEF Order
  <2>3. ASSUME NEW a \in Attempts, NEW b \in Attempts,
               Attempt(a) \in gone, l = Attempt(b)
        PROVE  a < b
    <3>1. attaches = <<Attempt(b)>> /\ host.link = Attempt(a)
      BY <1>2, <2>1, <2>3, SMTT(30), Z3T(30)
    <3> QED  BY <2>2, <3>1, Zenon
  <2> QED  BY <2>3, Zenon
<1> DEFINE away == gone \cap Links
<1>11. Closing(away, "TAKEN_OVER", l)
  BY <1>4 DEF Closing
<1>12. /\ \A n \in Searches : StandbyLink(n) \in Links /\ l # StandbyLink(n)
       /\ \A n \in Searches : None # StandbyLink(n)
  BY <1>1, LinkKinds, LinkCases, Zenon
<1>13. /\ \A k \in away : k # First => exchange[k] = "handed_over"
       /\ \A a, b \in Attempts : Attempt(a) \in away /\ l = Attempt(b) => a < b
  BY <1>9, <1>10
<1>14. "TAKEN_OVER" \notin Spare
  BY DEF Spare
<1> HIDE DEF away, gone
<1>15. up' \subseteq up
  BY <1>1
<1> QED  BY <1>1, <1>2, <1>3, <1>5, <1>6, <1>7, <1>11, <1>12, <1>13, <1>14, <1>15,
            SessionInv, Zenon

\* A standby is parked. The one it replaces is older than the search it came from,
\* so it is neither the client's link nor the standby the client holds.
LEMMA ParkStandbyInv ==
    ASSUME Inv, UNCHANGED allowed, ParkStandby
    PROVE  Inv'
<1> DEFINE l == Head(attaches)
           gone == {host.parked} \cap Links
<1>1. /\ attaches # <<>> /\ IsStandby(l) /\ attaches' = Tail(attaches)
      /\ host' = [host EXCEPT !.parked = l]
      /\ closed' = IF host.parked = None THEN closed
                   ELSE Close(host.parked, "SUPERSEDED", l)
      /\ UNCHANGED <<client, attempts, outcomes, searches, probe_task, events, inbox,
                     serving, exchange, dropped, down, allowed>>
      /\ up' = up /\ exchange' = exchange /\ dropped' = dropped
      /\ inbox' = inbox /\ serving' = serving
  BY Zenon DEF ParkStandby, clientVars
<1>2. /\ attaches = <<l>> /\ attaches' = <<>> /\ l \in Links /\ l # First
      /\ exchange[l] = "handed_over" /\ Waiting(l)
      /\ \A i \in 1 .. Len(attaches) : attaches[i] = l
  BY <1>1, AttachFacts, Zenon
<1> HIDE DEF l
<1>3. host' \in HostRec /\ host'.link = host.link /\ host'.parked = l
  BY InvTyped, <1>1, <1>2 DEF TypedHost, HostRec
<1>4. closed' \in [Links -> CloseRec] /\ Closing(gone, "SUPERSEDED", l)
  <2>1. [reason |-> "SUPERSEDED", by |-> l] \in CloseRec
    BY <1>2 DEF CloseRec
  <2>2. CASE host.parked = None
    BY <1>1, <2>2, HeldFacts DEF Closing
  <2>3. CASE host.parked # None
    <3>1. closed' = [closed EXCEPT ![host.parked] =
                       IF @ = Open THEN [reason |-> "SUPERSEDED", by |-> l] ELSE @]
      BY <1>1, <2>3 DEF Close
    <3> QED  BY <2>1, <2>3, <3>1, HeldFacts DEF Closing
  <2> QED  BY <2>2, <2>3
<1>5. TypedHost'
  <2>1. attaches' \in Seq(Links) /\ Len(attaches') <= 1
    BY <1>2, SMTT(30), Z3T(30)
  <2> QED  BY InvTyped, <1>1, <1>3, <1>4, <2>1, Zenon DEF TypedHost
<1>6. \A k \in Links : Waiting(k)' => k = l
  BY <1>2, <1>3 DEF Waiting
<1>7. PICK b \in Searches : l = StandbyLink(b)
  BY <1>1, <1>2, LinkCases, ZenonT(30)
<1>8. searches[b].task # "none" /\ b <= client.search /\ b \in Nat /\ client.search \in Nat
  BY InvBounds, InvSearching, <1>2, <1>7, Numbers, ZenonT(30) DEF Searching, ClientRec
<1>9. \A a \in Searches : StandbyLink(a) \in gone => a < b
  <2>1. \A a \in Searches : host.parked = StandbyLink(a) /\ attaches = <<StandbyLink(b)>> =>
          a < b
    BY InvStandbys, Zenon DEF Standbys
  <2> QED  BY <1>2, <1>7, <2>1
<1>10. \A k \in gone : IsStandby(k) /\ exchange[k] = "handed_over" /\ Waiting(k)
  BY HeldFacts, ZenonT(30) DEF Waiting
<1>11. client.link \notin gone
  <2>1. SUFFICES ASSUME client.link \in gone PROVE FALSE
    OBVIOUS
  <2>2. PICK a \in Searches : client.link = StandbyLink(a)
    BY <1>10, <2>1, LinkCases, Zenon
  <2>3. Waiting(StandbyLink(a)) /\ a < b
    BY <1>9, <1>10, <2>1, <2>2, Zenon
  <2>4. \A n \in Searches : n > a => searches[n].task = "none"
    BY InvFrames, <2>2, <2>3, ZenonT(30) DEF Frames
  <2> QED  BY InvBounds, <1>8, <2>3, <2>4, Numbers, ZenonT(30)
<1>12. /\ \A n \in Searches : StandbyLink(n) \in gone => n < client.search
       /\ \A g : Attempt(g) \notin gone /\ l # Attempt(g)
  <2>1. \A n \in Searches : n \in Nat
    BY InvBounds, Numbers
  <2> QED  BY <1>7, <1>8, <1>9, <1>10, <2>1, LinkKinds, SMTT(30), Z3T(30)
<1>13. EveryLinkIsHeldOrClosed'
  <2>1. \A k \in gone : closed'[k] # Open
    BY <1>4, SMTT(30), Z3T(30) DEF Closing, Open
  <2>2. \A k \in Links : closed[k] # Open => closed'[k] # Open
    BY <1>4 DEF Closing
  <2>3. EveryLinkIsHeldOrClosed
    BY InvHeld
  <2> QED  BY <1>1, <1>2, <1>3, <2>1, <2>2, <2>3, ZenonT(30) DEF EveryLinkIsHeldOrClosed
<1>14. \A a, n \in Searches :
         /\ host'.link = StandbyLink(a) /\ Waiting(StandbyLink(n))' => a < n
         /\ host'.parked = StandbyLink(a) /\ attaches' = <<StandbyLink(n)>> => a < n
         /\ host'.link = StandbyLink(a) => a < client.search
         /\ client.link = StandbyLink(a) /\ Waiting(StandbyLink(a))' =>
              StandbyLink(a) \in up'
  <2>1. \A n \in Searches : Waiting(StandbyLink(n))' => Waiting(StandbyLink(n))
    BY <1>2, <1>6, LinkCases
  <2>2. attaches' # <<StandbyLink(b)>> /\ \A n : attaches' # <<StandbyLink(n)>>
    BY <1>2
  <2>3. Standbys(client) /\ Frames(client, searches, up, down)
    BY InvStandbys, InvFrames
  <2> QED  BY <1>1, <1>3, <2>1, <2>2, <2>3, ZenonT(30) DEF Standbys, Frames
<1>15. /\ "SUPERSEDED" \in Spare /\ "SUPERSEDED" # "TAKEN_OVER" /\ up' \subseteq up
  BY <1>1 DEF Spare
<1>16. \A k \in Links : Waiting(k)' => Waiting(k)
  BY <1>2, <1>6
<1> HIDE DEF gone
<1> QED  BY <1>1, <1>2, <1>3, <1>4, <1>5, <1>10, <1>11, <1>12, <1>13, <1>14, <1>15,
            <1>16, SessionInv, Zenon

\* A parked standby is taken up at its first frame. The link it displaces is one
\* the client has left.
LEMMA PromoteStandbyInv ==
    ASSUME Inv, UNCHANGED allowed, PromoteStandby
    PROVE  Inv'
<1> DEFINE l == host.parked
           gone == {host.link}
<1>1. /\ l \in up /\ up' = up \ {l} /\ attaches' = attaches
      /\ adopt_as(l, "SWITCHED", closed)
      /\ UNCHANGED <<client, attempts, outcomes, searches, probe_task, events, inbox,
                     serving, exchange, dropped, down, allowed>>
      /\ exchange' = exchange /\ dropped' = dropped
      /\ inbox' = inbox /\ serving' = serving
  BY Zenon DEF PromoteStandby
<1>2. /\ l \in Links /\ l # None /\ IsStandby(l) /\ exchange[l] = "handed_over"
      /\ Waiting(l)
  BY InvTyped, <1>1, HeldFacts DEF TypedFrames, Waiting
<1>3. PICK n \in Searches : l = StandbyLink(n)
  BY <1>2, LinkCases, Zenon
<1>4. host' = [link |-> l, parked |-> None] /\ host'.link = l /\ host'.parked = None
  BY <1>1 DEF adopt_as
<1>5. closed' \in [Links -> CloseRec] /\ Closing(gone, "SWITCHED", l)
  <2>1. [reason |-> "SWITCHED", by |-> l] \in CloseRec
    BY <1>2, ZenonT(30) DEF CloseRec
  <2>2. closed' = [closed EXCEPT ![host.link] =
                     IF @ = Open THEN [reason |-> "SWITCHED", by |-> l] ELSE @]
    BY <1>1 DEF adopt_as
  <2> QED  BY <2>1, <2>2, HeldFacts, ZenonT(30) DEF Closing
<1>6. TypedHost'
  <2>1. host' \in HostRec
    BY <1>2, <1>4, ZenonT(30) DEF HostRec
  <2> QED  BY InvTyped, <1>1, <1>5, <2>1, Zenon DEF TypedHost
<1>7. \A k \in Links : Waiting(k)' => attaches = <<k>> /\ Waiting(k)
  BY <1>1, <1>4, HeldFacts DEF Waiting
<1>8. /\ \A a \in Searches : host.link = StandbyLink(a) => a < n /\ a < client.search
      /\ \A b \in Searches : attaches = <<StandbyLink(b)>> => n < b
      /\ n < client.search /\ client.link # First
      /\ \A a \in Searches : client.link = StandbyLink(a) => n <= a
      /\ \A g \in Attempts : MayLand(g, client, attempts, outcomes) =>
           host.link # Attempt(g)
  <2>1. /\ \A a, b \in Searches :
             /\ host.link = StandbyLink(a) /\ Waiting(StandbyLink(b)) => a < b
             /\ host.parked = StandbyLink(a) /\ attaches = <<StandbyLink(b)>> => a < b
             /\ host.link = StandbyLink(a) => a < client.search
    BY InvStandbys, Zenon DEF Standbys
  <2>2. \A a, b \in Searches :
          /\ StandbyLink(a) \in up => a < client.search /\ client.link # First
          /\ StandbyLink(a) \in up /\ client.link = StandbyLink(b) => a <= b
    BY InvFrames, Zenon DEF Frames
  <2>3. \A g \in Attempts, b \in Searches :
          /\ StandbyLink(b) \in up /\ Waiting(StandbyLink(b))
          /\ MayLand(g, client, attempts, outcomes)
          => host.link # Attempt(g)
    BY InvLanding, Zenon DEF Landing
  <2> HIDE DEF l
  <2>4. StandbyLink(n) \in up /\ Waiting(StandbyLink(n)) /\ host.parked = StandbyLink(n)
    BY <1>1, <1>2, <1>3, Zenon DEF l
  <2> QED  BY <2>1, <2>2, <2>3, <2>4, Zenon
<1>9. client.link \notin gone
  <2>1. SUFFICES ASSUME client.link = host.link PROVE FALSE
    BY ZenonT(30)
  <2>2. client.link \in Links /\ \A o \in Others : client.link # Other(o)
    BY InvBounds, InvClient DEF ClientRec, ClientMid
  <2>3. CASE IsStandby(client.link)
    <3>1. PICK a \in Searches : client.link = StandbyLink(a)
      BY <2>2, <2>3, LinkCases
    <3>2. a < n /\ n <= a
      BY <1>8, <2>1, <3>1, Zenon
    <3> QED  BY InvBounds, <1>3, <3>2, Numbers, SMTT(30), Z3T(30)
  <2>4. CASE ~IsStandby(client.link)
    <3>1. PICK g \in Attempts : client.link = Attempt(g)
      BY <1>8, <2>2, <2>4, LinkCases, Zenon
    <3> QED  BY <1>8, <2>1, <3>1 DEF MayLand
  <2> QED  BY <2>3, <2>4
<1>10. EveryLinkIsHeldOrClosed'
  <2>1. \A k \in gone : closed'[k] # Open
    BY <1>5, HeldFacts, SMTT(30), Z3T(30) DEF Closing, Open
  <2>2. \A k \in Links : closed[k] # Open => closed'[k] # Open
    BY <1>5 DEF Closing
  <2>3. EveryLinkIsHeldOrClosed
    BY InvHeld
  <2> QED  BY <1>1, <1>4, <2>1, <2>2, <2>3, Zenon DEF EveryLinkIsHeldOrClosed
<1>11. \A a, b \in Searches :
         /\ host'.link = StandbyLink(a) /\ Waiting(StandbyLink(b))' => a < b
         /\ host'.parked = StandbyLink(a) /\ attaches' = <<StandbyLink(b)>> => a < b
         /\ host'.link = StandbyLink(a) => a < client.search
         /\ client.link = StandbyLink(a) /\ Waiting(StandbyLink(a))' =>
              StandbyLink(a) \in up'
  <2>1. SUFFICES ASSUME NEW a \in Searches, NEW b \in Searches
                 PROVE  /\ l = StandbyLink(a) /\ Waiting(StandbyLink(b))' => a < b
                        /\ l = StandbyLink(a) => a < client.search
                        /\ client.link = StandbyLink(a) /\ Waiting(StandbyLink(a))' =>
                             StandbyLink(a) \in up'
    BY <1>4, LinkKinds, Zenon
  <2>2. /\ l = StandbyLink(a) => a = n
        /\ Waiting(StandbyLink(b))' => attaches = <<StandbyLink(b)>>
        /\ Waiting(StandbyLink(a))' =>
             attaches = <<StandbyLink(a)>> /\ Waiting(StandbyLink(a))
    BY <1>3, <1>7, LinkKinds, LinkCases
  <2>3. client.link = StandbyLink(a) /\ Waiting(StandbyLink(a)) => StandbyLink(a) \in up
    BY InvFrames, Zenon DEF Frames
  <2>4. attaches = <<StandbyLink(a)>> => StandbyLink(a) # l
    <3>1. attaches = <<StandbyLink(a)>> => n < a
      BY <1>8, ZenonT(30)
    <3> QED  BY InvBounds, <2>2, <3>1, Numbers, SMTT(30), Z3T(30)
  <2> HIDE DEF l
  <2> QED  BY <1>1, <1>8, <2>2, <2>3, <2>4, Zenon
<1>12. /\ \A k \in gone : k # First => exchange[k] = "handed_over"
       /\ \A a \in Searches : StandbyLink(a) \in gone => a < client.search
       /\ \A g \in Attempts : MayLand(g, client, attempts, outcomes) =>
            Attempt(g) \notin gone
       /\ \A g : l # Attempt(g)
  BY <1>3, <1>8, HeldFacts, LinkKinds, ZenonT(30)
<1>13. "SWITCHED" \in Spare /\ "SWITCHED" # "TAKEN_OVER" /\ "SWITCHED" # "SUPERSEDED"
       /\ up' \subseteq up
  BY <1>1 DEF Spare
<1> HIDE DEF gone, l
<1> QED  BY <1>1, <1>2, <1>4, <1>5, <1>6, <1>7, <1>9, <1>10, <1>11, <1>12, <1>13,
            SessionInv, Zenon

\* The host forgets a parked standby that the client closed.
LEMMA StandbyGoneInv ==
    ASSUME Inv, UNCHANGED allowed, StandbyGone
    PROVE  Inv'
<1> DEFINE l == host.parked
           gone == {}
           why == "SWITCHED"
<1>1. /\ l \in dropped /\ host' = [host EXCEPT !.parked = None]
      /\ UNCHANGED <<client, attempts, outcomes, searches, probe_task, events, inbox,
                     serving, exchange, dropped, down, allowed>>
      /\ attaches' = attaches /\ closed' = closed /\ up' = up /\ exchange' = exchange
      /\ dropped' = dropped /\ inbox' = inbox /\ serving' = serving
  BY Zenon DEF StandbyGone, clientVars
<1>2. l \in Links /\ l # None /\ IsStandby(l) /\ exchange[l] = "handed_over"
  BY InvTyped, <1>1, HeldFacts DEF TypedFrames
<1>3. host' \in HostRec /\ host'.link = host.link /\ host'.parked = None
  BY InvTyped, <1>1 DEF TypedHost, HostRec
<1>4. Closing(gone, why, l)
  BY <1>1 DEF Closing
<1>5. TypedHost'
  BY InvTyped, <1>1, <1>3, Zenon DEF TypedHost
<1>6. \A k \in Links : Waiting(k)' => Waiting(k)
  BY <1>1, <1>3, HeldFacts DEF Waiting
<1>7. \A a, b \in Searches :
        /\ host'.link = StandbyLink(a) /\ Waiting(StandbyLink(b))' => a < b
        /\ host'.parked = StandbyLink(a) /\ attaches' = <<StandbyLink(b)>> => a < b
        /\ host'.link = StandbyLink(a) => a < client.search
        /\ client.link = StandbyLink(a) /\ Waiting(StandbyLink(a))' =>
             StandbyLink(a) \in up'
  <2>1. \A b \in Searches : Waiting(StandbyLink(b))' => Waiting(StandbyLink(b))
    BY <1>6, LinkCases
  <2>2. \A a : host'.parked # StandbyLink(a)
    BY <1>3, LinkKinds, Zenon
  <2>3. Standbys(client) /\ Frames(client, searches, up, down)
    BY InvStandbys, InvFrames
  <2> QED  BY <1>1, <1>3, <2>1, <2>2, <2>3, ZenonT(30) DEF Standbys, Frames
<1>8. EveryLinkIsHeldOrClosed'
  <2>1. EveryLinkIsHeldOrClosed
    BY InvHeld
  <2> QED  BY <1>1, <1>3, <2>1 DEF EveryLinkIsHeldOrClosed
<1>9. /\ why \in Spare /\ why \in {"TAKEN_OVER"} \cup Spare /\ up' \subseteq up
      /\ why # "TAKEN_OVER" /\ why # "SUPERSEDED"
  BY <1>1 DEF Spare
<1>10. /\ \A k \in gone : k # First => exchange[k] = "handed_over"
       /\ client.link \notin gone
       /\ \A n \in Searches : StandbyLink(n) \in gone => n < client.search
       /\ \A g \in Attempts :
            MayLand(g, client, attempts, outcomes) => Attempt(g) \notin gone
       /\ \A a, b \in Attempts : Attempt(a) \in gone /\ l = Attempt(b) => a < b
  OBVIOUS
<1> HIDE DEF l, gone, why
<1> QED  BY <1>1, <1>2, <1>3, <1>4, <1>5, <1>6, <1>7, <1>8, <1>9, <1>10,
            SessionInv, Zenon

=============================================================================
