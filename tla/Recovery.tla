------------------------------ MODULE Recovery ------------------------------
(***************************************************************************)
(* How a client gets back to its session: the link state, the ssh rebuild  *)
(* and the standby of src/src/session.rs run_on, the tasks they start, and *)
(* the host that runs their attaches, adopts links and closes the ones it  *)
(* lets go of.                                                             *)
(*                                                                         *)
(* Every lap of the client's loop is one action, with two exceptions that  *)
(* follow the code: the loop goes straight back to its select after a      *)
(* close it excuses, and a failover is decided and performed in two steps, *)
(* because an attempt's task on another thread may move in between.        *)
(* Clocks are left out: a deadline that the code compares with `now` is a  *)
(* choice, except an attempt that is due at once (next_try = "now"). All   *)
(* the deadlines are seconds, and laps are milliseconds: one passes only   *)
(* when nothing that is ready to be read is still unread (TimePasses).     *)
(* Phase "Live" stands for Live and Confirming, which differ only in the   *)
(* keys held back; a frame is reduced to the fact that it arrived.         *)
(***************************************************************************)
EXTENDS Integers, Sequences

CONSTANTS
    Bounds,        \* how many attempts and searches a behaviour may begin
    Others         \* attaches made by other clients

ASSUME RecoveryBounds == \A b \in Bounds : b.attempts \in Nat /\ b.searches \in Nat

VARIABLES
    client,     \* ClientSession: link state, Rebuild, Standby, loop locals
    attempts,   \* the attempt tasks, each with its Commitment
    outcomes,   \* the channel of attempt reports
    searches,   \* the search tasks, each with the primary it runs over
    probe_task, \* the standby being probed, 0 for none
    events,     \* the channel of standby events
    inbox,      \* primaries waiting for the host's attach loop
    serving,    \* the attach whose exchange the host is running
    exchange,   \* how far the exchange of each link has got
    attaches,   \* the channel of completed attaches
    host,       \* HostSession: its link and the parked standby
    closed,     \* why and for whom the host closed a link
    dropped,    \* the links the client closed
    up,         \* links with a client frame under way to a parked host end
    down,       \* links with a host frame under way or queued at the client
    allowed     \* the bounds of this behaviour

vars == <<client, attempts, outcomes, searches, probe_task, events, inbox,
          serving, exchange, attaches, host, closed, dropped, up, down>>

hostVars == <<inbox, serving, exchange, attaches, host, closed>>

----------------------------------------------------------------------------
(* Links and the records of the state *)

MaxAttempts == allowed.attempts
MaxSearches == allowed.searches

Attempts == UNION {1 .. b.attempts : b \in Bounds}
Searches == UNION {1 .. b.searches : b \in Bounds}

First == <<"first", 0>>
Attempt(g) == <<"attempt", g>>
StandbyLink(n) == <<"standby", n>>
Other(o) == <<"other", o>>

None == <<"none", 0>>
Links == {First} \cup {Attempt(g) : g \in Attempts}
           \cup {StandbyLink(n) : n \in Searches} \cup {Other(o) : o \in Others}

IsStandby(l) == l[1] = "standby"

Open == [reason |-> "open", by |-> None]

\* Close l, unless it is closed already, to make way for `by`.
Close(l, why, by) ==
    [closed EXCEPT ![l] = IF @ = Open THEN [reason |-> why, by |-> by] ELSE @]

Outcome == {"Landed", "Retry", "Definite"}
Outage(c) == c.phase \in {"Silent", "Recovering"}

\* The host has written Established for l.
Said(l) == exchange[l] \in {"established", "handed_over"}

\* The attempt whose report is still wanted, and whose task is not aborted.
InFlight(g) == client.in_flight /\ client.generation = g

\* A deadline of seconds may pass: no channel holds anything, and no aborted
\* task is still in the poll that its abort met.
TimePasses ==
    /\ outcomes = <<>> /\ events = <<>> /\ attaches = <<>>
    /\ \A g \in Attempts : InFlight(g) \/ attempts[g].task \in {"none", "over"}

\* The search whose result is still wanted, and whose task is not aborted.
Wanted(n) == client.searching /\ client.search = n
----------------------------------------------------------------------------
(* The link state (linkstate.rs) *)

heard(c) == [c EXCEPT !.phase = "Live"]

\* A fresh schedule for the link that took over, if the client is rebuilding.
rebuilt(c) == IF c.phase = "Recovering" THEN [c EXCEPT !.next_try = "later"] ELSE c

\* A reply owed too long, then a silence too long: both are questions of time.
\* The bound on attempts stops the second.
evaluate(c) ==
    {c} \cup IF ~ TimePasses THEN {}
            ELSE IF c.phase = "Live" THEN {[c EXCEPT !.phase = "Silent"]}
            ELSE IF c.phase = "Silent" /\ c.generation < MaxAttempts
            THEN {[c EXCEPT !.phase = "Recovering", !.next_try = "now"]}
            ELSE {}

----------------------------------------------------------------------------
(* The rebuild (rebuild.rs) *)

begin(c) == [c EXCEPT !.in_flight = TRUE, !.generation = @ + 1,
                      !.displacing = TRUE, !.next_try = "later"]

\* Mutant: giving an attempt up also clears the latch.
CancelClearsLatch(c) == [c EXCEPT !.in_flight = FALSE, !.displacing = FALSE]

cancel(c) == [c EXCEPT !.in_flight = FALSE]

stood_down(c) == [cancel(c) EXCEPT !.displacing = FALSE]

swapped(c) == [c EXCEPT !.displacing = c.in_flight]

\* Mutant: a report of any generation is wanted.
AcceptAny(c, report) == TRUE

\* The report is wanted: from the attempt in flight, or a landing.
accept(c, report) ==
    \/ c.in_flight /\ report.generation = c.generation
    \/ report.outcome = "Landed"

\* Mutant: the attempt that reported stays in flight.
FinishedNever(c, report) == c

finished(c, report) ==
    IF report.generation = c.generation THEN cancel(c) ELSE c

Committed(c) == c.in_flight /\ attempts[c.generation].commitment = "COMMITTED"

\* What the lap does about the rebuild: nothing to rebuild, one is running, or
\* the next one begins, now if it is due now.
rebuild_step(c) ==
    IF c.phase # "Recovering" THEN {stood_down(c)}
    ELSE IF c.in_flight \/ c.generation = MaxAttempts THEN {c}
    ELSE IF c.next_try = "now" THEN {begin(c)}
    ELSE {c} \cup IF TimePasses THEN {begin(c)} ELSE {}

----------------------------------------------------------------------------
(* The standby (standby.rs) *)

\* Mutant: a new primary does not disown the search under way.
NewPrimaryKeepsSearch(c) == c

new_primary(c) == [c EXCEPT !.searching = FALSE, !.search = @ + 1]

forget(c) == [new_primary(c) EXCEPT !.standby = 0, !.probe = "Idle"]

\* The failover's half of forget: the link is not closed but promoted.
take_for_failover(c) == [new_primary(c) EXCEPT !.standby = 0, !.probe = "Idle"]

lost(c) == [c EXCEPT !.standby = 0, !.probe = "Idle"]

found(c, n) == [c EXCEPT !.searching = FALSE, !.standby = n]

\* Mutant: an answer counts whether or not one is pending.
ProbedAnyway(c, event) ==
    [c EXCEPT !.probing = FALSE, !.answered_by = event.standby,
              !.probe = IF event.answered THEN "Answered" ELSE "Failed"]

probed(c, event) ==
    [c EXCEPT !.probing = FALSE,
              !.probe = IF @ # "Pending" THEN @
                        ELSE IF event.answered THEN "Answered" ELSE "Failed",
              !.answered_by = IF c.probe = "Pending" THEN event.standby ELSE @]

set_enabled(c) ==
    IF c.enabled
    THEN [forget(c) EXCEPT !.enabled = FALSE, !.probing = FALSE]
    ELSE [c EXCEPT !.enabled = TRUE]

Search(c) == [c EXCEPT !.searching = TRUE, !.search = @ + 1]
Probe(c) == [c EXCEPT !.probing = TRUE, !.probe = "Pending"]

\* Mutant: search in an outage as well.
SearchInOutage(c) ==
    IF ~ c.enabled THEN {c}
    ELSE IF c.standby = 0
    THEN {c} \cup IF TimePasses /\ ~ c.searching /\ c.search < MaxSearches
                  THEN {Search(c)} ELSE {}
    ELSE IF ~ Outage(c) \/ Committed(c) THEN {[c EXCEPT !.probe = "Idle"]}
    ELSE IF c.probe = "Answered"
    THEN {c} \cup IF TimePasses THEN {[c EXCEPT !.pc = "failover"]} ELSE {}
    ELSE {c} \cup IF ~ c.probing THEN {Probe(c)} ELSE {}

\* Standby::step: search while the primary answers; in an outage probe the
\* standby, and decide to fail over onto one that answered, but not while a
\* committed attempt runs.
standby_step(c) ==
    IF ~ c.enabled \/ (Outage(c) /\ c.standby = 0) THEN {c}
    ELSE IF ~ Outage(c)
    THEN LET idle == [c EXCEPT !.probe = "Idle"]
         IN  {idle} \cup IF TimePasses /\ c.standby = 0 /\ ~ c.searching
                            /\ c.search < MaxSearches
                         THEN {Search(idle)} ELSE {}
    ELSE IF Committed(c) THEN {[c EXCEPT !.probe = "Idle"]}
    ELSE IF c.probe = "Answered"
    THEN {c} \cup IF TimePasses THEN {[c EXCEPT !.pc = "failover"]} ELSE {}
    ELSE IF c.probe = "Idle" /\ ~ c.probing THEN {Probe(c)}
    ELSE {c} \cup IF TimePasses /\ c.probe = "Failed" /\ ~ c.probing
                  THEN {Probe(c)} ELSE {}

----------------------------------------------------------------------------
(* The client's loop (session.rs) *)

\* What a lap starts: the task of an attempt, of a search, of a probe. The lap
\* took the client from r to s in its standby step.
Started(r, s) ==
    /\ attempts' = IF s.generation = client.generation THEN attempts
                   ELSE [attempts EXCEPT ![s.generation].task = "ssh"]
    /\ searches' = IF r.searching \/ ~ s.searching THEN searches
                   ELSE [searches EXCEPT ![s.search] =
                           [task |-> "asked", via |-> s.link]]
    /\ probe_task' = IF ~ s.probing THEN 0
                     ELSE IF r.probing THEN probe_task ELSE s.standby

\* The end of every lap: the link state, then the rebuild, then the standby.
Lap(c) ==
    \E e \in evaluate(c) : \E r \in rebuild_step(e) : \E s \in standby_step(r) :
        client' = s /\ Started(r, s)

\* The select of a client that has not ended.
Selecting == client.ended = "no" /\ client.pc = "select"

\* run_on returns, and every task it held goes with it.
Ends(why) ==
    /\ client' = [cancel(client) EXCEPT !.ended = why, !.searching = FALSE]
    /\ probe_task' = 0
    /\ UNCHANGED <<attempts, searches>>

\* A turn may put a frame on the link. One that reaches the host's own link
\* changes nothing here; one that reaches a parked standby does.
Turned == up' = up \/ up' = up \cup ({client.link} \ {host.link})

Init ==
    /\ allowed \in Bounds
    /\ client = [phase |-> "Live", next_try |-> "later", link |-> First,
                 takeover_expected |-> FALSE, ended |-> "no", pc |-> "select",
                 in_flight |-> FALSE, generation |-> 0, displacing |-> FALSE,
                 standby |-> 0, searching |-> FALSE, search |-> 0,
                 probe |-> "Idle", probing |-> FALSE, answered_by |-> 0,
                 enabled |-> TRUE]
    /\ attempts = [g \in Attempts |-> [task |-> "none", commitment |-> "CONNECTING"]]
    /\ outcomes = <<>>
    /\ searches = [n \in Searches |-> [task |-> "none", via |-> None]]
    /\ probe_task = 0
    /\ events = <<>>
    /\ inbox = <<>>
    /\ serving = None
    /\ exchange = [l \in Links |-> "none"]
    /\ attaches = <<>>
    /\ host = [link |-> First, parked |-> None]
    /\ closed = [l \in Links |-> Open]
    /\ dropped = {}
    /\ up = {}
    /\ down = {}

\* Wake::Due, and Wake::Keys or Wake::Winch, which differ in what the turn sends.
\* A turn takes in every frame that is queued: one that finds some is HearFrame.
Due ==
    /\ Selecting
    /\ Lap(client)
    /\ Turned
    /\ UNCHANGED <<outcomes, events, hostVars, dropped, down>>

\* Wake::Frame: heard before it is looked at, whatever the receiver makes of it.
HearFrame ==
    /\ Selecting
    /\ client.link \in down
    /\ down' = down \ {client.link}
    /\ Lap(heard(client))
    /\ Turned
    /\ UNCHANGED <<outcomes, events, hostVars, dropped>>

\* swap_in: the landed link replaces the old one, and the standby is forgotten.
swap_in(c, l) ==
    forget(swapped(rebuilt([c EXCEPT !.link = l, !.takeover_expected = FALSE])))

\* The links a swap closes.
LetGo(c) == {c.link} \cup {StandbyLink(n) : n \in {c.standby} \ {0}}

\* Wake::Rebuilt with a landing, from whichever attempt.
RebuildLanded ==
    /\ Selecting
    /\ outcomes # <<>> /\ Head(outcomes).outcome = "Landed"
    /\ outcomes' = Tail(outcomes)
    /\ LET report == Head(outcomes)
       IN  Lap(swap_in(finished(client, report), Attempt(report.generation)))
    /\ dropped' = dropped \cup LetGo(client)
    /\ down' = down \ LetGo(client)
    /\ UNCHANGED <<events, hostVars, up>>

\* Wake::Rebuilt with a failure: a wanted Retry is scheduled again, a wanted
\* Definite ends the session, one that is not wanted changes nothing.
RebuildFailed ==
    /\ Selecting
    /\ outcomes # <<>> /\ Head(outcomes).outcome # "Landed"
    /\ outcomes' = Tail(outcomes)
    /\ LET report == Head(outcomes)
           after == [finished(client, report) EXCEPT !.next_try = "later"]
       IN  \/ ~ accept(client, report) /\ Lap(client)
           \/ accept(client, report) /\ report.outcome = "Retry" /\ Lap(after)
           \/ /\ accept(client, report) /\ report.outcome = "Definite"
              /\ Ends("Refused")
    /\ UNCHANGED <<events, hostVars, dropped, up, down>>

\* Wake::Standby with a link: kept if its search is still wanted, else closed.
StandbyFound ==
    /\ Selecting
    /\ events # <<>> /\ Head(events).kind = "Found"
    /\ events' = Tail(events)
    /\ LET n == Head(events).standby
       IN  IF client.enabled /\ n = client.search
           THEN Lap(found(client, n)) /\ UNCHANGED dropped
           ELSE Lap(client) /\ dropped' = dropped \cup {StandbyLink(n)}
    /\ UNCHANGED <<outcomes, hostVars, up, down>>

\* Wake::Standby with a failed search.
StandbyNotFound ==
    /\ Selecting
    /\ events # <<>> /\ Head(events).kind = "NotFound"
    /\ events' = Tail(events)
    /\ Lap(IF Head(events).standby = client.search
           THEN [client EXCEPT !.searching = FALSE] ELSE client)
    /\ UNCHANGED <<outcomes, hostVars, dropped, up, down>>

\* Wake::Standby with the result of a probe.
StandbyProbed ==
    /\ Selecting
    /\ events # <<>> /\ Head(events).kind = "Probed"
    /\ events' = Tail(events)
    /\ Lap(probed(client, Head(events)))
    /\ UNCHANGED <<outcomes, hostVars, dropped, up, down>>

\* Wake::StandbyClosed: the host closed the standby the client holds.
StandbyClosed ==
    /\ Selecting
    /\ client.standby # 0 /\ closed[StandbyLink(client.standby)] # Open
    /\ Lap(lost(client))
    /\ UNCHANGED <<outcomes, events, hostVars, dropped, up, down>>

\* Wake::Closed, excused: a takeover that may be the client's own rebuild. The
\* loop stops watching the link and goes straight back to its select.
ExcuseTakeover ==
    /\ Selecting
    /\ ~ client.takeover_expected
    /\ closed[client.link].reason = "TAKEN_OVER" /\ client.displacing
    /\ client' = [client EXCEPT !.takeover_expected = TRUE]
    /\ UNCHANGED <<attempts, outcomes, searches, probe_task, events, hostVars,
                   dropped, up, down>>

\* Wake::Closed, reported: the session is over for this client.
LinkClosed ==
    /\ Selecting
    /\ ~ client.takeover_expected
    /\ closed[client.link] # Open
    /\ ~ (closed[client.link].reason = "TAKEN_OVER" /\ client.displacing)
    /\ Ends(closed[client.link].reason)
    /\ UNCHANGED <<outcomes, events, hostVars, dropped, up, down>>

\* network.standby is switched off or on between two laps.
SwitchStandby ==
    /\ Selecting
    /\ client.enabled => client.search < MaxSearches
    /\ Lap(set_enabled(client))
    /\ dropped' = dropped \cup (LetGo(client) \ {client.link})
    /\ UNCHANGED <<outcomes, events, hostVars, up, down>>

\* fail_over, when an attempt in flight has committed since the step decided:
\* nothing is swapped.
FailOverHeldOff ==
    /\ client.pc = "failover"
    /\ Committed(client)
    /\ client' = [client EXCEPT !.pc = "select"]
    /\ UNCHANGED <<attempts, outcomes, searches, probe_task, events, hostVars,
                   dropped, up, down>>

\* fail_over: an attempt still connecting is abandoned, the standby is swapped
\* in, and the first frame goes out on it, which is what promotes it.
FailOver ==
    /\ client.pc = "failover"
    /\ ~ Committed(client)
    /\ LET s == StandbyLink(client.standby)
       IN  /\ client' = [rebuilt(take_for_failover(cancel(client))) EXCEPT
                           !.link = s, !.takeover_expected = FALSE, !.pc = "select"]
           /\ up' = up \cup {s}
    /\ attempts' = IF client.in_flight
                   THEN [attempts EXCEPT ![client.generation].commitment = "ABANDONED"]
                   ELSE attempts
    /\ dropped' = dropped \cup {client.link}
    /\ down' = down \ {client.link}
    /\ UNCHANGED <<outcomes, searches, probe_task, events, hostVars>>

----------------------------------------------------------------------------
(* The tasks the client starts. An attempt given up is aborted at its next  *)
(* yield, so its task may still finish the poll it is in.                   *)

attempt(g, task) == attempts' = [attempts EXCEPT ![g].task = task]

\* ssh never opens, or the offer is never read.
SshFails(g) ==
    /\ attempts[g].task = "ssh"
    /\ \E o \in Outcome \ {"Landed"} : attempt(g, o)
    /\ UNCHANGED <<client, outcomes, searches, probe_task, events, hostVars,
                   dropped, up, down>>

\* Mutant: the Attach is sent whatever the claim says.
CommitRegardless(g) ==
    /\ attempts[g].task = "ssh"
    /\ attempts' = [attempts EXCEPT ![g].task = "attach",
                      ![g].commitment = IF @ = "CONNECTING" THEN "COMMITTED" ELSE @]
    /\ inbox' = Append(inbox, Attempt(g))
    /\ UNCHANGED <<client, outcomes, searches, probe_task, events, serving,
                   exchange, attaches, host, closed, dropped, up, down>>

\* The offer is read: the attempt claims the right to send its Attach, and
\* sends it, or is told it was abandoned.
Commit(g) ==
    /\ attempts[g].task = "ssh"
    /\ IF attempts[g].commitment = "CONNECTING"
       THEN /\ attempts' = [attempts EXCEPT ![g] =
                              [task |-> "attach", commitment |-> "COMMITTED"]]
            /\ inbox' = Append(inbox, Attempt(g))
       ELSE attempt(g, "Retry") /\ UNCHANGED inbox
    /\ UNCHANGED <<client, outcomes, searches, probe_task, events, serving,
                   exchange, attaches, host, closed, dropped, up, down>>

\* Both ends complete the QUIC handshake.
Connect(g) ==
    /\ attempts[g].task = "attach" /\ InFlight(g) /\ serving = Attempt(g)
    /\ attempt(g, "connected")
    /\ exchange' = [exchange EXCEPT ![serving] = "connected"]
    /\ UNCHANGED <<client, outcomes, searches, probe_task, events, inbox, serving,
                   attaches, host, closed, dropped, up, down>>

\* The attempt reads Established.
Land(g) ==
    /\ attempts[g].task = "connected" /\ Said(Attempt(g))
    /\ attempt(g, "Landed")
    /\ UNCHANGED <<client, outcomes, searches, probe_task, events, hostVars,
                   dropped, up, down>>

\* The attempt fails after its Attach: ssh dies, no rung is found, its deadline
\* passes, or the host refuses, which it does not do once it has said yes.
AttachFails(g) ==
    /\ attempts[g].task \in {"attach", "connected"}
    /\ \/ attempt(g, "Retry")
       \/ exchange[Attempt(g)] \in {"none", "failed"} /\ attempt(g, "Definite")
    /\ UNCHANGED <<client, outcomes, searches, probe_task, events, hostVars,
                   dropped, up, down>>

\* The outcome is sent on the channel, which holds one.
Report(g) ==
    /\ attempts[g].task \in Outcome /\ outcomes = <<>>
    /\ outcomes' = <<[generation |-> g, outcome |-> attempts[g].task]>>
    /\ attempt(g, "over")
    /\ UNCHANGED <<client, searches, probe_task, events, hostVars, dropped, up, down>>

\* The abort of a given-up attempt lands.
Abort(g) ==
    /\ attempts[g].task \notin {"none", "over"} /\ ~ InFlight(g)
    /\ attempt(g, "over")
    /\ UNCHANGED <<client, outcomes, searches, probe_task, events, hostVars,
                   dropped, up, down>>

\* A search reports: a link once it has read Established over its primary's
\* control stream, or a failure at any time.
SearchReports(n) ==
    /\ Wanted(n) /\ searches[n].task \in {"asked", "connected"} /\ Len(events) < 2
    /\ \E kind \in {"Found", "NotFound"} :
          /\ kind = "Found" => /\ searches[n].task = "connected"
                               /\ Said(StandbyLink(n))
          /\ events' = Append(events, [kind |-> kind, standby |-> n, answered |-> FALSE])
    /\ searches' = [searches EXCEPT ![n].task = "over"]
    /\ UNCHANGED <<client, attempts, outcomes, probe_task, hostVars, dropped, up, down>>

\* Both ends complete the QUIC handshake of a standby.
SearchConnect(n) ==
    /\ Wanted(n) /\ searches[n].task = "asked" /\ serving = StandbyLink(n)
    /\ searches' = [searches EXCEPT ![n].task = "connected"]
    /\ exchange' = [exchange EXCEPT ![serving] = "connected"]
    /\ UNCHANGED <<client, attempts, outcomes, probe_task, events, inbox, serving,
                   attaches, host, closed, dropped, up, down>>

\* A probe reports: yes only if the host serves the standby's control streams,
\* which it does from the moment it has handed the link over until it closes it.
ProbeReports ==
    /\ probe_task # 0 /\ Len(events) < 2
    /\ \E yes \in BOOLEAN :
          /\ yes => /\ exchange[StandbyLink(probe_task)] = "handed_over"
                    /\ closed[StandbyLink(probe_task)] = Open
          /\ events' = Append(events, [kind |-> "Probed", standby |-> probe_task,
                                       answered |-> yes])
    /\ probe_task' = 0
    /\ UNCHANGED <<client, attempts, outcomes, searches, hostVars, dropped, up, down>>

----------------------------------------------------------------------------
(* The host's attach loop (listener.rs), one exchange at a time *)

clientVars == <<client, attempts, outcomes, searches, probe_task, events, dropped,
                up, down>>

\* Another client asks to attach, and its end of the exchange goes well.
OtherAsks(o) ==
    /\ exchange[Other(o)] = "none"
    /\ exchange' = [exchange EXCEPT ![Other(o)] = "connected"]
    /\ inbox' = Append(inbox, Other(o))
    /\ UNCHANGED <<serving, attaches, host, closed, clientVars>>

\* A primary is next, and pre-empts a standby whose exchange is not done.
ServePrimary ==
    /\ inbox # <<>>
    /\ serving = None \/ (IsStandby(serving) /\ ~ Said(serving))
    /\ serving' = Head(inbox)
    /\ inbox' = Tail(inbox)
    /\ exchange' = IF serving = None THEN exchange
                   ELSE [exchange EXCEPT ![serving] = "failed"]
    /\ UNCHANGED <<attaches, host, closed, clientVars>>

\* A standby is next when no primary is.
ServeStandby(n) ==
    /\ searches[n].task = "asked" /\ exchange[StandbyLink(n)] = "none"
    /\ serving = None /\ inbox = <<>>
    /\ closed[searches[n].via] = Open
    /\ serving' = StandbyLink(n)
    /\ UNCHANGED <<inbox, exchange, attaches, host, closed, clientVars>>

\* The exchange fails or times out; the session never hears of it.
ServeFails ==
    /\ serving # None /\ ~ Said(serving)
    /\ serving' = None
    /\ exchange' = [exchange EXCEPT ![serving] = "failed"]
    /\ UNCHANGED <<inbox, attaches, host, closed, clientVars>>

\* The host has a connection and says so over ssh, or over the control stream
\* of the primary the search runs over.
Establish ==
    /\ serving # None /\ exchange[serving] = "connected"
    /\ IsStandby(serving) => closed[searches[serving[2]].via] = Open
    /\ exchange' = [exchange EXCEPT ![serving] = "established"]
    /\ UNCHANGED <<inbox, serving, attaches, host, closed, clientVars>>

\* Mutant: the channel has no depth.
HandOverUnbounded ==
    /\ serving # None /\ exchange[serving] = "established"
    /\ attaches' = Append(attaches, serving)
    /\ exchange' = [exchange EXCEPT ![serving] = "handed_over"]
    /\ serving' = None
    /\ UNCHANGED <<inbox, host, closed, clientVars>>

\* The link is handed to the session, and its control streams are served.
HandOver ==
    /\ serving # None /\ exchange[serving] = "established" /\ attaches = <<>>
    /\ attaches' = <<serving>>
    /\ exchange' = [exchange EXCEPT ![serving] = "handed_over"]
    /\ serving' = None
    /\ UNCHANGED <<inbox, host, closed, clientVars>>

----------------------------------------------------------------------------
(* The host's session loop (host_session.rs) *)

\* adopt_as: close the displaced link, saying why, and take up the new one.
adopt_as(l, why, closedNow) ==
    /\ closed' = [closedNow EXCEPT ![host.link] =
                    IF @ = Open THEN [reason |-> why, by |-> l] ELSE @]
    /\ host' = [link |-> l, parked |-> None]

\* Mutant: the parked standby is dropped without a close.
AttachPrimaryDropsParked ==
    /\ attaches # <<>> /\ ~ IsStandby(Head(attaches))
    /\ attaches' = Tail(attaches)
    /\ adopt_as(Head(attaches), "TAKEN_OVER", closed)
    /\ UNCHANGED <<inbox, serving, exchange, clientVars>>

\* on_attached with a primary: the parked standby goes, and the link is adopted.
AttachPrimary ==
    /\ attaches # <<>> /\ ~ IsStandby(Head(attaches))
    /\ attaches' = Tail(attaches)
    /\ adopt_as(Head(attaches), "TAKEN_OVER",
                IF host.parked = None THEN closed
                ELSE Close(host.parked, "TAKEN_OVER", Head(attaches)))
    /\ UNCHANGED <<inbox, serving, exchange, clientVars>>

\* on_attached with a standby: it is parked, in place of an older one.
ParkStandby ==
    /\ attaches # <<>> /\ IsStandby(Head(attaches))
    /\ attaches' = Tail(attaches)
    /\ host' = [host EXCEPT !.parked = Head(attaches)]
    /\ closed' = IF host.parked = None THEN closed
                 ELSE Close(host.parked, "SUPERSEDED", Head(attaches))
    /\ UNCHANGED <<inbox, serving, exchange, clientVars>>

\* The client's first frame on the parked standby: it is adopted, and the frame
\* taken in.
PromoteStandby ==
    /\ host.parked \in up
    /\ adopt_as(host.parked, "SWITCHED", closed)
    /\ up' = up \ {host.parked}
    /\ UNCHANGED <<inbox, serving, exchange, attaches, client, attempts, outcomes,
                   searches, probe_task, events, dropped, down>>

\* The client closed the parked standby.
StandbyGone ==
    /\ host.parked \in dropped
    /\ host' = [host EXCEPT !.parked = None]
    /\ UNCHANGED <<inbox, serving, exchange, attaches, closed, clientVars>>

\* A turn of the host sends a frame on its link, unless the client closed it.
HostTurn ==
    /\ down' = IF host.link \in dropped THEN down ELSE down \cup {host.link}
    /\ UNCHANGED <<client, attempts, outcomes, searches, probe_task, events,
                   hostVars, dropped, up>>

----------------------------------------------------------------------------

Loop ==
    \/ Due \/ HearFrame
    \/ RebuildLanded \/ RebuildFailed
    \/ StandbyFound \/ StandbyNotFound \/ StandbyProbed \/ StandbyClosed
    \/ ExcuseTakeover \/ LinkClosed
    \/ SwitchStandby
    \/ FailOverHeldOff \/ FailOver

Task ==
    \/ \E g \in Attempts : \/ SshFails(g) \/ Commit(g) \/ Connect(g) \/ Land(g)
                           \/ AttachFails(g) \/ Report(g) \/ Abort(g)
    \/ \E n \in Searches : SearchReports(n) \/ SearchConnect(n)
    \/ ProbeReports

Host ==
    \/ \E o \in Others : OtherAsks(o)
    \/ ServePrimary \/ (\E n \in Searches : ServeStandby(n)) \/ ServeFails
    \/ Establish \/ HandOver
    \/ AttachPrimary \/ ParkStandby \/ PromoteStandby \/ StandbyGone \/ HostTurn

Next == (Loop \/ Task \/ Host) /\ UNCHANGED allowed

Spec == Init /\ [][Next]_<<vars, allowed>>

\* A deadline is noticed: a phase, an attempt or a failover comes of it.
Lapse ==
    /\ Due
    /\ \/ client'.phase # client.phase \/ client'.generation # client.generation
       \/ client'.pc # client.pc

\* The select polls its arms in a random order, so an arm that stays ready, or is
\* ready again and again, is taken. A client on a closed link is owed a reply and
\* never gets it, so its deadlines pass. A task makes progress or its own deadline
\* (ATTEMPT_DEADLINE and the like) ends it.
Fairness ==
    /\ SF_vars(closed[client.link] # Open /\ Lapse)
    /\ SF_vars(LinkClosed \/ ExcuseTakeover)
    /\ SF_vars(RebuildLanded \/ RebuildFailed)
    /\ SF_vars(StandbyFound \/ StandbyNotFound \/ StandbyProbed)
    /\ WF_vars(FailOver \/ FailOverHeldOff)
    /\ \A g \in Attempts : WF_vars(\/ SshFails(g) \/ Commit(g) \/ Land(g)
                                   \/ AttachFails(g) \/ Report(g) \/ Abort(g))
    /\ WF_vars(ProbeReports \/ \E n \in Searches : SearchReports(n))
    /\ WF_vars(AttachPrimary \/ ParkStandby)

LiveSpec == Spec /\ Fairness

----------------------------------------------------------------------------
(* Properties *)

\* The records and channels the code declares, with the channels' depths.
TypeOK ==
    /\ client \in [phase : {"Live", "Silent", "Recovering"},
                   next_try : {"now", "later"}, link : Links,
                   takeover_expected : BOOLEAN,
                   ended : {"no", "Refused", "TAKEN_OVER", "SWITCHED", "SUPERSEDED"},
                   pc : {"select", "failover"}, in_flight : BOOLEAN,
                   generation : 0 .. MaxAttempts, displacing : BOOLEAN,
                   standby : 0 .. MaxSearches, searching : BOOLEAN, search : Nat,
                   probe : {"Idle", "Pending", "Answered", "Failed"},
                   probing : BOOLEAN, answered_by : 0 .. MaxSearches,
                   enabled : BOOLEAN]
    /\ attempts \in [Attempts ->
         [task : {"none", "ssh", "attach", "connected", "over"} \cup Outcome,
          commitment : {"CONNECTING", "COMMITTED", "ABANDONED"}]]
    /\ outcomes \in Seq([generation : Attempts, outcome : Outcome])
    /\ Len(outcomes) <= 1
    /\ searches \in [Searches -> [task : {"none", "asked", "connected", "over"},
                                  via : Links \cup {None}]]
    /\ probe_task \in 0 .. MaxSearches
    /\ events \in Seq([kind : {"Found", "NotFound", "Probed"}, standby : Searches,
                       answered : BOOLEAN])
    /\ Len(events) <= 2
    /\ inbox \in Seq(Links) /\ attaches \in Seq(Links) /\ Len(attaches) <= 1
    /\ serving \in Links \cup {None}
    /\ exchange \in [Links -> {"none", "connected", "established", "handed_over",
                               "failed"}]
    /\ host \in [link : Links, parked : Links \cup {None}]
    /\ closed \in [Links -> [reason : {"open", "TAKEN_OVER", "SWITCHED", "SUPERSEDED"},
                             by : Links \cup {None}]]
    /\ dropped \subseteq Links /\ up \subseteq Links /\ down \subseteq Links

\* An attempt abandoned for the standby never reaches the host: the attempt's
\* Attach and the loop's failover cannot both go (Commitment, rebuild.rs).
AbandonedNeverAttaches ==
    \A g \in Attempts :
        attempts[g].commitment = "ABANDONED" =>
            /\ exchange[Attempt(g)] = "none" /\ serving # Attempt(g)
            /\ \A i \in 1 .. Len(inbox) : inbox[i] # Attempt(g)

\* A refusal ends the session only inside the outage it is about. One reported
\* by an attempt given up since, over a link that came back or a standby that
\* took over, ends nothing (Rebuild::accept).
RefusalOnlyInTheOutage == client.ended = "Refused" => client.phase = "Recovering"

\* While the client is rebuilding, its own attempt never ends its session: the
\* close of the link that attempt displaced is excused, across failures of the
\* attempt, failovers and swaps (Rebuild::may_have_displaced_us).
RebuildingSurvivesItself ==
    client.ended = "TAKEN_OVER" /\ client.phase = "Recovering" =>
        closed[client.link].by \in {Other(o) : o \in Others}

\* The client never ends on a reason the host gives a link it lets go of in
\* favour of another link of the same client.
NeverEndsOnASpareLink == client.ended \notin {"SWITCHED", "SUPERSEDED"}

\* The standby the client holds was searched for over the link it is now on, so
\* it avoids that link's path; a search that outlived its primary is stale
\* (Standby::search, forget, take_for_failover).
StandbyIsForThisPrimary ==
    client.standby # 0 => searches[client.standby].via = client.link

\* The answer the client fails over on was given by the standby it holds, not by
\* one it lost or switched off with a probe under way (Standby::probed).
AnsweredByThisStandby ==
    client.probe = "Answered" => client.answered_by = client.standby

\* Every link the host was handed is its link, its parked standby or closed: it
\* lets go of none without saying so (HostSession::on_attached).
EveryLinkIsHeldOrClosed ==
    \A l \in Links :
        exchange[l] = "handed_over" =>
            \/ l \in {host.link, host.parked} \cup dropped
            \/ closed[l] # Open
            \/ \E i \in 1 .. Len(attaches) : attaches[i] = l

\* A client whose link the host closed does not sit on it: it reaches another
\* link, or ends, or has made every attempt it may. Each attempt comes to an end
\* and the next one begins, whichever step the last one failed at.
ClosedLinkIsLeft ==
    (client.ended = "no" /\ closed[client.link] # Open) ~>
        \/ client.ended # "no" \/ closed[client.link] = Open
        \/ client.generation = MaxAttempts

\* What Rebuild::stood_down says of the attempt it gives up: nothing it started
\* can have displaced the client. So no attempt of its own ever ends a session.
OwnAttemptNeverEndsTheSession ==
    client.ended = "TAKEN_OVER" => closed[client.link].by \in {Other(o) : o \in Others}

=============================================================================
