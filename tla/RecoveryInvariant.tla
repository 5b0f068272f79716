-------------------------- MODULE RecoveryInvariant --------------------------
(***************************************************************************)
(* The inductive invariant of Recovery, for any number of attempts,        *)
(* searches and other clients.                                             *)
(*                                                                         *)
(* The argument is about order. A link goes through the host in stages     *)
(* (Pipe), and attempts and standbys each go through in the order of their *)
(* numbers (Order, Standbys), so the host never takes up an older link of  *)
(* the client after a newer one. Only the last attempt has a task and only *)
(* it reports (Tasks), and a search or a probe of an earlier standby can   *)
(* be told from the present one (Events). The rest says when the two       *)
(* mechanisms meet: a standby the client has failed over onto is not taken *)
(* up after an attempt that may still land (Frames, Answering, Deciding,   *)
(* Landing), which is why a link that is in use, or may yet be, is never   *)
(* closed as a spare one.                                                  *)
(***************************************************************************)
EXTENDS Recovery

\* The client's record, as TypeOK types it.
ClientRec ==
    [phase : {"Live", "Silent", "Recovering"},
     next_try : {"now", "later"}, link : Links,
     takeover_expected : BOOLEAN,
     ended : {"no", "Refused", "TAKEN_OVER", "SWITCHED", "SUPERSEDED"},
     pc : {"select", "failover"}, in_flight : BOOLEAN,
     generation : 0 .. MaxAttempts, displacing : BOOLEAN,
     standby : 0 .. MaxSearches, searching : BOOLEAN, search : Nat,
     probe : {"Idle", "Pending", "Answered", "Failed"},
     probing : BOOLEAN, answered_by : 0 .. MaxSearches,
     enabled : BOOLEAN]

\* The records of the tasks and of their reports, and what the host keeps of a link.
TaskRec == [task : {"none", "ssh", "attach", "connected", "over"} \cup Outcome,
            commitment : {"CONNECTING", "COMMITTED", "ABANDONED"}]
ReportRec == [generation : Attempts, outcome : Outcome]
SearchRec == [task : {"none", "asked", "connected", "over"}, via : Links \cup {None}]
EventRec == [kind : {"Found", "NotFound", "Probed"}, standby : Searches,
             answered : BOOLEAN]
Stage == {"none", "connected", "established", "handed_over", "failed"}
HostRec == [link : Links, parked : Links \cup {None}]
CloseRec == [reason : {"open", "TAKEN_OVER", "SWITCHED", "SUPERSEDED"},
             by : Links \cup {None}]

\* TypeOK, by whose state it types: the attempts, the searches, the host and the
\* frames.
TypedTasks == /\ attempts \in [Attempts -> TaskRec]
              /\ outcomes \in Seq(ReportRec) /\ Len(outcomes) <= 1
TypedSearches == /\ searches \in [Searches -> SearchRec]
                 /\ probe_task \in 0 .. MaxSearches
                 /\ events \in Seq(EventRec) /\ Len(events) <= 2
TypedHost == /\ inbox \in Seq(Links)
             /\ attaches \in Seq(Links) /\ Len(attaches) <= 1
             /\ serving \in Links \cup {None}
             /\ exchange \in [Links -> Stage]
             /\ host \in HostRec
             /\ closed \in [Links -> CloseRec]
TypedFrames == dropped \subseteq Links /\ up \subseteq Links /\ down \subseteq Links

-----------------------------------------------------------------------------
(* The inductive invariant *)

\* The reasons for which the host closes a link in favour of another of the same
\* client.
Spare == {"SWITCHED", "SUPERSEDED"}

\* The host has been handed the link and has not taken it up yet.
Waiting(l) == host.parked = l \/ attaches = <<l>>

\* The attempt is queued at the host's door.
InInbox(l) == \E i \in 1 .. Len(inbox) : inbox[i] = l

\* What the client's record keeps to, also in the middle of a lap.
ClientMid(c) ==
    /\ c.in_flight => c.displacing /\ c.generation # 0 /\ c.phase # "Silent"
    /\ c.ended # "no" => c.pc = "select" /\ ~c.searching
    /\ c.ended = "Refused" => c.phase = "Recovering"
    /\ c.ended = "TAKEN_OVER" => ~c.displacing
    /\ c.ended \notin Spare
    /\ c.next_try = "later"
    /\ c.phase = "Recovering" /\ ~c.displacing =>
         /\ c.generation # 0 /\ c.link = Attempt(c.generation)
         /\ c.standby = 0 /\ ~c.searching
    /\ c.pc = "failover" => c.probe = "Answered" /\ Outage(c)
    /\ c.standby # 0 => c.search = c.standby /\ ~c.searching
    /\ c.searching => c.search \in 1 .. MaxSearches
    /\ c.probe = "Pending" => c.probing
    /\ c.probe # "Idle" => c.standby # 0
    /\ c.probe = "Answered" => c.answered_by = c.standby
    /\ ~c.enabled => c.standby = 0
    /\ \A o \in Others : c.link # Other(o)

\* Between laps an attempt is in flight only while the client is rebuilding.
ClientOK(c) == ClientMid(c) /\ (c.in_flight => c.phase = "Recovering")

\* Only the last attempt has a task, and only it reports.
Tasks(c, at, out) ==
    /\ \A g \in Attempts : g # c.generation => at[g].task \in {"none", "over"}
    /\ \A g \in Attempts : g > c.generation => at[g].commitment = "CONNECTING"
    /\ out # <<>> => out[1].generation = c.generation

\* A search has a number, and the last one runs over the link the client is on.
Searching(c, se) ==
    /\ \A n \in Searches : se[n].task # "none" => n <= c.search /\ n <= MaxSearches
    /\ \A n \in Searches : se[n].task = "none" =>
         exchange[StandbyLink(n)] = "none" /\ serving # StandbyLink(n)
    /\ c.searching => se[c.search].via = c.link
    /\ c.standby # 0 => se[c.standby].via = c.link

\* The results of searches in the channel: at most one for each search.
FoundEvents(c, se, ev) ==
    /\ \A i \in 1 .. Len(ev) : ev[i].kind # "Probed" =>
         /\ ev[i].standby <= c.search
         /\ se[ev[i].standby].task = "over"
         /\ ev[i].standby = c.search => c.searching \/ c.ended # "no"
    /\ \A i, j \in 1 .. Len(ev) :
         i # j /\ ev[i].kind # "Probed" /\ ev[j].kind # "Probed" =>
            ev[i].standby # ev[j].standby

\* The probe: its task runs, or its result is in the channel, never both.
ProbeEvents(c, pt, ev) ==
    /\ pt # 0 => c.probing
    /\ c.probe = "Pending" /\ pt # 0 => pt = c.standby
    /\ \A i \in 1 .. Len(ev) : ev[i].kind = "Probed" =>
         /\ pt = 0
         /\ c.probing \/ (c.standby = 0 /\ ~c.searching)
         /\ c.probe = "Pending" => ev[i].standby = c.standby
         /\ ev[i].answered => exchange[StandbyLink(ev[i].standby)] = "handed_over"
    /\ \A i, j \in 1 .. Len(ev) :
         ev[i].kind = "Probed" /\ ev[j].kind = "Probed" => i = j
    /\ c.probe = "Answered" => exchange[StandbyLink(c.standby)] = "handed_over"

\* What the channel of standby events holds.
Events(c, se, pt, ev) ==
    /\ \A i \in 1 .. Len(ev) : ev[i].standby <= MaxSearches
    /\ FoundEvents(c, se, ev)
    /\ ProbeEvents(c, pt, ev)

\* How far a link has got, by where the host holds it.
Pipe ==
    /\ exchange[First] = "none" /\ serving # First
    /\ \A i \in 1 .. Len(inbox) :
         /\ inbox[i] # First /\ ~IsStandby(inbox[i])
         /\ exchange[inbox[i]] # "handed_over" /\ inbox[i] # serving
    /\ \A i, j \in 1 .. Len(inbox) : inbox[i] = inbox[j] => i = j
    /\ \A o \in Others : exchange[Other(o)] = "none" =>
         serving # Other(o) /\ \A i \in 1 .. Len(inbox) : inbox[i] # Other(o)
    /\ host.parked # None => IsStandby(host.parked)
    /\ serving # None => exchange[serving] # "handed_over"
    /\ attaches # <<>> => exchange[attaches[1]] = "handed_over"
    /\ host.link # First => exchange[host.link] = "handed_over"
    /\ host.parked # None => exchange[host.parked] = "handed_over"
    /\ \A n \in Searches : exchange[StandbyLink(n)] \in {"connected", "established"} =>
         serving = StandbyLink(n)

\* An attempt that has not committed has not reached the host.
Uncommitted(at) ==
    \A g \in Attempts : at[g].commitment # "COMMITTED" =>
        /\ exchange[Attempt(g)] = "none" /\ serving # Attempt(g)
        /\ ~InInbox(Attempt(g))

\* The attempts pass through the host in the order of their generations.
Order ==
    \A a, b \in Attempts :
        /\ exchange[Attempt(a)] = "handed_over" /\ serving = Attempt(b) => a < b
        /\ exchange[Attempt(a)] = "handed_over" /\ InInbox(Attempt(b)) => a < b
        /\ serving = Attempt(a) /\ InInbox(Attempt(b)) => a < b
        /\ host.link = Attempt(a) /\ attaches = <<Attempt(b)>> => a < b
        /\ closed[Attempt(a)].by = Attempt(b) => a < b
        /\ \A i, j \in 1 .. Len(inbox) :
             i < j /\ inbox[i] = Attempt(a) /\ inbox[j] = Attempt(b) => a < b

\* What the host says when it closes a link.
Closes(c) ==
    /\ \A l \in Links : closed[l] # Open =>
         /\ closed[l].reason # "open"
         /\ l # First => exchange[l] = "handed_over"
    /\ \A l \in Links : closed[l].reason = "TAKEN_OVER" =>
         closed[l].by \in Links /\ closed[l].by # First /\ ~IsStandby(closed[l].by)
    /\ \A l \in Links : closed[l].reason = "SUPERSEDED" => IsStandby(l)
    /\ \A l \in Links : \A g \in Attempts :
         closed[l].by = Attempt(g) => g <= c.generation
    /\ c.ended = "TAKEN_OVER" => closed[c.link].reason = "TAKEN_OVER"

\* The standbys pass through the host in the order of their searches.
Standbys(c) ==
    \A a, b \in Searches :
        /\ exchange[StandbyLink(a)] = "handed_over"
             /\ exchange[StandbyLink(b)] \in {"connected", "established"} => a < b
        /\ host.link = StandbyLink(a) /\ Waiting(StandbyLink(b)) => a < b
        /\ host.parked = StandbyLink(a) /\ attaches = <<StandbyLink(b)>> => a < b
        /\ host.link = StandbyLink(a) => a < c.search
        /\ closed[StandbyLink(a)].reason \in Spare => a < c.search

\* The client sends on a standby once it has failed over onto it, and the host
\* once it has taken it up; until then no other standby can reach the host.
Frames(c, se, u, d) ==
    \A a, b \in Searches :
        /\ StandbyLink(a) \in u =>
             /\ exchange[StandbyLink(a)] = "handed_over"
             /\ a < c.search /\ c.link # First
        /\ StandbyLink(a) \in u /\ c.link = StandbyLink(b) => a <= b
        /\ StandbyLink(a) \in d =>
             exchange[StandbyLink(a)] = "handed_over" /\ ~Waiting(StandbyLink(a))
        /\ c.link = StandbyLink(a) =>
             exchange[StandbyLink(a)] = "handed_over" /\ a < c.search
        /\ c.link = StandbyLink(a) /\ Waiting(StandbyLink(a)) =>
             /\ StandbyLink(a) \in u /\ Outage(c) /\ c.standby = 0 /\ ~c.searching
             /\ b > a => se[b].task = "none"

\* The attempt may still land.
Running(g, at, out) ==
    \/ at[g].task \in {"ssh", "attach", "connected", "Landed"}
    \/ out # <<>> /\ out[1].generation = g /\ out[1].outcome = "Landed"

\* The attempt has landed and is the client's link, or may still land.
MayLand(g, c, at, out) == c.link = Attempt(g) \/ Running(g, at, out)

\* A standby that the host has yet to take up, and that the client failed over
\* onto or is about to, was handed over before any attempt that may yet land.
Answering(c) ==
    c.probe = "Answered" /\ c.in_flight /\ Waiting(StandbyLink(c.standby)) =>
        host.link # Attempt(c.generation)
Deciding(c, at, out) ==
    \A g \in Attempts :
        c.pc = "failover" /\ Waiting(StandbyLink(c.standby)) /\ Running(g, at, out) =>
            host.link # Attempt(g)
Landing(c, at, out, u) ==
    /\ \A g \in Attempts, n \in Searches :
         /\ StandbyLink(n) \in u /\ Waiting(StandbyLink(n))
         /\ MayLand(g, c, at, out)
         => host.link # Attempt(g)
    /\ \A g \in Attempts : MayLand(g, c, at, out) =>
         closed[Attempt(g)].reason \notin Spare
    /\ closed[c.link].reason \notin Spare

\* What the loop's steps change and what they leave alone.
LoopInv(c, at, out, se, pt, ev, u, d) ==
    /\ Tasks(c, at, out)
    /\ Searching(c, se)
    /\ Events(c, se, pt, ev)
    /\ Closes(c)
    /\ Standbys(c)
    /\ Frames(c, se, u, d)
    /\ Landing(c, at, out, u)

\* The inductive invariant.
Inv ==
    /\ TypeOK /\ allowed \in Bounds
    /\ ClientOK(client)
    /\ LoopInv(client, attempts, outcomes, searches, probe_task, events, up, down)
    /\ Answering(client) /\ Deciding(client, attempts, outcomes)
    /\ Pipe /\ Uncommitted(attempts) /\ Order
    /\ EveryLinkIsHeldOrClosed

=============================================================================
