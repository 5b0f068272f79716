------------------------------ MODULE Registry ------------------------------
(***************************************************************************)
(* The session registry (crates/oxutrm-host/src/registry.rs): a directory  *)
(* for every session, and whoever lists them judging which are dead wood   *)
(* and removing those.                                                     *)
(*                                                                         *)
(* A pid is given again once its process is gone, a machine boots again,   *)
(* its wall clock is set to another time, and machines may share the       *)
(* directory, so that the judgement is made on evidence: a boot token, a   *)
(* pid and two times, as the lister's own machine tells them. What is      *)
(* judged may change between any two questions. Ids are never given twice. *)
(* Only meta.json is followed; its names are SessionDoor's.                *)
(***************************************************************************)
EXTENDS Integers

CONSTANTS
    Ids,                    \* the ids sessions are given
    Machines,               \* the machines that share the directory
    Pids,
    Listers,                \* whoever calls list_in
    PID_REUSE_SLACK_SECS,
    MaxStep,                \* bound: how far a wall clock is ever set ahead
    MaxTime, MaxBoot        \* bounds: seconds in one boot, boots

ASSUME ClockAssumption ==
    /\ PID_REUSE_SLACK_SECS \in Nat /\ MaxStep \in Nat
    /\ MaxTime \in Nat /\ MaxBoot \in Nat \ {0}

VARIABLES
    clock,      \* each machine's: the boot, the seconds in it, the wall time it
                \* began at, and how far the wall clock is ahead of that by now
    proc,       \* each machine's process of each pid
    sess,       \* each session: how far it is, its machine, its pid, its
                \* SessionMeta, and (history) how far the wall clock that dated
                \* the record was ahead
    dir,        \* each session's directory
    lister      \* where each lister is in its round, its machine, the entry it
                \* looks at, and (history) how far the wall clock it judged by
                \* was ahead

vars == <<clock, proc, sess, dir, lister>>

NoBoot == 0             \* the token could not be read
NoProc == [is |-> "no process"]
Process(start, said, who) ==
    [is |-> "process", start |-> start, said |-> said, who |-> who]

NoMeta == [is |-> "no meta"]
Meta(pid, created, boot) ==
    [is |-> "meta", pid |-> pid, created |-> created, boot |-> boot]

Absent == [is |-> "absent"]
Bare == [is |-> "bare"]     \* the directory, and no meta.json in it yet

Nobody == "nobody"

ASSUME NobodyIsNobody == Nobody \notin Ids \cup Pids \cup Machines

Unborn == [at |-> "unborn", on |-> Nobody, pid |-> Nobody, meta |-> NoMeta,
           ahead |-> 0]
Idle == [at |-> "idle", on |-> Nobody, id |-> Nobody, meta |-> NoMeta, ahead |-> 0]

now_unix(m) == clock[m].epoch + clock[m].t + clock[m].ahead

\* Two machines may have one token: it differs across boots, and only where the
\* platform allows across machines.
Init ==
    /\ clock \in [Machines -> [boot : 1..MaxBoot, t : {0}, epoch : {0}, ahead : {0}]]
    /\ proc = [m \in Machines |-> [p \in Pids |-> NoProc]]
    /\ sess = [i \in Ids |-> Unborn]
    /\ dir = [i \in Ids |-> Absent]
    /\ lister = [l \in Listers |-> Idle]

-----------------------------------------------------------------------------
(* A machine. *)

Tick(m) ==
    /\ clock[m].t < MaxTime
    /\ clock' = [clock EXCEPT ![m].t = @ + 1]
    /\ UNCHANGED <<proc, sess, dir, lister>>

\* Forwards or back, by any amount.
SetWallClock(m) ==
    /\ \E ahead \in 0..MaxStep : clock' = [clock EXCEPT ![m].ahead = ahead]
    /\ UNCHANGED <<proc, sess, dir, lister>>

\* Some other program gets a pid. The system may not say when it started.
OtherStarts(m, p) ==
    /\ proc[m][p] = NoProc
    /\ \E said \in BOOLEAN :
         proc' = [proc EXCEPT ![m][p] = Process(clock[m].t, said, Nobody)]
    /\ UNCHANGED <<clock, sess, dir, lister>>

Ended(s) == [s EXCEPT !.at = "ended", !.ahead = 0]

\* A process ends where it stands. A directory it has stays.
Die(m, p) ==
    /\ proc[m][p] # NoProc
    /\ proc' = [proc EXCEPT ![m][p] = NoProc]
    /\ sess' = [i \in Ids |-> IF i = proc[m][p].who THEN Ended(sess[i]) ELSE sess[i]]
    /\ UNCHANGED <<clock, dir, lister>>

Reboot(m) ==
    /\ clock[m].boot < MaxBoot
    /\ clock' = [clock EXCEPT ![m] = [boot |-> clock[m].boot + 1, t |-> 0,
                                      epoch |-> now_unix(m), ahead |-> 0]]
    /\ proc' = [proc EXCEPT ![m] = [p \in Pids |-> NoProc]]
    /\ sess' = [i \in Ids |-> IF sess[i].on = m THEN Ended(sess[i]) ELSE sess[i]]
    /\ lister' = [l \in Listers |-> IF lister[l].on = m THEN Idle ELSE lister[l]]
    /\ UNCHANGED dir

-----------------------------------------------------------------------------
(* A session process. *)

\* The grandchild that will be the session.
Start(i, m, p) ==
    /\ sess[i] = Unborn /\ proc[m][p] = NoProc
    /\ \E said \in BOOLEAN :
         proc' = [proc EXCEPT ![m][p] = Process(clock[m].t, said, i)]
    /\ sess' = [sess EXCEPT ![i] = [Unborn EXCEPT !.at = "started", !.on = m, !.pid = p]]
    /\ UNCHANGED <<clock, dir, lister>>

\* serve names the session and dates it, with the boot token if it can be read.
MakeMeta(i) ==
    LET m == sess[i].on IN
    /\ sess[i].at = "started"
    /\ \E boot \in {clock[m].boot, NoBoot} :
         sess' = [sess EXCEPT ![i] =
            [@ EXCEPT !.at = "lobby", !.ahead = clock[m].ahead,
                      !.meta = Meta(sess[i].pid, now_unix(m), boot)]]
    /\ UNCHANGED <<clock, proc, dir, lister>>

\* register_in: create_dir, and meta.json by a rename into it.
CreateDir(i) ==
    /\ sess[i].at = "lobby" /\ dir[i] = Absent
    /\ dir' = [dir EXCEPT ![i] = Bare]
    /\ sess' = [sess EXCEPT ![i].at = "registering"]
    /\ UNCHANGED <<clock, proc, lister>>

\* Where the directory is gone the write fails, and nothing comes of it.
update(i) ==
    /\ sess[i].at \in {"registering", "registered"} /\ dir[i] # Absent
    /\ dir' = [dir EXCEPT ![i] = sess[i].meta]
    /\ sess' = [sess EXCEPT ![i].at = "registered"]
    /\ UNCHANGED <<clock, proc, lister>>

\* RegistryGuard::drop: a session becomes a lobby, or its registration failed.
\* A lobby may register again, with the record it has.
DropGuard(i) ==
    /\ sess[i].at \in {"registering", "registered"}
    /\ dir' = [dir EXCEPT ![i] = Absent]
    /\ sess' = [sess EXCEPT ![i].at = "lobby"]
    /\ UNCHANGED <<clock, proc, lister>>

-----------------------------------------------------------------------------
(* Registry::list_in, one entry at a time, and entry_is_stale. *)

\* A directory without a readable meta.json is left alone.
ReadEntry(l, m, i) ==
    /\ lister[l] = Idle /\ dir[i].is = "meta"
    /\ lister' = [lister EXCEPT ![l] =
         [Idle EXCEPT !.at = "read", !.on = m, !.id = i, !.meta = dir[i]]]
    /\ UNCHANGED <<clock, proc, sess, dir>>

\* boot_token, which may fail, and pid_alive.
OtherBoot(meta, token) == NoBoot \notin {meta.boot, token} /\ meta.boot # token

pid_alive(m, pid) == proc[m][pid] # NoProc

\* Mutant: the pid is not asked about.
JudgeBoot(l) ==
    /\ lister[l].at = "read"
    /\ \E token \in {clock[lister[l].on].boot, NoBoot} :
         lister' = [lister EXCEPT ![l].at =
            IF OtherBoot(lister[l].meta, token) THEN "stale" ELSE "alive"]
    /\ UNCHANGED <<clock, proc, sess, dir>>

JudgePid(l) ==
    LET m == lister[l].on IN
    /\ lister[l].at = "read"
    /\ \E token \in {clock[m].boot, NoBoot} :
         lister' = [lister EXCEPT ![l].at =
            IF OtherBoot(lister[l].meta, token) \/ ~pid_alive(m, lister[l].meta.pid)
            THEN "stale" ELSE "alive"]
    /\ UNCHANGED <<clock, proc, sess, dir>>

\* process_start_unix, where there is such a process and the system says.
StartSaid(m, pid) == proc[m][pid] # NoProc /\ proc[m][pid].said
process_start_unix(m, pid) == clock[m].epoch + clock[m].ahead + proc[m][pid].start

\* Mutant: no slack.
Later(m, meta) ==
    StartSaid(m, meta.pid) /\ process_start_unix(m, meta.pid) > meta.created

\* The pid's process started well after the entry was written.
Recycled(m, meta) ==
    /\ StartSaid(m, meta.pid)
    /\ process_start_unix(m, meta.pid) > meta.created + PID_REUSE_SLACK_SECS

JudgeStart(l) ==
    LET m == lister[l].on IN
    /\ lister[l].at = "alive"
    /\ lister' = [lister EXCEPT ![l] =
         IF Recycled(m, lister[l].meta)
         THEN [@ EXCEPT !.at = "stale", !.ahead = clock[m].ahead] ELSE Idle]
    /\ UNCHANGED <<clock, proc, sess, dir>>

\* remove_dir_all
Prune(l) ==
    /\ lister[l].at = "stale"
    /\ dir' = [dir EXCEPT ![lister[l].id] = Absent]
    /\ lister' = [lister EXCEPT ![l] = Idle]
    /\ UNCHANGED <<clock, proc, sess>>

-----------------------------------------------------------------------------

Machine(m) ==
    \/ Tick(m) \/ SetWallClock(m) \/ Reboot(m)
    \/ \E p \in Pids : OtherStarts(m, p) \/ Die(m, p)

Session(i) ==
    \/ \E m \in Machines, p \in Pids : Start(i, m, p)
    \/ MakeMeta(i) \/ CreateDir(i) \/ update(i) \/ DropGuard(i)

Judging(l) == JudgePid(l) \/ JudgeStart(l) \/ Prune(l)

Next ==
    \/ \E m \in Machines : Machine(m)
    \/ \E i \in Ids : Session(i)
    \/ \E l \in Listers : Judging(l) \/ \E m \in Machines, i \in Ids : ReadEntry(l, m, i)

Spec == Init /\ [][Next]_vars

\* Somebody on the machine of every session lists again and again, and a list
\* looks at every entry there is.
LiveSpec ==
    /\ Spec
    /\ \A l \in Listers : WF_vars(Judging(l))
    /\ \A i \in Ids : SF_vars(\E l \in Listers : ReadEntry(l, sess[i].on, i))

-----------------------------------------------------------------------------
(* Properties. *)

\* A judgement on evidence that is not about the session's process: another
\* machine's, or two times that one wall clock told before and after it was set
\* ahead by more than the slack.
Misled(l) ==
    LET s == sess[lister[l].id] IN
    lister[l].on # s.on \/ lister[l].ahead > s.ahead + PID_REUSE_SLACK_SECS

\* A step in which the entry of a session that is registered before and after
\* it changes is a removal by a lister that was misled about that session.
OnlyMisledPrune ==
    \A i \in Ids :
        /\ sess[i].at = "registered" /\ sess'[i].at = "registered"
        /\ dir'[i] # dir[i]
        => \E l \in Listers : lister[l].at = "stale" /\ lister[l].id = i /\ Misled(l)

\* A running session can be found: from the moment its meta.json is written
\* until it takes it away itself, nobody who lists removes it, whatever became
\* of pids, boots and clocks between the questions of entry_is_stale. There are
\* two exceptions and no third: a lister on another machine that shares the
\* directory, and one that judged after this machine's wall clock was set ahead
\* by more than PID_REUSE_SLACK_SECS since the session dated its record.
LiveEntryStays == [][OnlyMisledPrune]_vars

\* What a session that is gone has left, and what there is to judge it by.
Left(i) == sess[i].at = "ended" /\ dir[i].is = "meta"
LeftByNobody(i) == IF Left(i) THEN ~pid_alive(sess[i].on, dir[i].pid) ELSE FALSE
LeftToAnother(i) == IF Left(i) THEN Recycled(sess[i].on, dir[i]) ELSE FALSE

\* The entry of a session that is gone does not stay for ever: neither while
\* its pid is nobody's, nor while it is that of a process known to have
\* started later (list_in, entry_is_stale).
DeadEntryGoes ==
    \A i \in Ids : []<>~LeftByNobody(i) /\ []<>~LeftToAnother(i)

=============================================================================
