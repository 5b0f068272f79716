--------------------------- MODULE RegistryProofs ---------------------------
(***************************************************************************)
(* Who removes a running session from the list, for any number of          *)
(* sessions, machines, pids, listers, seconds and boots, and wherever the  *)
(* wall clocks are set.                                                    *)
(*                                                                         *)
(* The property is not inductive: it says nothing of a lister that has     *)
(* judged already and will remove what it judged. The invariant adds what  *)
(* every judgement rests on. The pid of a running session is its own       *)
(* process's, on its machine; its record was dated after that process      *)
(* started, by the wall clock as it was then, and its token, if any, is of *)
(* this boot; what a lister holds is the record as the session made it,    *)
(* and what it judged stale belongs to a session that has ended, which no  *)
(* session ever un-does, or was judged on evidence that misleads.          *)
(***************************************************************************)
EXTENDS Registry, TLAPS

Boot == Nat \ {NoBoot}
Clock == [boot : Boot, t : Nat, epoch : Nat, ahead : Nat]
Processes == [is : {"process"}, start : Nat, said : BOOLEAN, who : Ids \cup {Nobody}]
Metas == [is : {"meta"}, pid : Pids, created : Nat, boot : Nat]
Running == {"lobby", "registering", "registered"}
Stage == Running \cup {"unborn", "started", "ended"}
Sessions == [at : Stage, on : Machines \cup {Nobody}, pid : Pids \cup {Nobody},
             meta : Metas \cup {NoMeta}, ahead : Nat]
Rounds == [at : {"idle", "read", "alive", "stale"}, on : Machines \cup {Nobody},
           id : Ids \cup {Nobody}, meta : Metas \cup {NoMeta}, ahead : Nat]

Types ==
    /\ clock \in [Machines -> Clock]
    /\ proc \in [Machines -> [Pids -> Processes \cup {NoProc}]]
    /\ sess \in [Ids -> Sessions]
    /\ dir \in [Ids -> Metas \cup {Absent, Bare}]
    /\ lister \in [Listers -> Rounds]

\* The process of a session that has begun and not ended is its own.
Owned(i) ==
    sess[i].at \in Running \cup {"started"} =>
        /\ sess[i].on \in Machines /\ sess[i].pid \in Pids
        /\ proc[sess[i].on][sess[i].pid] \in Processes
        /\ proc[sess[i].on][sess[i].pid].who = i
        /\ proc[sess[i].on][sess[i].pid].start <= clock[sess[i].on].t

\* The record of a running session is of its process, this boot, and no older
\* than its process by the wall clock that dated it.
Dated(i) ==
    sess[i].at \in Running =>
        /\ sess[i].meta \in Metas
        /\ sess[i].meta.pid = sess[i].pid
        /\ sess[i].meta.boot \in {NoBoot, clock[sess[i].on].boot}
        /\ clock[sess[i].on].epoch + proc[sess[i].on][sess[i].pid].start
             + sess[i].ahead <= sess[i].meta.created

\* What meta.json says is what its session recorded, and a registered session's
\* directory has it or was removed.
Written(i) ==
    /\ dir[i] \in Metas =>
         dir[i] = sess[i].meta /\ sess[i].at \in Running \cup {"ended"}
    /\ sess[i].at = "registered" => dir[i] \in {Absent, sess[i].meta}

\* What a lister holds, and that it judged right or was misled.
Looking(l) ==
    lister[l].at # "idle" =>
        /\ lister[l].on \in Machines
        /\ lister[l].id \in Ids /\ lister[l].meta \in Metas
        /\ lister[l].meta = sess[lister[l].id].meta
        /\ sess[lister[l].id].at \in Running \cup {"ended"}
        /\ lister[l].at = "stale" => sess[lister[l].id].at = "ended" \/ Misled(l)

Inv ==
    /\ Types
    /\ \A i \in Ids : Owned(i) /\ Dated(i) /\ Written(i)
    /\ \A l \in Listers : Looking(l)

-----------------------------------------------------------------------------

\* The values the records of this module may be are told apart by `is`.
LEMMA Kinds ==
    /\ NoProc \notin Processes /\ NoMeta \notin Metas
    /\ Absent \notin Metas /\ Bare \notin Metas
    /\ \A m \in Metas \cup {Absent, Bare} : m.is = "meta" => m \in Metas
<1>1. NoProc \notin Processes  BY DEF NoProc, Processes
<1>2. NoMeta \notin Metas  BY DEF NoMeta, Metas
<1>3. Absent \notin Metas  BY DEF Absent, Metas
<1>4. Bare \notin Metas  BY DEF Bare, Metas
<1>5. Absent.is # "meta" /\ Bare.is # "meta"  BY DEF Absent, Bare
<1> QED BY <1>1, <1>2, <1>3, <1>4, <1>5

\* A process that ends leaves its session's record as it was.
LEMMA EndedKeeps ==
    ASSUME NEW s \in Sessions
    PROVE  Ended(s) \in Sessions /\ Ended(s).meta = s.meta /\ Ended(s).at = "ended"
BY ClockAssumption DEF Sessions, Stage, Ended

\* A step of a clock alone, within one boot and not back.
LEMMA ClockStep ==
    ASSUME Inv, UNCHANGED <<proc, sess, dir, lister>>,
           NEW m \in Machines, NEW k \in Clock, clock' = [clock EXCEPT ![m] = k],
           k.boot = clock[m].boot, k.epoch = clock[m].epoch, k.t >= clock[m].t
    PROVE  Inv'
<1>1. Types'
  BY DEF Inv, Types
<1>2. ASSUME NEW n \in Machines
      PROVE  /\ clock'[n].boot = clock[n].boot /\ clock'[n].epoch = clock[n].epoch
             /\ clock'[n].t >= clock[n].t /\ clock'[n].t \in Nat /\ clock[n].t \in Nat
  BY DEF Inv, Types, Clock
<1>3. ASSUME NEW j \in Ids PROVE Owned(j)'
  BY <1>2 DEF Inv, Owned, Processes
<1>4. ASSUME NEW j \in Ids PROVE Dated(j)' /\ Written(j)'
  BY <1>2 DEF Inv, Owned, Dated, Written
<1>5. ASSUME NEW j \in Listers PROVE Looking(j)'
  BY DEF Inv, Looking, Misled
<1> QED BY <1>1, <1>3, <1>4, <1>5 DEF Inv

\* Tick
LEMMA TickInv ==
    ASSUME Inv, NEW m \in Machines, Tick(m)
    PROVE  Inv'
<1> DEFINE k == [clock[m] EXCEPT !.t = @ + 1]
<1>1. clock[m] \in Clock
  BY DEF Inv, Types
<1>2. k \in Clock /\ k.boot = clock[m].boot /\ k.epoch = clock[m].epoch
      /\ k.t >= clock[m].t
  BY <1>1 DEF Clock
<1>3. clock' = [clock EXCEPT ![m] = k]
  BY DEF Inv, Types, Tick
<1> HIDE DEF k
<1> QED BY <1>2, <1>3, ClockStep DEF Tick

\* SetWallClock
LEMMA SetWallClockInv ==
    ASSUME Inv, NEW m \in Machines, SetWallClock(m)
    PROVE  Inv'
<1>1. PICK a \in 0..MaxStep : clock' = [clock EXCEPT ![m].ahead = a]
  BY DEF SetWallClock
<1> DEFINE k == [clock[m] EXCEPT !.ahead = a]
<1>2. clock[m] \in Clock
  BY DEF Inv, Types
<1>3. k \in Clock /\ k.boot = clock[m].boot /\ k.epoch = clock[m].epoch
      /\ k.t >= clock[m].t
  BY <1>2 DEF Clock
<1>4. clock' = [clock EXCEPT ![m] = k]
  BY <1>1 DEF Inv, Types
<1> HIDE DEF k
<1> QED BY <1>3, <1>4, ClockStep DEF SetWallClock

\* OtherStarts: no session has the pid, or it would have its process.
LEMMA OtherStartsInv ==
    ASSUME Inv, NEW m \in Machines, NEW p \in Pids, OtherStarts(m, p)
    PROVE  Inv'
<1>1. PICK said \in BOOLEAN :
        proc' = [proc EXCEPT ![m][p] = Process(clock[m].t, said, Nobody)]
  BY DEF OtherStarts
<1>2. Process(clock[m].t, said, Nobody) \in Processes
  BY DEF Inv, Types, Process, Processes, Clock
<1>3. Types'
  BY <1>1, <1>2 DEF Inv, Types, OtherStarts
<1>4. ASSUME NEW j \in Ids, sess[j].at \in Running \cup {"started"}
      PROVE  proc'[sess[j].on][sess[j].pid] = proc[sess[j].on][sess[j].pid]
  BY <1>1, <1>4, Kinds DEF Inv, Types, Owned, OtherStarts
<1>5. ASSUME NEW j \in Ids PROVE Owned(j)' /\ Dated(j)'
  BY <1>4 DEF Inv, Owned, Dated, OtherStarts
<1>6. ASSUME NEW j \in Ids PROVE Written(j)'
  BY DEF Inv, Written, OtherStarts
<1>7. ASSUME NEW j \in Listers PROVE Looking(j)'
  BY DEF Inv, Looking, Misled, OtherStarts
<1> QED BY <1>3, <1>5, <1>6, <1>7 DEF Inv

\* Sessions may end and keep their records; the others keep all they have.
LEMMA EndStep ==
    ASSUME Inv, Types', UNCHANGED dir,
           \A j \in Ids : sess'[j] \in {sess[j], Ended(sess[j])},
           \A j \in Ids : sess'[j].at \in Running \cup {"started"} =>
               /\ proc'[sess[j].on][sess[j].pid] = proc[sess[j].on][sess[j].pid]
               /\ clock'[sess[j].on] = clock[sess[j].on],
           \A k \in Listers : lister'[k] \in {lister[k], Idle}
    PROVE  Inv'
<1>1. ASSUME NEW j \in Ids
      PROVE  /\ sess'[j].meta = sess[j].meta
             /\ sess'[j].at # "ended" => sess'[j] = sess[j]
             /\ sess[j].at \in Running \cup {"ended"} => sess'[j].at \in {sess[j].at, "ended"}
  BY EndedKeeps DEF Inv, Types
<1>2. ASSUME NEW j \in Ids PROVE Owned(j)' /\ Dated(j)'
  BY <1>1 DEF Inv, Owned, Dated, Running
<1>3. ASSUME NEW j \in Ids PROVE Written(j)'
  BY <1>1 DEF Inv, Written
<1>4. ASSUME NEW k \in Listers PROVE Looking(k)'
  BY <1>1 DEF Inv, Looking, Misled, Idle
<1> QED BY <1>2, <1>3, <1>4 DEF Inv

\* Die: the session whose process it was ends, and no other had that pid.
LEMMA DieInv ==
    ASSUME Inv, NEW m \in Machines, NEW p \in Pids, Die(m, p)
    PROVE  Inv'
<1>1. sess' \in [Ids -> Sessions]
  BY EndedKeeps DEF Die, Inv, Types
<1>2. Types'
  BY <1>1 DEF Die, Inv, Types
<1>3. ASSUME NEW j \in Ids PROVE sess'[j] \in {sess[j], Ended(sess[j])}
  BY DEF Die
<1>4. ASSUME NEW j \in Ids, sess'[j].at \in Running \cup {"started"}
      PROVE  proc'[sess[j].on][sess[j].pid] = proc[sess[j].on][sess[j].pid]
  <2>1. sess'[j].at # "ended"
    BY <1>4 DEF Running
  <2>2. sess'[j] = sess[j] /\ j # proc[m][p].who
    BY <2>1, EndedKeeps DEF Die, Inv, Types
  <2> QED BY <1>4, <2>2 DEF Die, Inv, Types, Owned
<1> QED BY <1>2, <1>3, <1>4, EndStep DEF Die

\* Reboot: every session and every list on that machine ends.
LEMMA RebootInv ==
    ASSUME Inv, NEW m \in Machines, Reboot(m)
    PROVE  Inv'
<1>1. clock' \in [Machines -> Clock]
  BY ClockAssumption DEF Reboot, Inv, Types, Clock, Boot, NoBoot, now_unix
<1>2. sess' \in [Ids -> Sessions]
  BY EndedKeeps DEF Reboot, Inv, Types
<1>3. Idle \in Rounds
  BY ClockAssumption DEF Idle, Rounds
<1>4. lister' \in [Listers -> Rounds]
  BY <1>3 DEF Reboot, Inv, Types
<1>5. Types'
  BY <1>1, <1>2, <1>4 DEF Reboot, Inv, Types
<1>6. ASSUME NEW j \in Ids PROVE sess'[j] \in {sess[j], Ended(sess[j])}
  BY DEF Reboot
<1>7. ASSUME NEW j \in Ids, sess'[j].at \in Running \cup {"started"}
      PROVE  /\ proc'[sess[j].on][sess[j].pid] = proc[sess[j].on][sess[j].pid]
             /\ clock'[sess[j].on] = clock[sess[j].on]
  <2>1. sess'[j].at # "ended"
    BY <1>7 DEF Running
  <2>2. sess[j].on # m /\ sess'[j] = sess[j]
    BY <2>1, EndedKeeps DEF Reboot, Inv, Types
  <2>3. sess[j].on \in Machines
    BY <1>7, <2>2 DEF Inv, Owned
  <2> QED BY <2>2, <2>3 DEF Reboot, Inv, Types
<1>8. ASSUME NEW k \in Listers PROVE lister'[k] \in {lister[k], Idle}
  BY DEF Reboot
<1> QED BY <1>5, <1>6, <1>7, <1>8, EndStep DEF Reboot

\* Start: the process is new, and it is the session's own.
LEMMA StartInv ==
    ASSUME Inv, NEW i \in Ids, NEW m \in Machines, NEW p \in Pids, Start(i, m, p)
    PROVE  Inv'
<1>1. PICK said \in BOOLEAN : proc' = [proc EXCEPT ![m][p] = Process(clock[m].t, said, i)]
  BY DEF Start
<1> DEFINE q == Process(clock[m].t, said, i)
           s == [Unborn EXCEPT !.at = "started", !.on = m, !.pid = p]
<1>2. q \in Processes /\ q.who = i /\ q.start = clock[m].t /\ q.start \in Nat
  BY DEF Inv, Types, Process, Processes, Clock
<1>3. s \in Sessions /\ s.at = "started" /\ s.on = m /\ s.pid = p
  BY ClockAssumption DEF Unborn, Sessions, Stage
<1>4. sess' = [sess EXCEPT ![i] = s] /\ proc' = [proc EXCEPT ![m][p] = q]
  BY <1>1 DEF Start
<1>5. sess[i].at = "unborn"
  BY DEF Start, Unborn
<1> HIDE DEF q, s
<1>6. Types'
  BY <1>2, <1>3, <1>4 DEF Inv, Types, Start
<1>7. ASSUME NEW j \in Ids PROVE Owned(j)' /\ Dated(j)'
  <2>1. CASE j # i
    <3>1. sess'[j] = sess[j] /\ UNCHANGED clock
      BY <1>4, <2>1 DEF Start
    <3>2. sess[j].at \in Running \cup {"started"} =>
            proc'[sess[j].on][sess[j].pid] = proc[sess[j].on][sess[j].pid]
      BY <1>4, Kinds DEF Inv, Types, Owned, Start
    <3> QED BY <3>1, <3>2 DEF Inv, Owned, Dated
  <2>2. CASE j = i
    <3>1. sess'[i] = s /\ proc'[m][p] = q /\ UNCHANGED clock
      BY <1>4 DEF Inv, Types, Start
    <3> QED BY <1>2, <1>3, <2>2, <3>1 DEF Owned, Dated, Running
  <2> QED BY <2>1, <2>2
<1>8. ASSUME NEW j \in Ids PROVE Written(j)'
  BY <1>3, <1>4, <1>5 DEF Inv, Types, Written, Start, Running
<1>9. ASSUME NEW k \in Listers PROVE Looking(k)'
  BY <1>4, <1>5 DEF Inv, Types, Looking, Misled, Start, Running
<1> QED BY <1>6, <1>7, <1>8, <1>9 DEF Inv

\* MakeMeta: the record is dated now, which is no earlier than its process.
LEMMA MakeMetaInv ==
    ASSUME Inv, NEW i \in Ids, MakeMeta(i)
    PROVE  Inv'
<1> DEFINE m == sess[i].on
<1>1. PICK boot \in {clock[m].boot, NoBoot} :
        sess' = [sess EXCEPT ![i] =
            [@ EXCEPT !.at = "lobby", !.ahead = clock[m].ahead,
                      !.meta = Meta(sess[i].pid, now_unix(m), boot)]]
  BY Zenon DEF MakeMeta
<1> DEFINE t == Meta(sess[i].pid, now_unix(m), boot)
           r == [sess[i] EXCEPT !.at = "lobby", !.ahead = clock[m].ahead, !.meta = t]
<1>2. /\ m \in Machines /\ sess[i].pid \in Pids /\ sess[i].at = "started"
      /\ clock[m] \in Clock /\ proc[m][sess[i].pid] \in Processes
      /\ proc[m][sess[i].pid].start <= clock[m].t /\ sess[i] \in Sessions
  BY DEF Inv, Types, MakeMeta, Owned
<1>3. t \in Metas /\ t.pid = sess[i].pid /\ t.boot = boot /\ t.created = now_unix(m)
  <2>1. now_unix(m) \in Nat /\ boot \in Nat
    BY <1>2, ClockAssumption DEF Clock, now_unix, NoBoot, Boot
  <2> QED BY <1>2, <2>1 DEF Meta, Metas
<1>4. clock[m].epoch + proc[m][sess[i].pid].start + clock[m].ahead <= now_unix(m)
  BY <1>2, ClockAssumption DEF Clock, Processes, now_unix
<1> HIDE DEF t
<1>5. /\ r \in Sessions /\ r.at = "lobby" /\ r.meta = t /\ r.ahead = clock[m].ahead
      /\ r.on = m /\ r.pid = sess[i].pid
  BY <1>2, <1>3 DEF Sessions, Stage, Running, Clock
<1>6. sess' = [sess EXCEPT ![i] = r] /\ sess'[i] = r
      /\ \A j \in Ids : j # i => sess'[j] = sess[j]
  BY <1>1, Zenon DEF Inv, Types, t
<1> HIDE DEF r
<1>7. Types'
  BY <1>5, <1>6 DEF MakeMeta, Inv, Types
<1>8. ASSUME NEW j \in Ids PROVE Owned(j)'
  <2>1. CASE j # i
    BY <1>6, <2>1 DEF Inv, Owned, MakeMeta
  <2>2. CASE j = i
    <3>1. Owned(i) /\ sess[i].at \in Running \cup {"started"}
      BY <1>2 DEF Inv
    <3>2. sess'[i].on = sess[i].on /\ sess'[i].pid = sess[i].pid
      BY <1>5, <1>6
    <3> QED BY <2>2, <3>1, <3>2 DEF Owned, MakeMeta
  <2> QED BY <2>1, <2>2
<1>9. ASSUME NEW j \in Ids PROVE Dated(j)'
  <2>1. CASE j # i
    BY <1>6, <2>1 DEF Inv, Dated, MakeMeta
  <2>2. CASE j = i
    <3>1. /\ sess'[i].meta = t /\ sess'[i].pid = sess[i].pid /\ sess'[i].on = m
          /\ sess'[i].ahead = clock[m].ahead
      BY <1>5, <1>6
    <3>2. UNCHANGED <<clock, proc>>
      BY DEF MakeMeta
    <3>3. boot \in {NoBoot, clock[m].boot}
      OBVIOUS
    <3>4. clock[m].epoch + proc[m][sess[i].pid].start + clock[m].ahead <= t.created
      BY <1>3, <1>4
    <3> HIDE DEF m
    <3> QED BY <1>3, <2>2, <3>1, <3>2, <3>3, <3>4 DEF Dated
  <2> QED BY <2>1, <2>2
<1>10. ASSUME NEW j \in Ids PROVE Written(j)'
  BY <1>2, <1>5, <1>6 DEF Inv, Written, MakeMeta, Running
<1>11. ASSUME NEW k \in Listers PROVE Looking(k)'
  BY <1>2, <1>6 DEF Inv, Looking, Misled, MakeMeta, Running
<1> QED BY <1>7, <1>8, <1>9, <1>10, <1>11 DEF Inv

\* A running session's directory changes, and how far the session is with it.
LEMMA EntryStep ==
    ASSUME Inv, UNCHANGED <<clock, proc, lister>>,
           NEW i \in Ids, sess[i].at \in Running,
           NEW at \in Running, NEW d \in {Absent, Bare, sess[i].meta},
           at = "registered" => d = sess[i].meta,
           sess' = [sess EXCEPT ![i].at = at], dir' = [dir EXCEPT ![i] = d]
    PROVE  Inv'
<1>1. Dated(i)
  BY DEF Inv
<1>2. Types'
  <2>1. sess' \in [Ids -> Sessions]
    <3>1. sess[i] \in Sessions /\ at \in Stage
      BY DEF Inv, Types, Stage
    <3>2. [sess[i] EXCEPT !.at = at] \in Sessions
      BY <3>1 DEF Sessions
    <3> QED BY <3>2 DEF Inv, Types
  <2>2. dir' \in [Ids -> Metas \cup {Absent, Bare}]
    BY <1>1 DEF Inv, Types, Dated
  <2> QED BY <2>1, <2>2 DEF Inv, Types
<1>3. ASSUME NEW j \in Ids
      PROVE  sess'[j].on = sess[j].on /\ sess'[j].pid = sess[j].pid
             /\ sess'[j].meta = sess[j].meta /\ sess'[j].ahead = sess[j].ahead
             /\ sess'[j].at = IF j = i THEN at ELSE sess[j].at
  BY DEF Inv, Types, Sessions
<1>4. ASSUME NEW j \in Ids PROVE Owned(j)' /\ Dated(j)'
  <2>1. sess'[j].at \in Running => sess[j].at \in Running
    BY <1>3
  <2>2. sess'[j].at = "started" => sess[j].at = "started"
    BY <1>3 DEF Running
  <2>3. Owned(j)'
    BY <1>3, <2>1, <2>2 DEF Inv, Owned
  <2>4. Dated(j)'
    BY <1>3, <2>1 DEF Inv, Dated
  <2> QED BY <2>3, <2>4
<1>5. ASSUME NEW j \in Ids PROVE Written(j)'
  BY <1>3, Kinds DEF Inv, Types, Written
<1>6. ASSUME NEW k \in Listers PROVE Looking(k)'
  BY <1>3 DEF Inv, Looking, Misled, Running
<1> QED BY <1>2, <1>4, <1>5, <1>6 DEF Inv

\* CreateDir
LEMMA CreateDirInv ==
    ASSUME Inv, NEW i \in Ids, CreateDir(i)
    PROVE  Inv'
BY EntryStep DEF CreateDir, Running

\* update
LEMMA updateInv ==
    ASSUME Inv, NEW i \in Ids, update(i)
    PROVE  Inv'
BY EntryStep DEF update, Running

\* DropGuard
LEMMA DropGuardInv ==
    ASSUME Inv, NEW i \in Ids, DropGuard(i)
    PROVE  Inv'
BY EntryStep DEF DropGuard, Running

\* One lister goes on, and nothing else changes.
LEMMA ListerStep ==
    ASSUME Inv, UNCHANGED <<clock, proc, sess, dir>>,
           NEW l \in Listers, NEW r \in Rounds, lister' = [lister EXCEPT ![l] = r],
           Looking(l)'
    PROVE  Inv'
<1>1. Types'
  BY DEF Inv, Types
<1>2. ASSUME NEW j \in Ids PROVE Owned(j)' /\ Dated(j)' /\ Written(j)'
  BY DEF Inv, Owned, Dated, Written
<1>3. ASSUME NEW k \in Listers PROVE Looking(k)'
  BY DEF Inv, Types, Looking, Misled
<1> QED BY <1>1, <1>2, <1>3 DEF Inv

\* ReadEntry: what is read is the record its session made.
LEMMA ReadEntryInv ==
    ASSUME Inv, NEW l \in Listers, NEW m \in Machines, NEW i \in Ids, ReadEntry(l, m, i)
    PROVE  Inv'
<1> DEFINE r == [Idle EXCEPT !.at = "read", !.on = m, !.id = i, !.meta = dir[i]]
<1>1. dir[i] \in Metas
  BY Kinds DEF Inv, Types, ReadEntry
<1>2. r \in Rounds /\ r.at = "read" /\ r.on = m /\ r.id = i /\ r.meta = dir[i]
  BY <1>1, ClockAssumption DEF Rounds, Idle
<1>3. lister' = [lister EXCEPT ![l] = r]
  BY DEF ReadEntry
<1> HIDE DEF r
<1>4. Looking(l)'
  BY <1>1, <1>2, <1>3 DEF Inv, Types, Written, Looking, ReadEntry
<1> QED BY <1>2, <1>3, <1>4, ListerStep DEF ReadEntry

\* JudgePid: a running session has a process on its machine, and a token of
\* this boot if any.
LEMMA JudgePidInv ==
    ASSUME Inv, NEW l \in Listers, JudgePid(l)
    PROVE  Inv'
<1> DEFINE m == lister[l].on
           e == lister[l].meta
           i == lister[l].id
<1>1. PICK token \in {clock[m].boot, NoBoot} :
        lister' = [lister EXCEPT ![l].at =
          IF OtherBoot(e, token) \/ ~pid_alive(m, e.pid) THEN "stale" ELSE "alive"]
  BY DEF JudgePid
<1>2. /\ m \in Machines /\ e \in Metas /\ i \in Ids /\ e = sess[i].meta
      /\ sess[i].at \in Running \cup {"ended"}
  BY DEF Inv, Looking, JudgePid
<1>3. ASSUME sess[i].at \in Running, m = sess[i].on
      PROVE  ~OtherBoot(e, token) /\ pid_alive(m, e.pid)
  <2>1. Owned(i) /\ Dated(i)
    BY <1>2 DEF Inv
  <2>2. proc[m][e.pid] \in Processes
    BY <1>2, <1>3, <2>1 DEF Owned, Dated
  <2>3. e.boot \in {NoBoot, clock[m].boot}
    BY <1>2, <1>3, <2>1 DEF Dated
  <2> QED BY <2>2, <2>3, Kinds DEF OtherBoot, pid_alive
<1> DEFINE r == [lister[l] EXCEPT !.at =
                   IF OtherBoot(e, token) \/ ~pid_alive(m, e.pid) THEN "stale" ELSE "alive"]
<1>4. /\ r \in Rounds /\ lister' = [lister EXCEPT ![l] = r]
      /\ r.on = m /\ r.id = i /\ r.meta = e
      /\ (r.at = "stale" => sess[i].at = "ended" \/ m # sess[i].on)
  BY <1>1, <1>2, <1>3 DEF Inv, Types, Rounds
<1> HIDE DEF r
<1>5. Looking(l)'
  BY <1>2, <1>4 DEF Inv, Types, Looking, Misled, JudgePid
<1> QED BY <1>4, <1>5, ListerStep DEF JudgePid

\* JudgeStart: a running session's record is no older than its process by the
\* wall clock that dated it, so that it takes one set ahead by more than the
\* slack since to make the process look younger.
LEMMA JudgeStartInv ==
    ASSUME Inv, NEW l \in Listers, JudgeStart(l)
    PROVE  Inv'
<1> DEFINE m == lister[l].on
           e == lister[l].meta
           i == lister[l].id
<1>1. /\ m \in Machines /\ e \in Metas /\ i \in Ids /\ e = sess[i].meta
      /\ sess[i].at \in Running \cup {"ended"}
      /\ clock[m] \in Clock /\ sess[i] \in Sessions
  BY DEF Inv, Types, Looking, JudgeStart
<1>2. ASSUME sess[i].at \in Running, m = sess[i].on, Recycled(m, e)
      PROVE  clock[m].ahead > sess[i].ahead + PID_REUSE_SLACK_SECS
  <2>1. /\ proc[m][e.pid] \in Processes
        /\ clock[m].epoch + proc[m][e.pid].start + sess[i].ahead <= e.created
    <3>1. Owned(i) /\ Dated(i)
      BY <1>1 DEF Inv
    <3> QED BY <1>1, <1>2, <3>1 DEF Owned, Dated
  <2>2. clock[m].epoch + clock[m].ahead + proc[m][e.pid].start
          > e.created + PID_REUSE_SLACK_SECS
    BY <1>2 DEF Recycled, process_start_unix
  <2>3. /\ clock[m].epoch \in Nat /\ clock[m].ahead \in Int /\ proc[m][e.pid].start \in Nat
        /\ sess[i].ahead \in Int /\ e.created \in Nat /\ PID_REUSE_SLACK_SECS \in Nat
    <3> HIDE DEF m, e, i
    <3>1. clock[m].epoch \in Nat /\ clock[m].ahead \in Int
      BY <1>1 DEF Clock
    <3>2. sess[i].ahead \in Int /\ e.created \in Nat
      BY <1>1 DEF Metas, Sessions
    <3>3. proc[m][e.pid].start \in Nat
      BY <2>1 DEF Processes
    <3> QED BY <3>1, <3>2, <3>3, ClockAssumption
  <2> QED BY ONLY <2>1, <2>2, <2>3
<1> DEFINE r == IF Recycled(m, e)
                THEN [lister[l] EXCEPT !.at = "stale", !.ahead = clock[m].ahead] ELSE Idle
<1>3. Idle \in Rounds /\ Idle.at = "idle"
  BY ClockAssumption DEF Idle, Rounds
<1>4. r \in Rounds /\ lister' = [lister EXCEPT ![l] = r]
  BY <1>1, <1>3 DEF Inv, Types, JudgeStart, Rounds, Clock
<1>5. \/ r.at = "idle"
      \/ /\ r.on = m /\ r.id = i /\ r.meta = e
         /\ sess[i].at = "ended" \/ m # sess[i].on
              \/ r.ahead > sess[i].ahead + PID_REUSE_SLACK_SECS
  BY <1>1, <1>2, <1>3 DEF Inv, Types, Rounds
<1> HIDE DEF r
<1>6. Looking(l)'
  BY <1>1, <1>4, <1>5 DEF Inv, Types, Looking, Misled, JudgeStart
<1> QED BY <1>4, <1>6, ListerStep DEF JudgeStart

\* Prune
LEMMA PruneInv ==
    ASSUME Inv, NEW l \in Listers, Prune(l)
    PROVE  Inv'
<1>1. Idle \in Rounds /\ Idle.at = "idle"
  BY ClockAssumption DEF Idle, Rounds
<1>2. Types'
  BY <1>1 DEF Inv, Types, Prune
<1>3. ASSUME NEW j \in Ids PROVE Owned(j)' /\ Dated(j)' /\ Written(j)'
  BY Kinds DEF Inv, Types, Owned, Dated, Written, Prune
<1>4. ASSUME NEW k \in Listers PROVE Looking(k)'
  BY <1>1 DEF Inv, Types, Looking, Misled, Prune
<1> QED BY <1>2, <1>3, <1>4 DEF Inv

\* An empty registry, before anything has started.
LEMMA InitInv == Init => Inv
<1> SUFFICES ASSUME Init PROVE Inv
  OBVIOUS
<1>1. clock \in [Machines -> Clock]
  BY ClockAssumption DEF Init, Clock, Boot, NoBoot
<1>2. Unborn \in Sessions /\ Idle \in Rounds
  BY ClockAssumption DEF Sessions, Stage, Unborn, Rounds, Idle
<1>3. Types
  BY <1>1, <1>2 DEF Init, Types
<1>4. \A i \in Ids : Owned(i) /\ Dated(i) /\ Written(i)
  BY Kinds DEF Init, Owned, Dated, Written, Unborn, Running
<1>5. \A l \in Listers : Looking(l)
  BY DEF Init, Looking, Idle
<1> QED BY <1>3, <1>4, <1>5 DEF Inv

\* Every step keeps the invariant.
LEMMA NextInv == Inv /\ [Next]_vars => Inv'
<1> SUFFICES ASSUME Inv, [Next]_vars PROVE Inv'
  OBVIOUS
<1>1. CASE UNCHANGED vars
  BY <1>1 DEF vars, Inv, Types, Owned, Dated, Written, Looking, Misled
<1>2. ASSUME NEW m \in Machines, Machine(m) PROVE Inv'
  BY <1>2, TickInv, SetWallClockInv, RebootInv, OtherStartsInv, DieInv DEF Machine
<1>3. ASSUME NEW i \in Ids, Session(i) PROVE Inv'
  BY <1>3, StartInv, MakeMetaInv, CreateDirInv, updateInv, DropGuardInv DEF Session
<1>4. ASSUME NEW l \in Listers, Judging(l) PROVE Inv'
  BY <1>4, JudgePidInv, JudgeStartInv, PruneInv DEF Judging
<1>5. ASSUME NEW l \in Listers, NEW m \in Machines, NEW i \in Ids, ReadEntry(l, m, i)
      PROVE  Inv'
  BY <1>5, ReadEntryInv
<1> QED BY <1>1, <1>2, <1>3, <1>4, <1>5 DEF Next

\* A step that leaves the directories alone, or the one of a session that is
\* not registered throughout.
LEMMA OthersDirs ==
    ASSUME Inv, NEW i \in Ids, CreateDir(i) \/ update(i) \/ DropGuard(i)
    PROVE  OnlyMisledPrune
<1>1. CASE CreateDir(i)
  BY <1>1 DEF Inv, Types, CreateDir, OnlyMisledPrune
<1>2. CASE update(i)
  BY <1>2 DEF Inv, Types, Written, update, OnlyMisledPrune
<1>3. CASE DropGuard(i)
  BY <1>3 DEF Inv, Types, Sessions, DropGuard, OnlyMisledPrune
<1> QED BY <1>1, <1>2, <1>3

\* Only a lister that was misled removes the entry of a registered session.
LEMMA StepKeepsEntries == Inv /\ [Next]_vars => OnlyMisledPrune \/ UNCHANGED vars
<1> SUFFICES ASSUME Inv, Next PROVE OnlyMisledPrune
  OBVIOUS
<1>1. ASSUME UNCHANGED dir PROVE OnlyMisledPrune
  BY <1>1 DEF OnlyMisledPrune
<1>2. ASSUME NEW l \in Listers, Prune(l) PROVE OnlyMisledPrune
  BY <1>2 DEF Inv, Types, Looking, Prune, OnlyMisledPrune
<1>3. ASSUME NEW i \in Ids, Session(i) PROVE OnlyMisledPrune
  BY <1>1, <1>3, OthersDirs DEF Session, Start, MakeMeta
<1>4. ASSUME NEW m \in Machines, Machine(m) PROVE UNCHANGED dir
  BY <1>4 DEF Machine, Tick, SetWallClock, Reboot, OtherStarts, Die
<1>5. ASSUME NEW l \in Listers, Judging(l) PROVE OnlyMisledPrune
  BY <1>1, <1>2, <1>5 DEF Judging, JudgePid, JudgeStart
<1>6. ASSUME NEW l \in Listers, NEW m \in Machines, NEW i \in Ids, ReadEntry(l, m, i)
      PROVE  UNCHANGED dir
  BY <1>6 DEF ReadEntry
<1> QED BY <1>1, <1>3, <1>4, <1>5, <1>6 DEF Next

\* Who removes a running session (list_in, entry_is_stale): from its meta.json
\* to its guard's drop the entry is there, unless it is removed by a lister on
\* another machine, or by one that judged after the wall clock was set ahead by
\* more than the slack since the record was dated. For every number of
\* sessions, machines, pids and listers, through every reuse of a pid, every
\* reboot and every setting of the clocks.
THEOREM RunningSessionsStayListed == Spec => LiveEntryStays
<1>1. Inv /\ [Next]_vars => [OnlyMisledPrune]_vars
  BY StepKeepsEntries
<1> QED BY <1>1, InitInv, NextInv, PTL DEF Spec, LiveEntryStays

=============================================================================
