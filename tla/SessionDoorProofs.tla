------------------------- MODULE SessionDoorProofs --------------------------
(***************************************************************************)
(* The safety of SessionDoor for any number of requests and names.         *)
(*                                                                         *)
(* The argument is about who holds the registration. At most one request   *)
(* does at a time: a start from its Register until the loop has given it a *)
(* shell, or until its entry is gone again; a kill from the moment the     *)
(* shell is dead until its entry is gone. While one does there is no       *)
(* shell, while there is a shell nobody does, and so no request ever takes *)
(* the guard from under a running one.                                     *)
(***************************************************************************)
EXTENDS SessionDoor, FiniteSetTheorems, TLAPS

OwnRec == [lobby : BOOLEAN, name : MaybeName, guard : BOOLEAN,
           detachable : BOOLEAN]

LoopRec == [pc : {"serving", "finishing", "over", "closing", "closed", "gone"},
            shell : {"none", "running", "exited"},
            killing : Requests \cup {Nobody}, guard : BOOLEAN]

TaskRec ==
    [pc : {"none", "open", "naming", "registering", "unnaming", "asking",
           "waiting", "unregistering", "dropping", "spawning", "relaying", "done"},
     kind : Kinds \cup {"none"},
     via : {"none", "Client", "Socket"}, name : MaybeName,
     reply : {"none", "ok", "err"}, guard : BOOLEAN,
     answer : {"none", "Refused", "Entry", "Done", "Preview", "Relayed", "Forwarded"}]

\* Door::start between its naming and its refusal.
NamingPcs == {"naming", "registering", "unnaming"}

\* Door::start has registered and has no shell yet, or takes the entry back.
Starting(t) ==
    /\ t.kind = "New"
    /\ \/ t.pc \in {"asking", "unregistering", "dropping"}
       \/ t.pc = "waiting" /\ t.reply # "ok"

\* Door::kill_self has its shell killed and the entry is still there.
Ending(t) ==
    /\ t.kind = "Kill"
    /\ \/ t.pc \in {"unregistering", "dropping"}
       \/ t.pc = "waiting" /\ t.reply = "ok"

Holding(t) == Starting(t) \/ Ending(t)

\* What a task holds at which place, whatever it was asked for.
Consistent(t) ==
    /\ t.guard => t.pc = "dropping"
    /\ t.reply # "none" => t.pc \in {"waiting", "unregistering", "dropping"}
    /\ t.pc \in NamingPcs => t.kind = "New"
    /\ t.pc \in {"asking", "waiting"} => t.kind \in {"New", "Kill", "Preview"}
    /\ t.pc \in {"unregistering", "dropping"} => t.kind \in {"New", "Kill"}

\* The registration has one guard, and the directory is there while it is.
Guards ==
    /\ own.lobby = ~own.guard
    /\ loop.guard => loop.pc = "closing"
    /\ ~(own.guard /\ loop.guard)
    /\ \A r \in Requests : tasks[r].guard => ~own.guard /\ ~loop.guard
    /\ \A r, q \in Requests : tasks[r].guard /\ tasks[q].guard => r = q
    /\ loop.pc # "gone" =>
         (entry # NoEntry <=>
            own.guard \/ loop.guard \/ \E r \in Requests : tasks[r].guard)
    /\ loop.pc = "gone" => ~own.guard /\ \A r \in Requests : tasks[r] = Idle

\* A command waits in the channel with its asker waiting for it, unless that is
\* a preview that was given up; the kill in progress has its asker waiting too.
Commands ==
    /\ \A r \in Requests : Consistent(tasks[r])
    /\ \A i \in 1..Len(cmds) :
         /\ tasks[cmds[i]].kind \in {"New", "Kill", "Preview"}
         /\ tasks[cmds[i]].kind # "Preview" =>
              tasks[cmds[i]].pc = "waiting" /\ tasks[cmds[i]].reply = "none"
         /\ cmds[i] # loop.killing
    /\ loop.pc \in {"closed", "gone"} => cmds = <<>>
    /\ loop.killing # Nobody =>
         /\ loop.pc = "serving" /\ loop.shell # "none"
         /\ tasks[loop.killing].kind = "Kill"
         /\ tasks[loop.killing].pc = "waiting"
         /\ tasks[loop.killing].reply = "none"

\* While the loop serves, one request holds the registration or the shell does.
Holders ==
    loop.pc = "serving" =>
      /\ \A r \in Requests : Holding(tasks[r]) =>
           /\ loop.shell = "none"
           /\ tasks[r].pc = "dropping" => tasks[r].guard
           /\ tasks[r].pc # "dropping" => own.guard
      /\ \A r, q \in Requests : Holding(tasks[r]) /\ Holding(tasks[q]) => r = q
      /\ loop.shell # "none" => own.guard
      /\ loop.shell = "none" /\ own.guard =>
           \E r \in Requests : Holding(tasks[r])

Core == TypeOK /\ Guards /\ Commands /\ Holders

NamedPcs == {"registering", "unnaming"}

\* While something is registered its record has the name of meta.json or none,
\* unless a start has just put its own name there.
Named == own.guard => own.name \in {entry, NoName} \/ Overtaking

Inv == Core /\ Named

-----------------------------------------------------------------------------

\* A request that has not arrived.
LEMMA IdleTask ==
    /\ Idle \in TaskRec /\ Consistent(Idle) /\ ~Idle.guard /\ ~Holding(Idle)
    /\ Idle.pc = "none" /\ Idle.kind = "none" /\ Idle.name = NoName
    /\ Idle.reply = "none"
BY DEF Idle, TaskRec, Consistent, Holding, Starting, Ending, NamingPcs,
       MaybeName, Kinds

\* What TypeOK says, part by part.
LEMMA Typed ==
    ASSUME TypeOK
    PROVE  /\ own \in OwnRec /\ loop \in LoopRec
           /\ tasks \in [Requests -> TaskRec]
           /\ cmds \in Seq(Requests) /\ Len(cmds) <= 1
           /\ entry \in MaybeName \cup {NoEntry} /\ others \subseteq Names
BY DEF TypeOK, OwnRec, LoopRec, TaskRec

\* One task moves: neither the guard nor the holding of the registration moves
\* with it.
LEMMA TaskStep ==
    ASSUME Core, NEW r \in Requests, NEW new \in TaskRec,
           tasks' = [tasks EXCEPT ![r] = new],
           UNCHANGED <<others, loop, cmds>>,
           entry' \in MaybeName \cup {NoEntry}, entry' = NoEntry <=> entry = NoEntry,
           own' \in OwnRec, own'.guard = own.guard, own'.lobby = own.lobby,
           loop.pc # "gone",
           ~tasks[r].guard, ~new.guard, Consistent(new),
           Holding(new) <=> Holding(tasks[r]),
           Holding(new) => new.pc # "dropping" /\ tasks[r].pc # "dropping",
           \A i \in 1..Len(cmds) : cmds[i] = r => new.kind = "Preview",
           loop.killing # r
    PROVE  Core'
<1>0. /\ tasks \in [Requests -> TaskRec] /\ tasks' \in [Requests -> TaskRec]
      /\ tasks'[r] = new
      /\ \A q \in Requests : q # r => tasks'[q] = tasks[q]
  BY Typed DEF Core
<1>1. TypeOK'
  BY <1>0 DEF Core, TypeOK, OwnRec, TaskRec
<1>2. Guards'
  <2>1. \A q \in Requests : tasks'[q].guard = tasks[q].guard
    BY <1>0 DEF TaskRec
  <2> QED BY <2>1 DEF Core, Guards
<1>3. Commands'
  <2>1. \A q \in Requests : Consistent(tasks'[q])
    BY <1>0 DEF Core, Commands
  <2>2. cmds \in Seq(Requests) /\ \A i \in 1..Len(cmds) : cmds[i] \in Requests
    BY Typed DEF Core
  <2>3. \A i \in 1..Len(cmds) :
          /\ tasks'[cmds[i]].kind \in {"New", "Kill", "Preview"}
          /\ tasks'[cmds[i]].kind # "Preview" =>
               tasks'[cmds[i]].pc = "waiting" /\ tasks'[cmds[i]].reply = "none"
          /\ cmds[i] # loop.killing
    BY <1>0, <2>2 DEF Core, Commands
  <2>4. loop.killing # Nobody => tasks'[loop.killing] = tasks[loop.killing]
    BY <1>0, Typed DEF Core, LoopRec
  <2> QED BY <2>1, <2>3, <2>4 DEF Core, Commands
<1>4. Holders'
  <2>1. \A q \in Requests :
          /\ Holding(tasks'[q]) <=> Holding(tasks[q])
          /\ Holding(tasks[q]) /\ q # r =>
               tasks'[q].pc = tasks[q].pc /\ tasks'[q].guard = tasks[q].guard
    BY <1>0
  <2>2. ASSUME NEW q \in Requests, Holding(tasks'[q]), loop.pc = "serving"
        PROVE  /\ loop.shell = "none"
               /\ tasks'[q].pc = "dropping" => tasks'[q].guard
               /\ tasks'[q].pc # "dropping" => own.guard
    BY <1>0, <2>1, <2>2 DEF Core, Holders
  <2> QED BY <2>1, <2>2 DEF Core, Holders
<1> QED BY <1>1, <1>2, <1>3, <1>4 DEF Core

\* The same step and the names: the record is renamed by a start that goes on,
\* and one that is refused leaves it without a name.
LEMMA NamedStep ==
    ASSUME Core, Named, NEW r \in Requests, NEW new \in TaskRec,
           tasks' = [tasks EXCEPT ![r] = new],
           UNCHANGED entry, own'.guard = own.guard,
           own'.name \in {own.name, NoName} \/ new.pc \in NamedPcs,
           tasks[r].pc \in NamedPcs => new.pc \in NamedPcs \/ own'.name = NoName
    PROVE  Named'
<1>0. /\ tasks'[r] = new
      /\ \A q \in Requests : q # r => tasks'[q] = tasks[q]
  BY Typed DEF Core
<1>1. CASE new.pc \in NamedPcs
  BY <1>0, <1>1 DEF Named, Overtaking, NamedPcs
<1>2. CASE own'.name = NoName
  BY <1>2 DEF Named
<1>3. CASE own'.name = own.name /\ tasks[r].pc \notin NamedPcs
  <2>1. Overtaking => Overtaking'
    BY <1>0, <1>3 DEF Overtaking, NamedPcs
  <2> QED BY <1>3, <2>1 DEF Named
<1> QED BY <1>1, <1>2, <1>3

\* The loop owes this task nothing: its command is not in the channel, or is
\* a preview's, and no kill is in progress for it.
Settled(r) ==
    \/ tasks[r].pc # "waiting" \/ tasks[r].reply # "none"
    \/ tasks[r].kind = "Preview" \/ loop.pc = "closed"

LEMMA SettledIs ==
    ASSUME Core, NEW r \in Requests, Settled(r), tasks[r].pc # "none"
    PROVE  /\ \A i \in 1..Len(cmds) : cmds[i] = r => tasks[r].kind = "Preview"
           /\ loop.killing # r
           /\ loop.pc # "gone"
<1>1. loop.pc # "gone"
  BY IdleTask DEF Core, Guards
<1>2. loop.killing # r
  BY DoorNames DEF Core, Commands, Settled
<1>3. loop.pc = "closed" => Len(cmds) = 0
  BY DEF Core, Commands
<1>4. \A i \in 1..Len(cmds) : cmds[i] = r => tasks[r].kind = "Preview"
  BY <1>3 DEF Core, Commands, Settled
<1> QED BY <1>1, <1>2, <1>4

\* A task goes on to another place.
LEMMA GoToInv ==
    ASSUME Inv, NEW r \in Requests,
           NEW pc \in {"naming", "registering", "unnaming", "asking",
                       "unregistering", "spawning", "relaying"},
           GoTo(r, pc), tasks[r].pc \notin {"none", "dropping"}, Settled(r),
           UNCHANGED <<entry, others, loop, cmds>>,
           own' \in OwnRec, own'.guard = own.guard, own'.lobby = own.lobby,
           own'.name = own.name \/ pc \in NamedPcs,
           tasks[r].pc \in NamedPcs => pc \in NamedPcs,
           pc \in NamingPcs => tasks[r].kind = "New",
           pc = "asking" => tasks[r].kind \in {"Kill", "Preview"},
           pc = "unregistering" => Holding(tasks[r]),
           pc \notin {"unregistering"} => ~Holding(tasks[r]) /\ tasks[r].reply = "none"
    PROVE  Inv'
<1> DEFINE old == tasks[r]
           new == [old EXCEPT !.pc = pc]
<1>1. old \in TaskRec /\ Consistent(old)
  BY Typed DEF Inv, Core, Commands
<1>2. /\ tasks' = [tasks EXCEPT ![r] = new]
      /\ new \in TaskRec /\ new.kind = old.kind /\ new.pc = pc
      /\ new.reply = old.reply /\ new.guard = old.guard
  BY <1>1, Typed DEF GoTo, Inv, Core, TaskRec
<1>3. ~old.guard
  BY <1>1 DEF Consistent, TaskRec
<1> HIDE DEF new
<1>4. Consistent(new)
  BY <1>1, <1>2, <1>3 DEF Consistent, Holding, Starting, Ending, NamingPcs
<1>5. Holding(new) <=> Holding(old)
  BY <1>1, <1>2 DEF Consistent, Holding, Starting, Ending, NamingPcs
<1>6. /\ \A i \in 1..Len(cmds) : cmds[i] = r => old.kind = "Preview"
      /\ loop.killing # r /\ loop.pc # "gone"
  BY SettledIs DEF Inv
<1>7. Core'
  BY <1>2, <1>3, <1>4, <1>5, <1>6, Typed, TaskStep DEF Inv, Core
<1>8. Named'
  BY <1>2, NamedStep DEF Inv
<1> QED BY <1>7, <1>8 DEF Inv

\* A task answers, and is over.
LEMMA AnswerInv ==
    ASSUME Inv, NEW r \in Requests,
           NEW answer \in {"Refused", "Entry", "Done", "Preview", "Relayed",
                           "Forwarded"},
           Answer(r, answer), tasks[r].pc \notin {"none", "dropping"}, Settled(r),
           UNCHANGED <<entry, others, loop, cmds>>,
           own' \in OwnRec, own'.guard = own.guard, own'.lobby = own.lobby,
           own'.name \in {own.name, NoName},
           tasks[r].pc \in NamedPcs => own'.name = NoName,
           ~Holding(tasks[r])
    PROVE  Inv'
<1> DEFINE old == tasks[r]
           new == [old EXCEPT !.pc = "done", !.answer = answer, !.name = NoName,
                              !.reply = "none", !.guard = FALSE]
<1>1. old \in TaskRec /\ Consistent(old)
  BY Typed DEF Inv, Core, Commands
<1>2. /\ tasks' = [tasks EXCEPT ![r] = new]
      /\ new \in TaskRec /\ new.kind = old.kind /\ new.pc = "done"
      /\ new.reply = "none" /\ new.guard = FALSE
  BY <1>1, Typed, ZenonT(30) DEF Answer, Inv, Core, TaskRec, MaybeName
<1>3. ~old.guard
  BY <1>1 DEF Consistent, TaskRec
<1> HIDE DEF new
<1>4. Consistent(new) /\ ~Holding(new)
  BY <1>2 DEF Consistent, Holding, Starting, Ending, NamingPcs
<1>5. /\ \A i \in 1..Len(cmds) : cmds[i] = r => old.kind = "Preview"
      /\ loop.killing # r /\ loop.pc # "gone"
  BY SettledIs DEF Inv
<1>6. Core'
  BY <1>2, <1>3, <1>4, <1>5, Typed, TaskStep DEF Inv, Core
<1>7. Named'
  BY <1>2, NamedStep DEF Inv
<1> QED BY <1>6, <1>7 DEF Inv
-----------------------------------------------------------------------------
(* The steps of the door tasks. *)

\* The tasks that only look, refuse, relay or wait.
LEMMA PlainTaskInv ==
    ASSUME Inv, NEW r \in Requests,
           \/ DispatchNew(r) \/ SpawnSibling(r) \/ Switch(r) \/ Relay(r)
           \/ Forward(r) \/ DispatchPreview(r) \/ DispatchKill(r)
           \/ Shown(r) \/ GiveUpPreview(r)
    PROVE  Inv'
<1>0. /\ UNCHANGED <<own, entry, others, loop, cmds>>
      /\ own' \in OwnRec /\ own'.guard = own.guard /\ own'.lobby = own.lobby
      /\ own'.name = own.name
  BY Typed DEF Inv, Core, DispatchNew, SpawnSibling, Switch, Relay, Forward,
               DispatchPreview, DispatchKill, Shown, GiveUpPreview
<1>1. Consistent(tasks[r]) /\ (own.lobby => ~own.guard)
  BY DEF Inv, Core, Commands, Guards
<1>2. /\ ~Holding(tasks[r]) /\ Settled(r)
      /\ tasks[r].pc \notin {"none", "dropping"}
      /\ tasks[r].kind # "Preview" => tasks[r].reply = "none"
      /\ tasks[r].pc # "waiting" => tasks[r].reply = "none"
      /\ tasks[r].pc \notin NamedPcs
  BY <1>1 DEF NamedPcs, DispatchNew, SpawnSibling, Switch, Relay, Forward, DispatchPreview,
              DispatchKill, Shown, GiveUpPreview, At, Settled, Consistent,
              Holding, Starting, Ending
<1>3. \/ \E answer \in {"Refused", "Entry", "Done", "Preview", "Relayed",
                        "Forwarded"} : Answer(r, answer)
      \/ /\ tasks[r].pc # "waiting"
         /\ \/ GoTo(r, "naming") /\ tasks[r].kind = "New" /\ ~own.guard
            \/ GoTo(r, "spawning")
            \/ GoTo(r, "relaying")
            \/ GoTo(r, "asking") /\ tasks[r].kind \in {"Kill", "Preview"}
  BY <1>1 DEF DispatchNew, SpawnSibling, Switch, Relay, Forward, DispatchPreview,
              DispatchKill, Shown, GiveUpPreview, At
<1>4. CASE \E answer \in {"Refused", "Entry", "Done", "Preview", "Relayed",
                          "Forwarded"} : Answer(r, answer)
  BY <1>0, <1>2, <1>4, AnswerInv
<1>5. CASE /\ tasks[r].pc # "waiting"
           /\ GoTo(r, "naming") /\ tasks[r].kind = "New" /\ ~own.guard
  BY <1>0, <1>2, <1>5, GoToInv DEF NamingPcs
<1>6. CASE tasks[r].pc # "waiting" /\ GoTo(r, "spawning")
  BY <1>0, <1>2, <1>6, GoToInv DEF NamingPcs
<1>7. CASE tasks[r].pc # "waiting" /\ GoTo(r, "relaying")
  BY <1>0, <1>2, <1>7, GoToInv DEF NamingPcs
<1>8. CASE /\ tasks[r].pc # "waiting"
           /\ GoTo(r, "asking") /\ tasks[r].kind \in {"Kill", "Preview"}
  BY <1>0, <1>2, <1>8, GoToInv DEF NamingPcs
<1> QED BY <1>3, <1>4, <1>5, <1>6, <1>7, <1>8

\* Door::start and Door::kill_self hear from the loop.
LEMMA HeardInv ==
    ASSUME Inv, NEW r \in Requests, ShellStarted(r) \/ ShellKilled(r)
    PROVE  Inv'
<1>0. /\ UNCHANGED <<own, entry, others, loop, cmds>>
      /\ own' \in OwnRec /\ own'.guard = own.guard /\ own'.lobby = own.lobby
      /\ own'.name = own.name
  BY Typed DEF Inv, Core, ShellStarted, ShellKilled
<1>1. Consistent(tasks[r]) /\ tasks[r] \in TaskRec
  BY Typed DEF Inv, Core, Commands
<1>2. Settled(r) /\ tasks[r].pc = "waiting" /\ tasks[r].pc \notin NamedPcs
  BY DEF NamedPcs, ShellStarted, ShellKilled, Replied, Settled
<1>3. \/ /\ Answer(r, "Entry") \/ Answer(r, "Refused")
         /\ ~Holding(tasks[r])
      \/ GoTo(r, "unregistering") /\ Holding(tasks[r])
  BY <1>1, <1>2 DEF ShellStarted, ShellKilled, Holding, Starting, Ending
<1>4. CASE GoTo(r, "unregistering") /\ Holding(tasks[r])
  BY <1>0, <1>2, <1>4, GoToInv DEF NamingPcs
<1>5. CASE /\ Answer(r, "Entry") \/ Answer(r, "Refused")
           /\ ~Holding(tasks[r])
  BY <1>0, <1>2, <1>5, AnswerInv
<1> QED BY <1>3, <1>4, <1>5

\* Door::start writes a name into the record, and takes it out.
LEMMA NamingInv ==
    ASSUME Inv, NEW r \in Requests, NameIt(r) \/ Unname(r)
    PROVE  Inv'
<1>1. tasks[r] \in TaskRec /\ own \in OwnRec /\ Consistent(tasks[r])
  BY Typed DEF Inv, Core, Commands
<1>2. /\ tasks[r].kind = "New" /\ tasks[r].pc \in NamingPcs
      /\ UNCHANGED <<entry, others, loop, cmds>>
  BY DEF NameIt, Unname, At, NamingPcs
<1>3. tasks[r].reply = "none" /\ ~Holding(tasks[r]) /\ Settled(r)
      /\ tasks[r].pc \notin {"none", "dropping"}
  BY <1>1, <1>2 DEF Consistent, NamingPcs, Holding, Starting, Ending, Settled
<1>4. own' \in OwnRec /\ own'.guard = own.guard /\ own'.lobby = own.lobby
  BY <1>1 DEF NameIt, Unname, OwnRec, TaskRec, MaybeName
<1>5. CASE NameIt(r)
  <2>1. GoTo(r, "registering") /\ "registering" \in NamedPcs
    BY <1>5 DEF NameIt, NamedPcs
  <2> QED BY <1>2, <1>3, <1>4, <2>1, GoToInv DEF NamingPcs
<1>6. CASE Unname(r)
  <2>1. Answer(r, "Refused") /\ own'.name = NoName
    BY <1>1, <1>6 DEF Unname, OwnRec
  <2> QED BY <1>2, <1>3, <1>4, <2>1, AnswerInv
<1> QED BY <1>5, <1>6

\* A request arrives.
LEMMA OpenInv ==
    ASSUME Inv, NEW r \in Requests, Open(r)
    PROVE  Inv'
<1>0. /\ UNCHANGED <<own, entry, others, loop, cmds>>
      /\ own' \in OwnRec /\ own'.guard = own.guard /\ own'.lobby = own.lobby
      /\ own'.name = own.name /\ tasks[r] = Idle /\ loop.pc # "gone"
  BY Typed DEF Inv, Core, Open
<1>1. PICK via \in {"Client", "Socket"}, kind \in Kinds, name \in MaybeName :
         /\ via = "Socket" => own.guard /\ own.detachable
         /\ kind \notin {"New", "Rename"} => name = NoName
         /\ tasks' = [tasks EXCEPT ![r] =
                [Idle EXCEPT !.pc = "open", !.kind = kind, !.via = via,
                             !.name = name]]
  BY Zenon DEF Open
<1> DEFINE new == [Idle EXCEPT !.pc = "open", !.kind = kind, !.via = via,
                               !.name = name]
<1>2. new \in TaskRec /\ new.pc = "open" /\ ~new.guard /\ new.reply = "none"
  BY DEF Idle, TaskRec
<1>3. tasks' = [tasks EXCEPT ![r] = new]
  BY <1>1
<1> HIDE DEF new
<1>4. Consistent(new) /\ ~Holding(new)
  BY <1>2 DEF Consistent, Holding, Starting, Ending, NamingPcs
<1>5. /\ \A i \in 1..Len(cmds) : cmds[i] = r => new.kind = "Preview"
      /\ loop.killing # r
  BY <1>0, IdleTask, DoorNames DEF Inv, Core, Commands
<1>6. Core'
  BY <1>0, <1>2, <1>3, <1>4, <1>5, IdleTask, Typed, TaskStep DEF Inv, Core
<1>7. Named'
  BY <1>0, <1>2, <1>3, IdleTask, NamedStep DEF Inv, NamedPcs
<1> QED BY <1>6, <1>7 DEF Inv

\* The command goes into the channel.
LEMMA AskInv ==
    ASSUME Inv, NEW r \in Requests, Ask(r)
    PROVE  Inv'
<1> DEFINE old == tasks[r]
           new == [old EXCEPT !.pc = "waiting"]
<1>0. /\ UNCHANGED <<own, entry, others, loop>>
      /\ own' \in OwnRec /\ own'.guard = own.guard /\ own'.lobby = own.lobby
      /\ own'.name = own.name /\ old.pc = "asking" /\ cmds' = <<r>>
      /\ cmds = <<>> /\ loop.pc # "closed"
  BY Typed DEF Inv, Core, Ask
<1>1. old \in TaskRec /\ Consistent(old) /\ loop.pc # "gone"
  BY <1>0, IdleTask, Typed DEF Inv, Core, Commands, Guards
<1>2. /\ tasks' = [tasks EXCEPT ![r] = new]
      /\ new \in TaskRec /\ new.kind = old.kind /\ new.pc = "waiting"
      /\ new.reply = old.reply /\ new.guard = old.guard
  BY <1>1, Typed DEF Ask, GoTo, Inv, Core, TaskRec
<1>3. ~old.guard /\ old.reply = "none" /\ old.kind \in {"New", "Kill", "Preview"}
  BY <1>0, <1>1 DEF Consistent, TaskRec
<1> HIDE DEF new
<1>4. Consistent(new) /\ (Holding(new) <=> Holding(old))
  BY <1>0, <1>2, <1>3 DEF Consistent, Holding, Starting, Ending, NamingPcs
<1>5. /\ tasks' \in [Requests -> TaskRec] /\ tasks'[r] = new
      /\ \A q \in Requests : q # r => tasks'[q] = tasks[q]
  BY <1>2, Typed DEF Inv, Core
<1>6. TypeOK'
  BY <1>0, <1>5 DEF Inv, Core, TypeOK, TaskRec
<1>7. Guards'
  <2>1. \A q \in Requests : tasks'[q].guard = tasks[q].guard
    BY <1>2, <1>5
  <2> QED BY <1>0, <1>1, <2>1 DEF Inv, Core, Guards
<1>8. Commands'
  <2>1. \A q \in Requests : Consistent(tasks'[q])
    BY <1>4, <1>5 DEF Inv, Core, Commands
  <2>2. loop.killing # r
    BY <1>0, DoorNames DEF Inv, Core, Commands
  <2>3. \A i \in 1..Len(cmds') : cmds'[i] = r
    BY <1>0
  <2>4. loop.killing # Nobody => tasks'[loop.killing] = tasks[loop.killing]
    BY <1>5, <2>2, Typed DEF Inv, Core, LoopRec
  <2> QED BY <1>0, <1>1, <1>2, <1>3, <1>5, <2>1, <2>2, <2>3, <2>4, SMTT(30), Z3T(30)
         DEF Inv, Core, Commands
<1>9. Holders'
  <2>1. \A q \in Requests :
          /\ Holding(tasks'[q]) <=> Holding(tasks[q])
          /\ tasks'[q].pc = "dropping" <=> tasks[q].pc = "dropping"
          /\ tasks'[q].guard = tasks[q].guard
    BY <1>0, <1>2, <1>4, <1>5
  <2> QED BY <1>0, <2>1 DEF Inv, Core, Holders
<1>10. Named'
  BY <1>0, <1>2, NamedStep DEF Inv, NamedPcs
<1> QED BY <1>6, <1>7, <1>8, <1>9, <1>10 DEF Inv, Core

\* Only one task moves: what the others are is as it was.
LEMMA OneTask ==
    ASSUME TypeOK, NEW r \in Requests, NEW new \in TaskRec,
           tasks' = [tasks EXCEPT ![r] = new]
    PROVE  /\ tasks' \in [Requests -> TaskRec] /\ tasks'[r] = new
           /\ \A q \in Requests : q # r => tasks'[q] = tasks[q]
BY Typed

\* Commands is about the tasks in the channel and the one of the kill.
LEMMA CommandsKept ==
    ASSUME Core, NEW r \in Requests, NEW new \in TaskRec, Consistent(new),
           tasks' = [tasks EXCEPT ![r] = new], UNCHANGED <<loop, cmds>>,
           tasks[r].pc # "none", Settled(r), new.kind = tasks[r].kind
    PROVE  Commands'
<1>0. /\ tasks'[r] = new
      /\ \A q \in Requests : q # r => tasks'[q] = tasks[q]
  BY OneTask DEF Core
<1>1. /\ \A i \in 1..Len(cmds) : cmds[i] = r => tasks[r].kind = "Preview"
      /\ loop.killing # r
  BY SettledIs
<1>2. \A q \in Requests : Consistent(tasks'[q])
  BY <1>0 DEF Core, Commands
<1>3. \A i \in 1..Len(cmds) : cmds[i] \in Requests
  BY Typed DEF Core
<1>4. \A i \in 1..Len(cmds) :
        /\ tasks'[cmds[i]].kind \in {"New", "Kill", "Preview"}
        /\ tasks'[cmds[i]].kind # "Preview" =>
             tasks'[cmds[i]].pc = "waiting" /\ tasks'[cmds[i]].reply = "none"
        /\ cmds[i] # loop.killing
  BY <1>0, <1>1, <1>3 DEF Core, Commands
<1>5. loop.killing # Nobody => tasks'[loop.killing] = tasks[loop.killing]
  BY <1>0, <1>1, Typed DEF Core, LoopRec
<1> QED BY <1>2, <1>4, <1>5 DEF Core, Commands

\* Whoever holds the registration keeps the directory there.
LEMMA HolderHasEntry ==
    ASSUME Core, loop.pc = "serving", NEW q \in Requests, Holding(tasks[q])
    PROVE  entry # NoEntry
BY DEF Core, Holders, Guards

\* Door::register: nobody held the registration, and this start does now.
LEMMA RegisterInv ==
    ASSUME Inv, NEW r \in Requests, Register(r)
    PROVE  Inv'
<1> DEFINE old == tasks[r]
           new == [old EXCEPT !.pc = "asking"]
<1>0. /\ old \in TaskRec /\ own \in OwnRec /\ Consistent(old)
      /\ old.kind = "New" /\ old.pc = "registering"
      /\ UNCHANGED <<others, loop, cmds>>
  BY Typed DEF Inv, Core, Commands, Register, At
<1>1. old.reply = "none" /\ ~old.guard /\ ~Holding(old) /\ Settled(r)
      /\ loop.pc # "gone"
  BY <1>0, IdleTask
     DEF Consistent, Holding, Starting, Ending, Settled, Inv, Core, Guards, TaskRec
<1>2. CASE GoTo(r, "unnaming") /\ UNCHANGED <<own, entry>>
  BY <1>0, <1>1, <1>2, GoToInv DEF NamingPcs, NamedPcs
<1>3. CASE /\ MayRegister(own.name)
           /\ entry' = own.name
           /\ own' = [own EXCEPT !.guard = TRUE, !.lobby = FALSE]
           /\ GoTo(r, "asking")
  <2>1. /\ tasks' = [tasks EXCEPT ![r] = new]
        /\ new \in TaskRec /\ new.kind = "New" /\ new.pc = "asking"
        /\ new.reply = "none" /\ ~new.guard
    BY <1>0, <1>1, <1>3, Typed DEF GoTo, Inv, Core, TaskRec
  <2> HIDE DEF new
  <2>2. Consistent(new) /\ Holding(new)
    BY <2>1 DEF Consistent, Holding, Starting, NamingPcs
  <2>3. /\ tasks' \in [Requests -> TaskRec] /\ tasks'[r] = new
        /\ \A q \in Requests : q # r => tasks'[q] = tasks[q]
    BY <2>1, OneTask DEF Inv, Core
  <2>4. /\ own' \in OwnRec /\ own'.guard = TRUE /\ own'.lobby = FALSE
        /\ own'.name = own.name /\ own.name \in MaybeName
    BY <1>0, <1>3 DEF OwnRec
  <2>5. /\ entry' = own.name /\ entry' # NoEntry /\ entry = NoEntry
        /\ own.name \notin others
    BY <1>3, <2>4, DoorNames DEF MayRegister, MaybeName, NoName, NoEntry
  <2>6. /\ ~own.guard /\ ~loop.guard /\ \A q \in Requests : ~tasks[q].guard
    BY <1>1, <2>5 DEF Inv, Core, Guards
  <2>7. TypeOK'
    BY <1>0, <2>3, <2>4, <2>5 DEF Inv, Core, TypeOK, OwnRec, TaskRec
  <2>8. Guards'
    <3>1. \A q \in Requests : ~tasks'[q].guard
      BY <2>1, <2>3, <2>6
    <3> QED BY <1>0, <1>1, <2>4, <2>5, <2>6, <3>1 DEF Guards, Inv, Core
  <2>9. Commands'
    BY <1>0, <1>1, <2>1, <2>2, CommandsKept DEF Inv
  <2>10. Holders'
    <3>1. ASSUME loop.pc = "serving", NEW q \in Requests, Holding(tasks'[q])
          PROVE  q = r
      BY <2>3, <2>5, <3>1, HolderHasEntry DEF Inv
    <3>2. loop.pc = "serving" => loop.shell = "none"
      BY <2>6 DEF Inv, Core, Holders
    <3> QED BY <1>0, <2>1, <2>2, <2>3, <2>4, <3>1, <3>2 DEF Holders
  <2>11. Named'
    BY <2>4, <2>5 DEF Named
  <2> QED BY <2>7, <2>8, <2>9, <2>10, <2>11 DEF Inv, Core
<1> QED BY <1>2, <1>3 DEF Register

\* Door::unregister: the guard goes from the record to the task that holds the
\* registration.
LEMMA UnregisterInv ==
    ASSUME Inv, NEW r \in Requests, Unregister(r)
    PROVE  Inv'
<1> DEFINE old == tasks[r]
           new == [old EXCEPT !.pc = "dropping", !.guard = own.guard]
<1>0. /\ old \in TaskRec /\ own \in OwnRec /\ Consistent(old)
      /\ old.pc = "unregistering"
      /\ UNCHANGED <<entry, others, loop, cmds>>
  BY Typed DEF Inv, Core, Commands, Unregister
<1>1. ~old.guard /\ Holding(old) /\ Settled(r) /\ loop.pc # "gone"
  BY <1>0, IdleTask
     DEF Consistent, Holding, Starting, Ending, Settled, Inv, Core, Guards, TaskRec
<1>2. /\ tasks' = [tasks EXCEPT ![r] = new]
      /\ new \in TaskRec /\ new.kind = old.kind /\ new.pc = "dropping"
      /\ new.reply = old.reply /\ new.guard = own.guard
  BY <1>0, Typed DEF Unregister, Inv, Core, TaskRec, OwnRec
<1> HIDE DEF new
<1>3. Consistent(new) /\ Holding(new)
  BY <1>0, <1>1, <1>2 DEF Consistent, Holding, Starting, Ending, NamingPcs
<1>4. /\ tasks' \in [Requests -> TaskRec] /\ tasks'[r] = new
      /\ \A q \in Requests : q # r => tasks'[q] = tasks[q]
  BY <1>2, OneTask DEF Inv, Core
<1>5. /\ own' \in OwnRec /\ own'.guard = FALSE /\ own'.lobby = TRUE
      /\ own'.name = own.name
  BY <1>0 DEF OwnRec, Unregister
<1>6. TypeOK'
  BY <1>0, <1>4, <1>5 DEF Inv, Core, TypeOK, OwnRec, TaskRec
<1>7. Guards'
  <2>1. CASE own.guard
    <3>1. \A q \in Requests : tasks'[q].guard <=> q = r
      BY <1>2, <1>4, <2>1 DEF Inv, Core, Guards
    <3>2. ~loop.guard /\ entry # NoEntry
      BY <1>1, <2>1 DEF Inv, Core, Guards
    <3> QED BY <1>0, <1>1, <1>5, <3>1, <3>2 DEF Guards, Inv, Core
  <2>2. CASE ~own.guard
    <3>1. \A q \in Requests : tasks'[q].guard <=> tasks[q].guard
      BY <1>1, <1>2, <1>4, <2>2
    <3> QED BY <1>0, <1>1, <1>5, <2>2, <3>1 DEF Guards, Inv, Core
  <2> QED BY <2>1, <2>2
<1>8. Commands'
  BY <1>0, <1>1, <1>2, <1>3, CommandsKept DEF Inv
<1>9. Holders'
  <2>1. loop.pc = "serving" => loop.shell = "none" /\ own.guard
    BY <1>0, <1>1 DEF Inv, Core, Holders
  <2>2. ASSUME loop.pc = "serving", NEW q \in Requests, Holding(tasks'[q])
        PROVE  q = r
    BY <1>1, <1>4, <2>2 DEF Inv, Core, Holders
  <2> QED BY <1>0, <1>2, <1>4, <1>5, <2>1, <2>2 DEF Holders
<1>10. Named'
  BY <1>5 DEF Named
<1> QED BY <1>6, <1>7, <1>8, <1>9, <1>10 DEF Inv, Core

\* RegistryGuard::drop: what it removes is the entry it stands for.
LEMMA DropGuardInv ==
    ASSUME Inv, NEW r \in Requests, DropGuard(r)
    PROVE  Inv'
<1> DEFINE old == tasks[r]
           answer == IF old.kind = "Kill" THEN "Done" ELSE "Refused"
           new == [old EXCEPT !.pc = "done", !.answer = answer, !.name = NoName,
                              !.reply = "none", !.guard = FALSE]
<1>0. /\ old \in TaskRec /\ own \in OwnRec /\ Consistent(old)
      /\ old.pc = "dropping"
      /\ UNCHANGED <<own, others, loop, cmds>>
  BY Typed DEF Inv, Core, Commands, DropGuard
<1>1. Holding(old) /\ Settled(r) /\ loop.pc # "gone"
  BY <1>0, IdleTask
     DEF Consistent, Holding, Starting, Ending, Settled, Inv, Core, Guards
<1>2. /\ tasks' = [tasks EXCEPT ![r] = new]
      /\ new \in TaskRec /\ new.kind = old.kind /\ new.pc = "done"
      /\ new.reply = "none" /\ new.guard = FALSE
  BY <1>0, Typed, ZenonT(30) DEF DropGuard, Answer, Inv, Core, TaskRec, MaybeName
<1> HIDE DEF new
<1>3. Consistent(new) /\ ~Holding(new)
  BY <1>2 DEF Consistent, Holding, Starting, Ending, NamingPcs
<1>4. /\ tasks' \in [Requests -> TaskRec] /\ tasks'[r] = new
      /\ \A q \in Requests : q # r => tasks'[q] = tasks[q]
  BY <1>2, OneTask DEF Inv, Core
<1>5. entry' = IF old.guard THEN NoEntry ELSE entry
  BY DEF DropGuard
<1>6. TypeOK'
  BY <1>0, <1>4, <1>5 DEF Inv, Core, TypeOK, TaskRec
<1>7. Guards'
  <2>1. CASE old.guard
    <3>1. /\ \A q \in Requests : ~tasks'[q].guard
          /\ ~own.guard /\ ~loop.guard
      BY <1>2, <1>4, <2>1 DEF Inv, Core, Guards
    <3> QED BY <1>0, <1>1, <1>5, <2>1, <3>1 DEF Guards, Inv, Core
  <2>2. CASE ~old.guard
    <3>1. \A q \in Requests : tasks'[q].guard <=> tasks[q].guard
      BY <1>2, <1>4, <2>2
    <3> QED BY <1>0, <1>1, <1>5, <2>2, <3>1 DEF Guards, Inv, Core
  <2> QED BY <2>1, <2>2
<1>8. Commands'
  BY <1>0, <1>1, <1>2, <1>3, CommandsKept DEF Inv
<1>9. Holders'
  <2>1. loop.pc = "serving" => loop.shell = "none" /\ ~own.guard
    BY <1>0, <1>1 DEF Inv, Core, Holders, Guards
  <2>2. ASSUME loop.pc = "serving", NEW q \in Requests PROVE ~Holding(tasks'[q])
    BY <1>1, <1>3, <1>4, <2>2 DEF Inv, Core, Holders
  <2> QED BY <1>0, <2>1, <2>2 DEF Holders
<1>10. Named'
  <2>1. old.guard => ~own.guard
    BY DEF Inv, Core, Guards
  <2>2. Overtaking => Overtaking'
    BY <1>0, <1>4 DEF Overtaking
  <2> QED BY <1>0, <1>5, <2>1, <2>2 DEF Inv, Named
<1> QED BY <1>6, <1>7, <1>8, <1>9, <1>10 DEF Inv, Core

\* Door::rename_self: the record and the entry get the name together.
LEMMA RenameInv ==
    ASSUME Inv, NEW r \in Requests, Rename(r)
    PROVE  Inv'
<1> DEFINE old == tasks[r]
           new == [old EXCEPT !.pc = "done", !.answer = "Entry", !.name = NoName,
                              !.reply = "none", !.guard = FALSE]
<1>0. /\ old \in TaskRec /\ own \in OwnRec /\ Consistent(old)
      /\ old.kind = "Rename" /\ old.pc = "open"
      /\ UNCHANGED <<others, loop, cmds>>
  BY Typed DEF Inv, Core, Commands, Rename, At
<1>1. ~Holding(old) /\ Settled(r) /\ ~old.guard /\ old.pc \notin NamedPcs
  BY <1>0 DEF NamedPcs, Consistent, Holding, Starting, Ending, Settled
<1>2. CASE Answer(r, "Refused") /\ UNCHANGED <<own, entry>>
  BY <1>0, <1>1, <1>2, AnswerInv
<1>3. CASE /\ own.guard /\ old.name \notin others
           /\ entry' = old.name
           /\ own' = [own EXCEPT !.name = old.name]
           /\ Answer(r, "Entry")
  <2>1. /\ tasks' = [tasks EXCEPT ![r] = new]
        /\ new \in TaskRec /\ new.kind = old.kind /\ new.pc = "done"
        /\ new.reply = "none" /\ new.guard = FALSE
    BY <1>0, <1>3, Typed DEF Answer, Inv, Core, TaskRec, MaybeName
  <2> HIDE DEF new
  <2>2. Consistent(new) /\ ~Holding(new)
    BY <2>1 DEF Consistent, Holding, Starting, Ending, NamingPcs
  <2>3. /\ own' \in OwnRec /\ own'.guard = own.guard /\ own'.lobby = own.lobby
        /\ own'.name = old.name /\ old.name \in MaybeName
    BY <1>0, <1>3 DEF OwnRec, TaskRec
  <2>4. entry' # NoEntry /\ entry' \in MaybeName
    BY <1>3, <2>3, DoorNames DEF MaybeName, NoName, NoEntry
  <2>5. /\ \A i \in 1..Len(cmds) : cmds[i] = r => old.kind = "Preview"
        /\ loop.killing # r /\ loop.pc # "gone"
    BY <1>0, <1>1, SettledIs DEF Inv
  <2>6. entry # NoEntry
    BY <1>3, <2>5 DEF Inv, Core, Guards
  <2>7. Core'
    BY <1>0, <1>1, <2>1, <2>2, <2>3, <2>4, <2>5, <2>6, TaskStep DEF Inv
  <2>8. Named'
    BY <1>3, <2>3 DEF Named
  <2> QED BY <2>7, <2>8 DEF Inv
<1> QED BY <1>2, <1>3 DEF Rename

\* The attach loop writes the record, and other sessions come and go.
LEMMA NamesInv ==
    ASSUME Inv,
           \/ RecordAttach
           \/ \E name \in Names : OtherTakes(name) \/ OtherLeaves(name)
    PROVE  Inv'
<1>0. UNCHANGED <<own, loop, cmds, tasks>>
  BY DEF RecordAttach, OtherTakes, OtherLeaves
<1>1. /\ entry' \in MaybeName \cup {NoEntry} /\ others' \subseteq Names
      /\ loop.pc # "gone" => (entry' = NoEntry <=> entry = NoEntry)
  <2>1. CASE RecordAttach
    <3>1. entry' = own.name /\ own.name \in MaybeName /\ own.guard
          /\ others' \subseteq Names
      BY <2>1, Typed DEF RecordAttach, OwnRec, Inv, Core
    <3>2. own.name # NoEntry
      BY <3>1, DoorNames DEF MaybeName, NoName, NoEntry
    <3> QED BY <3>1, <3>2 DEF Inv, Core, Guards
  <2>2. CASE \E name \in Names : OtherTakes(name) \/ OtherLeaves(name)
    BY <2>2, Typed DEF OtherTakes, OtherLeaves, Inv, Core
  <2> QED BY <2>1, <2>2
<1>2. TypeOK'
  BY <1>0, <1>1 DEF Inv, Core, TypeOK
<1>3. Guards'
  BY <1>0, <1>1 DEF Inv, Core, Guards
<1>4. Commands' /\ Holders'
  <2>1. Commands'
    BY <1>0 DEF Inv, Core, Commands
  <2>2. Holders'
    BY <1>0 DEF Inv, Core, Holders
  <2> QED BY <2>1, <2>2
<1>5. Named'
  <2>1. CASE RecordAttach
    BY <1>0, <2>1 DEF RecordAttach, Named
  <2>2. CASE \E name \in Names : OtherTakes(name) \/ OtherLeaves(name)
    <3>1. loop.pc = "gone" => ~own.guard
      BY DEF Inv, Core, Guards
    <3>2. loop.pc # "gone" => UNCHANGED entry
      BY <2>2 DEF OtherTakes, OtherLeaves
    <3> QED BY <1>0, <3>1, <3>2 DEF Inv, Named, Overtaking
  <2> QED BY <2>1, <2>2
<1> QED BY <1>2, <1>3, <1>4, <1>5 DEF Inv, Core
-----------------------------------------------------------------------------
(* The steps of the session's loop. *)

\* The loop moves, and neither its guard nor the kill in progress does.
LEMMA LoopInv ==
    ASSUME Inv, Finish \/ ShellExits \/ Exited \/ LobbyOver
    PROVE  Inv'
<1>0. /\ UNCHANGED <<own, entry, others, cmds, tasks>>
      /\ loop \in LoopRec
  BY Typed DEF Inv, Core, Finish, ShellExits, Exited, LobbyOver
<1>1. /\ loop' \in LoopRec /\ loop'.guard = loop.guard
      /\ loop'.killing = loop.killing
      /\ loop.pc \in {"serving", "finishing"} /\ loop'.pc \in {"serving", "over"}
      /\ loop'.pc = "serving" =>
           loop.pc = "serving" /\ loop.shell # "none" /\ loop'.shell # "none"
      /\ loop'.pc = "over" => loop.shell = "none" \/ loop.killing = Nobody
                              \/ loop.pc = "finishing"
  BY <1>0 DEF Finish, ShellExits, Exited, LobbyOver, LoopRec
<1>2. TypeOK'
  BY <1>0, <1>1 DEF Inv, Core, TypeOK, LoopRec
<1>3. Guards'
  <2>1. ~loop.guard /\ loop.pc # "gone"
    BY <1>1 DEF Inv, Core, Guards
  <2> QED BY <1>0, <1>1, <2>1 DEF Inv, Core, Guards
<1>4. Commands'
  BY <1>0, <1>1 DEF Inv, Core, Commands
<1>5. Holders'
  BY <1>0, <1>1 DEF Inv, Core, Holders
<1>6. Named'
  BY <1>0, <1>1 DEF Inv, Named, Overtaking
<1> QED BY <1>2, <1>3, <1>4, <1>5, <1>6 DEF Inv, Core

\* Door::close: the loop has the guard, and drops it.
LEMMA CloseInv ==
    ASSUME Inv, CloseDoor \/ CloseProcess
    PROVE  Inv'
<1>0. /\ loop \in LoopRec /\ own \in OwnRec /\ UNCHANGED <<others, tasks>>
      /\ loop.pc \in {"over", "closing"} /\ loop.killing = Nobody
  BY Typed DEF Inv, Core, Commands, CloseDoor, CloseProcess
<1>1. CASE CloseDoor
  <2>1. /\ loop' \in LoopRec /\ loop'.guard = own.guard /\ loop'.pc = "closing"
        /\ loop'.killing = Nobody /\ own' \in OwnRec /\ own'.guard = FALSE
        /\ own'.lobby = TRUE /\ UNCHANGED <<entry, cmds>>
    BY <1>0, <1>1 DEF CloseDoor, LoopRec, OwnRec
  <2>2. loop.pc = "over" /\ ~loop.guard
    BY <1>1 DEF CloseDoor, Inv, Core, Guards
  <2>3. TypeOK'
    BY <1>0, <2>1 DEF Inv, Core, TypeOK, LoopRec, OwnRec
  <2>4. Guards'
    BY <1>0, <2>1, <2>2 DEF Inv, Core, Guards
  <2>5. Commands' /\ Holders'
    <3>1. Commands'
      BY <1>0, <2>1 DEF Inv, Core, Commands
    <3> QED BY <2>1, <3>1 DEF Holders
  <2>6. Named'
    BY <1>0, <2>1, <2>2 DEF Inv, Named, Overtaking
  <2> QED BY <2>3, <2>4, <2>5, <2>6 DEF Inv, Core
<1>2. CASE CloseProcess
  <2>1. /\ loop' \in LoopRec /\ loop'.guard = FALSE /\ loop'.pc = "closed"
        /\ loop'.killing = Nobody /\ UNCHANGED own /\ cmds' = <<>>
        /\ entry' = IF loop.guard THEN NoEntry ELSE entry
    BY <1>0, <1>2 DEF CloseProcess, LoopRec
  <2>2. loop.pc = "closing"
    BY <1>2 DEF CloseProcess
  <2>3. TypeOK'
    BY <1>0, <2>1 DEF Inv, Core, TypeOK, LoopRec
  <2>4. Guards'
    BY <1>0, <2>1, <2>2 DEF Inv, Core, Guards
  <2>5. Commands' /\ Holders'
    <3>1. Commands'
      BY <1>0, <2>1 DEF Inv, Core, Commands
    <3> QED BY <2>1, <3>1 DEF Holders
  <2>6. Named'
    <3>1. loop.guard => ~own.guard
      BY DEF Inv, Core, Guards
    <3> QED BY <1>0, <2>1, <3>1 DEF Inv, Named, Overtaking
  <2> QED BY <2>3, <2>4, <2>5, <2>6 DEF Inv, Core
<1> QED BY <1>1, <1>2

\* The process is gone.
LEMMA DieInv ==
    ASSUME Inv, Die
    PROVE  Inv'
<1>1. /\ loop' = [pc |-> "gone", shell |-> "none", killing |-> Nobody, guard |-> FALSE]
      /\ own' \in OwnRec /\ own'.guard = FALSE /\ own'.lobby = TRUE
      /\ cmds' = <<>> /\ UNCHANGED <<entry, others>>
  BY Typed DEF Inv, Core, Die, OwnRec
<1>2. tasks' \in [Requests -> TaskRec] /\ \A q \in Requests : tasks'[q] = Idle
  BY IdleTask DEF Die
<1>3. TypeOK'
  BY <1>1, <1>2 DEF Inv, Core, TypeOK, OwnRec, TaskRec
<1>4. Guards'
  <2>1. Idle' = Idle
    BY DEF Idle
  <2>2. \A q \in Requests : tasks'[q].guard = FALSE
    BY <1>2 DEF Idle
  <2> QED BY <1>1, <1>2, <2>1, <2>2 DEF Guards
<1>5. Commands'
  BY <1>1, <1>2, IdleTask, SMTT(30), Z3T(30) DEF Commands
<1>6. Holders' /\ Named'
  BY <1>1 DEF Holders, Named
<1> QED BY <1>3, <1>4, <1>5, <1>6 DEF Inv, Core

\* The channel has one command at most.
LEMMA HeadIs ==
    ASSUME Core, cmds # <<>>
    PROVE  /\ Head(cmds) \in Requests /\ Tail(cmds) = <<>>
           /\ 1 \in 1..Len(cmds) /\ Head(cmds) = cmds[1]
BY Typed DEF Core

\* The loop answers a task that waits, and no kill is in progress after it.
LEMMA ReplyStep ==
    ASSUME Inv, NEW h \in Requests, NEW reply \in {"ok", "err"}, Reply(h, reply),
           tasks[h].pc = "waiting", UNCHANGED <<own, entry, others>>,
           loop' \in LoopRec, loop'.guard = loop.guard, loop'.killing = Nobody,
           loop.pc = "serving", loop'.pc \in {"serving", "finishing"},
           cmds' = <<>> \/ UNCHANGED cmds,
           cmds' # <<>> => \A i \in 1..Len(cmds) : cmds[i] # h
    PROVE  /\ TypeOK' /\ Guards' /\ Commands' /\ Named'
           /\ tasks'[h] = [tasks[h] EXCEPT !.reply = reply]
           /\ \A q \in Requests : q # h => tasks'[q] = tasks[q]
<1> DEFINE old == tasks[h]
           new == [old EXCEPT !.reply = reply]
<1>0. old \in TaskRec /\ Consistent(old)
  BY Typed DEF Inv, Core, Commands
<1>1. /\ tasks' = [tasks EXCEPT ![h] = new]
      /\ new \in TaskRec /\ new.kind = old.kind /\ new.pc = old.pc
      /\ new.reply = reply /\ new.guard = old.guard
  BY <1>0, Typed DEF Reply, Inv, Core, TaskRec
<1> HIDE DEF new
<1>2. /\ tasks' \in [Requests -> TaskRec] /\ tasks'[h] = new
      /\ \A q \in Requests : q # h => tasks'[q] = tasks[q]
  BY <1>1, OneTask DEF Inv, Core
<1>3. Consistent(new)
  BY <1>0, <1>1 DEF Consistent, NamingPcs
<1>4. TypeOK'
  <2>1. cmds' \in Seq(Requests) /\ Len(cmds') <= 1
    <3>1. cmds \in Seq(Requests) /\ Len(cmds) <= 1
      BY Typed DEF Inv, Core
    <3>2. <<>> \in Seq(Requests) /\ Len(<<>>) <= 1
      OBVIOUS
    <3> QED BY <3>1, <3>2, Zenon
  <2> QED BY <1>2, <2>1 DEF Inv, Core, TypeOK, TaskRec, LoopRec
<1>5. Guards'
  <2>1. \A q \in Requests : tasks'[q].guard = tasks[q].guard
    BY <1>1, <1>2
  <2>2. ~loop.guard
    BY DEF Inv, Core, Guards
  <2> QED BY <2>1, <2>2, Zenon DEF Inv, Core, Guards
<1>6. Commands'
  <2>1. \A q \in Requests : Consistent(tasks'[q])
    BY <1>2, <1>3 DEF Inv, Core, Commands
  <2>2. Len(cmds') # 0 => cmds' = cmds /\ \A i \in 1..Len(cmds) : cmds[i] # h
    OBVIOUS
  <2>3. \A i \in 1..Len(cmds) : cmds[i] \in Requests
    BY Typed, SMTT(30), Z3T(30) DEF Inv, Core
  <2>4. \A i \in 1..Len(cmds') :
          /\ tasks'[cmds'[i]].kind \in {"New", "Kill", "Preview"}
          /\ tasks'[cmds'[i]].kind # "Preview" =>
               tasks'[cmds'[i]].pc = "waiting" /\ tasks'[cmds'[i]].reply = "none"
          /\ cmds'[i] # Nobody
    BY <1>2, <2>2, <2>3, DoorNames, SMTT(30), Z3T(30) DEF Inv, Core, Commands
  <2> QED BY <2>1, <2>4 DEF Commands
<1>7. Named'
  <2>1. \A q \in Requests : /\ tasks'[q].kind = tasks[q].kind
                            /\ tasks'[q].pc = tasks[q].pc
    BY <1>1, <1>2
  <2> QED BY <2>1 DEF Inv, Named, Overtaking
<1> QED BY <1>2, <1>4, <1>5, <1>6, <1>7 DEF new

\* LoopCmd::StartShell: the start that held the registration has its shell, or
\* still holds it.
LEMMA StartShellInv ==
    ASSUME Inv, StartShell
    PROVE  Inv'
<1> DEFINE h == Head(cmds)
<1>0. /\ loop.pc = "serving" /\ loop.killing = Nobody /\ cmds # <<>>
      /\ tasks[h].kind = "New" /\ cmds' = Tail(cmds)
      /\ UNCHANGED <<own, entry, others>>
  BY DEF StartShell, Taking
<1>1. h \in Requests /\ cmds' = <<>> /\ 1 \in 1..Len(cmds) /\ h = cmds[1]
  BY <1>0, HeadIs DEF Inv
<1> HIDE DEF h
<1>2. /\ tasks[h].pc = "waiting" /\ tasks[h].reply = "none"
      /\ tasks[h] \in TaskRec /\ loop \in LoopRec
  BY <1>0, <1>1, Typed DEF Inv, Core, Commands
<1>3. Holding(tasks[h])
  BY <1>0, <1>2 DEF Holding, Starting
<1>4. /\ loop.shell = "none" /\ own.guard
      /\ \A q \in Requests : Holding(tasks[q]) => q = h
  BY <1>0, <1>1, <1>2, <1>3 DEF Inv, Core, Holders
<1>5. CASE /\ loop' = [loop EXCEPT !.shell = "running"]
           /\ Reply(h, "ok")
  <2>1. /\ loop' \in LoopRec /\ loop'.guard = loop.guard /\ loop'.killing = Nobody
        /\ loop'.pc = "serving" /\ loop'.shell = "running"
    BY <1>0, <1>2, <1>5 DEF LoopRec
  <2>2. /\ TypeOK' /\ Guards' /\ Commands' /\ Named'
        /\ tasks'[h] = [tasks[h] EXCEPT !.reply = "ok"]
        /\ \A q \in Requests : q # h => tasks'[q] = tasks[q]
    BY <1>0, <1>1, <1>2, <1>5, <2>1, ReplyStep
  <2>3. tasks'[h].kind = "New" /\ tasks'[h].pc = "waiting" /\ tasks'[h].reply = "ok"
    BY <1>0, <1>2, <2>2 DEF TaskRec
  <2>4. ~Holding(tasks'[h])
    BY <2>3 DEF Holding, Starting, Ending
  <2>5. \A q \in Requests : ~Holding(tasks'[q])
    BY <1>4, <2>2, <2>4
  <2>6. Holders'
    BY <1>0, <1>4, <2>1, <2>5 DEF Holders
  <2> QED BY <2>2, <2>6 DEF Inv, Core
<1>6. CASE Reply(h, "err") /\ UNCHANGED loop
  <2>1. /\ TypeOK' /\ Guards' /\ Commands' /\ Named'
        /\ tasks'[h] = [tasks[h] EXCEPT !.reply = "err"]
        /\ \A q \in Requests : q # h => tasks'[q] = tasks[q]
    BY <1>0, <1>1, <1>2, <1>6, ReplyStep
  <2>2. tasks'[h].kind = "New" /\ tasks'[h].pc = "waiting" /\ tasks'[h].reply = "err"
    BY <1>0, <1>2, <2>1 DEF TaskRec
  <2>3. Holding(tasks'[h])
    BY <2>2 DEF Holding, Starting
  <2>4. \A q \in Requests : Holding(tasks'[q]) => q = h
    BY <1>4, <2>1
  <2>5. Holders'
    BY <1>0, <1>1, <1>4, <1>6, <2>2, <2>3, <2>4 DEF Holders
  <2> QED BY <2>1, <2>5 DEF Inv, Core
<1> QED BY <1>5, <1>6 DEF StartShell, h

\* LoopCmd::Preview, and LoopCmd::Kill where there is nothing to kill: the task
\* that hears of it holds nothing.
LEMMA IdleReplyInv ==
    ASSUME Inv, NEW h \in Requests, NEW reply \in {"ok", "err"}, Reply(h, reply),
           UNCHANGED <<own, entry, others, loop>>, cmds' = <<>>,
           loop.pc = "serving", loop.killing = Nobody, tasks[h].pc = "waiting",
           tasks[h].kind = "Preview" \/ (tasks[h].kind = "Kill" /\ reply = "err"),
           tasks[h].kind = "Kill" => tasks[h].reply = "none"
    PROVE  Inv'
<1>0. loop \in LoopRec /\ tasks[h] \in TaskRec
  BY Typed DEF Inv, Core
<1>1. /\ TypeOK' /\ Guards' /\ Commands' /\ Named'
      /\ tasks'[h] = [tasks[h] EXCEPT !.reply = reply]
      /\ \A q \in Requests : q # h => tasks'[q] = tasks[q]
  BY <1>0, ReplyStep
<1>2. /\ tasks'[h].kind = tasks[h].kind /\ tasks'[h].pc = "waiting"
      /\ tasks'[h].reply = reply
  BY <1>0, <1>1 DEF TaskRec
<1>3. ~Holding(tasks'[h]) /\ ~Holding(tasks[h])
  BY <1>2 DEF Holding, Starting, Ending
<1>4. \A q \in Requests : /\ Holding(tasks'[q]) <=> Holding(tasks[q])
                          /\ Holding(tasks[q]) => tasks'[q] = tasks[q]
  BY <1>1, <1>3
<1>5. Holders'
  BY <1>4 DEF Inv, Core, Holders
<1> QED BY <1>1, <1>5 DEF Inv, Core

LEMMA ShowPreviewInv ==
    ASSUME Inv, ShowPreview
    PROVE  Inv'
<1> DEFINE h == Head(cmds)
<1>0. /\ loop.pc = "serving" /\ loop.killing = Nobody /\ cmds # <<>>
      /\ tasks[h].kind = "Preview" /\ cmds' = Tail(cmds)
      /\ UNCHANGED <<own, entry, others, loop>>
  BY DEF ShowPreview, Taking
<1>1. h \in Requests /\ cmds' = <<>>
  BY <1>0, HeadIs DEF Inv
<1>2. CASE /\ tasks[h].pc = "waiting"
           /\ Reply(h, IF loop.shell = "none" THEN "err" ELSE "ok")
  BY <1>0, <1>1, <1>2, IdleReplyInv
<1>3. CASE UNCHANGED tasks
  <2>1. TypeOK'
    BY <1>0, <1>1, <1>3, SMTT(30), Z3T(30) DEF Inv, Core, TypeOK
  <2>2. Guards'
    BY <1>0, <1>3 DEF Inv, Core, Guards
  <2>3. Commands'
    BY <1>0, <1>1, <1>3, SMTT(30), Z3T(30) DEF Inv, Core, Commands
  <2>4. Holders'
    BY <1>0, <1>3 DEF Inv, Core, Holders
  <2>5. Named'
    BY <1>0, <1>3 DEF Inv, Named, Overtaking
  <2> QED BY <2>1, <2>2, <2>3, <2>4, <2>5 DEF Inv, Core
<1> QED BY <1>2, <1>3 DEF ShowPreview

\* LoopCmd::Kill: its asker waits until the kill is over.
LEMMA BeginKillInv ==
    ASSUME Inv, BeginKill
    PROVE  Inv'
<1> DEFINE h == Head(cmds)
<1>0. /\ loop.pc = "serving" /\ loop.killing = Nobody /\ cmds # <<>>
      /\ tasks[h].kind = "Kill" /\ cmds' = Tail(cmds)
      /\ UNCHANGED <<own, entry, others>>
  BY DEF BeginKill, Taking
<1>1. h \in Requests /\ cmds' = <<>> /\ 1 \in 1..Len(cmds) /\ h = cmds[1]
  BY <1>0, HeadIs DEF Inv
<1> HIDE DEF h
<1>2. /\ tasks[h].pc = "waiting" /\ tasks[h].reply = "none" /\ loop \in LoopRec
  BY <1>0, <1>1, Typed DEF Inv, Core, Commands
<1>3. CASE Reply(h, "err") /\ UNCHANGED loop
  BY <1>0, <1>1, <1>2, <1>3, IdleReplyInv
<1>4. CASE /\ loop.shell # "none"
           /\ loop' = [loop EXCEPT !.killing = h] /\ UNCHANGED tasks
  <2>1. /\ loop' \in LoopRec /\ loop'.guard = loop.guard /\ loop'.killing = h
        /\ loop'.pc = "serving" /\ loop'.shell = loop.shell
    BY <1>0, <1>1, <1>2, <1>4 DEF LoopRec
  <2>2. TypeOK'
    BY <1>0, <1>1, <1>4, <2>1, SMTT(30), Z3T(30) DEF Inv, Core, TypeOK, LoopRec
  <2>3. Guards'
    BY <1>0, <1>4, <2>1 DEF Inv, Core, Guards
  <2>4. Commands'
    BY <1>0, <1>1, <1>2, <1>4, <2>1, SMTT(30), Z3T(30) DEF Inv, Core, Commands
  <2>5. Holders'
    BY <1>0, <1>4, <2>1 DEF Inv, Core, Holders
  <2>6. Named'
    BY <1>0, <1>4, <2>1 DEF Inv, Named, Overtaking
  <2> QED BY <2>2, <2>3, <2>4, <2>5, <2>6 DEF Inv, Core
<1> QED BY <1>3, <1>4 DEF BeginKill, h

\* The kill is over: its asker holds the registration of a shell that is dead,
\* and nobody else did.
LEMMA KillOverInv ==
    ASSUME Inv, KillOver
    PROVE  Inv'
<1> DEFINE k == loop.killing
<1>0. /\ loop.pc = "serving" /\ k # Nobody /\ UNCHANGED <<own, entry, others, cmds>>
      /\ Reply(k, "ok")
  BY DEF KillOver
<1>1. /\ loop \in LoopRec /\ k \in Requests /\ loop.shell # "none"
      /\ tasks[k].kind = "Kill" /\ tasks[k].pc = "waiting"
      /\ tasks[k] \in TaskRec
      /\ \A i \in 1..Len(cmds) : cmds[i] # k
  BY <1>0, Typed DEF Inv, Core, Commands, LoopRec
<1>2. /\ loop' \in LoopRec /\ loop'.guard = loop.guard /\ loop'.killing = Nobody
      /\ loop'.pc \in {"serving", "finishing"}
      /\ loop'.pc = "serving" => loop'.shell = "none"
  BY <1>0, <1>1 DEF KillOver, LoopRec
<1> HIDE DEF k
<1>3. /\ TypeOK' /\ Guards' /\ Commands' /\ Named'
      /\ tasks'[k] = [tasks[k] EXCEPT !.reply = "ok"]
      /\ \A q \in Requests : q # k => tasks'[q] = tasks[q]
  BY <1>0, <1>1, <1>2, ReplyStep
<1>4. tasks'[k].kind = "Kill" /\ tasks'[k].pc = "waiting" /\ tasks'[k].reply = "ok"
  BY <1>1, <1>3 DEF TaskRec
<1>5. Holding(tasks'[k])
  BY <1>4 DEF Holding, Ending
<1>6. own.guard /\ \A q \in Requests : ~Holding(tasks[q])
  BY <1>0, <1>1 DEF Inv, Core, Holders
<1>7. \A q \in Requests : Holding(tasks'[q]) => q = k
  BY <1>3, <1>6
<1>8. Holders'
  BY <1>0, <1>1, <1>2, <1>4, <1>5, <1>6, <1>7 DEF Holders
<1> QED BY <1>3, <1>8 DEF Inv, Core
-----------------------------------------------------------------------------

\* A session begins with its shell and its entry, a lobby with neither.
LEMMA InitInv == Init => Inv
<1> SUFFICES ASSUME Init PROVE Inv
  OBVIOUS
<1>1. /\ tasks \in [Requests -> TaskRec] /\ \A r \in Requests : tasks[r] = Idle
      /\ cmds = <<>> /\ others \subseteq Names
  BY IdleTask DEF Init
<1>2. \A r \in Requests : /\ ~tasks[r].guard /\ Consistent(tasks[r])
                          /\ ~Holding(tasks[r]) /\ tasks[r].pc = "none"
  BY <1>1, IdleTask
<1>3. \/ /\ own.lobby = TRUE /\ own.guard = FALSE /\ entry = NoEntry
         /\ loop.shell = "none"
      \/ /\ own.lobby = FALSE /\ own.guard = TRUE /\ entry \in MaybeName \ others
         /\ entry = own.name /\ loop.shell = "running"
  BY DEF Init
<1>4. /\ loop.pc = "serving" /\ loop.killing = Nobody /\ loop.guard = FALSE
  BY DEF Init
<1>5. own \in OwnRec /\ loop \in LoopRec
  <2>1. /\ own.name \in MaybeName /\ own.detachable \in BOOLEAN
        /\ own = [lobby |-> own.lobby, name |-> own.name, guard |-> own.guard,
                  detachable |-> own.detachable]
        /\ loop = [pc |-> "serving", shell |-> loop.shell, killing |-> Nobody,
                   guard |-> FALSE]
    BY DEF Init, MaybeName
  <2>2. own.lobby \in BOOLEAN /\ own.guard \in BOOLEAN
        /\ loop.shell \in {"none", "running", "exited"}
    BY <1>3
  <2>3. own \in OwnRec
    BY <2>1, <2>2 DEF OwnRec
  <2>4. \A x \in {"none", "running", "exited"} :
          [pc |-> "serving", shell |-> x, killing |-> Nobody, guard |-> FALSE]
            \in LoopRec
    BY DEF LoopRec
  <2> QED BY <2>1, <2>2, <2>3, <2>4, Zenon
<1>6. TypeOK
  BY <1>1, <1>3, <1>5 DEF TypeOK, OwnRec, LoopRec, TaskRec
<1>7. NoEntry \notin MaybeName /\ NoEntry \notin others
  BY <1>1, DoorNames DEF MaybeName, NoName, NoEntry
<1>8. Guards
  BY <1>2, <1>3, <1>4, <1>7 DEF Guards
<1>9. Commands
  BY <1>1, <1>2, <1>4 DEF Commands
<1>10. Holders
  BY <1>2, <1>3 DEF Holders
<1>11. Named
  BY <1>3 DEF Named
<1> QED BY <1>6, <1>8, <1>9, <1>10, <1>11 DEF Inv, Core

\* Every step keeps the invariant.
LEMMA NextInv == Inv /\ [Next]_vars => Inv'
<1> SUFFICES ASSUME Inv, [Next]_vars PROVE Inv'
  OBVIOUS
<1>1. CASE UNCHANGED vars
  <2>0. UNCHANGED <<own, entry, others, loop, cmds, tasks>>
    BY <1>1 DEF vars
  <2>1. TypeOK'
    BY <2>0, SMTT(30), Z3T(30) DEF Inv, Core, TypeOK
  <2>2. Guards'
    BY <2>0 DEF Inv, Core, Guards
  <2>3. Commands'
    BY <2>0 DEF Inv, Core, Commands
  <2>4. Holders'
    BY <2>0 DEF Inv, Core, Holders
  <2>5. Named'
    BY <2>0 DEF Inv, Named, Overtaking
  <2> QED BY <2>1, <2>2, <2>3, <2>4, <2>5 DEF Inv, Core
<1>2. ASSUME NEW r \in Requests, Open(r) \/ Task(r) PROVE Inv'
  BY <1>2, OpenInv, PlainTaskInv, HeardInv, NamingInv, AskInv, RegisterInv,
     UnregisterInv, DropGuardInv, RenameInv DEF Task
<1>3. CASE Loop \/ ShellExits \/ LobbyOver
  BY <1>3, StartShellInv, ShowPreviewInv, BeginKillInv, KillOverInv, LoopInv,
     CloseInv DEF Loop
<1>4. CASE RecordAttach \/ \E name \in Names : OtherTakes(name) \/ OtherLeaves(name)
  BY <1>4, NamesInv
<1>5. CASE Die
  BY <1>5, DieInv
<1> QED BY <1>1, <1>2, <1>3, <1>4, <1>5 DEF Next

\* The records of the door, the loop and the tasks, and the channel's depth of
\* one (Ask sends only into an empty channel).
THEOREM DoorTyped == Spec => []TypeOK
<1>1. Inv => TypeOK
  BY DEF Inv, Core
<1> QED BY <1>1, InitInv, NextInv, PTL DEF Spec

\* Door::start and Door::kill_self, from any number of clients and siblings at
\* once: while the loop serves, a shell has its entry in the registry.
THEOREM NoShellUnregistered == Spec => []ShellIsRegistered
<1>1. Inv => ShellIsRegistered
  <2> SUFFICES ASSUME Inv, loop.pc = "serving", loop.shell # "none"
               PROVE  own.guard /\ ~own.lobby /\ entry # NoEntry
    BY DEF ShellIsRegistered
  <2>1. own.guard
    BY DEF Inv, Core, Holders
  <2> QED BY <2>1 DEF Inv, Core, Guards
<1> QED BY <1>1, InitInv, NextInv, PTL DEF Spec

\* A lobby that is left alone is not in the registry: a start that was refused
\* its shell and a kill both take the entry back.
THEOREM NoLobbyRegistered == Spec => []LobbyIsUnregistered
<1>1. Inv => LobbyIsUnregistered
  <2> SUFFICES ASSUME Inv, loop.pc = "serving", loop.shell = "none",
                      \A r \in Requests : tasks[r].pc \in {"none", "done"}
               PROVE  own.lobby /\ entry = NoEntry
    BY DEF LobbyIsUnregistered
  <2>1. \A r \in Requests : ~Holding(tasks[r]) /\ ~tasks[r].guard
    BY DEF Inv, Core, Commands, Consistent, Holding, Starting, Ending
  <2>2. ~own.guard /\ ~loop.guard
    BY <2>1 DEF Inv, Core, Holders, Guards
  <2> QED BY <2>1, <2>2 DEF Inv, Core, Guards
<1> QED BY <1>1, InitInv, NextInv, PTL DEF Spec

\* RegistryGuard: the directory has exactly one owner while the process lives,
\* so no drop removes an entry that was registered since.
THEOREM OneOwner == Spec => []EntryHasOneOwner
<1>1. Inv => EntryHasOneOwner
  <2> SUFFICES ASSUME Inv PROVE EntryHasOneOwner
    OBVIOUS
  <2> DEFINE owners == {r \in Requests : tasks[r].guard}
                         \cup {x \in {"door"} : own.guard}
                         \cup {x \in {"loop"} : loop.guard}
  <2>1. \A x, y \in owners : x = y
    BY DEF Inv, Core, Guards
  <2>2. owners # {} <=>
          own.guard \/ loop.guard \/ \E r \in Requests : tasks[r].guard
    OBVIOUS
  <2>3. Cardinality(owners) <= 1
    <3>1. CASE owners = {}
      BY <3>1, FS_EmptySet
    <3>2. CASE owners # {}
      <4>1. PICK x : x \in owners
        BY <3>2
      <4>2. owners = {x}
        BY <2>1, <4>1
      <4> HIDE DEF owners
      <4> QED BY <4>2, FS_Singleton
    <3> QED BY <3>1, <3>2
  <2>4. loop.pc # "gone" => (entry # NoEntry <=> owners # {})
    BY <2>2 DEF Inv, Core, Guards
  <2> QED BY <2>3, <2>4 DEF EntryHasOneOwner
<1> QED BY <1>1, InitInv, NextInv, PTL DEF Spec

\* Only the attach that is recorded while a start has overtaken the registered
\* session's name makes two sessions share one (NamesLock, record_attach,
\* Door::start); every other step of every interleaving keeps names apart.
THEOREM OnlyOvertakingShares == Spec => OnlyOvertakingSharesName
<1> DEFINE Shared == entry \notin others /\ entry' \in others' =>
                       own.guard /\ entry' = own.name /\ Overtaking
<1>1. Inv /\ [Next]_vars => [Shared]_vars
  <2> SUFFICES ASSUME Inv, Next, entry \notin others, entry' \in others'
               PROVE  own.guard /\ entry' = own.name /\ Overtaking
    OBVIOUS
  <2>0. NoName \notin others /\ NoEntry \notin others
    BY DoorNames, Typed DEF Inv, Core
  <2>1. CASE RecordAttach
    BY <2>0, <2>1 DEF RecordAttach, Inv, Named
  <2>2. ~\E name \in Names : OtherTakes(name) \/ OtherLeaves(name)
    BY <2>0 DEF OtherTakes, OtherLeaves
  <2>3. ASSUME UNCHANGED <<entry, others>> PROVE FALSE
    BY <2>3
  <2>4. ASSUME NEW r \in Requests, Register(r) \/ DropGuard(r) \/ Rename(r)
        PROVE  FALSE
    <3>1. UNCHANGED others
      BY <2>4 DEF Register, DropGuard, Rename
    <3>2. entry' \notin others
      BY <2>0, <2>4 DEF Register, MayRegister, DropGuard, Rename
    <3> QED BY <3>1, <3>2
  <2>5. ASSUME NEW r \in Requests, Open(r) \/ Task(r) PROVE FALSE
    BY <2>3, <2>4, <2>5
       DEF Open, Task, DispatchNew, NameIt, Unname, ShellStarted, DispatchKill,
           ShellKilled, Ask, Unregister, SpawnSibling, Switch, Relay, Forward,
           DispatchPreview, Shown, GiveUpPreview
  <2>6. ~CloseProcess
    BY <2>0 DEF CloseProcess
  <2>7. ~(Loop \/ ShellExits \/ LobbyOver \/ Die)
    BY <2>3, <2>6
       DEF Loop, ShellExits, LobbyOver, Die, StartShell, ShowPreview, BeginKill,
           KillOver, Finish, Exited, CloseDoor
  <2> QED BY <2>1, <2>2, <2>5, <2>7 DEF Next
<1> QED BY <1>1, InitInv, NextInv, PTL DEF Spec, OnlyOvertakingSharesName

=============================================================================
