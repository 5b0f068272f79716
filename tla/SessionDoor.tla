---------------------------- MODULE SessionDoor ----------------------------
(***************************************************************************)
(* One session process on the host: its door tasks (src/src/door.rs), the  *)
(* loop that owns the shell (src/src/host_session.rs run_with_doors), its  *)
(* registry entry (oxutrm-host registry.rs) and its end (src/src/serve.rs  *)
(* run_process).                                                           *)
(*                                                                         *)
(* Every control stream and every socket connection is served by a task of *)
(* its own, on a runtime of several threads, so two requests interleave at *)
(* every lock and every channel. An action is what a task does between two *)
(* of those. Clocks are choices: a shell asked to hang up takes its time   *)
(* or is given up on, and a lobby's client may be silent for too long.     *)
(* Names are taken under the registry's lock, held from the check to the   *)
(* write, so another session takes or leaves a name in one step.           *)
(***************************************************************************)
EXTENDS Naturals, Sequences, FiniteSets

CONSTANTS
    Requests,   \* the requests that come through the doors, each once
    Names       \* the names sessions may have

VARIABLES
    own,     \* Own: what the door holds under its lock
    entry,   \* the registry directory: the name in meta.json, or none
    others,  \* the names of the other live sessions
    loop,    \* the session's loop, and run_process around it
    cmds,    \* the channel of LoopCmds, one deep
    tasks    \* the door tasks, one for each request

vars == <<own, entry, others, loop, cmds, tasks>>

NoName == "no name"
NoEntry == "no entry"
Nobody == "nobody"

ASSUME DoorNames ==
    /\ {NoName, NoEntry} \cap Names = {}
    /\ Nobody \notin Requests
    /\ IsFiniteSet(Requests)

MaybeName == Names \cup {NoName}

\* What is asked of this session; and Forward is a kill, a rename or a preview of
\* another one. A list of sessions and a probe change nothing and are left out.
Kinds == {"New", "Kill", "Rename", "Preview", "Switch", "Forward"}

Idle == [pc |-> "none", kind |-> "none", via |-> "none", name |-> NoName,
         reply |-> "none", guard |-> FALSE, answer |-> "none"]

----------------------------------------------------------------------------
(* The registry *)

\* Mutant: the name is not checked.
MayRegisterAnyName(name) == entry = NoEntry

\* name_refusal and create_dir: nobody else has the name, and the directory is
\* not there yet.
MayRegister(name) == name \notin others /\ entry = NoEntry

\* A process begins as a session, registered and with its shell, or as a lobby.
Init ==
    /\ others \in SUBSET Names
    /\ cmds = <<>>
    /\ tasks = [r \in Requests |-> Idle]
    /\ \E detachable \in BOOLEAN :
          \/ /\ own = [lobby |-> TRUE, name |-> NoName, guard |-> FALSE,
                       detachable |-> detachable]
             /\ entry = NoEntry
             /\ loop = [pc |-> "serving", shell |-> "none", killing |-> Nobody,
                        guard |-> FALSE]
          \/ \E name \in MaybeName \ others :
                /\ own = [lobby |-> FALSE, name |-> name, guard |-> TRUE,
                          detachable |-> detachable]
                /\ entry = name
                /\ loop = [pc |-> "serving", shell |-> "running",
                           killing |-> Nobody, guard |-> FALSE]

\* Another session takes a free name. The list it reads for that has the entry of
\* a process that is gone removed first.
OtherTakes(name) ==
    /\ entry' = IF loop.pc = "gone" THEN NoEntry ELSE entry
    /\ name \notin others /\ entry' # name
    /\ others' = others \cup {name}
    /\ UNCHANGED <<own, loop, cmds, tasks>>

OtherLeaves(name) ==
    /\ name \in others
    /\ others' = others \ {name}
    /\ UNCHANGED <<own, entry, loop, cmds, tasks>>

----------------------------------------------------------------------------
(* The door tasks *)

At(r, kind, pc) == tasks[r].kind = kind /\ tasks[r].pc = pc

GoTo(r, pc) == tasks' = [tasks EXCEPT ![r].pc = pc]

\* A task that has answered is over: what it asked for and heard goes with it.
Answer(r, answer) ==
    tasks' = [tasks EXCEPT ![r] = [@ EXCEPT !.pc = "done", !.answer = answer,
                                            !.name = NoName, !.reply = "none",
                                            !.guard = FALSE]]

\* A request arrives: over the link's control stream, or over the socket of a
\* registered session that has one.
Open(r) ==
    /\ tasks[r] = Idle /\ loop.pc = "serving"
    /\ \E via \in {"Client", "Socket"}, kind \in Kinds, name \in MaybeName :
          /\ via = "Socket" => own.guard /\ own.detachable
          /\ kind \notin {"New", "Rename"} => name = NoName
          /\ tasks' = [tasks EXCEPT ![r] =
                [Idle EXCEPT !.pc = "open", !.kind = kind, !.via = via,
                             !.name = name]]
    /\ UNCHANGED <<own, entry, others, loop, cmds>>

\* serve, New: a lobby starts its shell; a session starts a sibling for its own
\* client (new_sibling), and refuses anybody else.
DispatchNew(r) ==
    /\ At(r, "New", "open")
    /\ IF own.lobby THEN GoTo(r, "naming")
       ELSE IF tasks[r].via = "Socket" THEN Answer(r, "Refused") ELSE GoTo(r, "spawning")
    /\ UNCHANGED <<own, entry, others, loop, cmds>>

\* new_sibling: name_taken looks under the registry's lock, and lets it go again.
\* The sibling takes its name when it registers, as OtherTakes.
SpawnSibling(r) ==
    /\ At(r, "New", "spawning")
    /\ \/ tasks[r].name \notin (others \cup {entry}) \ {NoName} /\ GoTo(r, "relaying")
       \/ Answer(r, "Refused")
    /\ UNCHANGED <<own, entry, others, loop, cmds>>

\* switch: the target is in the list, has a socket and answers on it, or not.
Switch(r) ==
    /\ At(r, "Switch", "open")
    /\ \/ tasks[r].via = "Client" /\ GoTo(r, "relaying")
       \/ Answer(r, "Refused")
    /\ UNCHANGED <<own, entry, others, loop, cmds>>

\* relay_attach: a first line that is no hello, or none within OPEN_TIMEOUT, is a
\* refusal; a hello is passed on and the rest relayed until either side ends, or
\* for ATTACH_TIMEOUT.
Relay(r) ==
    /\ tasks[r].pc = "relaying"
    /\ \E answer \in {"Refused", "Relayed"} : Answer(r, answer)
    /\ UNCHANGED <<own, entry, others, loop, cmds>>

\* forward: the sibling's own reply, or why there is none within the bound.
Forward(r) ==
    /\ At(r, "Forward", "open")
    /\ \E answer \in {"Refused", "Forwarded"} : Answer(r, answer)
    /\ UNCHANGED <<own, entry, others, loop, cmds>>

\* Door::start records the name it was asked for.
NameIt(r) ==
    /\ At(r, "New", "naming")
    /\ own' = [own EXCEPT !.name = tasks[r].name]
    /\ GoTo(r, "registering")
    /\ UNCHANGED <<entry, others, loop, cmds>>

\* Mutant: a directory that is there already is taken over.
RegisterOver(r) ==
    /\ At(r, "New", "registering")
    /\ IF own.name \notin others
       THEN /\ entry' = own.name
            /\ own' = [own EXCEPT !.guard = TRUE, !.lobby = FALSE]
            /\ GoTo(r, "asking")
       ELSE GoTo(r, "unnaming") /\ UNCHANGED <<own, entry>>
    /\ UNCHANGED <<others, loop, cmds>>

\* Door::register, under the door's lock, with the record as it is by now. It is
\* refused, or fails at the file system or the socket, and then the new directory
\* goes again.
Register(r) ==
    /\ At(r, "New", "registering")
    /\ \/ /\ MayRegister(own.name)
          /\ entry' = own.name
          /\ own' = [own EXCEPT !.guard = TRUE, !.lobby = FALSE]
          /\ GoTo(r, "asking")
       \/ GoTo(r, "unnaming") /\ UNCHANGED <<own, entry>>
    /\ UNCHANGED <<others, loop, cmds>>

\* A refused registration: the record has no name.
Unname(r) ==
    /\ At(r, "New", "unnaming")
    /\ own' = [own EXCEPT !.name = NoName]
    /\ Answer(r, "Refused")
    /\ UNCHANGED <<entry, others, loop, cmds>>

\* serve, Preview of this session.
DispatchPreview(r) ==
    /\ At(r, "Preview", "open")
    /\ GoTo(r, "asking")
    /\ UNCHANGED <<own, entry, others, loop, cmds>>

\* serve, Kill of this session: refused in a lobby.
DispatchKill(r) ==
    /\ At(r, "Kill", "open")
    /\ IF own.lobby THEN Answer(r, "Refused") ELSE GoTo(r, "asking")
    /\ UNCHANGED <<own, entry, others, loop, cmds>>

\* Mutant: the channel has no depth.
AskUnbounded(r) ==
    /\ tasks[r].pc = "asking" /\ loop.pc # "closed"
    /\ cmds' = Append(cmds, r)
    /\ GoTo(r, "waiting")
    /\ UNCHANGED <<own, entry, others, loop>>

\* The command goes to the loop when the channel has room.
Ask(r) ==
    /\ tasks[r].pc = "asking" /\ loop.pc # "closed" /\ cmds = <<>>
    /\ cmds' = <<r>>
    /\ GoTo(r, "waiting")
    /\ UNCHANGED <<own, entry, others, loop>>

\* What the asker takes for an answer: the loop's, or the end of the channel that
\* its command is in. One that finds the channel closed still holds its command,
\* and in it the other end of the reply it then waits for, so it waits for ever.
Replied(r) ==
    /\ tasks[r].pc = "waiting"
    /\ tasks[r].reply # "none" \/ loop.pc = "closed"

\* Door::preview_self has its picture, or the loop has none to give.
Shown(r) ==
    /\ tasks[r].kind = "Preview" /\ tasks[r].reply # "none" /\ tasks[r].pc = "waiting"
    /\ Answer(r, IF tasks[r].reply = "ok" THEN "Preview" ELSE "Refused")
    /\ UNCHANGED <<own, entry, others, loop, cmds>>

\* It gives up after SIBLING_TIMEOUT, or finds the loop gone. What it has put into
\* the channel stays there.
GiveUpPreview(r) ==
    /\ tasks[r].kind = "Preview" /\ tasks[r].pc \in {"asking", "waiting"}
    /\ Answer(r, "Refused")
    /\ UNCHANGED <<own, entry, others, loop, cmds>>

\* Door::start: the shell runs, or the registration is taken back.
ShellStarted(r) ==
    /\ tasks[r].kind = "New" /\ Replied(r)
    /\ IF tasks[r].reply = "ok" THEN Answer(r, "Entry") ELSE GoTo(r, "unregistering")
    /\ UNCHANGED <<own, entry, others, loop, cmds>>

\* Mutant: a kill is answered before the entry goes.
KilledStaysRegistered(r) ==
    /\ tasks[r].kind = "Kill" /\ Replied(r)
    /\ Answer(r, IF tasks[r].reply = "ok" THEN "Done" ELSE "Refused")
    /\ UNCHANGED <<own, entry, others, loop, cmds>>

\* Door::kill_self: the shell is gone and the entry goes next, or there was none.
ShellKilled(r) ==
    /\ tasks[r].kind = "Kill" /\ Replied(r)
    /\ IF tasks[r].reply = "ok" THEN GoTo(r, "unregistering") ELSE Answer(r, "Refused")
    /\ UNCHANGED <<own, entry, others, loop, cmds>>

\* Mutant: the guard stays in the record.
UnregisterCopies(r) ==
    /\ tasks[r].pc = "unregistering"
    /\ tasks' = [tasks EXCEPT ![r].pc = "dropping", ![r].guard = own.guard]
    /\ own' = [own EXCEPT !.lobby = TRUE]
    /\ UNCHANGED <<entry, others, loop, cmds>>

\* Door::unregister, under the lock: the door is a lobby's, and the guard is
\* this task's.
Unregister(r) ==
    /\ tasks[r].pc = "unregistering"
    /\ tasks' = [tasks EXCEPT ![r].pc = "dropping", ![r].guard = own.guard]
    /\ own' = [own EXCEPT !.lobby = TRUE, !.guard = FALSE]
    /\ UNCHANGED <<entry, others, loop, cmds>>

\* RegistryGuard::drop, outside the lock, and then the answer.
DropGuard(r) ==
    /\ tasks[r].pc = "dropping"
    /\ entry' = IF tasks[r].guard THEN NoEntry ELSE entry
    /\ Answer(r, IF tasks[r].kind = "Kill" THEN "Done" ELSE "Refused")
    /\ UNCHANGED <<own, others, loop, cmds>>

\* Door::rename_self, under the door's lock and the registry's: refused, or failed
\* by the file system, it changes nothing.
Rename(r) ==
    /\ At(r, "Rename", "open")
    /\ \/ /\ own.guard /\ tasks[r].name \notin others
          /\ entry' = tasks[r].name
          /\ own' = [own EXCEPT !.name = tasks[r].name]
          /\ Answer(r, "Entry")
       \/ Answer(r, "Refused") /\ UNCHANGED <<own, entry>>
    /\ UNCHANGED <<others, loop, cmds>>

\* The attach loop of a registered session records an attach: the door's record
\* is written as it stands, its name with it.
RecordAttach ==
    /\ own.guard /\ own.detachable
    /\ entry' = own.name
    /\ UNCHANGED <<own, others, loop, cmds, tasks>>

----------------------------------------------------------------------------
(* The session's loop *)

\* The loop is at its select and may take a command: no kill is in progress.
Taking(kind) ==
    /\ loop.pc = "serving" /\ loop.killing = Nobody
    /\ cmds # <<>> /\ tasks[Head(cmds)].kind = kind

Reply(r, reply) == tasks' = [tasks EXCEPT ![r].reply = reply]

\* LoopCmd::StartShell: refused where there is a shell, and a shell that fails to
\* start leaves the lobby a lobby.
StartShell ==
    /\ Taking("New")
    /\ cmds' = Tail(cmds)
    /\ \/ /\ loop.shell = "none"
          /\ loop' = [loop EXCEPT !.shell = "running"]
          /\ Reply(Head(cmds), "ok")
       \/ Reply(Head(cmds), "err") /\ UNCHANGED loop
    /\ UNCHANGED <<own, entry, others>>

\* LoopCmd::Preview: a picture, if there is a shell. Nobody may be waiting for it.
ShowPreview ==
    /\ Taking("Preview")
    /\ cmds' = Tail(cmds)
    /\ IF tasks[Head(cmds)].pc = "waiting"
       THEN Reply(Head(cmds), IF loop.shell = "none" THEN "err" ELSE "ok")
       ELSE UNCHANGED tasks
    /\ UNCHANGED <<own, entry, others, loop>>

\* LoopCmd::Kill: the shell is hung up, unless it is gone already or there is
\* none. The answer waits until it is over.
BeginKill ==
    /\ Taking("Kill")
    /\ cmds' = Tail(cmds)
    /\ IF loop.shell = "none"
       THEN Reply(Head(cmds), "err") /\ UNCHANGED loop
       ELSE loop' = [loop EXCEPT !.killing = Head(cmds)] /\ UNCHANGED tasks
    /\ UNCHANGED <<own, entry, others>>

\* Mutant: the kill that is over is still in progress.
KillNeverOver ==
    /\ loop.pc = "serving" /\ loop.killing # Nobody
    /\ loop' = IF tasks[loop.killing].via = "Socket"
               THEN [loop EXCEPT !.pc = "finishing", !.shell = "exited"]
               ELSE [loop EXCEPT !.shell = "none"]
    /\ Reply(loop.killing, "ok")
    /\ UNCHANGED <<own, entry, others, cmds>>

\* Mutant: every kill leaves a lobby.
KillLeavesLobby ==
    /\ loop.pc = "serving" /\ loop.killing # Nobody
    /\ loop' = [loop EXCEPT !.killing = Nobody, !.shell = "none"]
    /\ Reply(loop.killing, "ok")
    /\ UNCHANGED <<own, entry, others, cmds>>

\* The kill is over: the shell exited, or is given up on after SIGKILL. Its own
\* client's kill leaves a lobby; a sibling's ends the session.
KillOver ==
    /\ loop.pc = "serving" /\ loop.killing # Nobody
    /\ loop' = IF tasks[loop.killing].via = "Socket"
               THEN [loop EXCEPT !.pc = "finishing", !.killing = Nobody,
                                 !.shell = "exited"]
               ELSE [loop EXCEPT !.killing = Nobody, !.shell = "none"]
    /\ Reply(loop.killing, "ok")
    /\ UNCHANGED <<own, entry, others, cmds>>

\* After a sibling's kill the loop waits for its Done to be written, or for
\* DONE_WRITTEN_WITHIN, and closes its client's link.
Finish ==
    /\ loop.pc = "finishing"
    /\ loop' = [loop EXCEPT !.pc = "over"]
    /\ UNCHANGED <<own, entry, others, cmds, tasks>>

\* The shell exits of its own accord.
ShellExits ==
    /\ loop.pc = "serving" /\ loop.shell = "running"
    /\ loop' = [loop EXCEPT !.shell = "exited"]
    /\ UNCHANGED <<own, entry, others, cmds, tasks>>

\* A turn finds that the shell exited: the last screen, the close, the end.
Exited ==
    /\ loop.pc = "serving" /\ loop.killing = Nobody /\ loop.shell = "exited"
    /\ loop' = [loop EXCEPT !.pc = "over"]
    /\ UNCHANGED <<own, entry, others, cmds, tasks>>

\* A lobby's link is closed, or its client has been silent too long.
LobbyOver ==
    /\ loop.pc = "serving" /\ loop.shell = "none"
    /\ loop' = [loop EXCEPT !.pc = "over"]
    /\ UNCHANGED <<own, entry, others, cmds, tasks>>

\* Door::close, under the lock: as Unregister.
CloseDoor ==
    /\ loop.pc = "over"
    /\ loop' = [loop EXCEPT !.pc = "closing", !.guard = own.guard]
    /\ own' = [own EXCEPT !.lobby = TRUE, !.guard = FALSE]
    /\ UNCHANGED <<entry, others, cmds, tasks>>

\* Door::close drops the guard, and run_process returns: the channel of commands
\* goes, and what is in it. The runtime is shut down without waiting for tasks.
CloseProcess ==
    /\ loop.pc = "closing"
    /\ entry' = IF loop.guard THEN NoEntry ELSE entry
    /\ loop' = [loop EXCEPT !.pc = "closed", !.guard = FALSE]
    /\ cmds' = <<>>
    /\ UNCHANGED <<own, others, tasks>>

\* The process is gone: run_process is over and it exits, or it is killed where it
\* stands, in the middle of whatever its tasks were doing. The entry stays.
Die ==
    /\ loop.pc # "gone"
    /\ loop' = [pc |-> "gone", shell |-> "none", killing |-> Nobody, guard |-> FALSE]
    /\ own' = [own EXCEPT !.lobby = TRUE, !.guard = FALSE]
    /\ cmds' = <<>>
    /\ tasks' = [r \in Requests |-> Idle]
    /\ UNCHANGED <<entry, others>>

----------------------------------------------------------------------------

Task(r) ==
    \/ DispatchNew(r) \/ NameIt(r) \/ Register(r) \/ Unname(r) \/ ShellStarted(r)
    \/ DispatchKill(r) \/ ShellKilled(r)
    \/ Ask(r) \/ Unregister(r) \/ DropGuard(r)
    \/ Rename(r) \/ SpawnSibling(r) \/ Switch(r) \/ Relay(r) \/ Forward(r)
    \/ DispatchPreview(r) \/ Shown(r) \/ GiveUpPreview(r)

Loop ==
    \/ StartShell \/ ShowPreview \/ BeginKill \/ KillOver \/ Finish \/ Exited
    \/ CloseDoor \/ CloseProcess

Next ==
    \/ \E name \in Names : OtherTakes(name) \/ OtherLeaves(name)
    \/ \E r \in Requests : Open(r) \/ Task(r)
    \/ Loop \/ ShellExits \/ LobbyOver
    \/ RecordAttach
    \/ Die

Spec == Init /\ [][Next]_vars

\* A task runs when it can, and one that waits for room in the channel gets its
\* turn (the channel is fair). The loop takes a ready command, and its clocks end
\* a kill and the wait after it.
Fairness ==
    /\ \A r \in Requests : SF_vars(Task(r))
    /\ WF_vars(Loop)

LiveSpec == Spec /\ Fairness

----------------------------------------------------------------------------
(* Properties *)

\* The records of the state, and the channel's depth.
TypeOK ==
    /\ own \in [lobby : BOOLEAN, name : MaybeName, guard : BOOLEAN,
                detachable : BOOLEAN]
    /\ entry \in MaybeName \cup {NoEntry}
    /\ others \subseteq Names
    /\ loop \in [pc : {"serving", "finishing", "over", "closing", "closed", "gone"},
                 shell : {"none", "running", "exited"},
                 killing : Requests \cup {Nobody}, guard : BOOLEAN]
    /\ cmds \in Seq(Requests) /\ Len(cmds) <= 1
    /\ tasks \in [Requests ->
         [pc : {"none", "open", "naming", "registering", "unnaming", "asking",
                "waiting", "unregistering", "dropping", "spawning", "relaying", "done"},
          kind : Kinds \cup {"none"},
          via : {"none", "Client", "Socket"}, name : MaybeName,
          reply : {"none", "ok", "err"}, guard : BOOLEAN,
          answer : {"none", "Refused", "Entry", "Done", "Preview", "Relayed", "Forwarded"}]]

\* A shell is never there without its registry entry: no interleaving of starts,
\* kills and refusals leaves a session running that no one can find (Door::start,
\* Door::kill_self).
ShellIsRegistered ==
    loop.pc = "serving" /\ loop.shell # "none" =>
        own.guard /\ ~ own.lobby /\ entry # NoEntry

\* With no request under way the door and the loop agree: an entry for a shell,
\* none for a lobby.
LobbyIsUnregistered ==
    loop.pc = "serving" /\ loop.shell = "none"
      /\ (\A r \in Requests : tasks[r].pc \in {"none", "done"}) =>
        own.lobby /\ entry = NoEntry

\* The directory has one owner for as long as its process lives: a guard's drop removes
\* the entry it stands for, never one that was registered since.
EntryHasOneOwner ==
    LET owners == {r \in Requests : tasks[r].guard}
                    \cup {x \in {"door"} : own.guard} \cup {x \in {"loop"} : loop.guard}
    IN  /\ Cardinality(owners) <= 1
        /\ loop.pc # "gone" => (entry # NoEntry <=> owners # {})

\* Every request is answered, or ends with the process: a full channel, a loop
\* in the middle of a kill and a loop that ends with the command unread leave
\* nobody waiting.
EveryRequestAnswered ==
    \A r \in Requests :
        tasks[r].pc = "open" ~>
            tasks[r].pc = "done" \/ loop.pc \in {"closed", "gone"}

\* A sibling's kill ends the session.
SiblingKillEnds ==
    \A r \in Requests :
        (tasks[r].answer = "Done" /\ tasks[r].via = "Socket") ~>
            loop.pc \in {"closed", "gone"}

\* A start has put its name into the record, and has neither registered with it
\* nor taken it out again.
Overtaking == \E r \in Requests : tasks[r].pc \in {"registering", "unnaming"}

\* A name comes to be that of two sessions in one way only: an attach is recorded
\* (record_attach) while a start that came too late has its unchecked name in the
\* record of the session that is registered by then. No rename, registration,
\* kill and new start, or death of a process gets there, however they interleave
\* (NamesLock, Door::start, Door::rename_self).
OnlyOvertakingSharesName ==
    [][entry \notin others /\ entry' \in others' =>
         own.guard /\ entry' = own.name /\ Overtaking]_vars

\* What the comment on NamesLock says of the names that are taken under it: two
\* sessions cannot both take one.
NamesStayUnique == loop.pc # "gone" => entry \notin others

=============================================================================
