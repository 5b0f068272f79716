# oxutrm, specified

oxutrm keeps a terminal session alive on a host while its client moves between
networks. The host owns the screen and sends it as diffs over QUIC; ssh is used to
set a link up and to rebuild it; a second link may stand by. This directory holds
TLA+ specifications of the parts of it that are concurrent or unreliable, TLC
instances that check them, and TLAPS proofs of their safety.

Module | What it specifies | Code
---|---|---
`SyncChannel` | the state synchronisation engine between the two ends of one link | `crates/oxutrm-sync`, its callers in `session.rs` and `host_session.rs`
`Replica` | what that engine promises, with no frames, rings or acknowledgements | (abstract)
`FrameTransport` | how one frame crosses the connection, up to the last one of a session | `link.rs`, `HostSession::finish`, `ClientSession::drain`
`Recovery` | a client that loses its link: link state, ssh rebuild, standby, and the host that adopts and closes links | `session.rs`, `linkstate.rs`, `rebuild.rs`, `standby.rs`, `listener.rs`, `host_session.rs`
`LinkState`, `Selector`, `Popup` | the client's three local state machines, as operators on records | `linkstate.rs`, `selector.rs`, `ui.rs`
`ClientSession` | these three composed with the client's loop, its requests and the host that writes its typing to the shell | `session.rs`, `switcher.rs`, `host_session.rs`
`SessionDoor` | one session process: door tasks, the loop that owns the shell, the registry entry, the end | `door.rs`, `host_session.rs`, `registry.rs`, `serve.rs`
`Registry` | the directory of sessions, which machines may share, and who removes what from it | `registry.rs`, `serve.rs`
`SyncChannelProofs`, `FrameTransportProofs`, `SessionDoorProofs`, `RegistryProofs` | theorems about those modules, for every value of their constants |
`ClientSessionInvariant`, `ClientSessionProofs` | the inductive invariant of `ClientSession`, and that the client's wakes that take no key keep it; that the answers, the host, the clock and the keys do, and the theorems |
`RecoveryInvariant`, `RecoveryHost`, `RecoveryProofs` | the inductive invariant of `Recovery`; that it holds at the start and the steps of the tasks and of the host keep it; that the client's steps do, and the theorems |
`MC*` and `*.cfg` | the instances TLC checks |

`PROJECT.json` maps every definition to the lines it models, and lists the runs, the
mutants (a plausible bug for each property that the property catches), the hazards,
the findings and the theorems.

## Parts, their state and how they interact

- **Synchronisation channel** (`channel.rs`). A `Sender` has a ring of up to
  `STATE_RING` states, the newest one the peer acknowledged, and the newest
  acknowledgement it sent. A `Receiver` has a ring of up to `STATE_RING + 1` states, the
  newest acknowledgement it read, and whether it has applied anything yet. Each end owns
  one of each; the acknowledgement of one direction travels on the frames of the other.
- **Frame transport** (`link.rs`). Sends a frame as a datagram, or on a stream of its
  own when it is too large, written by a spawned task that a newer frame supersedes. Two
  reading tasks feed a bounded queue. No error reaches the session. The last frame of a
  session is written inline and waited for.
- **Link state** (`linkstate.rs`). Live, Silent, Recovering, Confirming; since when a
  reply is owed, when the next attempt is due, the keys held back.
- **Popup and selector** (`ui.rs`, `selector.rs`). Which of a read's bytes go to the host,
  are held, or mean a command; the question about held typing; the list of sessions and
  the questions before a kill or a take-over; the configuration screen.
- **ssh rebuild** (`rebuild.rs`). At most one attempt in flight, numbered; a latch
  saying that an attempt may have displaced our own link; an atomic `Commitment` shared with
  the attempt's task, which both the task and a failover try to claim.
- **Standby** (`standby.rs`, `control.rs`). A parked second link, the search for one and
  the probe of it, both tasks of their own, both reporting over a channel.
- **Client loop** (`session.rs` `run_on`). A `select!` over keys, frames, clocks, reports,
  answers and the close of the link; after every wake the popup, the one request that may
  be waiting, the heartbeat, the rebuild and the standby, in that order.
- **Host loop** (`host_session.rs` `run_with_doors`). The shell, the link, the parked
  standby; commands from the doors, one deep; links from the attach loop, one deep.
- **Attach loop** (`listener.rs`, `attach_exchange.rs`). One exchange at a time, primaries
  before standbys.
- **Door** (`door.rs`). A request comes over a control stream or the session's socket and
  is served by a task of its own. The record `Own` under a lock holds the metadata, the
  registry guard and whether this is a lobby.
- **Registry** (`registry.rs`). A directory per session with `meta.json`; a names lock;
  whoever lists removes what it judges stale.
- **Session process** (`serve.rs`). Registers, runs the loop, closes the door.

What is hard to test in it: frames lost and overtaken, with diffs that only fit one base;
a last screen racing the close; an attempt that reaches the host and fails afterwards, or
is given up while it is being adopted; reports, answers and questions that arrive after
what they are about has gone; keys typed ahead of a question; requests through two doors
that interleave at each lock; a process that ends, or dies, with requests under way; a pid
that is somebody else's by now. `PROJECT.json` places each of these at its line.

## The modules

### SyncChannel

State: `tx` and `rx`, the `Sender` and `Receiver` of each end; `net`, the frames in
flight; `authored`, a history of every content each end minted. A content is a function
from `Cell` to `Val`. A diff is the function of the cells that differ and applying it
overwrites just those, so that a diff applied to the wrong base gives a wrong state, as a
row patch does. `Counters` are the cells that may not decrease: the bell, the length
of the scrollback and the clipboard serial of `ScreenState::validate_transition`.

`Update` is a snapshot of the screen or an appended input event. `OfferFrame` is one pacing
tick: it learns what the peer acknowledged and makes a frame if one is wanted. `Send` drops
at a full buffer. `ReceiveFrame` is `on_frame`, whole: the acknowledgement is taken
from every frame, then staleness, base, apply, transition rule, pruning, push, cap. Frames
in `net` are a set: any may be delivered next, so any may be overtaken, and `LoseFrame`
drops one. Encoding and compression are left out; a frame that fails to decode is a lost
frame.

`Replica` says what a user of the engine may rely on: an end publishes a log, its peer
shows a state of that log, jumps only forwards, and gets to the end of it.

### FrameTransport

Opens up what `SyncChannel` takes as one step. A frame is the number of the state it
carries. `inFlight` is `FrameSink.in_flight`; `stream` holds each stream with its writer
task (waiting for `open_uni`, writing, over), whether its cancel sender was dropped, and
what of it is on the wire; `final` is where `send_final` is. `Send` is one pacing tick:
a datagram, which may be dropped, or `send_on_stream` with its reaping and superseding. The
writer's two `select!`s are the actions `Writer*`, which choose freely when both arms are
ready. `finish` and `Final*` are the end of a session, and `SeeClose`, `TakeFrame` and
`DrainEnds` what the client does with the rest. quinn is external: stream credit, streams
that arrive whole and are acknowledged, resets, lost datagrams and a peer that vanishes
while the connection stays open.

### Recovery

One action per wake of the client's loop, each ending with `Lap` (link state, rebuild
step, standby step, and the tasks these start). There are two exceptions, as in the code:
the loop goes straight back to its `select!` after an excused close, and a failover is
decided by `standby_step` and performed by `fail_over`, with room for the attempt's task to
commit in between. The tasks (attempt, search, probe) step on their own; an aborted attempt
may still finish the poll it is in (`Abort`). The host side is the attach loop
(`ServePrimary` .. `HandOver`) and the session loop (`AttachPrimary`, `ParkStandby`,
`PromoteStandby`, `StandbyGone`, `HostTurn`). `closed` records why the host closed a link
and, as history, in whose favour. `allowed`, chosen once, bounds the attempts and searches
of a behaviour.

Time: clocks are left out. A deadline may pass at any lap, subject to one assumption,
`TimePasses`: every deadline in this code is a matter of seconds and a lap one of
milliseconds, so no deadline passes while a channel holds something unread or an aborted
task has not yet been dropped. Without it TLC finds behaviours in which a client goes
through a whole outage with an unread event in its channel.

Live stands for Live and Confirming, which differ in held keys only (`ClientSession` tells
them apart). The links' own idle timeout, the quit key, the move to another session and
route following are not in this module.

### LinkState, Selector, Popup, ClientSession

The first three have no variables: each is the code's struct as a record, and an operator
for each of its methods. `ClientSession` holds those records in `c` and composes them as
the loop does. An instant is kept as its age, counted to `AgeCap` and then no further:
each method compares ages with a constant, and `TimePasses` ages everything at once. A
read of the keyboard is a sequence of keys (`user.reads`), so that two keys of one read go
through different modes as they do in `Ui::keys`. The constant `Users` says what the one at
the keyboard may press, ask for and have configured: it is the input.

An action is a wake of `run_on` followed by `Lap`: `layer_at` (evaluate the link, tick the
popup, fetch a failed list again), `take_ask`, `heartbeat`. `Rebuilt` and `FailOver` are
the two ways of `Recovery` to a new link, with `swap_in_as` resetting the input channel. An
attempt is followed from the Attach it sends (`Attach`, `h.attempt`) through its adoption
by the host (`HostAdopts`) to its landing, which `rebuild_landed` takes in any phase: the
client may be Live again on its old link by then, or have failed over, or have moved to
another session and aimed its rebuild anew (`Retargeted`); from a lobby it lands in a new
one, and an open selector lists again (`Relist`). So the host may be on the client's link,
ahead of it by an adoption, behind it by a failover, or apart by both (`h.on`). The input
channel itself is what `SyncChannel` shows it to be: the host comes to hold some published
input state, never an older one. `drain_input` writes what is new in it to the shell, or
drops it in a lobby. A request goes to the door (`Serve`: refused or done), and its answer
may come late, or never (`AnswerFails`, by `ANSWER_WITHIN`). `config_command` gives every
answer the configuration may give, and applies the popup's key and whether it opens by
itself.

### SessionDoor

`own` is the door's record, `entry` the directory in the registry, `others` the names of
the other sessions, `loop` the session's loop with `run_process` around it, `cmds` the
command channel, `tasks` the door tasks. An action is what a task does between two locks
or channel operations: `Door::start` is `NameIt`, `Register`, `Ask`, `ShellStarted` and,
when it goes wrong, `Unname` or `Unregister` and `DropGuard`. A guard is an owned value: it
is the door's, or a task's between `Unregister` and `DropGuard`, or the closing loop's.
`Switch`, `SpawnSibling` and `Relay` are a client's move to another session, `Forward` a
request for another one. A preview has a deadline of its own: `GiveUpPreview` leaves what it
asked in the channel, and `ShowPreview` answers nobody. `Die` ends the process at any point
and leaves the entry; another session that looks for a name prunes it first (`OtherTakes`).

A task that finds the command channel closed still owns the reply's other end inside the
command it got back (`match (asked, started.await)`), so it waits until the process
is gone. Nobody sees this, since the process is about to exit; `Replied` keeps it.

### Registry

The machines (pids that are given again, boots, a wall clock that is set forwards or back)
are external. Machines may share the directory, and two of them may have one boot token.
A process's start is told as on Linux: since the boot, which is dated by the wall clock as
it is when asked, so it moves when the clock is set and a record's `created_unix` does not.
A session starts, dates its record (`MakeMeta`), creates its directory and renames
`meta.json` into it, rewrites it, and takes it away (`CreateDir`, `update`, `DropGuard`).
A lister reads an entry, asks for the boot token and the pid, asks for the start time, and
removes the directory (`ReadEntry`, `JudgePid`, `JudgeStart`, `Prune`): anything may happen
between two of these. A token or a start time may be unavailable.

## What TLC checks

Run | Instance | Shows
---|---|---
`sync_screen` | ring of 3, 4 screen states of a counter and a cell, 1 frame and 2 acknowledgements in flight | `TypeOK`, `ReplicaAgrees`, `NoFrameRejected`, `AckedStateIsHeld`, `NeverBackwards`
`sync_duplex` | ring of 2, both ends mint 2 states, 2 frames each way | `Converges`, and `ImplementsReplica`: the engine implements `Replica`, liveness included
`recovery` | 2 attempts and 1 search, or 4 searches and no attempt | a given-up attempt never attaches, never ends the session by its refusal, never by its takeover while rebuilding; the standby belongs to the primary in use; the host drops no link silently; a failover rests on the answer of the standby that is held; a close meant for a spare link never ends the session
`recovery_live` | 2 attempts, another client | `ClosedLinkIsLeft`
`door_requests` | 3 requests of any kind, 1 name, symmetric | shell and entry go together, one owner per entry, a name comes to be shared only by an attach recorded over an unchecked name
`door_live` | 2 requests | every request is answered, a sibling's kill ends the session
`transport` | 2 states, 2 streams, credit for 1, a queue of 1 | `NeverQueue`; `LastScreenShown`: a last frame reported delivered was shown; superseded writers leave, `finish` returns, the newest state is shown
`client` | a typist with 2 keys; a chooser and a killer with 2 sessions; one who starts a session in a lobby and types 2 keys | typing reaches the shell once and in order, held typing is asked about and leaves only by an answer, a loading list is on its way, nothing is killed or taken over but by a question that asked for it
`client_live` | one who looks, renames and quits; one who types a key blind and opens the configuration | silence is noticed, the outage's popup goes, loading ends
`registry` | 1 machine, 1 session, 1 pid, 2 listers, 2 boots, a clock set by up to 2 seconds with a slack of 1 | only a lister misled by a clock set past the slack removes the entry of a running session, a dead one's entry goes

The bounds. With a ring of 3 and 4 states a base falls out of the sender's ring while the
receiver must keep it, and full states follow diffs; acknowledgements overtake each other
with two in flight. `Recovery` needs two attempts for a late report of the first to meet
the second, and four searches for a standby to be lost, replaced and switched off with a
probe under way; a behaviour with both is beyond a few minutes, so `recovery` chooses one
or the other at the start, and the first keeps one search so that failovers meet attempts.
Three requests are the smallest number in which a start, a kill and a rename meet; one name
suffices, since a session either wants a taken name or not, and none is the other choice.
Two states and two streams let a writer be superseded while it waits for the only credit,
and let the last frame find the credit taken. Two keys suffice for order and for a key sent
after one that was held; the ages of `ClientSession` are counted to 1, which tells "not
yet" from "long enough" for each constant, and a hold of one key is exceeded by a read of
two. The users of `ClientSession` are separate because a single one with every key is
beyond a few minutes; each has what its question needs. What several of them do together,
such as typing into a session that is started after a kill, is in the theorems only, and so
are machines that share the registry: with two of them a clock that runs and is set past
the slack is too much for one run. One pid makes every later process a
reuse of it, with one boot after the first a token is of this boot or another, and a clock
that is set by 0, 1 or 2 seconds with a slack of 1 is set within the slack and past it.

Deadlock is checked, except in `transport` and the runs of `ClientSession`, where a session
that has closed or a client that has quit really stops.

Fairness is assumed only where stated, and only of steps the code schedules: a pacing tick
and a path that delivers some frame infinitely often (`SyncChannel`); ready arms of the
randomised `select!`, tasks bounded by their own deadlines, and deadlines that pass for a
client that hears nothing (`Recovery`); door tasks and the loop (`SessionDoor`); the tasks,
timers and timeouts of `link.rs` and a peer that, while it is there, reads and acknowledges
(`FrameTransport`); the pacing timer, the clock and the deadline of a request, and nothing
of the link, the host or the user (`ClientSession`); that somebody on the machine of a
session lists again and again (`Registry`). The door's tasks and the readers of
`FrameTransport` need strong fairness because they queue for a channel that others fill as
well, and tokio's channels are first come, first served. A lister's `ReadEntry` has it
because a round of `list_in` looks at every entry there is.

### Where the code and its comments differ

Two runs expect a violation, each of a sentence in the repository.

- `recovery_stood_down`: `rebuild.rs:651-652` says that nothing a stood-down attempt
  started can have displaced the client. The host may have sent a frame on the old link and
  then adopted the attempt; the frame stands the attempt down, the task is aborted,
  and the close that follows ends the session as taken over. The same comment goes on to
  say that an attempt may still be adopted and that its landing is then taken, which covers
  the case where the landing is read first.
- `door_names`: `registry.rs:113-115` says that every name is checked and taken under the
  names lock, so that two sessions cannot both take one. Of two `New` that overlap in a lobby
  the second may put its name into the door's record, unchecked, when the first has
  registered already, and an attach that is recorded then writes it to `meta.json`.
  `OnlyOvertakingSharesName`, which holds, says that this is the only way.

Others, met while modelling and without a run:

- `door.rs:88-89` says the record is what `meta.json` says. The second of the two `New` above,
  when it is refused, clears the name in the record of the one that is registered.
- `registry.rs:410-411` says that an entry is stale when its pid is gone or somebody else's. A
  wall clock that is set ahead by more than `PID_REUSE_SLACK_SECS` makes the process of
  a running session look younger than its record, and its entry stale. `LiveEntryStays`, which
  holds, has this as one of its two exceptions. The other, a lister on another machine,
  is meant: `entry_is_stale` does not look at the pid of an entry with another token.
- `link.rs:48-50` says that what a dropped frame carried is carried by the next tick.
  `make_frame` notes an acknowledgement as sent when it makes the frame
  (`channel.rs:154`), so a lost frame that had nothing else in it is not repeated.
  `Converges` holds all the same: the peer's screen is right, it is only sent again.
- `session.rs:2354-2355` says that the client is still in `Recovering` while the close is
  excused. A frame that was queued on the old link makes it Live. It does leave the link in
  the end (`ClosedLinkIsLeft`), by falling silent again.
- `serve.rs:60-68` says the entry is gone when `serve` returns. A `New` under way while the
  door closes may register after the guard has been taken. The entry is pruned as stale
  later (`DeadEntryGoes`).
- A comment in `take_answer` says that a lobby always shows the selector. A kill of this
  session that is answered while typing is held shows it, the question about that typing
  takes it down, and nothing puts it back.
- `take_frames` says that an `Err` is not heard, while `Wake::Frame` has already called
  `note_heard`.
- `lib.rs` of oxutrm-sync says that the receiver caps its ring at the same number where the
  code uses `STATE_RING + 1` (the proofs need the one more).
- `FrameSource::new` says that frames are dropped when the consumer stalls; its
  `tx.send(f).await` waits.
- `input.rs` says that typing stays in `pending` until the host says it consumed it; the
  session never calls `consume`.
- `RegistryGuard::drop` says that `--list` prunes whatever a crash leaves behind. A crash
  between `create_dir` and the rename of `meta.json` leaves a directory that `list_in`
  passes by for ever.

## What is proved

Theorem | States | For every
---|---|---
`SyncChannelProofs!TypeCorrect` | `[]TypeOK` | pair of ends, set of cells and values, ring depth and bound
`ReplicaAgreement` | `[]ReplicaAgrees` |
`NoRejection` | `[]NoFrameRejected` |
`AckedHeld` | `[]AckedStateIsHeld` |
`Forwards` | `NeverBackwards` |
`ImplementsReplicaSafely` | `Abstract!Spec`, the safety part of the refinement |
`FrameTransportProofs!OneWriterAtWork` | `[]NeverQueue` | number of states, streams and credits, and queue size
`TransportTyped` | `[]TypeOK` |
`LastScreenIsShown` | `[]LastScreenShown` |
`RecoveryProofs!RecoveryTyped` | `[]TypeOK` | number of attempts and searches, set of other clients
`AbandonedStaysAway` | `[]AbandonedNeverAttaches` |
`RefusedInTheOutage` | `[]RefusalOnlyInTheOutage` |
`RebuildSurvivesItself` | `[]RebuildingSurvivesItself` |
`EndsOnNoSpareLink` | `[]NeverEndsOnASpareLink` |
`StandbyForThisPrimary` | `[]StandbyIsForThisPrimary` |
`AnswerIsThisStandbys` | `[]AnsweredByThisStandby` |
`NoLinkIsLost` | `[]EveryLinkIsHeldOrClosed` |
`ClientSessionProofs!SessionTyped` | `[]TypeOK` | set of users and sessions, threshold, limit and bound
`ShellIsInOrder` | `[]TypedOnceInOrder` |
`HeldStaysInQuestion` | `[]HeldIsAskedAbout` |
`LoadingIsNeverStranded` | `[]LoadingIsServed` |
`BlindTypingIsAnsweredFor` | `OnlyAnAnswerReleases` |
`RiskIsConfirmed` | `RiskyRequestsWereConfirmed` |
`SessionDoorProofs!DoorTyped` | `[]TypeOK` | finite set of requests, set of names
`NoShellUnregistered` | `[]ShellIsRegistered` |
`NoLobbyRegistered` | `[]LobbyIsUnregistered` |
`OneOwner` | `[]EntryHasOneOwner` |
`OnlyOvertakingShares` | `OnlyOvertakingSharesName` |
`RegistryProofs!RunningSessionsStayListed` | `LiveEntryStays` | set of sessions, machines, pids and listers, slack, and number of seconds and boots

Assumptions. `SyncChannel`: the two ends are each other's peers; values are naturals with
0; the content a receiver invents has its counters at 0 (a blank screen); the ring is at
least one deep. `FrameTransport`: its bounds are positive. `Recovery`: the numbers of
attempts and searches are naturals; and, in its actions, `TimePasses` as above.
`ClientSession`: every threshold is at least 1 and is counted to; a read of the keyboard is
one key or two; the client begins in a session there is. `SessionDoor`: finitely many
requests, and a name is not the absence of one. `Registry`: its slack and bounds are
naturals and nobody is no id; nothing is assumed of clocks. In its actions, a session's id
is never given twice. The bounds on states, frames, seconds and boots are any naturals, so
they do not limit the results.

**SyncChannel.** None of the invariants is inductive. `IInv` adds: a sender's ring is the
unbroken tail of what was minted (`SenderInv`); a receiver's ring is sorted and is its own
invention or entirely the peer's (`ReceiverInv`); no acknowledgement runs ahead of the
receiver that made it (`AckInv`); the peer holds every state the sender could yet name
(`HeldInv`); and every frame in flight patches the state it names into the state it
carries, which the peer holds for as long as the frame is not stale (`FrameInv`). The hard
part is that pruning below one frame's base does not remove the base of another: it rests
on the last clause of `FrameInv`, that a newer frame names a base at least as new, and on
the receiver's ring being one deeper than the sender's, since a state that is pushed may
push out the oldest. The lemmas on rings (`CapKeepsNewest`, `PopBelowDropsOlder`,
`PushedRing`) say this once, and the lemmas on diffs (`DiffRoundTrips`,
`FullDiffReplaces`) say that a patch leads from its base to its target.

**FrameTransport.** `NeverQueue` is inductive once the streams are typed: an entry that is
replaced or dropped cancels the one writer it names (`CancelStops`), one that is reaped
names a writer that has stopped (`ReapedStops`), and no step of a writer, of the network or
of the peer starts one. `LastScreenShown` needs to know where the last frame is at each
place of `send_final` (`LastFrame`): not begun, being written, whole on its stream, in the
client's queue or shown. No frame anywhere is newer than the sender's state (`Frames`), so
nothing shown later takes its place; the close comes as `send_final` reports and the client
leaves after it (`Closing`), so no drain ends before a frame that was acknowledged is read.

**Recovery.** The invariants concern what the client does on news that may be late, so
each needs to know which news can still come. `Inv` is about order. A link goes through
the host in stages (`Pipe`); attempts and standbys each go through in the order of their
numbers (`Order`, `Standbys`), so the host takes up no older link of a client after a newer
one. Only the last attempt has a task, and only it reports (`Tasks`); a result of an earlier
search or probe can be told from one of the present (`Events`). The hard part is where the
two mechanisms meet: the host takes up a standby when the client sends on it, and closes
the link it was on as a spare one. `Answering`, `Deciding` and `Landing` say that, while a
standby that the client has failed over onto, or is about to, waits to be taken up, the host
is on no attempt that may still land, so the client never comes to stand on a link closed
that way. `RebuildingSurvivesItself` rests on the latch: a client that is rebuilding with
the latch clear is on its last attempt, and no newer one of its own can have displaced it.
Since every wake of the client ends in a lap, a lap is treated once (`LapInv`), for any
record an event may hand to it.

**ClientSession.** `Inv` has two halves. `ClientOK` is about what the client shows: a
non-empty hold is not forgotten, a question is about something, at most one request is out,
and a selector that loads is served. `Ordered` says where every key that was typed may be:
those in the shell were typed before those on the way that the host has not taken, and both
before those held; `written` counts the keys taken, as long as both ends are on one link.
It has one clause for each way the ends may disagree about the link (`h.on`): a host that
has adopted an attempt's link has taken nothing of what will come over it, until the client
has swapped it in or has left; one that is behind holds only older keys; and an attempt
that counts as adopted is one the host is on. The two action properties are proved of the
same steps: a wake without a key is quiet (it moves no key, except off a link that is
replaced, and asks for nothing but a list), and a read of the keyboard is followed key by
key and mode by mode (`KeysRead`, `KeyPicks`) to the one place where a question is
answered.

**SessionDoor.** The argument is about who holds the registration (`Holders`): a start from
its `Register` until the loop has given it a shell or its entry is gone again, a kill
from the moment the shell is dead until its entry is gone, and otherwise the shell itself.
At most one request does at a time, and none while there is a shell, so no request takes the
guard from under a running one. `Guards` ties the owners to the directory, `Commands` says
that a command in the channel has its asker waiting (a preview excepted), and `Named` that
the door's record has the name of the entry, or none, unless a start that has not yet been
refused has put its own there. A step that gives the entry a name is then followed to the
check it made, or to that start.

**Registry.** `LiveEntryStays` says nothing of a lister that has judged already. The
invariant adds what each judgement rests on: the pid of a running session is its own
process's, on its machine (`Owned`); its record was dated after that process started, in
this boot and by the wall clock as it was set then (`Dated`); what is in a directory, and
what a lister has read, is that record (`Written`, `Looking`); and what was judged stale
belongs to a session that has ended, which stays true, or was judged by a lister that was
misled. The frame lemmas (`ClockStep`, `EndStep`, `EntryStep`, `ListerStep`) say what a step
of each kind leaves alone, and there is one lemma for each action.

Only model-checked: everything temporal beyond safety (`Converges`, the liveness of the
refinement, `ClosedLinkIsLeft`, `EveryRequestAnswered`, `SiblingKillEnds`,
`SupersededWriterLeaves`, `FinishReturns`, `NewestIsShown`, `SilenceIsNoticed`,
`OutagePopupGoes`, `LoadingEnds`, `DeadEntryGoes`). These are liveness under fairness, which
is out of the prover's reach. Every invariant and action property that a passing run
checks is also a theorem.

## Not modelled

- **Composition of `Recovery` and `ClientSession`.** They are two views of one loop. Their
  product is out of TLC's reach; `ClientSession` takes from `Recovery` that a new link
  comes by `Rebuilt` or `FailOver`, `Recovery` from `ClientSession` only that phases change.
  Which attempts report, and that a failover waits for one that has committed, is in
  `Recovery` only; in `ClientSession` a failover may come at any time in an outage, and of
  several attempts the last that was sent is followed. That the client may be in another session
  when an attempt lands is in `ClientSession` only, and so is `Rebuild::retarget`.
- **A request that the host has read before it adopts another link and serves after.** In
  `ClientSession` a request is served on the client's link or lost with it.
- **Retuning.** `apply` may change the thresholds of the link state, the popup's linger and
  what the next attempt or search is given; here these are constants.
- **The error of `stopped`** in `send_final` when the connection is lost while it waits, which
  `link.rs` takes for an acknowledgement. The client cannot see the close then either, so no
  screen is drained.
- **Switching between two session processes as one system.** `SessionDoor` has the relaying
  side with the target's answer as a choice, `Recovery` the target's attach loop, and
  `ClientSession` the client that lands.
- **Previews on the client, route following, the splash.** They change nothing that the
  modelled state depends on.
- **The connection ladder, NAT traversal, QUIC and TLS set-up, ssh and daemon plumbing.**
  Calls of libraries and of the operating system, whose outcome is the network's. An
  exchange connects or does not.
- **Terminal emulation, rendering, encodings, key material, the command line, reading and
  writing the configuration.** Sequential conversions without a state that is shared;
  unit tests reach them.
- **The registry's root and file permissions**: decided once, before anything runs.

The repository is mostly such code and tests; the definitions here map a small share of
its lines, those with the concurrency. Raising that share would mean transcribing parsers,
layout and packet formats, whose properties would restate them.
