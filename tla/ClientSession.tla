--------------------------- MODULE ClientSession ---------------------------
(***************************************************************************)
(* One client in its session (src/session.rs) with its popup, selector and *)
(* link state, and the other end of its typing: the host that writes it to *)
(* the shell (src/host_session.rs).                                        *)
(*                                                                         *)
(* Every action of the client is one wake of run_on: the handler of what   *)
(* woke it, then the lap that follows every wake. The input channel is     *)
(* what SyncChannel shows it to be: the host comes to hold some input      *)
(* state the client published on the same link, never an older one than    *)
(* before. A link that is down is one on which nothing arrives: whatever   *)
(* crosses it may fail to happen for as long as it likes.                  *)
(***************************************************************************)
EXTENDS Popup

CONSTANTS
    Users,              \* who may be at the keyboard: see `user`
    Kinds               \* what the list says of the other sessions

\* The session the client begins in is 1. A read of the keyboard holds a key or
\* two that came together.
ASSUME SessionConstants ==
    /\ Kinds \subseteq RowKind \ {"this"}
    /\ 1 \in Sessions /\ Sessions \subseteq Nat \ {NewSession}
    /\ \A u \in Users : /\ u.keys \in Nat /\ u.auto_open \in MaybeAge
                       /\ \A read \in u.reads : /\ read \in Seq([k : STRING])
                                               /\ Len(read) \in {1, 2}

VARIABLES
    c,          \* the client
    h,          \* the host process the client's link goes to, and how far the
                \* last rebuild attempt is that may replace the link
    typed,      \* how many keys have been sent or held
    ended,      \* the client has quit
    user        \* what the one at the keyboard may do and has configured:
                \*   reads: what one read of the keyboard can hold
                \*   asks: the requests made of the selector
                \*   keys: bound on the keys that are sent or held
                \*   standby: network.standby; auto_open: popup.auto_open

vars == <<c, h, typed, ended, user>>

\* A key on its way: the how-manieth of the typing, and whether nobody was
\* answering when it was typed.
Key == [id : 1..user.keys, blind : BOOLEAN]

\* on: the host is on the client's link; or ahead of it, having adopted an
\* attempt's; or behind, the client having failed over; or both.
\* attempt: an Attach to this session is sent, or adopted; or one to a session
\* the client has left was; or one for a new lobby is sent.
Fresh(lobby) ==
    [len |-> 0, written |-> 0, shell |-> <<>>, lobby |-> lobby,
     on |-> "same", attempt |-> "no", reply |-> Nothing]

Init ==
    /\ user \in Users
    /\ \E lobby \in BOOLEAN :
         LET u == new_ui(user.auto_open) IN
         /\ c = [l |-> new_link, ui |-> IF lobby THEN open_sessions(u) ELSE u,
                 pending |-> <<>>, unacked |-> TRUE, there |-> FALSE,
                 asking |-> IF lobby THEN Asked("Sessions", 0) ELSE Nothing,
                 asked |-> Nothing, list_owed |-> FALSE,
                 in_lobby |-> lobby, here |-> 1]
         /\ h = Fresh(lobby)
    /\ typed = 0 /\ ended = FALSE

-----------------------------------------------------------------------------
(* What the handlers do to the client. *)

\* input_tx.update: a new input state, which the host does not have yet.
Publish(d, bytes) ==
    [d EXCEPT !.pending = @ \o bytes, !.unacked = TRUE, !.there = FALSE]

\* ask, unless a request is waiting or in flight.
asking(d) == d.asking # Nothing \/ d.asked # Nothing

\* Mutant: a list refused because a request is out is forgotten.
FetchListOnce(d) ==
    IF asking(d) THEN d ELSE [d EXCEPT !.asking = Asked("Sessions", 0)]

fetch_list(d) ==
    IF asking(d) THEN [d EXCEPT !.list_owed = TRUE]
    ELSE [d EXCEPT !.asking = Asked("Sessions", 0)]

\* Mutant: what the old link had not acknowledged goes over the new one.
SwapKeepingInput(d) == [d EXCEPT !.unacked = TRUE, !.there = FALSE]

\* swap_in_as: a new link, on which both channels begin again.
swap_in_as(d) == [d EXCEPT !.pending = <<>>, !.unacked = TRUE, !.there = FALSE]

\* layer_at, and the requests and the heartbeat of the same lap.
LayerAt(d) ==
    LET l == evaluate(d.l, d.unacked)
        u == tick(d.ui, l)
        back == d.ui.outage_since # None /\ u.outage_since = None
        e == [d EXCEPT !.l = l, !.ui = u]
    IN IF back /\ u.mode = "Sessions" /\ u.sel.list_failed
       THEN fetch_list(e) ELSE e

take_ask(d) ==
    IF d.asking = Nothing THEN d
    ELSE [d EXCEPT !.asked = d.asking, !.asking = Nothing]

heartbeat(d) ==
    IF heartbeat_due(d.l) THEN [Publish(d, <<>>) EXCEPT !.l = sent(d.l)] ELSE d

\* The lap that follows a wake, whose handler left the client in one of the
\* states `left`.
Lap(left) ==
    \E d \in left : \E e \in {LayerAt(d)} : c' = heartbeat(take_ask(e))

\* The keys of a read, numbered as they are sent or held.
Stamp(bytes, blind) ==
    [i \in 1..Len(bytes) |-> [id |-> typed + i, blind |-> blind]]

\* config_command: the answers it may give, with what `apply` may change: the
\* popup's key, and whether it opens by itself. The timings stay as they are,
\* and with the standby switched off there is no fail_over.
config_command(d, what) ==
    LET u == d.ui
        set == {[u EXCEPT !.auto_open = auto_open] :
                  auto_open \in {u.auto_open, user.auto_open, None}}
    IN
    CASE what = "Edit" -> {[d EXCEPT !.ui = open_editing(u, e)] :
                             e \in {"Text", "Capture", "Servers", "None"}}
      [] what = "CaptureOff" -> {[d EXCEPT !.ui = [accepted(u) EXCEPT !.key = "off"]]}
      [] what = "Capture" -> {d, [d EXCEPT !.ui = [accepted(u) EXCEPT !.key = "key"]]}
      [] what = "Reset" -> {d} \cup {[d EXCEPT !.ui = v] : v \in
                             set \cup {[u EXCEPT !.key = "key"]}}
      [] what = "Save" -> {[d EXCEPT !.ui = accepted(u)]}
      [] OTHER -> {d} \cup {[d EXCEPT !.ui = accepted(v)] : v \in set}

\* What route_keys_at does with the command of a read: the states it may
\* leave.
Commanded(d, command) ==
    CASE command.is = "SendHeld" ->
           {[Publish(d, d.l.held) EXCEPT !.l = take_held(d.l)]}
      [] command.is = "DropHeld" -> {[d EXCEPT !.l = drop_held(d.l)]}
      [] command.is = "Config" -> config_command(d, command.what)
      [] command.is = "Ask" /\ command.what = "Sessions" -> {fetch_list(d)}
      [] command.is = "Ask" /\ command.what # "Sessions" ->
           {IF asking(d) THEN [d EXCEPT !.ui = selector_mut(@, fail(@.sel))]
            ELSE [d EXCEPT !.asking = command]}
      [] OTHER -> {d}

-----------------------------------------------------------------------------
(* The wakes of run_on. *)

\* The first key of a read that is a request is one the user makes here.
Wanted(command) == command.is = "Ask" => command.what \in user.asks

\* Wake::Keys
route_keys(read) ==
    LET ctx == [live |-> c.l.phase = "Live", lobby |-> c.in_lobby,
                busy |-> asking(c)]
    IN /\ ~ended
       /\ \E r \in {keys(c.ui, read, c.l.phase, ctx)} :
            LET n == Len(r.to_host) + Len(r.to_hold)
                d == [c EXCEPT !.ui = r.ui,
                               !.l = hold_keys(@, Stamp(r.to_hold, TRUE))]
                e == IF r.to_host = <<>> THEN d
                     ELSE Publish(d, Stamp(r.to_host, FALSE))
            IN /\ typed + n <= user.keys /\ Wanted(r.command)
               /\ typed' = typed + n
               /\ IF r.command.is = "Quit" THEN c' = e /\ ended' = TRUE
                  ELSE /\ Lap(Commanded(e, r.command))
                       /\ UNCHANGED ended
       /\ UNCHANGED h

\* Wake::Frame. Its acknowledgement may be of an older input state, and the
\* host may have adopted another link since it sent it.
TakeFrame ==
    /\ ~ended /\ h.on \in {"same", "ahead"}
    /\ Lap({[c EXCEPT !.l = heard(@), !.unacked = @ /\ ~acks] :
              acks \in {FALSE, c.there}})
    /\ UNCHANGED <<h, typed, ended>>

\* Wake::Winch: the new size travels as an input state.
Resize ==
    /\ ~ended /\ Lap({Publish(c, <<>>)})
    /\ UNCHANGED <<h, typed, ended>>

\* Wake::Due
PacingTick ==
    /\ ~ended /\ Lap({c})
    /\ UNCHANGED <<h, typed, ended>>

\* A request whose link is replaced before the host saw it is never served.
Orphaned(reply) ==
    IF reply = Nothing /\ c.asked # Nothing
    THEN [Nothing EXCEPT !.is = "Lost"] ELSE reply

\* An attempt sends its Attach, to the session or for a lobby of its own.
Attach ==
    /\ ~ended /\ c.l.phase = "Recovering"
    /\ h' = [h EXCEPT !.attempt = IF c.in_lobby THEN "lobby" ELSE "here"]
    /\ UNCHANGED <<c, typed, ended>>

\* rebuild_landed, in a lobby: the selector, still open, lists what is there now.
Relist(d) == IF d.in_lobby /\ d.ui.mode = "Sessions" THEN fetch_list(d) ELSE d

\* Wake::Rebuilt with a link, which rebuild_landed swaps in whichever attempt it
\* is of: the client may be back on its old link, or elsewhere, by now.
Rebuilt ==
    /\ ~ended /\ h.attempt \in {"adopted", "left", "lobby"}
    /\ Lap({Relist(swap_in_as(c))})
    /\ h' = IF h.attempt = "adopted"
            THEN [h EXCEPT !.on = "same", !.attempt = "no", !.reply = Orphaned(@)]
            ELSE [Fresh(h.attempt = "lobby") EXCEPT !.reply = Orphaned(h.reply)]
    /\ UNCHANGED <<typed, ended>>

\* fail_over: the client moves first, the host with the frame it then sends, if
\* it has not dropped the standby for an attempt's link.
FailOver ==
    /\ ~ended /\ user.standby /\ is_outage(c.l.phase) /\ ~c.in_lobby
    /\ Lap({swap_in_as(c)})
    /\ h' = [h EXCEPT !.on = IF @ \in {"same", "behind"} THEN "behind" ELSE "apart",
                      !.reply = Orphaned(@)]
    /\ UNCHANGED <<typed, ended>>

\* What the list says, as the door makes it: this session, if it has a shell,
\* and whatever others there are.
Listings ==
    LET this == IF h.lobby THEN {} ELSE {c.here} IN
    UNION {{[s \in S \cup this |-> IF s = c.here THEN "this" ELSE kind[s]] :
              kind \in [S -> Kinds]} : S \in SUBSET (Sessions \ {c.here})}

\* Wake::Answered, with what came back or with a failure.
take_answer(d, reply, rows) ==
    LET e == [d EXCEPT !.asked = Nothing]
        sel == e.ui.sel
    IN CASE reply.is = "Sessions" ->
              [e EXCEPT !.ui = selector_mut(@, set_rows(sel, rows))]
         [] reply.is = "Landed" ->
              [swap_in_as(e) EXCEPT !.in_lobby = FALSE, !.here = reply.id,
                                    !.ui = close_popup(e.ui)]
         [] reply.is = "Started" ->
              [e EXCEPT !.in_lobby = FALSE, !.here = reply.id,
                        !.ui = close_popup(e.ui)]
         [] reply.is = "Killed" ->
              LET f == fetch_list(e) IN
              IF reply.id # d.here THEN f
              ELSE [f EXCEPT !.in_lobby = TRUE,
                             !.ui = IF @.mode = "Sessions" THEN @
                                    ELSE open_sessions(@)]
         [] reply.is = "Renamed" -> fetch_list(e)
         [] OTHER -> [e EXCEPT !.ui =
                        selector_mut(@, IF d.asked.what = "Sessions"
                                        THEN fail_list(sel) ELSE fail(sel))]

\* The list the selector asked for while this request was out has its turn.
answered(d, reply, rows) ==
    LET e == take_answer(d, reply, rows)
        owed == e.list_owed /\ e.ui.mode = "Sessions" /\ ~asking(e)
    IN [e EXCEPT !.list_owed = FALSE,
                 !.asking = IF owed THEN Asked("Sessions", 0) ELSE @]

\* Rebuild::retarget cancels the attempt; one that was adopted, or is for a
\* lobby, may have landed already.
Retargeted == CASE h.attempt = "here" -> "no"
                [] h.attempt = "adopted" -> "left"
                [] OTHER -> h.attempt

Answered(reply) ==
    /\ ~ended /\ c.asked # Nothing
    /\ Lap({answered(c, reply, rows) :
              rows \in IF reply.is = "Sessions" THEN Listings ELSE {<<>>}})
    /\ h' = IF reply.is = "Landed" THEN [Fresh(FALSE) EXCEPT !.attempt = Retargeted]
            ELSE [h EXCEPT !.reply = Nothing]
    /\ UNCHANGED <<typed, ended>>

AnswerArrives == h.reply.is \notin {"no", "Lost"} /\ Answered(h.reply)

\* ANSWER_WITHIN or SEARCH_DEADLINE passes, or the connection is gone.
AnswerFails == Answered([Nothing EXCEPT !.is = "Failed"])

-----------------------------------------------------------------------------
(* The host. *)

\* turn_at, drain_input: a published input state arrives, the newest or an
\* older one, and what is new in it goes to the shell; a lobby drops it.
drain_input ==
    /\ ~ended /\ h.on = "same" /\ ~c.there
    /\ \E n \in h.len..Len(c.pending), newest \in BOOLEAN :
         /\ newest => n = Len(c.pending)
         /\ newest \/ n > h.len
         /\ h' = [h EXCEPT !.len = n, !.written = n,
                           !.shell = IF h.lobby THEN @
                                     ELSE @ \o SubSeq(c.pending, h.written + 1, n)]
         /\ c' = [c EXCEPT !.there = newest]
    /\ UNCHANGED <<typed, ended>>

Adopted(on) == [h EXCEPT !.len = 0, !.written = 0, !.on = on]

\* on_attached: the Attach arrives, and the host adopts its link and drops the
\* standby; the client is told later, if at all.
HostAdopts ==
    /\ ~ended /\ h.attempt = "here" /\ ~h.lobby
    /\ h' = [Adopted(IF h.on \in {"same", "ahead"} THEN "ahead" ELSE "apart")
               EXCEPT !.attempt = "adopted"]
    /\ UNCHANGED <<c, typed, ended>>

\* promote_standby: adopt the standby, then take the frame that arrived on it,
\* which has the newest input state or an older one.
promote_standby ==
    /\ ~ended /\ h.on = "behind"
    /\ \E n \in 0..Len(c.pending), newest \in BOOLEAN :
         /\ newest => n = Len(c.pending)
         /\ h' = [Adopted("same") EXCEPT
                    !.len = n, !.written = n,
                    !.shell = IF h.lobby THEN @ ELSE @ \o SubSeq(c.pending, 1, n)]
         /\ c' = [c EXCEPT !.there = newest]
    /\ UNCHANGED <<typed, ended>>

Replies(is, id) == [is |-> is, what |-> "-", id |-> id]

\* The door serves the request: refused, or done.
Serve ==
    LET a == c.asked IN
    /\ ~ended /\ h.on = "same" /\ a # Nothing /\ h.reply = Nothing
    /\ \/ h' = [h EXCEPT !.reply = Replies("Refused", 0)]
       \/ /\ a.what = "Sessions"
          /\ h' = [h EXCEPT !.reply = Replies("Sessions", 0)]
       \/ /\ a.what = "Switch" /\ a.id # c.here
          /\ h' = [h EXCEPT !.reply = Replies("Landed", a.id)]
       \/ /\ a.what = "New" /\ ~h.lobby
          /\ \E s \in Sessions \ {c.here} :
               h' = [h EXCEPT !.reply = Replies("Landed", s)]
       \/ /\ a.what = "New" /\ h.lobby            \* start_shell
          /\ h' = [h EXCEPT !.reply = Replies("Started", c.here),
                            !.lobby = FALSE, !.shell = <<>>, !.written = h.len]
       \/ /\ a.what = "Kill" /\ a.id = c.here      \* become_lobby
          /\ h' = [h EXCEPT !.reply = Replies("Killed", a.id),
                            !.lobby = TRUE, !.shell = <<>>]
       \/ /\ a.what = "Kill" /\ a.id # c.here
          /\ h' = [h EXCEPT !.reply = Replies("Killed", a.id)]
       \/ /\ a.what = "Rename"
          /\ h' = [h EXCEPT !.reply = Replies("Renamed", a.id)]
    /\ UNCHANGED <<c, typed, ended>>

-----------------------------------------------------------------------------
(* The clock. *)

TimePasses ==
    /\ ~ended
    /\ c' = [c EXCEPT !.l = LinkAges(@), !.ui = UiAges(@)]
    /\ UNCHANGED <<h, typed, ended>>

Wakes ==
    \/ \E read \in user.reads : route_keys(read)
    \/ TakeFrame \/ Resize \/ PacingTick
    \/ Attach \/ Rebuilt \/ FailOver \/ AnswerArrives \/ AnswerFails

Host == drain_input \/ HostAdopts \/ promote_standby \/ Serve

Next == (Wakes \/ Host \/ TimePasses) /\ UNCHANGED user

Spec == Init /\ [][Next]_vars

\* The loop wakes by itself at every pacing interval, clocks run, and every
\* request ends by its deadline. Nothing is assumed of the link, of the host
\* or of the user.
LiveSpec ==
    /\ Spec
    /\ WF_vars(PacingTick /\ UNCHANGED user)
    /\ WF_vars(TimePasses /\ UNCHANGED user)
    /\ WF_vars((AnswerArrives \/ AnswerFails) /\ UNCHANGED user)

-----------------------------------------------------------------------------
(* Properties. *)

Typed == UNION {Range(s) : s \in {c.pending, c.l.held, h.shell}}

\* Everything is what the code's types say it is, and a host on the client's
\* link has applied no more input than the client published on it.
TypeOK ==
    /\ c.l.phase \in Phase /\ c.ui.mode \in Mode /\ c.ui.editing \in Editing
    /\ {c.l.last_heard, c.l.last_sent} \subseteq Age
    /\ {c.l.owed_since, c.ui.at, c.ui.outage_since, c.ui.asked_at} \subseteq MaybeAge
    /\ Len(c.l.held) <= MAX_HELD
    /\ Typed \subseteq Key /\ typed \in 0..user.keys
    /\ c.here \in Sessions /\ c.ui.sel.cursor \in Listed(c.ui.sel) \cup {NewSession}
    /\ {c.asking.is, c.asked.is} \subseteq {"no", "Ask"}
    /\ h.on \in {"same", "ahead", "behind", "apart"}
    /\ h.on = "same" => h.len <= Len(c.pending)

\* The shell gets every key at most once and in the order of typing, through
\* swaps, failovers, a question answered late and a lobby becoming a session
\* (drain_input's `written`, and its reset when a link is adopted).
TypedOnceInOrder ==
    \A i, j \in DOMAIN h.shell : i < j => h.shell[i].id < h.shell[j].id

\* Typing held through an outage is never forgotten by the way the outage
\* ended: while anything is held the link is not Live, and a question is
\* about something (LinkState::heard, take_held, drop_held).
HeldIsAskedAbout ==
    /\ c.l.held # <<>> => c.l.phase # "Live"
    /\ c.l.phase = "Confirming" => c.l.held # <<>>

\* Nothing of `held` is missing from `later`, or moved.
Keeps(held, later) ==
    \A i \in DOMAIN held : i \in DOMAIN later /\ later[i] = held[i]

\* Typing done blind leaves the hold, and reaches the host, only by an answer
\* to a question that has been up for ANSWER_GUARD (Ui::keys, route_keys_at).
OnlyAnAnswerReleases ==
    [][(~Keeps(c.l.held, c'.l.held)
          \/ \E k \in Range(c'.pending) \ Range(c.pending) : k.blind)
       => /\ c.l.phase = "Confirming" /\ c.ui.asked_at >= ANSWER_GUARD
          /\ c'.l.held = <<>>]_vars

\* The selector's question is the only way to a kill, or to a session another
\* client is on: the request is what the question asked, for the session it
\* named, it was up for ANSWER_GUARD, and nothing else was under way
\* (Selector::answer, ask).
Risky(a, sel) ==
    \/ a.what = "Kill"
    \/ a.what = "Switch" /\ a.id \in Listed(sel) /\ sel.rows[a.id] # "free"

New(d, e) == {a \in {e.asking, e.asked} : a # Nothing} \ {d.asking, d.asked}

RiskyRequestsWereConfirmed ==
    [][\A a \in New(c, c') :
         Risky(a, c.ui.sel) => /\ ~asking(c) /\ c.ui.mode = "Sessions"
                               /\ c.ui.sel.question.id = a.id
                               /\ c.ui.sel.question.what = "Kill" <=> a.what = "Kill"
                               /\ c.ui.sel.question.asked >= ANSWER_GUARD]_vars

\* A selector that says it is loading is about to be told: the list is waiting
\* to be asked for, in flight, or owed once the request out is answered
\* (fetch_list, answered).
LoadingIsServed ==
    c.ui.mode = "Sessions" /\ c.ui.sel.loading =>
        \/ "Sessions" \in {c.asking.what, c.asked.what}
        \/ c.list_owed /\ asking(c)

\* Silence is always found out: once nothing has been heard for as long as is
\* counted, either something is or the client says there is an outage, however
\* idle the user is (heartbeat, evaluate).
SilenceIsNoticed ==
    (c.l.last_heard = AgeCap) ~>
        (ended \/ c.l.last_heard < AgeCap \/ is_outage(c.l.phase))

\* The popup an outage opened does not stay once the link is live for good,
\* unless the user makes it theirs (Ui::tick, LINGER).
OutagePopupGoes ==
    <>[](c.l.phase = "Live") =>
        []<>(ended \/ c.ui.mode \notin {"Auto", "Lingering"})

\* The selector does not say `loading` for ever, whatever the link does and
\* whatever else was asked (fetch_list, answered, switcher::asked).
LoadingEnds ==
    (c.ui.mode = "Sessions" /\ c.ui.sel.loading) ~>
        (ended \/ c.ui.mode # "Sessions" \/ ~c.ui.sel.loading)

=============================================================================
