------------------------------- MODULE Popup -------------------------------
(***************************************************************************)
(* src/ui.rs: the popup's modes, what a lap does to them, and where one    *)
(* read's keys go. Operators only: ClientSession owns the state.           *)
(*                                                                         *)
(* A key is a record: k says which key it is and id which one of the       *)
(* typing. `key` is the popup key and `x` any key that means nothing to    *)
(* the popup. Text fields, cursors and notes of the config screen are left *)
(* out; what is being edited is kept, because it decides whose a key is.   *)
(***************************************************************************)
EXTENDS LinkState, Selector

CONSTANTS
    DOUBLE_PRESS,       \* two presses within it send the popup key itself
    LINGER              \* how long the popup outlives the outage

ASSUME PopupTimings ==
    {ANSWER_GUARD, DOUBLE_PRESS, LINGER} \subseteq 1..AgeCap

Mode == {"Closed", "Open", "Auto", "Lingering", "Config", "Sessions"}
Editing == {"None", "Text", "Capture", "Servers", "ServersField", "Save"}

takes_every_byte(editing) == editing \in {"Text", "Capture", "ServersField"}

\* at: when an open popup was opened by its key, or a lingering one began to.
\* auto_open: how long an outage lasts before it opens by itself, or None.
new_ui(auto_open) ==
    [auto_open |-> auto_open, mode |-> "Closed", at |-> None,
     editing |-> "None", key |-> "key", dismissed |-> FALSE,
     outage_since |-> None, asked_at |-> None, config_decided |-> FALSE,
     sel |-> opened]

UiAges(u) == [u EXCEPT !.at = Older(@), !.outage_since = Older(@),
                       !.asked_at = Older(@),
                       !.sel.question.asked =
                           IF u.sel.question = NoQuestion THEN 0 ELSE Older(@)]

\* Every way into the selector begins it afresh, so nothing of it is kept
\* while it is not shown.
To(u, mode, at) ==
    [u EXCEPT !.mode = mode, !.at = at, !.editing = "None", !.sel = opened]

leave_config(u) == IF u.mode = "Config" THEN To(u, "Open", None) ELSE u
leave_sessions(u) == IF u.mode = "Sessions" THEN To(u, "Open", None) ELSE u
open_sessions(u) == To(u, "Sessions", None)
close_popup(u) == To(u, "Closed", None)

\* What the session tells the selector.
selector_mut(u, sel) == IF u.mode = "Sessions" THEN [u EXCEPT !.sel = sel] ELSE u

\* A key that does nothing still keeps an outage's popup until it is closed.
touch(u) == IF u.mode \in {"Auto", "Lingering"} THEN To(u, "Open", None) ELSE u

visible(u, phase) == u.mode # "Closed" \/ phase = "Confirming"

\* Closing by hand during an outage lasts for that outage.
ClosedByHand(u, phase) ==
    [close_popup(u) EXCEPT !.dismissed = @ \/ is_outage(phase)]

auto_due(u) ==
    None \notin {u.auto_open, u.outage_since} /\ u.outage_since >= u.auto_open

note_question(u, phase) ==
    [u EXCEPT !.asked_at = IF phase # "Confirming" THEN None ELSE Max({@, 0})]

\* Mutant: a question can be answered the moment it is asked.
AnswerableAtOnce(u) == u.asked_at # None

answerable(u) == u.asked_at >= ANSWER_GUARD

\* The question takes over the config screen and the selector, so that its
\* keys are never another's.
Questioned(u, phase) ==
    LET v == note_question(u, phase) IN
    IF phase = "Confirming" THEN leave_sessions(leave_config(v)) ELSE v

\* One lap with the link in an outage that began `since` ago.
OutageTick(u, since) ==
    LET begun == IF u.outage_since # None THEN u
                 ELSE [u EXCEPT !.outage_since = since, !.dismissed = FALSE,
                                !.config_decided = FALSE]
        due == auto_due(begun)
    IN CASE begun.mode = "Closed" /\ ~begun.dismissed /\ due ->
              To(begun, "Auto", None)
         [] begun.mode = "Lingering" /\ due -> To(begun, "Auto", None)
         [] begun.mode = "Config" /\ due /\ ~begun.config_decided ->
              LET decided == [begun EXCEPT !.config_decided = TRUE] IN
              IF takes_every_byte(begun.editing) THEN decided
              ELSE leave_config(decided)
         [] OTHER -> begun

\* Mutant: a popup that lingers is left to the user.
AnsweredTickLingers(u, phase) ==
    LET over == [u EXCEPT !.outage_since = None]
    IN IF u.mode = "Auto" /\ phase = "Live" THEN To(over, "Lingering", 0) ELSE over

\* One lap with the link answering.
AnsweredTick(u, phase) ==
    LET over == [u EXCEPT !.outage_since = None]
    IN CASE u.mode = "Auto" /\ phase = "Live" -> To(over, "Lingering", 0)
         [] u.mode = "Lingering" /\ u.at >= LINGER -> close_popup(over)
         [] OTHER -> over

tick(u, l) ==
    LET v == Questioned(u, l.phase) IN
    IF is_outage(l.phase)
    THEN OutageTick(v, IF l.phase = "Silent" THEN l.last_heard ELSE 0)
    ELSE AnsweredTick(v, l.phase)

-----------------------------------------------------------------------------
(* One read's keys. What has come of the read so far is a record: the ui,   *)
(* the keys for the host and to hold, the command, and whether it is over.  *)

\* A read is of one or two keys.
Keys(op(_, _), r, read) ==
    IF Len(read) = 1 THEN op(r, read[1]) ELSE op(op(r, read[1]), read[2])

Reading(u) == [ui |-> u, to_host |-> <<>>, to_hold |-> <<>>,
               command |-> Nothing, over |-> FALSE]

Does(r, command) == [r EXCEPT !.command = command, !.over = TRUE]
Becomes(r, u) == [r EXCEPT !.ui = u]
CommandOf(is, what) == [is |-> is, what |-> what, id |-> 0]

\* An Esc that is not a read of its own begins an escape sequence, which
\* takes the rest of the read.
Sequence(b, lone) == b.k = "esc" /\ ~lone

deliver(r, b, phase) ==
    IF is_outage(phase) THEN [r EXCEPT !.to_hold = Append(@, b)]
    ELSE [r EXCEPT !.to_host = Append(@, b)]

\* Esc or the popup key. The second of a double press is also delivered.
close(r, b, phase) ==
    LET u == r.ui
        literal == /\ b.k = u.key /\ u.mode = "Open"
                   /\ u.at # None /\ u.at < DOUBLE_PRESS
    IN Becomes(IF literal THEN deliver(r, b, phase) ELSE r,
               ClosedByHand(u, phase))

\* A key while the popup is shown: every key is its own.
shown_key(r, b, phase) ==
    LET u == r.ui
        confirming == phase = "Confirming"
    IN CASE confirming ->
              CASE answerable(u) /\ b.k = "q" -> Does(r, CommandOf("Quit", "-"))
                [] answerable(u) /\ b.k = "s" -> Does(r, CommandOf("SendHeld", "-"))
                [] answerable(u) /\ b.k = "d" -> Does(r, CommandOf("DropHeld", "-"))
                [] OTHER -> Becomes(r, touch(u))
         [] ~confirming ->
              CASE b.k = "q" -> Does(r, CommandOf("Quit", "-"))
                [] b.k = "s" /\ phase = "Live" ->
                     Does(Becomes(r, open_sessions(u)), Asked("Sessions", 0))
                [] b.k = "c" ->
                     [r EXCEPT !.over = TRUE,
                               !.ui = [To(u, "Config", None) EXCEPT
                                         !.config_decided = auto_due(u)]]
                [] b.k \in {"esc", u.key} -> close(r, b, phase)
                [] OTHER -> Becomes(r, touch(u))

\* A key on the status view, or with no popup up.
StatusKey(r, b, phase, lone) ==
    CASE r.over -> r
      [] ~r.over /\ ~visible(r.ui, phase) ->
           IF b.k = r.ui.key THEN Becomes(r, To(r.ui, "Open", 0))
           ELSE deliver(r, b, phase)
      [] ~r.over /\ visible(r.ui, phase) ->
           IF Sequence(b, lone)
           THEN [Becomes(r, touch(r.ui)) EXCEPT !.over = TRUE]
           ELSE shown_key(r, b, phase)

\* One key on the config screen. `bs` stands for whatever erases: Backspace in
\* a key capture, `-` on the list of servers.
config_key(r, b, phase) ==
    LET u == r.ui
        at(editing) == Becomes(r, [u EXCEPT !.editing = editing])
        asks(what) == Does(r, CommandOf("Config", what))
    IN CASE u.editing \in {"Text", "ServersField"} ->
              CASE b.k = "esc" -> at(IF u.editing = "Text" THEN "None"
                                     ELSE "Servers")
                [] b.k = "enter" -> asks(IF u.editing = "Text" THEN "Accept"
                                         ELSE "Servers")
                [] OTHER -> r
         [] u.editing = "Capture" ->
              CASE b.k = "esc" -> at("None")
                [] b.k = "bs" -> asks("CaptureOff")
                [] OTHER -> asks("Capture")
         [] u.editing = "Servers" ->
              CASE b.k = "esc" -> at("None")
                [] b.k = "enter" -> at("ServersField")
                [] b.k = "bs" -> asks("Servers")
                [] b.k = "q" -> Does(r, CommandOf("Quit", "-"))
                [] OTHER -> r
         [] u.editing = "Save" ->
              CASE b.k = "esc" -> at("None")
                [] b.k = "enter" -> asks("Save")
                [] OTHER -> r
         [] u.editing = "None" ->
              CASE b.k = "enter" -> asks("Edit")
                [] b.k = "x" -> asks("Reset")
                [] b.k = "w" -> at("Save")
                [] b.k = "q" -> Does(r, CommandOf("Quit", "-"))
                [] b.k = "esc" -> Becomes(r, leave_config(u))
                [] b.k = u.key -> [r EXCEPT !.ui = ClosedByHand(u, phase),
                                            !.over = TRUE]
                [] OTHER -> r

ConfigKey(r, b, phase, lone) ==
    IF r.over \/ r.ui.mode # "Config" \/ Sequence(b, lone)
    THEN [r EXCEPT !.over = TRUE]
    ELSE config_key(r, b, phase)

\* The selector's answer to one key.
Selected(r, got) ==
    LET u == [r.ui EXCEPT !.sel = got.sel] IN
    CASE got.out = Nothing -> Becomes(r, u)
      [] got.out.is = "Back" ->
           [r EXCEPT !.ui = To(u, "Open", None), !.over = TRUE]
      [] got.out.is = "Close" ->
           [r EXCEPT !.ui = close_popup(u), !.over = TRUE]
      [] got.out.is \in {"Ask", "Quit"} -> Does(Becomes(r, u), got.out)

SessionsKey(r, b, ctx, lone) ==
    IF r.over \/ Sequence(b, lone) THEN [r EXCEPT !.over = TRUE]
    ELSE Selected(r, key(r.ui.sel, b.k, ctx))

\* The popup key as the first of a read closes the selector, outside a lobby.
sessions_keys(u, read, phase, ctx) ==
    IF Head(read).k = u.key /\ u.sel.rename = 0
    THEN Reading(IF ctx.lobby THEN u ELSE ClosedByHand(u, phase))
    ELSE LET step(r, b) == SessionsKey(r, b, ctx, Len(read) = 1)
         IN Keys(step, Reading(u), read)

keys(u, read, phase, ctx) ==
    LET v == Questioned(u, phase)
        lone == Len(read) = 1
        config(r, b) == ConfigKey(r, b, phase, lone)
        status(r, b) == StatusKey(r, b, phase, lone)
    IN CASE v.mode = "Sessions" -> sessions_keys(v, read, phase, ctx)
         [] v.mode = "Config" -> Keys(config, Reading(v), read)
         [] OTHER -> Keys(status, Reading(v), read)

-----------------------------------------------------------------------------
(* What the session tells the config screen. *)

open_editing(u, editing) ==
    IF u.mode = "Config" THEN [u EXCEPT !.editing = editing] ELSE u

\* The session took the change.
accepted(u) ==
    open_editing(u, IF u.editing \in {"Servers", "ServersField"}
                    THEN "Servers" ELSE "None")

=============================================================================
